----------------------------- MODULE MCPayments -----------------------------
(* Small instances of Payments for TLC.                                    *)
EXTENDS Payments, TLC

CONSTANTS u1, u2, p1, p2, w1, w2

OneUser == {u1}
TwoUsers == {u1, u2}
OneSlate == {p1}
TwoSlates == {p1, p2}
OneWorker == {w1}
TwoWorkers == {w1, w2}
OneFee == {1}
GrantThree == {3}

Symmetry == Permutations(Users) \cup Permutations(Slates) \cup Permutations(Workers)

=============================================================================
