---------------------------- MODULE MCPoolBlocks ----------------------------
(* Small instances of PoolBlocks for TLC. *)
EXTENDS PoolBlocks, TLC

CONSTANTS f1, m1, m2

OneForeign == {f1}
OneMiner == {m1}
TwoMiners == {m1, m2}

FirstTwo == {1, 2}

=============================================================================
