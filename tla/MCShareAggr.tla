---------------------------- MODULE MCShareAggr -----------------------------
(* Small instances of ShareAggr for TLC. *)
EXTENDS ShareAggr

CONSTANTS m1, m2, m3, miner, pool, nobody

TwoMessages == {m1, m2}
ThreeMessages == {m1, m2, m3}
TwoUsers == {miner, pool}
OneSize == {31}

(* m1 and m3 are for one height; m2 and m3 are from a miner that has not   *)
(* logged in: they are counted for the pool, whose rows also fill the      *)
(* heights without shares.                                                 *)
SharesAt == [m \in Messages |-> IF m = m2 THEN 2 ELSE 1]
Senders == [m \in Messages |-> IF m = m1 THEN miner ELSE nobody]

=============================================================================
