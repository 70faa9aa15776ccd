-------------------------------- MODULE Feed --------------------------------
(***************************************************************************)
(* What the web UI promises of a history it shows, whatever the API and    *)
(* the network do to the requests: the actions fetchNetworkData,           *)
(* fetchMuglePoolData, fetchMuglePoolSharesSubmitted and fetchMinerData    *)
(* all keep one, a window of at most Window rows that grows at its upper    *)
(* end.  A request remembers the rows as they were when it was sent, and   *)
(* its answer is joined to those, not to the rows of the moment.           *)
(***************************************************************************)
EXTENDS Integers, Sequences

CONSTANTS Window,  \* the most rows it has: BLOCK_RANGE
          Dense    \* is there a row for every block?  Not in a miner's history

(* What the constants are to be; WebUI assumes it of what it puts in their *)
(* place, and the theorems about this module take it as a hypothesis.      *)
Constants == Window \in Nat \ {0} /\ Dense \in BOOLEAN

VARIABLES rows,    \* the heights of the rows that are shown
          asked,   \* the requests in flight, equal ones taken as one
          top      \* the height of the network

vars == <<rows, asked, top>>

Height == Nat \ {0}
Request == [prev : Seq(Height), latest : Height]

Init == rows = <<>> /\ asked = {} /\ top \in Nat

(* A block is mined.                                                       *)
Rise == top' = top + 1 /\ UNCHANGED <<rows, asked>>

(* The page asks for what it lacks up to the height it knows.              *)
Ask ==
    /\ \E latest \in 1..top : asked' = asked \cup {[prev |-> rows, latest |-> latest]}
    /\ UNCHANGED <<rows, top>>

(* The rows an answer to q may lead to: a tail of the rows q remembers and *)
(* then new ones, all above those and within the window below q.latest.    *)
(* Rows are cut off only where the window is full.                         *)
Joined(q, new) ==
    \E kept \in 0..Len(q.prev) :
        LET cut == Len(q.prev) - kept
        IN /\ kept <= Len(new) /\ Len(new) <= Window
           /\ cut > 0 => Len(new) = Window
           /\ \A i \in 1..kept : new[i] = q.prev[cut + i]
           /\ \A i \in kept + 1..Len(new) :
                 /\ new[i] \in q.latest - Window + 1..q.latest
                 /\ \A j \in 1..Len(q.prev) : new[i] > q.prev[j]
                 /\ \A j \in kept + 1..i - 1 : new[i] > new[j]
           /\ Dense => \A i \in kept + 1..Len(new) :
                 \/ new[i] \in {1, q.latest - Window + 1}
                 \/ i > kept + 1 /\ new[i] = new[i - 1] + 1
                 \/ i = kept + 1 /\ q.prev # <<>> /\ new[i] = q.prev[Len(q.prev)] + 1

(* An answer; an equal request may still be in flight.                     *)
Answer ==
    \E q \in asked :
        /\ rows' \in Seq(Height) /\ Joined(q, rows')
        /\ asked' \in {asked, asked \ {q}}
        /\ UNCHANGED top

(* A request that fails changes nothing.                                   *)
Fail == \E q \in asked : asked' = asked \ {q} /\ UNCHANGED <<rows, top>>

(* The rows go when their user signs out; the requests stay in flight.     *)
Clear == rows' = <<>> /\ UNCHANGED <<asked, top>>

(* The page is loaded again.                                               *)
Reload == rows' = <<>> /\ asked' = {} /\ UNCHANGED top

Next == Rise \/ Ask \/ Answer \/ Fail \/ Clear \/ Reload

Spec == Init /\ [][Next]_vars

-----------------------------------------------------------------------------
TypeOK == rows \in Seq(Height) /\ asked \subseteq Request /\ top \in Nat

(* No block twice, none out of order, and never more than the window: the  *)
(* charts and the averages of a page rely on it (MinerData.js, RigData.js, *)
(* MuglePoolStatsTable.js), although overlapping requests each rewrite the *)
(* whole history (minerDataActions.js 8-36, networkDataActions.js 8-42).   *)
Ordered ==
    /\ Len(rows) <= Window
    /\ \A i, j \in 1..Len(rows) : i < j => rows[i] < rows[j]

(* Blocks are missing from a history only where the page had fallen behind *)
(* by a whole window when it asked.                                        *)
Gapless ==
    Dense => \A i \in 1..Len(rows) - 1 :
                \/ rows[i + 1] = rows[i] + 1
                \/ rows[i + 1] + Window - 1 <= top
=============================================================================
