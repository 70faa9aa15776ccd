----------------------------- MODULE FeedProofs -----------------------------
(***************************************************************************)
(* Proofs about Feed.  The rows a request remembers are rows that once     *)
(* were shown: they have the properties of the shown rows, however many    *)
(* answers have rewritten the history since, and this is what makes the    *)
(* two properties inductive.                                               *)
(***************************************************************************)
EXTENDS Feed, TLAPS

Sorted(r) ==
    /\ Len(r) <= Window
    /\ \A i, j \in 1..Len(r) : i < j => r[i] < r[j]

Unbroken(r, t) ==
    Dense => \A i \in 1..Len(r) - 1 :
                \/ r[i + 1] = r[i] + 1
                \/ r[i + 1] + Window - 1 <= t

Good(r, t) == Sorted(r) /\ Unbroken(r, t)

(* The inductive invariant.                                                *)
IInv ==
    /\ TypeOK
    /\ Good(rows, top)
    /\ \A q \in asked : q.latest <= top /\ Good(q.prev, top)

(* An answer leaves sorted rows if those it is joined to were sorted.      *)
LEMMA JoinedSorted ==
    ASSUME NEW q \in Request, NEW new \in Seq(Height), Joined(q, new), Sorted(q.prev)
    PROVE  Sorted(new)
<1>1. PICK kept \in 0..Len(q.prev) :
        LET cut == Len(q.prev) - kept
        IN /\ kept <= Len(new) /\ Len(new) <= Window
           /\ \A i \in 1..kept : new[i] = q.prev[cut + i]
           /\ \A i \in kept + 1..Len(new) :
                 /\ \A j \in 1..Len(q.prev) : new[i] > q.prev[j]
                 /\ \A j \in kept + 1..i - 1 : new[i] > new[j]
  BY DEF Joined
<1> DEFINE cut == Len(q.prev) - kept
<1>2. q.prev \in Seq(Height) /\ Len(q.prev) \in Nat /\ Len(new) \in Nat /\ cut \in Nat
  BY DEF Request
<1>3. ASSUME NEW i \in 1..Len(new), NEW j \in 1..Len(new), i < j
      PROVE  new[i] < new[j]
  <2>0. new[i] \in Nat /\ new[j] \in Nat
    BY DEF Height
  <2>1. CASE j <= kept
    <3>1. i \in 1..kept /\ j \in 1..kept
      BY <1>3, <2>1
    <3>2. new[i] = q.prev[cut + i] /\ new[j] = q.prev[cut + j]
      BY <1>1, <3>1
    <3>3. cut + i \in 1..Len(q.prev) /\ cut + j \in 1..Len(q.prev) /\ cut + i < cut + j
      BY <1>2, <1>3, <3>1
    <3> QED BY <3>2, <3>3 DEF Sorted
  <2>2. CASE i <= kept /\ j > kept
    <3>1. new[i] = q.prev[cut + i] /\ cut + i \in 1..Len(q.prev)
      BY <1>1, <1>2, <2>2
    <3>2. j \in kept + 1..Len(new)
      BY <1>2, <2>2
    <3>3. new[j] > q.prev[cut + i]
      BY <1>1, <3>1, <3>2
    <3> QED BY <2>0, <3>1, <3>3
  <2>3. CASE i > kept
    <3>1. j \in kept + 1..Len(new) /\ i \in kept + 1..j - 1
      BY <1>2, <1>3, <2>3
    <3>2. new[j] > new[i]
      BY <1>1, <3>1
    <3> QED BY <2>0, <3>2
  <2> QED BY <2>1, <2>2, <2>3, <1>2
<1> QED BY <1>1, <1>3 DEF Sorted

(* Nor does it leave a gap that is not one of falling behind.              *)
LEMMA JoinedUnbroken ==
    ASSUME NEW q \in Request, NEW new \in Seq(Height), Joined(q, new), Sorted(q.prev),
           NEW t \in Nat, q.latest <= t, Unbroken(q.prev, t), Constants
    PROVE  Unbroken(new, t)
<1> SUFFICES ASSUME Dense, NEW i \in 1..Len(new) - 1
             PROVE  new[i + 1] = new[i] + 1 \/ new[i + 1] + Window - 1 <= t
  BY DEF Unbroken
<1>1. PICK kept \in 0..Len(q.prev) :
        LET cut == Len(q.prev) - kept
        IN /\ kept <= Len(new)
           /\ \A n \in 1..kept : new[n] = q.prev[cut + n]
           /\ \A n \in kept + 1..Len(new) :
                 \/ new[n] \in {1, q.latest - Window + 1}
                 \/ n > kept + 1 /\ new[n] = new[n - 1] + 1
                 \/ n = kept + 1 /\ q.prev # <<>> /\ new[n] = q.prev[Len(q.prev)] + 1
  BY DEF Joined
<1> DEFINE cut == Len(q.prev) - kept
<1>2. q.prev \in Seq(Height) /\ Len(q.prev) \in Nat /\ Len(new) \in Nat /\ cut \in Nat
  BY DEF Request
<1>3. /\ i \in 1..Len(new) /\ i + 1 \in 1..Len(new)
      /\ new[i] \in Nat \ {0} /\ new[i + 1] \in Nat \ {0}
      /\ new[i] < new[i + 1]
  <2>1. i \in 1..Len(new) /\ i + 1 \in 1..Len(new) /\ i < i + 1
    BY <1>2
  <2>2. new[i] \in Nat \ {0} /\ new[i + 1] \in Nat \ {0}
    BY <2>1 DEF Height
  <2>3. Sorted(new)
    BY JoinedSorted
  <2> QED BY <2>1, <2>2, <2>3 DEF Sorted
<1>4. CASE i + 1 <= kept
  <2>1. new[i] = q.prev[cut + i] /\ new[i + 1] = q.prev[cut + i + 1]
    BY <1>1, <1>2, <1>4
  <2>2. cut + i \in 1..Len(q.prev) - 1
    BY <1>2, <1>4
  <2> QED BY <2>1, <2>2 DEF Unbroken
<1>5. CASE i + 1 > kept
  <2>1. i + 1 \in kept + 1..Len(new)
    BY <1>2, <1>3, <1>5
  <2>2. CASE new[i + 1] \in {1, q.latest - Window + 1}
    <3>1. new[i + 1] = q.latest - Window + 1
      BY <1>3, <2>2
    <3> QED BY <3>1 DEF Constants, Request, Height
  <2>3. CASE i + 1 > kept + 1 /\ new[i + 1] = new[i + 1 - 1] + 1
    BY <1>2, <2>3
  <2>4. CASE /\ i + 1 = kept + 1 /\ new[i + 1] = q.prev[Len(q.prev)] + 1
    <3>1. i \in 1..kept /\ cut + i = Len(q.prev)
      BY <1>2, <2>4
    <3>2. new[i] = q.prev[Len(q.prev)]
      BY <1>1, <3>1
    <3> QED BY <2>4, <3>2
  <2> QED BY <1>1, <2>1, <2>2, <2>3, <2>4
<1> QED BY <1>2, <1>4, <1>5

(* A gap stays excused when the network grows.                             *)
LEMMA UnbrokenLater ==
    ASSUME NEW r \in Seq(Height), NEW t \in Nat, Unbroken(r, t), Constants
    PROVE  Unbroken(r, t + 1)
<1> SUFFICES ASSUME Dense, NEW i \in 1..Len(r) - 1
             PROVE  r[i + 1] = r[i] + 1 \/ r[i + 1] + Window - 1 <= t + 1
  BY DEF Unbroken
<1>1. r[i + 1] \in Nat
  <2>1. i + 1 \in 1..Len(r)
    OBVIOUS
  <2> QED BY <2>1 DEF Height
<1>2. r[i + 1] = r[i] + 1 \/ r[i + 1] + Window - 1 <= t
  BY DEF Unbroken
<1> QED BY <1>1, <1>2 DEF Constants

LEMMA EmptyGood == ASSUME NEW t, Constants PROVE Good(<<>>, t)
BY DEF Constants, Good, Sorted, Unbroken

LEMMA InitIInv == Constants => (Init => IInv)
BY EmptyGood DEF Init, IInv, TypeOK

LEMMA NextIInv == Constants => (IInv /\ [Next]_vars => IInv')
<1> SUFFICES ASSUME Constants, IInv, [Next]_vars
             PROVE  IInv'
  OBVIOUS
<1>0. /\ rows \in Seq(Height) /\ asked \subseteq Request /\ top \in Nat
      /\ Good(rows, top)
      /\ \A q \in asked : q.latest <= top /\ Good(q.prev, top)
  BY DEF IInv, TypeOK
<1>1. CASE Rise
  <2>1. top' = top + 1 /\ rows' = rows /\ asked' = asked
    BY <1>1 DEF Rise
  <2>2. Good(rows, top + 1)
    BY <1>0, UnbrokenLater DEF Good
  <2>3. ASSUME NEW q \in asked PROVE q.latest <= top + 1 /\ Good(q.prev, top + 1)
    <3>1. q.prev \in Seq(Height) /\ q.latest \in Nat
      BY <1>0 DEF Request, Height
    <3> QED BY <1>0, <3>1, UnbrokenLater DEF Good
  <2>4. top + 1 \in Nat
    BY <1>0
  <2> QED BY <1>0, <2>1, <2>2, <2>3, <2>4 DEF IInv, TypeOK
<1>2. CASE Ask
  <2>1. PICK latest \in 1..top : asked' = asked \cup {[prev |-> rows, latest |-> latest]}
    BY <1>2 DEF Ask
  <2>2. rows' = rows /\ top' = top
    BY <1>2 DEF Ask
  <2>3. [prev |-> rows, latest |-> latest] \in Request
    BY <1>0 DEF Request, Height
  <2> QED BY <1>0, <2>1, <2>2, <2>3 DEF IInv, TypeOK
<1>3. CASE Answer
  <2>1. PICK q \in asked : /\ rows' \in Seq(Height) /\ Joined(q, rows')
                           /\ asked' \in {asked, asked \ {q}}
    BY <1>3 DEF Answer
  <2>2. top' = top /\ asked' \subseteq asked
    BY <1>3, <2>1 DEF Answer
  <2>3. q \in Request /\ q.latest <= top /\ Sorted(q.prev) /\ Unbroken(q.prev, top)
    BY <1>0 DEF Good
  <2>4. Sorted(rows')
    BY <2>1, <2>3, JoinedSorted
  <2>5. Unbroken(rows', top)
    BY <1>0, <2>1, <2>3, JoinedUnbroken
  <2> QED BY <1>0, <2>1, <2>2, <2>4, <2>5 DEF IInv, TypeOK, Good
<1>4. CASE Fail
  BY <1>0, <1>4 DEF Fail, IInv, TypeOK
<1>5. CASE Clear
  BY <1>0, <1>5, EmptyGood DEF Clear, IInv, TypeOK
<1>6. CASE Reload
  BY <1>0, <1>6, EmptyGood DEF Reload, IInv, TypeOK
<1>7. CASE UNCHANGED vars
  BY <1>0, <1>7 DEF vars, IInv, TypeOK
<1> QED BY <1>1, <1>2, <1>3, <1>4, <1>5, <1>6, <1>7 DEF Next

LEMMA AlwaysIInv == Constants => (Spec => []IInv)
<1> SUFFICES ASSUME Constants PROVE Spec => []IInv
  OBVIOUS
<1>1. Init => IInv
  BY InitIInv
<1>2. IInv /\ [Next]_vars => IInv'
  BY NextIInv
<1> QED BY <1>1, <1>2, PTL DEF Spec

(* A history never shows a block twice or out of order, nor more than its  *)
(* window, for every size of the window and however requests overlap       *)
(* (NetworkData.js, MuglePoolData.js, MinerData.js).                       *)
THEOREM FeedOrdered == Constants => (Spec => []Ordered)
<1>1. IInv => Ordered
  BY DEF IInv, Good, Sorted, Ordered
<1> QED BY <1>1, AlwaysIInv, PTL

(* A history of every block lacks one only where the page had fallen       *)
(* behind by a whole window.                                               *)
THEOREM FeedGapless == Constants => (Spec => []Gapless)
<1>1. IInv => Gapless
  BY DEF IInv, Good, Unbroken, Gapless
<1> QED BY <1>1, AlwaysIInv, PTL
=============================================================================
