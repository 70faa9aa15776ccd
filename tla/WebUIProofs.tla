---------------------------- MODULE WebUIProofs ----------------------------
(***************************************************************************)
(* Proofs about WebUI.  A page is in no state of its own: what its store   *)
(* holds comes from replies, and a reply brings back what its request read *)
(* of an earlier store.  So the inductive invariant, WebInv, says of every *)
(* request in flight what it says of the store: the rows and the rigs it   *)
(* remembers are of its user, or of one whom left or former names (Known); *)
(* its height is not above the tip; and the requests are counted, one by   *)
(* one, so that each user's payouts among them can be (Payouts).           *)
(*                                                                         *)
(* The order is: sequences of heights; bags of requests; the thunks that   *)
(* the pages start; the reducers (Dispatch); what an answer to each of the *)
(* thunks may change (Outcome); requests as thunks make them; the actions; *)
(* the theorems.  Then the histories: the rows that the store shows and    *)
(* that requests remember are in order (HistoriesInOrder), so each step    *)
(* joins an answer as Feed does or leaves the history alone; with the      *)
(* theorems of FeedProofs the histories have what Feed promises.           *)
(***************************************************************************)
EXTENDS WebUI, FiniteSetTheorems, SequenceTheorems, WellFoundedInduction, TLAPS

-----------------------------------------------------------------------------
(* Sets of heights as sequences.                                           *)
Below(S, h) == {x \in S : x < h}

LEMMA BelowIsRank ==
    ASSUME NEW S \in SUBSET Int, IsFiniteSet(S)
    PROVE  /\ Cardinality(S) \in Nat
           /\ \A h \in S : Cardinality(Below(S, h)) \in 0..Cardinality(S) - 1
           /\ \A h, k \in S : h < k => Cardinality(Below(S, h)) < Cardinality(Below(S, k))
           /\ \A i \in 1..Cardinality(S) : \E h \in S : Cardinality(Below(S, h)) = i - 1
<1>1. Cardinality(S) \in Nat /\ \A x \in S : x \in Int
  BY FS_CardinalityType
<1>2. ASSUME NEW h \in S
      PROVE  IsFiniteSet(Below(S, h)) /\ Cardinality(Below(S, h)) \in 0..Cardinality(S) - 1
  <2>1. Below(S, h) \in SUBSET (S \ {h})
    BY DEF Below
  <2>2. IsFiniteSet(S \ {h}) /\ Cardinality(S \ {h}) = Cardinality(S) - 1
    BY FS_RemoveElement
  <2>3. IsFiniteSet(Below(S, h)) /\ Cardinality(Below(S, h)) <= Cardinality(S \ {h})
    BY <2>1, <2>2, FS_Subset
  <2>4. Cardinality(Below(S, h)) \in Nat
    BY <2>3, FS_CardinalityType
  <2> QED BY <1>1, <2>2, <2>3, <2>4
<1>3. ASSUME NEW h \in S, NEW k \in S, h < k
      PROVE  Cardinality(Below(S, h)) < Cardinality(Below(S, k))
  <2>0. h \in Int /\ k \in Int
    BY <1>1
  <2>1. Below(S, h) \in SUBSET Below(S, k) /\ h \in Below(S, k) /\ h \notin Below(S, h)
    <3>1. ASSUME NEW x \in S, x < h PROVE x < k
      <4>1. x \in Int
        BY <1>1
      <4> QED BY <1>3, <2>0, <3>1, <4>1
    <3>2. ~(h < h)
      BY <2>0
    <3> QED BY <1>3, <3>1, <3>2 DEF Below
  <2>2. Cardinality(Below(S, h)) <= Cardinality(Below(S, k))
        /\ Cardinality(Below(S, h)) # Cardinality(Below(S, k))
    BY <1>2, <2>1, FS_Subset
  <2>3. Cardinality(Below(S, h)) \in Int /\ Cardinality(Below(S, k)) \in Int
    BY <1>2
  <2> QED BY <2>2, <2>3
<1> DEFINE n == Cardinality(S)
           rank == [h \in S |-> Cardinality(Below(S, h)) + 1]
<1>4. rank \in [S -> 1..n]
  BY <1>1, <1>2
<1>5. \A h, k \in S : rank[h] = rank[k] => h = k
  <2> SUFFICES ASSUME NEW h \in S, NEW k \in S, h # k PROVE rank[h] # rank[k]
    OBVIOUS
  <2>1. h < k \/ k < h
    OBVIOUS
  <2>2. rank[h] = Cardinality(Below(S, h)) + 1 /\ rank[k] = Cardinality(Below(S, k)) + 1
    OBVIOUS
  <2>3. Cardinality(Below(S, h)) \in Int /\ Cardinality(Below(S, k)) \in Int
    BY <1>2
  <2>4. Cardinality(Below(S, h)) # Cardinality(Below(S, k))
    BY <1>3, <2>1, <2>3
  <2> QED BY <2>2, <2>3, <2>4
<1>6. rank \in Injection(S, 1..n)
  BY <1>4, <1>5 DEF Injection, IsInjective
<1>7. IsFiniteSet(1..n) /\ Cardinality(1..n) = n
  <2> HIDE DEF n
  <2>1. n \in Nat
    BY <1>1 DEF n
  <2> QED BY <2>1, FS_Interval
<1>8. rank \in Surjection(S, 1..n)
  BY <1>6, <1>7, FS_Injection
<1>9. ASSUME NEW i \in 1..n PROVE \E h \in S : Cardinality(Below(S, h)) = i - 1
  <2>1. PICK h \in S : rank[h] = i
    BY <1>8 DEF Surjection
  <2>2. Cardinality(Below(S, h)) + 1 = i /\ Cardinality(Below(S, h)) \in Int
    BY <1>2, <2>1
  <2>3. Cardinality(Below(S, h)) = i - 1
    BY <2>2
  <2> QED BY <2>3
<1> QED BY <1>1, <1>2, <1>3, <1>9

(* The sequence has the heights of the set, in ascending order.            *)
LEMMA AscendingFits ==
    ASSUME NEW S \in SUBSET Int, IsFiniteSet(S)
    PROVE  LET a == Ascending(S)
           IN /\ Cardinality(S) \in Nat
              /\ a \in Seq(S) /\ Len(a) = Cardinality(S)
              /\ \A i, j \in 1..Len(a) : i < j => a[i] < a[j]
              /\ \A h \in S : \E i \in 1..Len(a) : a[i] = h
<1> DEFINE n == Cardinality(S)
           a == Ascending(S)
<1>1. n \in Nat /\ \A x \in S : x \in Int
  BY BelowIsRank
<1>2. a = [i \in 1..n |-> CHOOSE h \in S : Cardinality(Below(S, h)) = i - 1]
  BY DEF Ascending, Below
<1> HIDE DEF a
<1>3. ASSUME NEW i \in 1..n
      PROVE  a[i] \in S /\ Cardinality(Below(S, a[i])) = i - 1
  <2>1. \E h \in S : Cardinality(Below(S, h)) = i - 1
    BY BelowIsRank
  <2>2. a[i] = CHOOSE h \in S : Cardinality(Below(S, h)) = i - 1
    BY <1>2
  <2> QED BY <2>1, <2>2
<1>4. a \in Seq(S) /\ Len(a) = n
  <2>1. a \in [1..n -> S]
    BY <1>2, <1>3
  <2> QED BY <1>1, <2>1
<1>5. ASSUME NEW i \in 1..n, NEW j \in 1..n, i < j PROVE a[i] < a[j]
  <2> SUFFICES ASSUME ~(a[i] < a[j]) PROVE FALSE
    OBVIOUS
  <2>1. a[i] \in S /\ a[j] \in S /\ a[i] \in Int /\ a[j] \in Int
    BY <1>1, <1>3
  <2>2. a[j] < a[i] \/ a[j] = a[i]
    BY <1>1, <2>1
  <2>3. Cardinality(Below(S, a[i])) = i - 1 /\ Cardinality(Below(S, a[j])) = j - 1
    BY <1>3
  <2>4. CASE a[j] = a[i]
    BY <1>5, <2>3, <2>4
  <2>5. CASE a[j] < a[i]
    <3>1. Cardinality(Below(S, a[j])) < Cardinality(Below(S, a[i]))
      BY <2>1, <2>5, BelowIsRank
    <3> QED BY <1>5, <2>3, <3>1
  <2> QED BY <2>2, <2>4, <2>5
<1>6. ASSUME NEW h \in S PROVE \E i \in 1..n : a[i] = h
  <2> DEFINE i == Cardinality(Below(S, h)) + 1
  <2>1. Cardinality(Below(S, h)) \in 0..n - 1
    BY BelowIsRank
  <2>2. i \in 1..n
    BY <1>1, <2>1
  <2>3. /\ a[i] \in S /\ a[i] \in Int /\ h \in Int
        /\ Cardinality(Below(S, a[i])) = i - 1
    BY <1>1, <1>3, <2>2
  <2>4. Cardinality(Below(S, a[i])) = Cardinality(Below(S, h))
    BY <2>1, <2>3
  <2>5. a[i] = h
    <3> HIDE DEF i
    <3>1. a[i] < h \/ h < a[i] \/ a[i] = h
      BY <2>3
    <3>2. Cardinality(Below(S, h)) \in Int
      BY <2>1
    <3>3. \A k, l \in S : k < l => Cardinality(Below(S, k)) < Cardinality(Below(S, l))
      BY BelowIsRank
    <3>4. ~(a[i] < h) /\ ~(h < a[i])
      BY <2>3, <2>4, <3>2, <3>3
    <3> QED BY <3>1, <3>4
  <2> QED BY <2>2, <2>5
<1> QED BY <1>1, <1>4, <1>5, <1>6 DEF a

-----------------------------------------------------------------------------
(* Sequences joined to one.                                                *)
LEMMA SmallestNat ==
    ASSUME NEW n \in Nat, NEW F \in SUBSET (0..n), F # {}
    PROVE  \E m \in F : \A k \in F : m <= k
<1> DEFINE G == {1..m : m \in F}
<1>1. G \in SUBSET SUBSET (1..n) /\ G # {} /\ IsFiniteSet(1..n)
  <2>1. G # {}
    <3>1. PICK m \in F : TRUE
      OBVIOUS
    <3> QED BY <3>1
  <2>3. IsFiniteSet(1..n)
    <3>1. 1 \in Int /\ n \in Int
      OBVIOUS
    <3> QED BY <3>1, FS_Interval
  <2>2. ASSUME NEW m \in F PROVE 1..m \subseteq 1..n
    OBVIOUS
  <2> QED BY <2>1, <2>2, <2>3
<1>2. IsWellFoundedOn(StrictSubsetOrdering(1..n), SUBSET (1..n))
  <2>1. FiniteSubsetsOf(1..n) = SUBSET (1..n)
    BY <1>1, FS_FiniteSubsetsOfFinite
  <2> QED BY <2>1, FS_StrictSubsetOrderingWellFounded
<1> HIDE DEF G
<1>3. PICK T \in G : \A U \in G : <<U, T>> \notin StrictSubsetOrdering(1..n)
  BY <1>1, <1>2, WFMin
<1>4. PICK m \in F : T = 1..m
  BY DEF G
<1>5. ASSUME NEW k \in F PROVE m <= k
  <2> SUFFICES ASSUME k < m PROVE FALSE
    OBVIOUS
  <2>1. 1..k \in G /\ 1..k \subseteq 1..m
    BY DEF G
  <2>2. m \in 1..m /\ m \notin 1..k
    OBVIOUS
  <2>3. <<1..k, T>> \in StrictSubsetOrdering(1..n)
    BY <1>1, <1>4, <2>1, <2>2 DEF StrictSubsetOrdering
  <2> QED BY <1>3, <2>1, <2>3
<1> QED BY <1>5

Joins(seqs, n, f) ==
    f = [i \in 1..n |-> IF i = 1 THEN seqs[i] ELSE f[i - 1] \o seqs[i]]

LEMMA JoinsExist ==
    ASSUME NEW seqs, NEW n \in Nat
    PROVE  \E f : Joins(seqs, n, f)
<1> DEFINE F == {m \in 0..n : ~\E f : Joins(seqs, m, f)}
<1> SUFFICES ASSUME F # {} PROVE FALSE
  OBVIOUS
<1>1. PICK m \in F : \A k \in F : m <= k
  <2>1. F \in SUBSET (0..n)
    OBVIOUS
  <2> HIDE DEF F
  <2> QED BY <2>1, SmallestNat
<1>2. m # 0
  <2>1. Joins(seqs, 0, <<>>)
    BY DEF Joins
  <2> QED BY <2>1
<1>3. PICK f : Joins(seqs, m - 1, f)
  <2>1. m - 1 \in 0..n /\ ~(m <= m - 1)
    BY <1>2
  <2>2. m - 1 \notin F
    BY <1>1, <2>1
  <2> QED BY <2>1, <2>2
<1> DEFINE g == [i \in 1..m |-> IF i = 1 THEN seqs[i] ELSE f[i - 1] \o seqs[i]]
<1>4. \A i \in 1..m - 1 : f[i] = g[i]
  <2>1. f = [i \in 1..m - 1 |-> IF i = 1 THEN seqs[i] ELSE f[i - 1] \o seqs[i]]
    BY <1>3 DEF Joins
  <2>2. \A i \in 1..m - 1 : f[i] = IF i = 1 THEN seqs[i] ELSE f[i - 1] \o seqs[i]
    BY <2>1
  <2> QED BY <2>2
<1>5. g = [i \in 1..m |-> IF i = 1 THEN seqs[i] ELSE g[i - 1] \o seqs[i]]
  <2>1. \A i \in 1..m : i = 1 \/ i - 1 \in 1..m - 1
    OBVIOUS
  <2>2. \A i \in 1..m : i # 1 => f[i - 1] = g[i - 1]
    BY <1>4, <2>1
  <2> QED BY <2>2
<1>6. Joins(seqs, m, g)
  BY <1>5 DEF Joins
<1> QED BY <1>6

LEMMA JoinsFit ==
    ASSUME NEW T, NEW seqs \in Seq(Seq(T)), NEW f, Joins(seqs, Len(seqs), f)
    PROVE  \A i \in 1..Len(seqs) : f[i] \in Seq(T)
<1> DEFINE F == {i \in 1..Len(seqs) : f[i] \notin Seq(T)}
<1> SUFFICES ASSUME F # {} PROVE FALSE
  OBVIOUS
<1>1. PICK m \in F : \A k \in F : m <= k
  <2>1. F \in SUBSET (0..Len(seqs)) /\ Len(seqs) \in Nat
    OBVIOUS
  <2> HIDE DEF F
  <2> QED BY <2>1, SmallestNat
<1>2. f[m] = IF m = 1 THEN seqs[m] ELSE f[m - 1] \o seqs[m]
  BY DEF Joins
<1>3. seqs[m] \in Seq(T)
  OBVIOUS
<1>4. m # 1 => f[m - 1] \in Seq(T)
  <2>1. m # 1 => m - 1 \in 1..Len(seqs) /\ ~(m <= m - 1)
    OBVIOUS
  <2> QED BY <1>1, <2>1
<1>5. f[m] \in Seq(T)
  BY <1>2, <1>3, <1>4
<1> QED BY <1>5

LEMMA FlattenFits ==
    ASSUME NEW T, NEW seqs \in Seq(Seq(T))
    PROVE  FlattenSeq(seqs) \in Seq(T)
<1>1. CASE Len(seqs) = 0
  BY <1>1 DEF FlattenSeq
<1>2. CASE Len(seqs) # 0
  <2> DEFINE f == CHOOSE g : Joins(seqs, Len(seqs), g)
  <2>1. FlattenSeq(seqs) = f[Len(seqs)]
    BY <1>2 DEF FlattenSeq, Joins
  <2>2. Joins(seqs, Len(seqs), f)
    <3>1. \E g : Joins(seqs, Len(seqs), g)
      <4>1. Len(seqs) \in Nat
        OBVIOUS
      <4> QED BY <4>1, JoinsExist
    <3> QED BY <3>1
  <2>3. \A i \in 1..Len(seqs) : f[i] \in Seq(T)
    BY <2>2, JoinsFit
  <2> QED BY <1>2, <2>1, <2>3
<1> QED BY <1>1, <1>2

-----------------------------------------------------------------------------
(* The requests in flight, counted one by one.                             *)
BagFits(bag) ==
    /\ IsABag(bag)
    /\ IsFiniteSet(Copies(bag, DOMAIN bag)) /\ InFlight(bag) <= MaxCalls

(* Two bags have the same requests of a kind.                              *)
SameCopies(b, bag, C) == Copies(b, C \cap DOMAIN b) = Copies(bag, C \cap DOMAIN bag)

(* What is new in a bag is a request of one of the thunks of T.            *)
SentBy(s, T, bag, b) ==
    \A r \in DOMAIN b : r \in DOMAIN bag \/ \E t \in T : Starts(s, t) /\ r = Request(s, t)

LEMMA EmptyFits == BagFits(EmptyBag) /\ DOMAIN EmptyBag = {} /\ InFlight(EmptyBag) = 0
<1>1. DOMAIN EmptyBag = {} /\ IsABag(EmptyBag) /\ Copies(EmptyBag, DOMAIN EmptyBag) = {}
  BY DEF EmptyBag, SetToBag, IsABag, Copies
<1>2. MaxCalls \in Nat
  BY BoundAssumption
<1> QED BY <1>1, <1>2, FS_EmptySet DEF BagFits, InFlight

(* One request is taken out.                                               *)
LEMMA TakenOut ==
    ASSUME NEW bag, BagFits(bag), NEW c \in DOMAIN bag, NEW b, b = bag (-) SetToBag({c})
    PROVE  /\ BagFits(b) /\ InFlight(b) = InFlight(bag) - 1
           /\ DOMAIN b \subseteq DOMAIN bag
           /\ \A x \in DOMAIN bag : x # c => x \in DOMAIN b
           /\ \A C : Copies(b, C \cap DOMAIN b)
                        = Copies(bag, C \cap DOMAIN bag) \ {<<c, bag[c]>>}
<1>1. \A x \in DOMAIN bag : bag[x] \in Nat /\ bag[x] > 0
  BY DEF BagFits, IsABag
<1>2. b = [e \in {d \in DOMAIN bag : (IF d = c THEN bag[d] - 1 ELSE bag[d]) > 0} |->
              IF e = c THEN bag[e] - 1 ELSE bag[e]]
  BY DEF SetToBag, (-)
<1>3. /\ DOMAIN b \subseteq DOMAIN bag
      /\ \A x \in DOMAIN bag : x # c => x \in DOMAIN b /\ b[x] = bag[x]
      /\ c \in DOMAIN b <=> bag[c] - 1 > 0
      /\ c \in DOMAIN b => b[c] = bag[c] - 1
  BY <1>1, <1>2
<1>4. IsABag(b)
  BY <1>1, <1>2 DEF IsABag
<1>5. ASSUME NEW C
      PROVE  Copies(b, C \cap DOMAIN b) = Copies(bag, C \cap DOMAIN bag) \ {<<c, bag[c]>>}
  <2>1. ASSUME NEW x \in C \cap DOMAIN b, NEW n \in 1..b[x]
        PROVE  /\ x \in C \cap DOMAIN bag /\ n \in 1..bag[x]
               /\ <<x, n>> # <<c, bag[c]>>
    <3>1. CASE x = c
      BY <1>1, <1>3, <3>1
    <3>2. CASE x # c
      BY <1>3, <3>2
    <3> QED BY <3>1, <3>2
  <2>2. ASSUME NEW x \in C \cap DOMAIN bag, NEW n \in 1..bag[x], <<x, n>> # <<c, bag[c]>>
        PROVE  x \in C \cap DOMAIN b /\ n \in 1..b[x]
    <3>1. CASE x = c
      BY <1>1, <1>3, <2>2, <3>1
    <3>2. CASE x # c
      BY <1>3, <3>2
    <3> QED BY <3>1, <3>2
  <2> QED BY <2>1, <2>2 DEF Copies
<1>6. Copies(b, DOMAIN b) = Copies(bag, DOMAIN bag) \ {<<c, bag[c]>>}
  <2>1. DOMAIN bag \cap DOMAIN b = DOMAIN b /\ DOMAIN bag \cap DOMAIN bag = DOMAIN bag
    BY <1>3
  <2> QED BY <1>5, <2>1
<1>7. <<c, bag[c]>> \in Copies(bag, DOMAIN bag)
  BY <1>1 DEF Copies
<1>8. /\ IsFiniteSet(Copies(b, DOMAIN b))
      /\ Cardinality(Copies(b, DOMAIN b)) = Cardinality(Copies(bag, DOMAIN bag)) - 1
  BY <1>6, <1>7, FS_RemoveElement DEF BagFits
<1>9. InFlight(b) = InFlight(bag) - 1 /\ InFlight(b) <= MaxCalls
  <2>1. Cardinality(Copies(bag, DOMAIN bag)) \in Nat
    BY FS_CardinalityType DEF BagFits
  <2>2. MaxCalls \in Nat
    BY BoundAssumption
  <2> QED BY <1>8, <2>1, <2>2 DEF BagFits, InFlight
<1> QED BY <1>3, <1>4, <1>5, <1>8, <1>9 DEF BagFits

(* One request is put in.                                                  *)
LEMMA PutIn ==
    ASSUME NEW bag, BagFits(bag), InFlight(bag) < MaxCalls, NEW c, NEW b,
           b = bag (+) SetToBag({c})
    PROVE  /\ BagFits(b)
           /\ DOMAIN b = DOMAIN bag \cup {c}
           /\ \A C : c \in C \/ SameCopies(b, bag, C)
           /\ \A C : /\ IsFiniteSet(Copies(b, C \cap DOMAIN b))
                     /\ Cardinality(Copies(b, C \cap DOMAIN b))
                           <= Cardinality(Copies(bag, C \cap DOMAIN bag)) + 1
<1>1. \A x \in DOMAIN bag : bag[x] \in Nat /\ bag[x] > 0
  BY DEF BagFits, IsABag
<1> DEFINE was == IF c \in DOMAIN bag THEN bag[c] ELSE 0
<1>2. was \in Nat
  BY <1>1
<1>3. /\ DOMAIN b = DOMAIN bag \cup {c}
      /\ b[c] = was + 1
      /\ \A x \in DOMAIN bag : x # c => b[x] = bag[x]
      /\ b = [x \in DOMAIN bag \cup {c} |-> b[x]]
  BY <1>1 DEF SetToBag, (+)
<1>4. IsABag(b)
  BY <1>1, <1>2, <1>3 DEF IsABag
<1> HIDE DEF was
<1>5. ASSUME NEW C, c \in C
      PROVE  Copies(b, C \cap DOMAIN b)
                = Copies(bag, C \cap DOMAIN bag) \cup {<<c, was + 1>>}
  <2>1. ASSUME NEW x \in C \cap DOMAIN b, NEW n \in 1..b[x], <<x, n>> # <<c, was + 1>>
        PROVE  x \in C \cap DOMAIN bag /\ n \in 1..bag[x]
    <3>1. CASE x = c
      <4>1. n \in 1..was
        BY <1>2, <1>3, <2>1, <3>1
      <4>2. c \in DOMAIN bag /\ was = bag[c]
        BY <4>1 DEF was
      <4> QED BY <3>1, <4>1, <4>2
    <3>2. CASE x # c
      BY <1>3, <3>2
    <3> QED BY <3>1, <3>2
  <2>2. ASSUME NEW x \in C \cap DOMAIN bag, NEW n \in 1..bag[x]
        PROVE  x \in C \cap DOMAIN b /\ n \in 1..b[x]
    <3>1. CASE x = c
      <4>1. was = bag[c]
        BY <3>1 DEF was
      <4>2. n \in 1..was + 1
        BY <1>2, <3>1, <4>1
      <4> QED BY <1>3, <3>1, <4>2
    <3>2. CASE x # c
      BY <1>3, <3>2
    <3> QED BY <3>1, <3>2
  <2>3. c \in C \cap DOMAIN b /\ was + 1 \in 1..b[c]
    BY <1>2, <1>3, <1>5
  <2>4. ASSUME NEW p \in Copies(b, C \cap DOMAIN b)
        PROVE  p \in Copies(bag, C \cap DOMAIN bag) \cup {<<c, was + 1>>}
    BY <2>1 DEF Copies
  <2>5. ASSUME NEW p \in Copies(bag, C \cap DOMAIN bag) \cup {<<c, was + 1>>}
        PROVE  p \in Copies(b, C \cap DOMAIN b)
    BY <2>2, <2>3 DEF Copies
  <2> QED BY <2>4, <2>5
<1>6. ASSUME NEW C, c \notin C
      PROVE  Copies(b, C \cap DOMAIN b) = Copies(bag, C \cap DOMAIN bag)
  <2>1. C \cap DOMAIN b = C \cap DOMAIN bag
    BY <1>3, <1>6
  <2>2. \A x \in C \cap DOMAIN bag : b[x] = bag[x]
    BY <1>3, <1>6
  <2> QED BY <2>1, <2>2 DEF Copies
<1>7. ASSUME NEW C
      PROVE  /\ IsFiniteSet(Copies(bag, C \cap DOMAIN bag))
             /\ Cardinality(Copies(bag, C \cap DOMAIN bag)) \in Nat
  <2>1. Copies(bag, C \cap DOMAIN bag) \in SUBSET Copies(bag, DOMAIN bag)
    BY DEF Copies
  <2> QED BY <2>1, FS_Subset, FS_CardinalityType DEF BagFits
<1>8. ASSUME NEW C
      PROVE  /\ IsFiniteSet(Copies(b, C \cap DOMAIN b))
             /\ Cardinality(Copies(b, C \cap DOMAIN b))
                   <= Cardinality(Copies(bag, C \cap DOMAIN bag)) + 1
  <2>1. CASE c \in C
    <3> DEFINE old == Copies(bag, C \cap DOMAIN bag)
               new == Copies(b, C \cap DOMAIN b)
    <3>1. new = old \cup {<<c, was + 1>>}
      BY <1>5, <2>1
    <3>2. IsFiniteSet(old) /\ Cardinality(old) \in Nat
      BY <1>7
    <3> HIDE DEF old, new
    <3>3. IsFiniteSet(new) /\ Cardinality(new) <= Cardinality(old) + 1
      BY <3>1, <3>2, FS_AddElement
    <3> QED BY <3>3 DEF old, new
  <2>2. CASE c \notin C
    <3>1. Copies(b, C \cap DOMAIN b) = Copies(bag, C \cap DOMAIN bag)
      BY <1>6, <2>2
    <3> DEFINE old == Copies(bag, C \cap DOMAIN bag)
    <3>2. IsFiniteSet(old) /\ Cardinality(old) \in Nat
      BY <1>7
    <3> HIDE DEF old
    <3>3. Cardinality(old) <= Cardinality(old) + 1
      BY <3>2
    <3> QED BY <3>1, <3>2, <3>3 DEF old
  <2> QED BY <2>1, <2>2
<1>9. BagFits(b)
  <2>1. DOMAIN b \cap DOMAIN b = DOMAIN b /\ DOMAIN b \cap DOMAIN bag = DOMAIN bag
    BY <1>3
  <2>2. /\ IsFiniteSet(Copies(b, DOMAIN b))
        /\ Cardinality(Copies(b, DOMAIN b)) <= Cardinality(Copies(bag, DOMAIN bag)) + 1
    BY <1>8, <2>1
  <2>3. Cardinality(Copies(bag, DOMAIN bag)) \in Nat /\ Cardinality(Copies(b, DOMAIN b)) \in Nat
    BY <2>2, FS_CardinalityType DEF BagFits
  <2>4. MaxCalls \in Nat
    BY BoundAssumption
  <2> QED BY <1>4, <2>2, <2>3, <2>4 DEF BagFits, InFlight
<1> QED BY <1>3, <1>6, <1>8, <1>9 DEF SameCopies

(* Requests are sent: each is one of a thunk that can start, they are no   *)
(* more than there is room for, and the others stay.  A copy that is new   *)
(* goes with a place among the thunks, and no two with the same.           *)
LEMMA StartedFits ==
    ASSUME NEW s, NEW bag, BagFits(bag), NEW T, NEW thunks \in Seq(T),
           NEW b \in Started(s, bag, thunks)
    PROVE  /\ BagFits(b) /\ DOMAIN bag \subseteq DOMAIN b
           /\ SentBy(s, T, bag, b)
           /\ \A C : (\A t \in T : Starts(s, t) => Request(s, t) \notin C)
                        => SameCopies(b, bag, C)
<1> DEFINE asked == {i \in DOMAIN thunks : Starts(s, thunks[i])}
           room == MaxCalls - InFlight(bag)
           number == IF Cardinality(asked) < room THEN Cardinality(asked) ELSE room
<1>1. PICK S \in SUBSET asked : /\ Cardinality(S) = number
                                /\ b = bag (+) Sent(s, thunks, S)
  BY DEF Started, kSubset
<1>2. IsFiniteSet(S) /\ S \subseteq Nat
  <2>1. asked \in SUBSET (1..Len(thunks)) /\ Len(thunks) \in Nat /\ 1 \in Int
    OBVIOUS
  <2>2. IsFiniteSet(1..Len(thunks))
    BY <2>1, FS_Interval
  <2>3. S \in SUBSET (1..Len(thunks))
    BY <2>1
  <2> QED BY <2>2, <2>3, FS_Subset
<1>3. InFlight(bag) \in Nat /\ InFlight(bag) <= MaxCalls /\ MaxCalls \in Nat
      /\ IsFiniteSet(Copies(bag, DOMAIN bag))
  BY FS_CardinalityType, BoundAssumption DEF BagFits, InFlight
<1>4. Cardinality(S) \in Nat /\ Cardinality(S) <= room
  <2>1. Cardinality(S) \in Nat
    BY <1>2, FS_CardinalityType
  <2>2. IsFiniteSet(asked)
    <3>1. asked \in SUBSET (1..Len(thunks)) /\ Len(thunks) \in Nat /\ 1 \in Int
      OBVIOUS
    <3>2. IsFiniteSet(1..Len(thunks))
      BY <3>1, FS_Interval
    <3> QED BY <3>1, <3>2, FS_Subset
  <2>3. Cardinality(asked) \in Nat
    BY <2>2, FS_CardinalityType
  <2> HIDE DEF asked
  <2>4. room \in Int
    BY <1>3
  <2> QED BY <1>1, <2>1, <2>3, <2>4
<1> DEFINE of(i) == Request(s, thunks[i])
           places(r) == {i \in S : of(i) = r}
           sent == {of(i) : i \in S}
           was(r) == IF r \in DOMAIN bag THEN bag[r] ELSE 0
<1>5. ASSUME NEW i \in S PROVE \E t \in T : Starts(s, t) /\ of(i) = Request(s, t)
  <2>1. i \in DOMAIN thunks /\ Starts(s, thunks[i]) /\ thunks[i] \in T
    OBVIOUS
  <2> QED BY <2>1
<1>6. Sent(s, thunks, S) = [r \in sent |-> Cardinality(places(r))]
  BY DEF Sent
<1>7. ASSUME NEW r \in sent
      PROVE  /\ IsFiniteSet(places(r)) /\ places(r) \in SUBSET Int
             /\ Cardinality(places(r)) \in Nat /\ Cardinality(places(r)) > 0
  <2>1. places(r) \in SUBSET S /\ places(r) # {}
    OBVIOUS
  <2> HIDE DEF places
  <2>2. IsFiniteSet(places(r)) /\ places(r) \in SUBSET Int
    <3>1. \A i \in S : i \in Int
      BY <1>2
    <3> QED BY <1>2, <2>1, <3>1, FS_Subset
  <2>3. Cardinality(places(r)) \in Nat /\ Cardinality(places(r)) # 0
    BY <2>1, <2>2, FS_CardinalityType, FS_EmptySet
  <2> QED BY <2>2, <2>3
<1>8. \A x \in DOMAIN bag : bag[x] \in Nat /\ bag[x] > 0
  BY DEF BagFits, IsABag
<1> HIDE DEF places, sent
<1>9. \A r : was(r) \in Nat
  BY <1>8
<1>10. /\ DOMAIN b = DOMAIN bag \cup sent
       /\ b = [r \in DOMAIN bag \cup sent |-> b[r]]
       /\ \A r \in sent : b[r] = was(r) + Cardinality(places(r))
       /\ \A r \in DOMAIN bag : r \notin sent => b[r] = bag[r]
  <2>1. b = [r \in DOMAIN bag \cup sent |->
                (IF r \in DOMAIN bag THEN bag[r] ELSE 0)
                  + (IF r \in sent THEN Cardinality(places(r)) ELSE 0)]
    BY <1>1, <1>6 DEF (+)
  <2>2. ASSUME NEW r \in DOMAIN bag, r \notin sent PROVE b[r] = bag[r]
    <3>1. b[r] = bag[r] + 0 /\ bag[r] \in Nat
      BY <1>8, <2>1, <2>2
    <3> QED BY <3>1
  <2> QED BY <2>1, <2>2
<1> HIDE DEF was
<1>11. IsABag(b)
  <2>1. ASSUME NEW r \in DOMAIN b PROVE b[r] \in Nat /\ b[r] > 0
    <3>1. CASE r \in sent
      <4>1. b[r] = was(r) + Cardinality(places(r)) /\ was(r) \in Nat
        BY <1>9, <1>10, <3>1
      <4>2. Cardinality(places(r)) \in Nat /\ Cardinality(places(r)) > 0
        BY <1>7, <3>1
      <4> QED BY <4>1, <4>2
    <3>2. CASE r \notin sent
      BY <1>8, <1>10, <3>2
    <3> QED BY <3>1, <3>2
  <2> QED BY <1>10, <2>1 DEF IsABag
<1> DEFINE old == Copies(bag, DOMAIN bag)
           all == Copies(b, DOMAIN b)
           new == all \ old
<1>12. \A r \in DOMAIN bag : \A n \in 1..bag[r] : n \in 1..b[r]
  <2> SUFFICES ASSUME NEW r \in DOMAIN bag, NEW n \in 1..bag[r] PROVE n \in 1..b[r]
    OBVIOUS
  <2>1. was(r) = bag[r] /\ bag[r] \in Nat
    BY <1>8 DEF was
  <2>2. r \in sent => Cardinality(places(r)) \in Nat
    BY <1>7
  <2>3. b[r] = bag[r] \/ (r \in sent /\ b[r] = bag[r] + Cardinality(places(r)))
    BY <1>10, <2>1
  <2> QED BY <2>1, <2>2, <2>3
<1>13. old \subseteq all
  BY <1>10, <1>12 DEF Copies
<1>14. ASSUME NEW p \in new
       PROVE  /\ p[1] \in sent /\ p = <<p[1], p[2]>> /\ p[2] \in Nat
              /\ p[2] - was(p[1]) \in 1..Cardinality(places(p[1]))
  <2>0. PICK r \in DOMAIN b : \E n \in 1..b[r] : p = <<r, n>>
    BY DEF Copies
  <2>1. PICK n \in 1..b[r] : p = <<r, n>>
    BY <2>0
  <2>2. ~(r \in DOMAIN bag /\ n \in 1..bag[r])
    BY <2>1 DEF Copies
  <2>3. n \in Nat /\ 1 <= n /\ n <= b[r] /\ was(r) \in Nat
    BY <1>9, <1>11 DEF IsABag
  <2>4. n > was(r)
    BY <1>8, <2>2, <2>3 DEF was
  <2>5. r \in sent
    <3> SUFFICES ASSUME r \notin sent PROVE FALSE
      OBVIOUS
    <3>1. r \in DOMAIN bag /\ b[r] = bag[r]
      BY <1>10
    <3> QED BY <2>2, <3>1
  <2>6. Cardinality(places(r)) \in Nat /\ b[r] = was(r) + Cardinality(places(r))
    BY <1>7, <1>10, <2>5
  <2>7. n - was(r) \in 1..Cardinality(places(r))
    BY <2>3, <2>4, <2>6
  <2> QED BY <2>1, <2>3, <2>5, <2>7
<1> DEFINE at(p) == Ascending(places(p[1]))[p[2] - was(p[1])]
           f == [p \in new |-> at(p)]
<1>15. ASSUME NEW p \in new PROVE at(p) \in places(p[1]) /\ at(p) \in S
  <2> DEFINE a == Ascending(places(p[1]))
             i == p[2] - was(p[1])
  <2>1. IsFiniteSet(places(p[1])) /\ places(p[1]) \in SUBSET Int
    BY <1>7, <1>14
  <2>2. a \in Seq(places(p[1])) /\ Len(a) = Cardinality(places(p[1]))
    BY <2>1, AscendingFits
  <2>3. i \in 1..Len(a)
    BY <1>14, <2>2
  <2> HIDE DEF a, i
  <2>4. a[i] \in places(p[1])
    BY <2>2, <2>3
  <2> QED BY <2>4 DEF a, i, places
<1>16. ASSUME NEW p \in new, NEW q \in new, at(p) = at(q) PROVE p = q
  <2>1. at(p) \in places(p[1]) /\ at(q) \in places(q[1])
    BY <1>15
  <2>2. of(at(p)) = p[1] /\ of(at(q)) = q[1]
    BY <2>1 DEF places
  <2>3. p[1] = q[1]
    BY <1>16, <2>2
  <2> DEFINE a == Ascending(places(p[1]))
             i == p[2] - was(p[1])
             j == q[2] - was(p[1])
  <2>4. IsFiniteSet(places(p[1])) /\ places(p[1]) \in SUBSET Int
    BY <1>7, <1>14
  <2>5. /\ a \in Seq(places(p[1])) /\ Len(a) = Cardinality(places(p[1]))
        /\ \A k, l \in 1..Len(a) : k < l => a[k] < a[l]
    BY <2>4, AscendingFits
  <2>6. i \in 1..Len(a) /\ j \in 1..Len(a) /\ i \in Int /\ j \in Int
    BY <1>14, <2>3, <2>5
  <2>7. a[i] = a[j]
    BY <1>16, <2>3
  <2> HIDE DEF a, i, j
  <2>8. a[i] \in Int /\ a[j] \in Int
    <3>1. a[i] \in places(p[1]) /\ a[j] \in places(p[1])
      BY <2>5, <2>6
    <3> QED BY <2>4, <3>1
  <2>9. ~(i < j) /\ ~(j < i)
    BY <2>5, <2>6, <2>7, <2>8
  <2>10. i = j
    BY <2>6, <2>9
  <2>11. p[2] = q[2]
    BY <1>9, <1>14, <2>10 DEF i, j
  <2> QED BY <1>14, <2>3, <2>11
<1>17. f \in Injection(new, S)
  <2>1. f \in [new -> S]
    BY <1>15
  <2>2. \A p, q \in new : f[p] = f[q] => p = q
    BY <1>16
  <2> HIDE DEF f
  <2> QED BY <2>1, <2>2 DEF Injection, IsInjective
<1> HIDE DEF f, new, old, all
<1>18. IsFiniteSet(new) /\ Cardinality(new) <= Cardinality(S) /\ Cardinality(new) \in Nat
  BY <1>2, <1>17, FS_Injection, FS_CardinalityType
<1>19. IsFiniteSet(all) /\ Cardinality(all) <= MaxCalls
  <2>1. all = old \cup new
    BY <1>13 DEF new
  <2>2. old \cap new = {}
    BY DEF new
  <2>3. IsFiniteSet(old) /\ Cardinality(old) = InFlight(bag)
    BY <1>3 DEF old, InFlight
  <2>4. /\ IsFiniteSet(all)
        /\ Cardinality(all) = Cardinality(old) + Cardinality(new) - Cardinality(old \cap new)
    BY <1>18, <2>1, <2>3, FS_Union
  <2>5. Cardinality(old \cap new) = 0
    BY <2>2, FS_EmptySet
  <2>6. Cardinality(all) = InFlight(bag) + Cardinality(new)
    BY <1>3, <1>18, <2>3, <2>4, <2>5
  <2>7. Cardinality(new) <= MaxCalls - InFlight(bag)
    BY <1>3, <1>4, <1>18
  <2> QED BY <1>3, <1>18, <2>4, <2>6, <2>7
<1>20. BagFits(b)
  BY <1>11, <1>19 DEF BagFits, InFlight, all
<1>21. ASSUME NEW C, \A t \in T : Starts(s, t) => Request(s, t) \notin C
       PROVE  Copies(b, C \cap DOMAIN b) = Copies(bag, C \cap DOMAIN bag)
  <2>1. \A r \in sent : r \notin C
    BY <1>5, <1>21 DEF sent
  <2>2. C \cap DOMAIN b = C \cap DOMAIN bag
    BY <1>10, <2>1
  <2>3. \A r \in C \cap DOMAIN bag : b[r] = bag[r]
    BY <1>10, <2>1
  <2> QED BY <2>2, <2>3 DEF Copies
<1>22. \A r \in DOMAIN b :
          r \in DOMAIN bag \/ \E t \in T : Starts(s, t) /\ r = Request(s, t)
  BY <1>5, <1>10 DEF sent
<1> QED BY <1>10, <1>20, <1>21, <1>22 DEF SameCopies, SentBy

(* The one request of a payment form is sent where there is room.          *)
LEMMA StartedOne ==
    ASSUME NEW s, NEW bag, BagFits(bag), InFlight(bag) < MaxCalls, NEW t, Starts(s, t),
           NEW b \in Started(s, bag, <<t>>)
    PROVE  b = bag (+) SetToBag({Request(s, t)})
<1> DEFINE asked == {i \in DOMAIN <<t>> : Starts(s, <<t>>[i])}
           room == MaxCalls - InFlight(bag)
           number == IF Cardinality(asked) < room THEN Cardinality(asked) ELSE room
<1>1. PICK S \in SUBSET asked : /\ Cardinality(S) = number
                                /\ b = bag (+) Sent(s, <<t>>, S)
  BY DEF Started, kSubset
<1>2. asked = {1}
  OBVIOUS
<1>3. Cardinality(asked) = 1
  BY <1>2, FS_Singleton
<1>4. room >= 1 /\ room \in Int
  <2>1. InFlight(bag) \in Nat /\ MaxCalls \in Nat
    BY FS_CardinalityType, BoundAssumption DEF BagFits, InFlight
  <2> QED BY <2>1
<1>5. number = 1
  BY <1>3, <1>4
<1>6. S # {}
  BY <1>1, <1>5, FS_EmptySet
<1>7. S = {1}
  BY <1>2, <1>6
<1>8. Sent(s, <<t>>, S) = [r \in {Request(s, t)} |-> Cardinality({1})]
  <2>1. {Request(s, <<t>>[i]) : i \in S} = {Request(s, t)}
    BY <1>7
  <2>2. \A r \in {Request(s, t)} : {i \in S : Request(s, <<t>>[i]) = r} = {1}
    BY <1>7
  <2> QED BY <2>1, <2>2 DEF Sent
<1>9. Sent(s, <<t>>, S) = SetToBag({Request(s, t)})
  BY <1>8, FS_Singleton DEF SetToBag
<1> QED BY <1>1, <1>9

-----------------------------------------------------------------------------
(* What the pages start: any thunk but a payout.                           *)
Quiet == Thunks \ {"setPaymentMethodSetting"}

LEMMA QuietNames ==
    {"fetchNetworkData", "fetchMuglePoolData", "fetchMuglePoolSharesSubmitted",
     "fetchMinerData", "fetchMinerTotalValidShares", "fetchMinerPaymentData",
     "fetchMinerImmatureBalance", "fetchMinerLatestBlockReward",
     "fetchMinerNextBlockReward", "fetchMinerPaymentTxSlate", "fetchRigData",
     "fetchMinerShareData", "getLatestMinerPayments", "getLatestMinerPaymentRange",
     "fetchNetworkRecentBlocks", "getMinedBlocksAlgos", "fetchMuglePoolRecentBlocks",
     "fetchMuglePoolBlocksMined", "getLatestBlock", "fetchMuglePoolLastBlock"} \subseteq Quiet
BY DEF Quiet, Thunks, Private, Scalars, NeedsHeight, WindowThunks

QuietView == [mount : Seq(Quiet), refresh : Seq(Quiet)]

LEMMA ViewsQuiet ==
    /\ NetworkDataView \in QuietView
    /\ MiningGraph \in QuietView
    /\ MuglePoolDataView \in QuietView
    /\ BlockRangeOf("fetchNetworkRecentBlocks") \in QuietView
    /\ BlockRangeOf("fetchMuglePoolRecentBlocks") \in QuietView
    /\ SharesSubmittedView \in QuietView
    /\ StatsTable \in QuietView
    /\ MinerDataView \in QuietView
    /\ RigGraph \in QuietView
    /\ MinerSharesView \in QuietView
    /\ BlockRewardsView \in QuietView
    /\ MinerPaymentView \in QuietView
    /\ PaymentDataView \in QuietView
    /\ LatestMinerPaymentsView \in QuietView
    /\ \A s : RigDataView(s) \in QuietView
    /\ \A k : TimerThunks(k) \in Seq(Quiet)
<1>1. ASSUME NEW mount \in Seq(Quiet), NEW refresh \in Seq(Quiet)
      PROVE  Component(mount, refresh) \in QuietView
  BY DEF Component, QuietView
<1>2. NetworkDataView \in QuietView
  <2>1. /\ <<"fetchNetworkData">> \in Seq(Quiet)
        /\ <<"fetchMuglePoolRecentBlocks", "fetchNetworkData">> \in Seq(Quiet)
    BY QuietNames
  <2> QED BY <1>1, <2>1 DEF NetworkDataView
<1>3. MiningGraph \in QuietView
  <2>1. <<"getMinedBlocksAlgos">> \in Seq(Quiet)
    BY QuietNames
  <2> QED BY <1>1, <2>1 DEF MiningGraph
<1>4. MuglePoolDataView \in QuietView
  <2>1. <<"fetchMuglePoolData", "fetchMuglePoolLastBlock">> \in Seq(Quiet)
    BY QuietNames
  <2> QED BY <1>1, <2>1 DEF MuglePoolDataView
<1>5. /\ BlockRangeOf("fetchNetworkRecentBlocks") \in QuietView
      /\ BlockRangeOf("fetchMuglePoolRecentBlocks") \in QuietView
  <2>1. /\ <<"fetchNetworkRecentBlocks">> \in Seq(Quiet)
        /\ <<"fetchMuglePoolRecentBlocks">> \in Seq(Quiet)
    BY QuietNames
  <2> QED BY <1>1, <2>1 DEF BlockRangeOf
<1>6. SharesSubmittedView \in QuietView
  <2>1. <<"fetchMuglePoolSharesSubmitted">> \in Seq(Quiet)
    BY QuietNames
  <2> QED BY <1>1, <2>1 DEF SharesSubmittedView
<1>7. StatsTable \in QuietView
  <2>1. <<"fetchNetworkData">> \in Seq(Quiet)
    BY QuietNames
  <2> QED BY <1>1, <2>1 DEF StatsTable
<1>8. MinerUpdate \in Seq(Quiet)
  BY QuietNames DEF MinerUpdate
<1>9. MinerDataView \in QuietView
  <2>1. <<"fetchMinerLatestBlockReward", "fetchMinerNextBlockReward">> \in Seq(Quiet)
    BY QuietNames
  <2>2. MinerUpdate \o <<"fetchMinerLatestBlockReward", "fetchMinerNextBlockReward">>
           \in Seq(Quiet)
    BY <1>8, <2>1
  <2> QED BY <1>1, <2>2 DEF MinerDataView
<1>10. RigUpdate \in Seq(Quiet)
  <2>1. <<"fetchRigData">> \in Seq(Quiet)
    BY QuietNames
  <2> QED BY <1>8, <2>1 DEF RigUpdate
<1>11. ASSUME NEW s PROVE RigDataView(s) \in QuietView
  <2>1. <<>> \in Seq(Quiet)
    OBVIOUS
  <2> QED BY <1>1, <1>10, <2>1 DEF RigDataView
<1>12. MinerSharesView \in QuietView
  <2>1. <<"fetchMinerData", "fetchMinerTotalValidShares">> \in Seq(Quiet)
    BY QuietNames
  <2> QED BY <1>1, <2>1 DEF MinerSharesView
<1>13. BlockRewardsView \in QuietView
  <2>1. /\ <<"fetchNetworkRecentBlocks", "fetchNetworkData", "fetchMuglePoolData",
             "fetchMinerShareData">> \in Seq(Quiet)
        /\ <<"fetchNetworkRecentBlocks">> \in Seq(Quiet)
    BY QuietNames
  <2>2. <<"fetchNetworkRecentBlocks">>
           \o <<"fetchNetworkRecentBlocks", "fetchNetworkData", "fetchMuglePoolData",
                "fetchMinerShareData">> \in Seq(Quiet)
    BY <2>1
  <2> QED BY <1>1, <2>1, <2>2 DEF BlockRewardsView
<1>14. MinerPaymentView \in QuietView /\ LatestMinerPaymentsView \in QuietView
  <2>1. /\ <<"getLatestMinerPayments">> \in Seq(Quiet)
        /\ <<"getLatestMinerPaymentRange">> \in Seq(Quiet) /\ <<>> \in Seq(Quiet)
    BY QuietNames
  <2> QED BY <1>1, <2>1 DEF MinerPaymentView, LatestMinerPaymentsView
<1>15. PaymentDataView \in QuietView
  <2>1. <<"fetchMinerPaymentData", "fetchMinerImmatureBalance">> \in Seq(Quiet)
    BY QuietNames
  <2> QED BY <1>1, <2>1 DEF PaymentDataView
<1>16. ASSUME NEW k PROVE TimerThunks(k) \in Seq(Quiet)
  <2>1. <<"fetchRigData">> \in Seq(Quiet)
    BY QuietNames
  <2> QED BY <1>10, <2>1 DEF TimerThunks
<1>17. RigGraph \in QuietView
  BY <1>3 DEF RigGraph
<1> QED BY <1>2, <1>3, <1>4, <1>5, <1>6, <1>7, <1>9, <1>11, <1>12, <1>13, <1>14, <1>15,
           <1>16, <1>17

LEMMA PagesQuiet ==
    ASSUME NEW s, NEW p \in Routes
    PROVE  /\ Mounts(s, p) \in Seq(Quiet)
           /\ \A old : Refreshes(old, s, p) \in Seq(Quiet)
<1>1. Components(s, p) \in Seq(QuietView)
  <2>1. CASE p = "home"
    <3>1. Components(s, p) = <<NetworkDataView, MiningGraph, MuglePoolDataView, MiningGraph,
                               BlockRangeOf("fetchNetworkRecentBlocks")>>
      BY <2>1 DEF Components
    <3> QED BY <3>1, ViewsQuiet
  <2>2. CASE p = "pool"
    <3>1. Components(s, p) = <<MuglePoolDataView, MiningGraph, SharesSubmittedView, StatsTable,
                               BlockRangeOf("fetchMuglePoolRecentBlocks")>>
      BY <2>2 DEF Components
    <3> QED BY <3>1, ViewsQuiet
  <2>3. CASE p = "miner"
    <3>1. Components(s, p) = <<MinerDataView, MiningGraph, MinerSharesView, BlockRewardsView>>
      BY <2>3 DEF Components
    <3> QED BY <3>1, ViewsQuiet
  <2>4. CASE p = "rigs"
    <3>1. Components(s, p) = <<RigDataView(s), RigGraph, MinerSharesView, BlockRewardsView>>
      BY <2>4 DEF Components
    <3> QED BY <3>1, ViewsQuiet
  <2>5. CASE p = "payment"
    <3>1. Components(s, p) = <<MinerPaymentView, PaymentDataView, LatestMinerPaymentsView>>
      BY <2>5 DEF Components
    <3> QED BY <3>1, ViewsQuiet
  <2>6. CASE p = "login"
    BY <2>6 DEF Components
  <2> QED BY <2>1, <2>2, <2>3, <2>4, <2>5, <2>6 DEF Routes
<1> DEFINE all == Components(s, p)
<1> HIDE DEF all
<1>2. /\ DOMAIN all = 1..Len(all) /\ Len(all) \in Nat
      /\ \A i \in DOMAIN all : all[i].mount \in Seq(Quiet) /\ all[i].refresh \in Seq(Quiet)
  <2>1. all \in Seq(QuietView)
    BY <1>1 DEF all
  <2>2. \A i \in DOMAIN all : all[i] \in QuietView
    BY <2>1
  <2> QED BY <2>1, <2>2 DEF QuietView
<1>3. /\ [i \in DOMAIN all |-> all[i].mount] \in Seq(Seq(Quiet))
      /\ [i \in DOMAIN all |-> all[i].refresh] \in Seq(Seq(Quiet))
  BY <1>2
<1>4. Mounts(s, p) \in Seq(Quiet)
  BY <1>3, FlattenFits DEF Mounts, all
<1>5. ASSUME NEW old PROVE Refreshes(old, s, p) \in Seq(Quiet)
  <2>1. <<>> \in Seq(Quiet)
    OBVIOUS
  <2> QED BY <1>3, <2>1, FlattenFits DEF Refreshes, all
<1> QED BY <1>4, <1>5

-----------------------------------------------------------------------------
(* Dispatch, field by field.                                               *)
NetType(net) ==
    /\ net.historical \in Seq(Rows(Height))
    /\ net.blocksByHeight \subseteq Height
    /\ net.recentBlocks \subseteq Height
    /\ net.minedBlockAlgos \in [c29 : Seq(Height), c31 : Seq(Height)]
    /\ net.latestBlock \in Height \cup {0}

PoolType(pool) ==
    /\ pool.historical \in Seq(Rows(Height))
    /\ pool.lastBlockMined \in Height \cup {0}
    /\ pool.recentBlocks \subseteq Blocks(Height)
    /\ pool.poolBlocksMined \in [c29 : SUBSET Height, c31 : SUBSET Height]
    /\ pool.poolBlocksOrphaned \subseteq Height
    /\ pool.sharesSubmitted \in Seq(Rows(Height))

MineType(mine) ==
    /\ mine.historical \in Seq(Rows(Height))
    /\ mine.rigGpsData \in Seq(Rows(Height))
    /\ mine.minerShareData \subseteq Rows(Height)
    /\ mine.rigShareData \subseteq Rows(Height)
    /\ mine.rigWorkers \subseteq Users
    /\ mine.isPaymentSettingProcessing \in BOOLEAN
    /\ mine.isTxSlateLoading \in BOOLEAN

OwnedType(mine) ==
    /\ mine.totalSharesSubmitted \in Owner
    /\ mine.paymentData \in Owner
    /\ mine.minerImmatureBalance \in Owner
    /\ mine.latestBlockMugleEarned \in Owner
    /\ mine.nextBlockMugleEarned \in Owner
    /\ mine.latestMinerPayments \in Owner
    /\ mine.totalPayoutsAmount \in Owner
    /\ mine.minerPaymentTxSlate \in Owner
    /\ mine.paymentFormFeedback \in Owner

AuthType(auth) ==
    /\ auth.account \in Owner
    /\ auth.isCreatingAccount \in BOOLEAN
    /\ auth.isLoggingIn \in BOOLEAN
    /\ auth.authError \in BOOLEAN

LEMMA StoreParts ==
    ASSUME NEW s
    PROVE  StoreType(s, Height)
              <=> /\ NetType(s.networkData) /\ PoolType(s.muglePoolData)
                  /\ MineType(s.minerData) /\ OwnedType(s.minerData) /\ AuthType(s.auth)
BY DEF StoreType, NetType, PoolType, MineType, OwnedType, AuthType, NetworkBlockData,
       MuglePoolBlockData, PoolSharesSubmitted, MinerBlockData, MinerShareData, Account

(* What an action may carry.                                               *)
DataFits(t, d) ==
    /\ t = "NETWORK_DATA" =>
          d.historical \in Seq(Rows(Height)) /\ d.blocksByHeight \subseteq Height
    /\ t = "NETWORK_RECENT_BLOCKS" => d \subseteq Height
    /\ t = "MINED_BLOCKS_ALGOS" => d \in [c29 : Seq(Height), c31 : Seq(Height)]
    /\ t \in {"LATEST_BLOCK", "MUGLE_POOL_LAST_BLOCK_MINED"} => d \in Height
    /\ t \in {"MUGLE_POOL_DATA", "MUGLE_POOL_SHARES_SUBMITTED", "MINER_DATA"} =>
          d \in Seq(Rows(Height))
    /\ t = "MUGLE_POOL_RECENT_BLOCKS" => d \subseteq Blocks(Height)
    /\ t = "POOL_BLOCKS_MINED" =>
          /\ d.c29BlocksFound \subseteq Height /\ d.c31BlocksFound \subseteq Height
          /\ d.blocksOrphaned \subseteq Height
    /\ t = "RIG_DATA" =>
          /\ d.rigGpsData \in Seq(Rows(Height)) /\ d.rigShareData \subseteq Rows(Height)
          /\ d.rigWorkers \subseteq Users
    /\ t = "MINER_SHARE_DATA" => d \subseteq Rows(Height)
    /\ t \in {"MINER_TOTAL_VALID_SHARES", "MINER_PAYMENT_DATA", "MINER_IMMATURE_BALANCE",
              "MINER_LATEST_BLOCK_MUGLE_EARNED", "MINER_NEXT_BLOCK_MUGLE_EARNED",
              "MINER_PAYMENT_TX_SLATE", "LATEST_MINER_PAYMENTS", "PAYMENT_FORM_FEEDBACK",
              "MANUAL_PAYMENT_SUBMISSION", "ACCOUNT"} => d \in Owner
    /\ t \in {"IS_TX_SLATE_LOADING", "IS_PAYMENT_SETTING_PROCESSING", "AUTH_ERROR",
              "IS_LOGGING_IN", "IS_CREATING_ACCOUNT"} => d \in BOOLEAN

LEMMA NetDispatched ==
    ASSUME NEW s, NEW t, NEW d, NetType(s.networkData), DataFits(t, d)
    PROVE  NetType(Dispatch(s, t, d).networkData)
<1> DEFINE a == [type |-> t, data |-> d]
           net == NetworkData(s.networkData, a)
<1>1. Dispatch(s, t, d).networkData = net
  BY DEF Dispatch, Reducer
<1>2. /\ net.historical = IF t = "NETWORK_DATA" THEN d.historical
                          ELSE s.networkData.historical
      /\ net.blocksByHeight = IF t = "NETWORK_DATA" THEN d.blocksByHeight
                              ELSE s.networkData.blocksByHeight
      /\ net.recentBlocks = IF t = "NETWORK_RECENT_BLOCKS" THEN d
                            ELSE s.networkData.recentBlocks
      /\ net.minedBlockAlgos = IF t = "MINED_BLOCKS_ALGOS" THEN d
                               ELSE s.networkData.minedBlockAlgos
      /\ net.latestBlock = IF t = "LATEST_BLOCK" THEN d ELSE s.networkData.latestBlock
  BY DEF NetworkData, NetworkHistorical, BlocksByHeight, NetworkRecentBlocks,
         MinedBlockAlgos, LatestBlock, Takes
<1> HIDE DEF net
<1> QED BY <1>1, <1>2 DEF NetType, DataFits

LEMMA PoolDispatched ==
    ASSUME NEW s, NEW t, NEW d, PoolType(s.muglePoolData), DataFits(t, d)
    PROVE  PoolType(Dispatch(s, t, d).muglePoolData)
<1> DEFINE a == [type |-> t, data |-> d]
           pool == MuglePoolData(s.muglePoolData, a)
           was == s.muglePoolData
<1>1. Dispatch(s, t, d).muglePoolData = pool
  BY DEF Dispatch, Reducer
<1>2. /\ pool.historical = IF t = "MUGLE_POOL_DATA" THEN d ELSE was.historical
      /\ pool.lastBlockMined = IF t = "MUGLE_POOL_LAST_BLOCK_MINED" THEN d
                               ELSE was.lastBlockMined
      /\ pool.recentBlocks = IF t = "MUGLE_POOL_RECENT_BLOCKS" THEN d ELSE was.recentBlocks
      /\ pool.poolBlocksMined = IF t = "POOL_BLOCKS_MINED"
                                THEN [c29 |-> d.c29BlocksFound, c31 |-> d.c31BlocksFound]
                                ELSE was.poolBlocksMined
      /\ pool.poolBlocksOrphaned = IF t = "POOL_BLOCKS_MINED" THEN d.blocksOrphaned
                                   ELSE was.poolBlocksOrphaned
      /\ pool.sharesSubmitted = IF t = "MUGLE_POOL_SHARES_SUBMITTED" THEN d
                                ELSE was.sharesSubmitted
  BY DEF MuglePoolData, PoolHistorical, LastBlockMined, PoolRecentBlocks, PoolBlocksMined,
         PoolBlocksOrphaned, SharesSubmitted, Takes
<1> HIDE DEF pool
<1> QED BY <1>1, <1>2 DEF PoolType, DataFits

(* The reducers of the miner's data.                                       *)
Out(t, d) == t = "ACCOUNT" /\ d = NoUser

MineBecomes(m, n, t, d) ==
    /\ n.historical = IF Out(t, d) THEN <<>>
                      ELSE IF t = "MINER_DATA" THEN d ELSE m.historical
    /\ n.rigGpsData = IF t = "RIG_DATA" THEN d.rigGpsData ELSE m.rigGpsData
    /\ n.rigShareData = IF t = "RIG_DATA" THEN d.rigShareData ELSE m.rigShareData
    /\ n.rigWorkers = IF t = "RIG_DATA" THEN d.rigWorkers ELSE m.rigWorkers
    /\ n.minerShareData = IF Out(t, d) THEN {}
                          ELSE IF t = "MINER_SHARE_DATA" THEN d ELSE m.minerShareData
    /\ n.isPaymentSettingProcessing =
          IF t \in {"MANUAL_PAYMENT_SUBMISSION", "MANUAL_PAYMENT_FAILURE"}
             \/ Out(t, d)
          THEN FALSE
          ELSE IF t = "IS_PAYMENT_SETTING_PROCESSING" THEN d
          ELSE m.isPaymentSettingProcessing
    /\ n.isTxSlateLoading = IF Out(t, d) THEN FALSE
                            ELSE IF t = "IS_TX_SLATE_LOADING" THEN d
                            ELSE m.isTxSlateLoading

LEMMA MineFields ==
    ASSUME NEW s, NEW t, NEW d
    PROVE  MineBecomes(s.minerData, Dispatch(s, t, d).minerData, t, d)
<1> DEFINE a == [type |-> t, data |-> d]
           old == s.minerData
           new == MinerData(old, a)
<1>1. Dispatch(s, t, d).minerData = new
  BY DEF Dispatch, Reducer
<1>2. SignsOut(a) <=> Out(t, d)
  BY DEF SignsOut, Out
<1>3. a.type = t /\ a.data = d
  OBVIOUS
<1>4. /\ new.historical = MinerHistorical(old.historical, a)
      /\ new.rigGpsData = RigGpsData(old.rigGpsData, a)
      /\ new.rigShareData = RigShareData(old.rigShareData, a)
      /\ new.rigWorkers = RigWorkers(old.rigWorkers, a)
      /\ new.minerShareData = MinerShareDataState(old.minerShareData, a)
      /\ new.isPaymentSettingProcessing
            = IsPaymentSettingProcessing(old.isPaymentSettingProcessing, a)
      /\ new.isTxSlateLoading = IsTxSlateLoading(old.isTxSlateLoading, a)
  BY DEF MinerData
<1> HIDE DEF a, new, old
<1>5. new.historical = IF Out(t, d) THEN <<>>
                                ELSE IF t = "MINER_DATA" THEN d ELSE old.historical
  BY <1>2, <1>3, <1>4 DEF MinerHistorical, Takes, TakesOrClears
<1>6. new.rigGpsData = IF t = "RIG_DATA" THEN d.rigGpsData ELSE old.rigGpsData
  BY <1>2, <1>3, <1>4 DEF RigGpsData, Takes, TakesOrClears
<1>7. new.rigShareData = IF t = "RIG_DATA" THEN d.rigShareData ELSE old.rigShareData
  BY <1>2, <1>3, <1>4 DEF RigShareData, Takes, TakesOrClears
<1>8. new.rigWorkers = IF t = "RIG_DATA" THEN d.rigWorkers ELSE old.rigWorkers
  BY <1>2, <1>3, <1>4 DEF RigWorkers, Takes, TakesOrClears
<1>9. new.minerShareData = IF Out(t, d) THEN {}
                                    ELSE IF t = "MINER_SHARE_DATA" THEN d ELSE old.minerShareData
  BY <1>2, <1>3, <1>4 DEF MinerShareDataState, Takes, TakesOrClears
<1>10. new.isPaymentSettingProcessing =
                    IF t \in {"MANUAL_PAYMENT_SUBMISSION", "MANUAL_PAYMENT_FAILURE"}
                       \/ Out(t, d)
                    THEN FALSE
                    ELSE IF t = "IS_PAYMENT_SETTING_PROCESSING" THEN d
                    ELSE old.isPaymentSettingProcessing
  BY <1>2, <1>3, <1>4 DEF IsPaymentSettingProcessing, Takes, TakesOrClears
<1>11. new.isTxSlateLoading = IF Out(t, d) THEN FALSE
                                      ELSE IF t = "IS_TX_SLATE_LOADING" THEN d
                                      ELSE old.isTxSlateLoading
  BY <1>2, <1>3, <1>4 DEF IsTxSlateLoading, Takes, TakesOrClears
<1>12. MineBecomes(old, new, t, d)
  BY <1>5, <1>6, <1>7, <1>8, <1>9, <1>10, <1>11 DEF MineBecomes
<1> QED BY <1>1, <1>12 DEF old

OwnedBecomes(m, n, t, d) ==
    LET becomes(old, type) == IF Out(t, d) THEN NoUser ELSE IF t = type THEN d ELSE old
    IN /\ n.totalSharesSubmitted
             = becomes(m.totalSharesSubmitted, "MINER_TOTAL_VALID_SHARES")
       /\ n.paymentData = becomes(m.paymentData, "MINER_PAYMENT_DATA")
       /\ n.minerImmatureBalance
             = becomes(m.minerImmatureBalance, "MINER_IMMATURE_BALANCE")
       /\ n.latestBlockMugleEarned
             = becomes(m.latestBlockMugleEarned, "MINER_LATEST_BLOCK_MUGLE_EARNED")
       /\ n.nextBlockMugleEarned
             = becomes(m.nextBlockMugleEarned, "MINER_NEXT_BLOCK_MUGLE_EARNED")
       /\ n.minerPaymentTxSlate
             = becomes(m.minerPaymentTxSlate, "MINER_PAYMENT_TX_SLATE")
       /\ n.latestMinerPayments
             = IF t = "LATEST_MINER_PAYMENTS" THEN d ELSE m.latestMinerPayments
       /\ n.totalPayoutsAmount
             = IF t = "LATEST_MINER_PAYMENTS" THEN d ELSE m.totalPayoutsAmount
       /\ n.paymentFormFeedback
             = IF t \in {"PAYMENT_FORM_FEEDBACK", "MANUAL_PAYMENT_SUBMISSION"} THEN d
               ELSE IF t \in {"IS_PAYMENT_SETTING_PROCESSING", "MANUAL_PAYMENT_FAILURE"}
                       \/ Out(t, d)
                    THEN NoUser
               ELSE m.paymentFormFeedback

LEMMA OwnedFields ==
    ASSUME NEW s, NEW t, NEW d
    PROVE  OwnedBecomes(s.minerData, Dispatch(s, t, d).minerData, t, d)
<1> DEFINE a == [type |-> t, data |-> d]
           old == s.minerData
           new == MinerData(old, a)
<1>1. Dispatch(s, t, d).minerData = new
  BY DEF Dispatch, Reducer
<1>2. SignsOut(a) <=> Out(t, d)
  BY DEF SignsOut, Out
<1>3. a.type = t /\ a.data = d
  OBVIOUS
<1>4. /\ new.totalSharesSubmitted = TotalSharesSubmitted(old.totalSharesSubmitted, a)
      /\ new.paymentData = PaymentData(old.paymentData, a)
      /\ new.minerImmatureBalance = MinerImmatureBalance(old.minerImmatureBalance, a)
      /\ new.latestBlockMugleEarned = LatestBlockMugleEarned(old.latestBlockMugleEarned, a)
      /\ new.nextBlockMugleEarned = NextBlockMugleEarned(old.nextBlockMugleEarned, a)
      /\ new.minerPaymentTxSlate = MinerPaymentTxSlate(old.minerPaymentTxSlate, a)
      /\ new.latestMinerPayments = LatestMinerPayments(old.latestMinerPayments, a)
      /\ new.totalPayoutsAmount = TotalPayoutsAmount(old.totalPayoutsAmount, a)
      /\ new.paymentFormFeedback = PaymentFormFeedback(old.paymentFormFeedback, a)
  BY DEF MinerData
<1> HIDE DEF a, new, old
<1>5. new.totalSharesSubmitted
         = IF Out(t, d) THEN NoUser
           ELSE IF t = "MINER_TOTAL_VALID_SHARES" THEN d ELSE old.totalSharesSubmitted
  BY <1>2, <1>3, <1>4 DEF TotalSharesSubmitted, Takes, TakesOrClears
<1>6. new.paymentData
         = IF Out(t, d) THEN NoUser
           ELSE IF t = "MINER_PAYMENT_DATA" THEN d ELSE old.paymentData
  BY <1>2, <1>3, <1>4 DEF PaymentData, Takes, TakesOrClears
<1>7. new.minerImmatureBalance
         = IF Out(t, d) THEN NoUser
           ELSE IF t = "MINER_IMMATURE_BALANCE" THEN d ELSE old.minerImmatureBalance
  BY <1>2, <1>3, <1>4 DEF MinerImmatureBalance, Takes, TakesOrClears
<1>8. new.latestBlockMugleEarned
         = IF Out(t, d) THEN NoUser
           ELSE IF t = "MINER_LATEST_BLOCK_MUGLE_EARNED" THEN d ELSE old.latestBlockMugleEarned
  BY <1>2, <1>3, <1>4 DEF LatestBlockMugleEarned, Takes, TakesOrClears
<1>9. new.nextBlockMugleEarned
         = IF Out(t, d) THEN NoUser
           ELSE IF t = "MINER_NEXT_BLOCK_MUGLE_EARNED" THEN d ELSE old.nextBlockMugleEarned
  BY <1>2, <1>3, <1>4 DEF NextBlockMugleEarned, Takes, TakesOrClears
<1>10. new.minerPaymentTxSlate
         = IF Out(t, d) THEN NoUser
           ELSE IF t = "MINER_PAYMENT_TX_SLATE" THEN d ELSE old.minerPaymentTxSlate
  BY <1>2, <1>3, <1>4 DEF MinerPaymentTxSlate, Takes, TakesOrClears
<1>11. new.latestMinerPayments
         = IF t = "LATEST_MINER_PAYMENTS" THEN d ELSE old.latestMinerPayments
  BY <1>2, <1>3, <1>4 DEF LatestMinerPayments, Takes, TakesOrClears
<1>12. new.totalPayoutsAmount
         = IF t = "LATEST_MINER_PAYMENTS" THEN d ELSE old.totalPayoutsAmount
  BY <1>2, <1>3, <1>4 DEF TotalPayoutsAmount, Takes, TakesOrClears
<1>13. new.paymentFormFeedback
         = IF t \in {"PAYMENT_FORM_FEEDBACK", "MANUAL_PAYMENT_SUBMISSION"} THEN d
                      ELSE IF t \in {"IS_PAYMENT_SETTING_PROCESSING", "MANUAL_PAYMENT_FAILURE"}
                              \/ Out(t, d)
                           THEN NoUser
                      ELSE old.paymentFormFeedback
  BY <1>2, <1>3, <1>4 DEF PaymentFormFeedback, Out
<1>14. OwnedBecomes(old, new, t, d)
  BY <1>5, <1>6, <1>7, <1>8, <1>9, <1>10, <1>11, <1>12, <1>13 DEF OwnedBecomes
<1> QED BY <1>1, <1>14 DEF old

LEMMA MineDispatched ==
    ASSUME NEW s, NEW t, NEW d, MineType(s.minerData), OwnedType(s.minerData), DataFits(t, d)
    PROVE  MineType(Dispatch(s, t, d).minerData) /\ OwnedType(Dispatch(s, t, d).minerData)
<1>1. MineType(Dispatch(s, t, d).minerData)
  <2> DEFINE m == s.minerData
             n == Dispatch(s, t, d).minerData
  <2>0. MineBecomes(m, n, t, d) /\ MineType(m)
    BY MineFields
  <2> HIDE DEF m, n
  <2>1. n.historical \in Seq(Rows(Height)) /\ n.rigGpsData \in Seq(Rows(Height))
    BY <2>0 DEF MineBecomes, MineType, DataFits
  <2>2. /\ n.minerShareData \subseteq Rows(Height) /\ n.rigShareData \subseteq Rows(Height)
        /\ n.rigWorkers \subseteq Users
    BY <2>0 DEF MineBecomes, MineType, DataFits
  <2>3. /\ m.isPaymentSettingProcessing \in BOOLEAN /\ m.isTxSlateLoading \in BOOLEAN
        /\ t \in {"IS_TX_SLATE_LOADING", "IS_PAYMENT_SETTING_PROCESSING"} => d \in BOOLEAN
    BY <2>0 DEF MineType, DataFits
  <2>4. n.isPaymentSettingProcessing =
           IF t \in {"MANUAL_PAYMENT_SUBMISSION", "MANUAL_PAYMENT_FAILURE"} \/ Out(t, d)
           THEN FALSE
           ELSE IF t = "IS_PAYMENT_SETTING_PROCESSING" THEN d
           ELSE m.isPaymentSettingProcessing
    BY <2>0 DEF MineBecomes
  <2>5. n.isTxSlateLoading = IF Out(t, d) THEN FALSE
                             ELSE IF t = "IS_TX_SLATE_LOADING" THEN d ELSE m.isTxSlateLoading
    BY <2>0 DEF MineBecomes
  <2>6. n.isPaymentSettingProcessing \in BOOLEAN
    BY <2>3, <2>4
  <2>7. n.isTxSlateLoading \in BOOLEAN
    BY <2>3, <2>5
  <2>8. MineType(n)
    BY <2>1, <2>2, <2>6, <2>7 DEF MineType
  <2> QED BY <2>8 DEF n
<1>2. OwnedType(Dispatch(s, t, d).minerData)
  <2> DEFINE m == s.minerData
             n == Dispatch(s, t, d).minerData
  <2>1. OwnedBecomes(m, n, t, d) /\ OwnedType(m)
    BY OwnedFields
  <2> HIDE DEF m, n
  <2>2. OwnedType(n)
    BY <2>1 DEF OwnedBecomes, OwnedType, DataFits, Owner
  <2> QED BY <2>2 DEF n
<1> QED BY <1>1, <1>2

AuthBecomes(m, n, t, d) ==
    /\ n.account = IF t = "ACCOUNT" THEN d ELSE m.account
    /\ n.isCreatingAccount =
          IF t \in {"ACCOUNT", "IS_LOGGING_IN", "AUTH_ERROR"} THEN FALSE
          ELSE IF t = "IS_CREATING_ACCOUNT" THEN d ELSE m.isCreatingAccount
    /\ n.isLoggingIn =
          IF t \in {"ACCOUNT", "AUTH_ERROR"} THEN FALSE
          ELSE IF t = "IS_LOGGING_IN" THEN d ELSE m.isLoggingIn
    /\ n.authError =
          IF t = "AUTH_ERROR" THEN TRUE
          ELSE IF t \in {"IS_LOGGING_IN", "IS_CREATING_ACCOUNT"} /\ d THEN FALSE
          ELSE m.authError

LEMMA AuthFields ==
    ASSUME NEW s, NEW t, NEW d
    PROVE  AuthBecomes(s.auth, Dispatch(s, t, d).auth, t, d)
<1> DEFINE a == [type |-> t, data |-> d]
           old == s.auth
           new == Auth(old, a)
<1>1. Dispatch(s, t, d).auth = new
  BY DEF Dispatch, Reducer
<1>2. a.type = t /\ a.data = d
  OBVIOUS
<1>3. /\ new.account = AccountState(old.account, a)
      /\ new.isCreatingAccount = IsCreatingAccount(old.isCreatingAccount, a)
      /\ new.isLoggingIn = IsLoggingIn(old.isLoggingIn, a)
      /\ new.authError = AuthError(old.authError, a)
  BY DEF Auth
<1> HIDE DEF a, new, old
<1>4. new.account = IF t = "ACCOUNT" THEN d ELSE old.account
  BY <1>2, <1>3 DEF AccountState, Takes, TakesOrClears
<1>5. new.isCreatingAccount =
                    IF t \in {"ACCOUNT", "IS_LOGGING_IN", "AUTH_ERROR"} THEN FALSE
                    ELSE IF t = "IS_CREATING_ACCOUNT" THEN d ELSE old.isCreatingAccount
  BY <1>2, <1>3 DEF IsCreatingAccount, Takes, TakesOrClears
<1>6. new.isLoggingIn =
                    IF t \in {"ACCOUNT", "AUTH_ERROR"} THEN FALSE
                    ELSE IF t = "IS_LOGGING_IN" THEN d ELSE old.isLoggingIn
  BY <1>2, <1>3 DEF IsLoggingIn, Takes, TakesOrClears
<1>7. new.authError =
                    IF t = "AUTH_ERROR" THEN TRUE
                    ELSE IF t \in {"IS_LOGGING_IN", "IS_CREATING_ACCOUNT"} /\ d THEN FALSE
                    ELSE old.authError
  BY <1>2, <1>3 DEF AuthError, Takes, TakesOrClears
<1>8. AuthBecomes(old, new, t, d)
  BY <1>4, <1>5, <1>6, <1>7 DEF AuthBecomes
<1> QED BY <1>1, <1>8 DEF old

LEMMA AuthDispatched ==
    ASSUME NEW s, NEW t, NEW d, AuthType(s.auth), DataFits(t, d)
    PROVE  AuthType(Dispatch(s, t, d).auth)
<1> DEFINE m == s.auth
           n == Dispatch(s, t, d).auth
<1>1. AuthBecomes(m, n, t, d) /\ AuthType(m)
  BY AuthFields
<1> HIDE DEF m, n
<1>2. n.account \in Owner
  BY <1>1 DEF AuthBecomes, AuthType, DataFits
<1>3. /\ m.isCreatingAccount \in BOOLEAN /\ m.isLoggingIn \in BOOLEAN
      /\ m.authError \in BOOLEAN
      /\ t \in {"IS_LOGGING_IN", "IS_CREATING_ACCOUNT"} => d \in BOOLEAN
  BY <1>1 DEF AuthType, DataFits
<1>4. /\ n.isCreatingAccount =
            IF t \in {"ACCOUNT", "IS_LOGGING_IN", "AUTH_ERROR"} THEN FALSE
            ELSE IF t = "IS_CREATING_ACCOUNT" THEN d ELSE m.isCreatingAccount
      /\ n.isLoggingIn =
            IF t \in {"ACCOUNT", "AUTH_ERROR"} THEN FALSE
            ELSE IF t = "IS_LOGGING_IN" THEN d ELSE m.isLoggingIn
      /\ n.authError =
            IF t = "AUTH_ERROR" THEN TRUE
            ELSE IF t \in {"IS_LOGGING_IN", "IS_CREATING_ACCOUNT"} /\ d THEN FALSE
            ELSE m.authError
  BY <1>1 DEF AuthBecomes
<1>5. n.isCreatingAccount \in BOOLEAN
  BY <1>3, <1>4
<1>6. n.isLoggingIn \in BOOLEAN
  BY <1>3, <1>4
<1>7. n.authError \in BOOLEAN
  BY <1>3, <1>4
<1>8. AuthType(n)
  BY <1>2, <1>5, <1>6, <1>7 DEF AuthType
<1> QED BY <1>8 DEF n

LEMMA DispatchFits ==
    ASSUME NEW s, NEW t, NEW d, StoreType(s, Height), DataFits(t, d)
    PROVE  StoreType(Dispatch(s, t, d), Height)
BY NetDispatched, PoolDispatched, MineDispatched, AuthDispatched, StoreParts

LEMMA LatestDispatched ==
    ASSUME NEW s, NEW t, NEW d
    PROVE  Latest(Dispatch(s, t, d)) = IF t = "LATEST_BLOCK" THEN d ELSE Latest(s)
BY DEF Dispatch, Reducer, NetworkData, LatestBlock, Takes, Latest

-----------------------------------------------------------------------------
(* Whose data an action brings to the slices that signing out clears.      *)
DataOwners(t, d) ==
    IF t = "MINER_DATA" THEN Owners(d)
    ELSE IF t = "MINER_SHARE_DATA" THEN RowOwners(d)
    ELSE IF t \in {"MINER_TOTAL_VALID_SHARES", "MINER_PAYMENT_DATA", "MINER_IMMATURE_BALANCE",
                   "MINER_LATEST_BLOCK_MUGLE_EARNED", "MINER_NEXT_BLOCK_MUGLE_EARNED",
                   "MINER_PAYMENT_TX_SLATE", "PAYMENT_FORM_FEEDBACK",
                   "MANUAL_PAYMENT_SUBMISSION"} THEN {d}
    ELSE {}

LEMMA OwnersDispatched ==
    ASSUME NEW s, NEW t, NEW d
    PROVE  ClearedOwners(Dispatch(s, t, d))
              \subseteq (IF Out(t, d) THEN {} ELSE ClearedOwners(s)) \cup {NoUser}
                           \cup DataOwners(t, d)
<1> DEFINE m == s.minerData
           n == Dispatch(s, t, d).minerData
           all == (IF Out(t, d) THEN {} ELSE ClearedOwners(s)) \cup {NoUser} \cup DataOwners(t, d)
<1>1. MineBecomes(m, n, t, d) /\ OwnedBecomes(m, n, t, d)
  BY MineFields, OwnedFields
<1>2. /\ ClearedOwners(Dispatch(s, t, d)) =
            {n.totalSharesSubmitted, n.paymentData, n.minerImmatureBalance,
             n.latestBlockMugleEarned, n.nextBlockMugleEarned, n.minerPaymentTxSlate,
             n.paymentFormFeedback}
            \cup Owners(n.historical) \cup RowOwners(n.minerShareData)
      /\ ClearedOwners(s) =
            {m.totalSharesSubmitted, m.paymentData, m.minerImmatureBalance,
             m.latestBlockMugleEarned, m.nextBlockMugleEarned, m.minerPaymentTxSlate,
             m.paymentFormFeedback}
            \cup Owners(m.historical) \cup RowOwners(m.minerShareData)
  BY DEF ClearedOwners
<1> HIDE DEF m, n
<1>3. Out(t, d) => t = "ACCOUNT"
  BY DEF Out
<1>4. n.totalSharesSubmitted \in all /\ n.paymentData \in all
  BY <1>1, <1>2, <1>3 DEF OwnedBecomes, DataOwners
<1>5. n.minerImmatureBalance \in all /\ n.latestBlockMugleEarned \in all
  BY <1>1, <1>2, <1>3 DEF OwnedBecomes, DataOwners
<1>6. n.nextBlockMugleEarned \in all /\ n.minerPaymentTxSlate \in all
  BY <1>1, <1>2, <1>3 DEF OwnedBecomes, DataOwners
<1>7. n.paymentFormFeedback \in all
  BY <1>1, <1>2, <1>3 DEF OwnedBecomes, DataOwners
<1>8. Owners(n.historical) \subseteq all
  <2>1. n.historical = IF Out(t, d) THEN <<>>
                       ELSE IF t = "MINER_DATA" THEN d ELSE m.historical
    BY <1>1 DEF MineBecomes
  <2>2. CASE Out(t, d)
    BY <2>1, <2>2 DEF Owners
  <2>3. CASE ~Out(t, d) /\ t = "MINER_DATA"
    BY <2>1, <2>3 DEF DataOwners
  <2>4. CASE ~Out(t, d) /\ t # "MINER_DATA"
    BY <1>2, <2>1, <2>4
  <2> QED BY <2>2, <2>3, <2>4
<1>9. RowOwners(n.minerShareData) \subseteq all
  <2>1. n.minerShareData = IF Out(t, d) THEN {}
                           ELSE IF t = "MINER_SHARE_DATA" THEN d ELSE m.minerShareData
    BY <1>1 DEF MineBecomes
  <2>2. CASE Out(t, d)
    BY <2>1, <2>2 DEF RowOwners
  <2>3. CASE ~Out(t, d) /\ t = "MINER_SHARE_DATA"
    BY <2>1, <2>3 DEF DataOwners
  <2>4. CASE ~Out(t, d) /\ t # "MINER_SHARE_DATA"
    BY <1>2, <2>1, <2>4
  <2> QED BY <2>2, <2>3, <2>4
<1> HIDE DEF all
<1>10. ClearedOwners(Dispatch(s, t, d)) \subseteq all
  BY <1>2, <1>4, <1>5, <1>6, <1>7, <1>8, <1>9
<1> QED BY <1>10 DEF all

(* And to those that it leaves.                                            *)
KeptData(t, d) ==
    IF t = "RIG_DATA" THEN Owners(d.rigGpsData) \cup RowOwners(d.rigShareData) \cup d.rigWorkers
    ELSE IF t = "LATEST_MINER_PAYMENTS" THEN {d}
    ELSE {}

LEMMA KeptDispatched ==
    ASSUME NEW s, NEW t, NEW d
    PROVE  KeptOwners(Dispatch(s, t, d)) \subseteq KeptOwners(s) \cup KeptData(t, d)
<1> DEFINE m == s.minerData
           n == Dispatch(s, t, d).minerData
<1>1. MineBecomes(m, n, t, d) /\ OwnedBecomes(m, n, t, d)
  BY MineFields, OwnedFields
<1>2. /\ KeptOwners(Dispatch(s, t, d)) =
            {n.latestMinerPayments, n.totalPayoutsAmount}
            \cup Owners(n.rigGpsData) \cup RowOwners(n.rigShareData) \cup n.rigWorkers
      /\ KeptOwners(s) =
            {m.latestMinerPayments, m.totalPayoutsAmount}
            \cup Owners(m.rigGpsData) \cup RowOwners(m.rigShareData) \cup m.rigWorkers
  BY DEF KeptOwners
<1> HIDE DEF m, n
<1>3. CASE t = "RIG_DATA"
  <2>1. /\ n.rigGpsData = d.rigGpsData /\ n.rigShareData = d.rigShareData
        /\ n.rigWorkers = d.rigWorkers
    BY <1>1, <1>3 DEF MineBecomes
  <2>2. /\ n.latestMinerPayments = m.latestMinerPayments
        /\ n.totalPayoutsAmount = m.totalPayoutsAmount
    BY <1>1, <1>3 DEF OwnedBecomes
  <2> QED BY <1>2, <1>3, <2>1, <2>2 DEF KeptData
<1>4. CASE t # "RIG_DATA"
  <2>1. /\ n.rigGpsData = m.rigGpsData /\ n.rigShareData = m.rigShareData
        /\ n.rigWorkers = m.rigWorkers
    BY <1>1, <1>4 DEF MineBecomes
  <2>2. /\ n.latestMinerPayments \in {m.latestMinerPayments} \cup KeptData(t, d)
        /\ n.totalPayoutsAmount \in {m.totalPayoutsAmount} \cup KeptData(t, d)
    BY <1>1, <1>4 DEF OwnedBecomes, KeptData
  <2> QED BY <1>2, <2>1, <2>2
<1> QED BY <1>3, <1>4

-----------------------------------------------------------------------------
(* The helpers of the thunks.                                              *)
LEMMA HeightFinite ==
    ASSUME NEW S \in SUBSET Height
    PROVE  IsFiniteSet(S) /\ S \in SUBSET Int
<1>1. 1 \in Int /\ MaxTip \in Int
  BY BoundAssumption
<1>2. IsFiniteSet(Height)
  BY <1>1, FS_Interval DEF Height
<1>3. \A h \in Height : h \in Int
  BY <1>1 DEF Height
<1> QED BY <1>2, <1>3, FS_Subset

LEMMA LargestFits ==
    ASSUME NEW S \in SUBSET Int, IsFiniteSet(S), S # {}
    PROVE  Largest(S) \in S /\ \A y \in S : y <= Largest(S)
<1> DEFINE a == Ascending(S)
           n == Len(a)
<1>1. /\ a \in Seq(S) /\ \A i, j \in 1..Len(a) : i < j => a[i] < a[j]
      /\ \A h \in S : \E i \in 1..Len(a) : a[i] = h
  BY AscendingFits
<1> HIDE DEF a
<1>2. n \in Nat /\ n # 0
  <2>1. PICK h \in S : TRUE
    OBVIOUS
  <2>2. \E i \in 1..n : a[i] = h
    BY <1>1
  <2> QED BY <1>1, <2>2
<1>3. a[n] \in S
  BY <1>1, <1>2
<1>4. ASSUME NEW y \in S PROVE y <= a[n]
  <2>1. PICK i \in 1..n : a[i] = y
    BY <1>1
  <2>2. y \in Int /\ a[n] \in Int
    BY <1>3
  <2>3. i < n \/ i = n
    BY <1>2
  <2>4. y < a[n] \/ y = a[n]
    BY <1>1, <1>2, <2>1, <2>3
  <2> QED BY <2>2, <2>4
<1> QED BY <1>3, <1>4 DEF Largest

LEMMA NewestFits ==
    ASSUME NEW latest \in Int, NEW S \in SUBSET Height
    PROVE  /\ Newest(latest, S) \in Int /\ latest - BlockRange <= Newest(latest, S)
           /\ Newest(latest, S) \in {latest - BlockRange} \cup S
           /\ \A h \in S : h <= Newest(latest, S)
<1>1. latest - BlockRange \in Int
  BY BoundAssumption
<1>2. IsFiniteSet({latest - BlockRange} \cup S)
  <2>1. IsFiniteSet(S)
    BY HeightFinite
  <2>2. IsFiniteSet(S \cup {latest - BlockRange})
    BY <2>1, FS_AddElement
  <2>3. S \cup {latest - BlockRange} = {latest - BlockRange} \cup S
    OBVIOUS
  <2> QED BY <2>2, <2>3
<1> DEFINE T == {latest - BlockRange} \cup S
<1>3. T \in SUBSET Int /\ T # {}
  <2>1. \A h \in S : h \in Int
    BY HeightFinite
  <2> QED BY <1>1, <2>1
<1>4. Largest(T) \in T /\ \A y \in T : y <= Largest(T)
  BY <1>2, <1>3, LargestFits
<1> QED BY <1>3, <1>4 DEF Newest

LEMMA AnswersAre ==
    ASSUME NEW from \in Int, NEW to \in Int, tip \in Nat, NEW A \in Answers(from, to)
    PROVE  /\ A \in SUBSET Height
           /\ \E seen \in Int : /\ A = (from + 1)..seen \cap Height
                                /\ seen <= from \/ seen <= to
<1> DEFINE upper == IF to < tip THEN to ELSE tip
<1>1. PICK seen \in {from} \cup (from + 1)..upper : A = (from + 1)..seen \cap Height
  BY DEF Answers
<1>2. seen \in Int /\ (seen <= from \/ seen <= to)
  BY <1>1
<1> QED BY <1>1, <1>2

LEMMA AsRowsFit ==
    ASSUME NEW of \in Owner, NEW S \in SUBSET Height
    PROVE  /\ AsRows(of, S) \in Seq(Rows(Height))
           /\ Len(AsRows(of, S)) = Len(Ascending(S)) /\ Ascending(S) \in Seq(S)
           /\ \A i \in 1..Len(AsRows(of, S)) :
                 AsRows(of, S)[i].of = of /\ AsRows(of, S)[i].height = Ascending(S)[i]
<1> DEFINE a == Ascending(S)
<1>1. a \in Seq(S) /\ S \in SUBSET Height
  BY HeightFinite, AscendingFits
<1>2. AsRows(of, S) = [i \in DOMAIN a |-> [of |-> of, height |-> a[i]]]
  BY DEF AsRows
<1> HIDE DEF a
<1>3. \A i \in DOMAIN a : [of |-> of, height |-> a[i]] \in Rows(Height)
  BY <1>1 DEF Rows
<1>4. DOMAIN a = 1..Len(a) /\ Len(a) \in Nat
  BY <1>1
<1>5. AsRows(of, S) = [i \in 1..Len(a) |-> [of |-> of, height |-> a[i]]]
  BY <1>2, <1>4
<1>6. /\ AsRows(of, S) \in Seq(Rows(Height)) /\ Len(AsRows(of, S)) = Len(a)
      /\ \A i \in 1..Len(AsRows(of, S)) : AsRows(of, S)[i] = [of |-> of, height |-> a[i]]
  BY <1>3, <1>4, <1>5
<1>7. ASSUME NEW i \in 1..Len(AsRows(of, S))
      PROVE  AsRows(of, S)[i].of = of /\ AsRows(of, S)[i].height = a[i]
  <2>1. AsRows(of, S)[i] = [of |-> of, height |-> a[i]]
    BY <1>6
  <2>2. [of |-> of, height |-> a[i]].of = of /\ [of |-> of, height |-> a[i]].height = a[i]
    OBVIOUS
  <2> QED BY ONLY <2>1, <2>2
<1> QED BY <1>1, <1>6, <1>7 DEF a

LEMMA LastRowsFit ==
    ASSUME NEW T, NEW rows \in Seq(T)
    PROVE  \E off \in 0..Len(rows) :
              /\ LastRows(rows) \in Seq(T) /\ Len(LastRows(rows)) = Len(rows) - off
              /\ Len(LastRows(rows)) <= BlockRange
              /\ off > 0 => Len(LastRows(rows)) = BlockRange
              /\ \A i \in 1..Len(LastRows(rows)) : LastRows(rows)[i] = rows[off + i]
<1> DEFINE off == IF Len(rows) > BlockRange THEN Len(rows) - BlockRange ELSE 0
<1>1. BlockRange \in Nat /\ BlockRange # 0 /\ Len(rows) \in Nat
  BY BoundAssumption
<1>2. off \in 0..Len(rows) /\ Len(rows) - off <= BlockRange
      /\ (off > 0 => Len(rows) - off = BlockRange)
  BY <1>1
<1>3. LastRows(rows) = SubSeq(rows, off + 1, Len(rows))
  BY <1>1 DEF LastRows
<1> HIDE DEF off
<1>4. /\ LastRows(rows) \in Seq(T) /\ Len(LastRows(rows)) = Len(rows) - off
      /\ \A i \in 1..Len(rows) - off : LastRows(rows)[i] = rows[off + i]
  BY <1>1, <1>2, <1>3
<1> QED BY <1>2, <1>4

-----------------------------------------------------------------------------
(* Requests, and what an answer to one may change.                         *)
RequestFits(c, top) ==
    /\ c.thunk \in Thunks \cup {"login", "createUser"}
    /\ c.id \in Owner
    /\ c.thunk \in Private \cup {"login", "createUser"} => c.id \in Users
    /\ c.thunk \in NeedsHeight => c.latest \in 1..top
    /\ c.thunk \in WindowThunks => c.rows \in Seq(Rows(Height))
    /\ c.thunk = "fetchMinerShareData" => c.known \subseteq Rows(Height)
    /\ c.thunk = "fetchRigData" => c.workers \subseteq Users
    /\ c.thunk \in {"getMinedBlocksAlgos", "fetchMuglePoolRecentBlocks",
                    "fetchMuglePoolBlocksMined"} =>
          c.algos \in [c29 : Seq(Height), c31 : Seq(Height)]
    /\ c.thunk = "fetchMuglePoolBlocksMined" =>
          /\ c.mined \in [c29 : SUBSET Height, c31 : SUBSET Height]
          /\ c.orphaned \subseteq Height

(* The owners of the rigs a request remembers; Recalled has those of rows. *)
Handed(c) == IF c.thunk = "fetchRigData" THEN c.workers ELSE {}

SameAccount(s, new) ==
    /\ new.auth.account = s.auth.account
    /\ new.auth.isLoggingIn = s.auth.isLoggingIn
    /\ new.auth.isCreatingAccount = s.auth.isCreatingAccount

Histories(s, c, new) ==
    /\ \/ new.networkData.historical = s.networkData.historical
       \/ /\ c.thunk = "fetchNetworkData"
          /\ \E heights \in WindowAnswers(c) :
                new.networkData.historical = Extended(c, heights)
    /\ \/ new.muglePoolData.historical = s.muglePoolData.historical
       \/ /\ c.thunk = "fetchMuglePoolData"
          /\ \E heights \in WindowAnswers(c) :
                new.muglePoolData.historical = Extended(c, heights)
    /\ \/ new.minerData.historical = s.minerData.historical
       \/ /\ c.thunk = "fetchMinerData"
          /\ \E heights \in WindowAnswers(c) :
                new.minerData.historical = Extended(c, heights \cap Worked)

Outcome(s, c, o) ==
    /\ StoreType(o.store, Height) /\ Latest(o.store) \in {Latest(s)} \cup 1..tip
    /\ o.next \in Seq(Quiet)
    /\ SameAccount(s, o.store)
    /\ c.thunk # "setPaymentMethodSetting" =>
          o.store.minerData.isPaymentSettingProcessing = s.minerData.isPaymentSettingProcessing
    /\ c.thunk = "setPaymentMethodSetting" => ~o.store.minerData.isPaymentSettingProcessing
    /\ ClearedOwners(o.store)
          \subseteq ClearedOwners(s) \cup {NoUser}
                       \cup (IF c.thunk \in Writers THEN {c.id} \cup Recalled(c) ELSE {})
    /\ KeptOwners(o.store)
          \subseteq KeptOwners(s) \cup (IF c.thunk \in Writers THEN {c.id} \cup Handed(c) ELSE {})
    /\ Histories(s, c, o.store)

DataTypes == {"NETWORK_DATA", "NETWORK_RECENT_BLOCKS", "MINED_BLOCKS_ALGOS", "LATEST_BLOCK",
              "MUGLE_POOL_LAST_BLOCK_MINED", "MUGLE_POOL_DATA", "MUGLE_POOL_SHARES_SUBMITTED",
              "MINER_DATA", "MUGLE_POOL_RECENT_BLOCKS", "POOL_BLOCKS_MINED", "RIG_DATA",
              "MINER_SHARE_DATA", "MINER_TOTAL_VALID_SHARES", "MINER_PAYMENT_DATA",
              "MINER_IMMATURE_BALANCE", "MINER_LATEST_BLOCK_MUGLE_EARNED",
              "MINER_NEXT_BLOCK_MUGLE_EARNED", "MINER_PAYMENT_TX_SLATE",
              "LATEST_MINER_PAYMENTS", "IS_TX_SLATE_LOADING"}

PayoutTypes == {"MANUAL_PAYMENT_SUBMISSION", "MANUAL_PAYMENT_FAILURE",
                "IS_PAYMENT_SETTING_PROCESSING"}

LEMMA AccountDispatched ==
    ASSUME NEW s, NEW t \in DataTypes \cup PayoutTypes, NEW d
    PROVE  SameAccount(s, Dispatch(s, t, d)) /\ ~Out(t, d)
<1>1. t \notin {"ACCOUNT", "IS_LOGGING_IN", "IS_CREATING_ACCOUNT", "AUTH_ERROR"}
  BY DEF DataTypes, PayoutTypes
<1>2. AuthBecomes(s.auth, Dispatch(s, t, d).auth, t, d)
  BY AuthFields
<1> DEFINE m == s.auth
           n == Dispatch(s, t, d).auth
<1>3. AuthBecomes(m, n, t, d)
  BY <1>2
<1> HIDE DEF m, n
<1>4. n.account = m.account /\ n.isLoggingIn = m.isLoggingIn
      /\ n.isCreatingAccount = m.isCreatingAccount
  BY <1>1, <1>3 DEF AuthBecomes
<1> QED BY <1>1, <1>4 DEF SameAccount, Out, m, n

HistoriesBecome(s, new, t, d) ==
    /\ new.networkData.historical
          = IF t = "NETWORK_DATA" THEN d.historical ELSE s.networkData.historical
    /\ new.muglePoolData.historical
          = IF t = "MUGLE_POOL_DATA" THEN d ELSE s.muglePoolData.historical
    /\ new.minerData.historical
          = IF t = "MINER_DATA" THEN d ELSE s.minerData.historical

LEMMA HistoriesDispatched ==
    ASSUME NEW s, NEW t \in DataTypes \cup PayoutTypes, NEW d
    PROVE  HistoriesBecome(s, Dispatch(s, t, d), t, d)
<1>1. Dispatch(s, t, d).networkData.historical
         = IF t = "NETWORK_DATA" THEN d.historical ELSE s.networkData.historical
  BY DEF Dispatch, Reducer, NetworkData, NetworkHistorical, Takes
<1>2. Dispatch(s, t, d).muglePoolData.historical
         = IF t = "MUGLE_POOL_DATA" THEN d ELSE s.muglePoolData.historical
  BY DEF Dispatch, Reducer, MuglePoolData, PoolHistorical, Takes
<1>3. Dispatch(s, t, d).minerData.historical
         = IF t = "MINER_DATA" THEN d ELSE s.minerData.historical
  <2>1. MineBecomes(s.minerData, Dispatch(s, t, d).minerData, t, d) /\ ~Out(t, d)
    BY MineFields, AccountDispatched
  <2> DEFINE m == s.minerData
             n == Dispatch(s, t, d).minerData
  <2>2. MineBecomes(m, n, t, d)
    BY <2>1
  <2> HIDE DEF m, n
  <2>3. n.historical = IF t = "MINER_DATA" THEN d ELSE m.historical
    BY <2>1, <2>2 DEF MineBecomes
  <2> QED BY <2>3 DEF m, n
<1> QED BY <1>1, <1>2, <1>3 DEF HistoriesBecome

(* An answer that dispatches the data of one slice.                        *)
LEMMA DataDispatched ==
    ASSUME NEW s, StoreType(s, Height), NEW t \in DataTypes, NEW d, DataFits(t, d)
    PROVE  LET new == Dispatch(s, t, d)
           IN /\ StoreType(new, Height)
              /\ t # "LATEST_BLOCK" => Latest(new) = Latest(s)
              /\ SameAccount(s, new)
              /\ new.minerData.isPaymentSettingProcessing
                    = s.minerData.isPaymentSettingProcessing
              /\ ClearedOwners(new)
                    \subseteq ClearedOwners(s) \cup {NoUser} \cup DataOwners(t, d)
              /\ KeptOwners(new) \subseteq KeptOwners(s) \cup KeptData(t, d)
<1>1. ~Out(t, d)
  BY AccountDispatched
<1>2. Dispatch(s, t, d).minerData.isPaymentSettingProcessing
         = s.minerData.isPaymentSettingProcessing
  <2> DEFINE m == s.minerData
             n == Dispatch(s, t, d).minerData
  <2>1. MineBecomes(m, n, t, d)
    BY MineFields
  <2>2. t \notin PayoutTypes
    BY DEF DataTypes, PayoutTypes
  <2> HIDE DEF m, n
  <2>3. n.isPaymentSettingProcessing = m.isPaymentSettingProcessing
    BY <1>1, <2>1, <2>2 DEF MineBecomes, PayoutTypes
  <2> QED BY <2>3 DEF m, n
<1>3. StoreType(Dispatch(s, t, d), Height)
  BY DispatchFits
<1>4. t # "LATEST_BLOCK" => Latest(Dispatch(s, t, d)) = Latest(s)
  BY LatestDispatched
<1>5. SameAccount(s, Dispatch(s, t, d))
  BY AccountDispatched
<1>6. ClearedOwners(Dispatch(s, t, d))
         \subseteq ClearedOwners(s) \cup {NoUser} \cup DataOwners(t, d)
  BY <1>1, OwnersDispatched
<1> QED BY <1>2, <1>3, <1>4, <1>5, <1>6, KeptDispatched

-----------------------------------------------------------------------------
(* The thunks, one by one.                                                 *)
LEMMA DoneIs ==
    ASSUME NEW s
    PROVE  Done(s).store = s /\ Done(s).next = <<>> /\ <<>> \in Seq(Quiet)
BY DEF Done

LEMMA OneSlice ==
    ASSUME NEW s, StoreType(s, Height), NEW t \in DataTypes \ {"LATEST_BLOCK"}, NEW d,
           DataFits(t, d), NEW c, c.thunk # "setPaymentMethodSetting",
           DataOwners(t, d)
              \subseteq {NoUser} \cup (IF c.thunk \in Writers THEN {c.id} \cup Recalled(c) ELSE {}),
           \/ t \notin {"RIG_DATA", "LATEST_MINER_PAYMENTS"}
           \/ /\ c.thunk \in Writers
              /\ KeptData(t, d) \subseteq {c.id} \cup Handed(c) \cup KeptOwners(s),
           \/ t \notin {"NETWORK_DATA", "MUGLE_POOL_DATA", "MINER_DATA"}
           \/ Histories(s, c, Dispatch(s, t, d)),
           NEW next \in Seq(Quiet), NEW o, o = [store |-> Dispatch(s, t, d), next |-> next]
    PROVE  Outcome(s, c, o)
<1> DEFINE new == Dispatch(s, t, d)
<1>1. o.store = new /\ o.next = next
  OBVIOUS
<1>2. /\ StoreType(new, Height) /\ Latest(new) = Latest(s) /\ SameAccount(s, new)
      /\ new.minerData.isPaymentSettingProcessing = s.minerData.isPaymentSettingProcessing
      /\ ClearedOwners(new) \subseteq ClearedOwners(s) \cup {NoUser} \cup DataOwners(t, d)
      /\ KeptOwners(new) \subseteq KeptOwners(s) \cup KeptData(t, d)
  BY DataDispatched
<1>3. Histories(s, c, new)
  <2>1. CASE t \notin {"NETWORK_DATA", "MUGLE_POOL_DATA", "MINER_DATA"}
    <3>0. t \in DataTypes \cup PayoutTypes
      OBVIOUS
    <3>1. /\ new.networkData.historical = s.networkData.historical
          /\ new.muglePoolData.historical = s.muglePoolData.historical
          /\ new.minerData.historical = s.minerData.historical
      <4>1. HistoriesBecome(s, new, t, d)
        BY <3>0, HistoriesDispatched
      <4> HIDE DEF new
      <4> QED BY <2>1, <4>1 DEF HistoriesBecome
    <3> QED BY <3>1 DEF Histories
  <2> QED BY <2>1
<1>4. t \notin {"RIG_DATA", "LATEST_MINER_PAYMENTS"} => KeptData(t, d) = {}
  BY DEF KeptData
<1> HIDE DEF new
<1> QED BY <1>1, <1>2, <1>3, <1>4 DEF Outcome

LEMMA WindowFits ==
    ASSUME NEW c, RequestFits(c, tip), c.thunk \in WindowThunks, tip \in Nat
    PROVE  /\ c.latest \in Int /\ Heights(c.rows) \in SUBSET Height /\ c.id \in Owner
           /\ Newest(c.latest, Heights(c.rows)) \in Int
           /\ \A A \in WindowAnswers(c) : A \in SUBSET Height
<1>1. c.latest \in 1..tip /\ c.rows \in Seq(Rows(Height)) /\ c.id \in Owner
  BY DEF RequestFits, NeedsHeight
<1>2. c.latest \in Int
  BY <1>1
<1>3. Heights(c.rows) \in SUBSET Height
  <2>1. \A i \in DOMAIN c.rows : c.rows[i] \in Rows(Height)
    BY <1>1
  <2> QED BY <2>1 DEF Heights, Rows
<1>4. Newest(c.latest, Heights(c.rows)) \in Int
  BY <1>2, <1>3, NewestFits
<1>5. \A A \in WindowAnswers(c) : A \in SUBSET Height
  BY <1>2, <1>4, AnswersAre DEF WindowAnswers
<1> QED BY <1>1, <1>2, <1>3, <1>4, <1>5

LEMMA ExtendedFits ==
    ASSUME NEW c, RequestFits(c, tip), c.thunk \in WindowThunks, NEW A \in SUBSET Height
    PROVE  /\ Extended(c, A) \in Seq(Rows(Height))
           /\ \A i \in DOMAIN Extended(c, A) :
                 \/ Extended(c, A)[i].of = c.id
                 \/ \E j \in DOMAIN c.rows : Extended(c, A)[i] = c.rows[j]
<1> DEFINE new == AsRows(c.id, A)
           all == c.rows \o new
<1>1. c.rows \in Seq(Rows(Height)) /\ c.id \in Owner
  BY DEF RequestFits
<1>2. new \in Seq(Rows(Height)) /\ \A i \in 1..Len(new) : new[i].of = c.id
  BY <1>1, AsRowsFit
<1> HIDE DEF new
<1>3. /\ all \in Seq(Rows(Height)) /\ Len(all) = Len(c.rows) + Len(new)
      /\ \A i \in 1..Len(all) : all[i] = IF i <= Len(c.rows) THEN c.rows[i]
                                         ELSE new[i - Len(c.rows)]
  BY <1>1, <1>2
<1>4. Len(c.rows) \in Nat /\ Len(new) \in Nat /\ DOMAIN c.rows = 1..Len(c.rows)
  BY <1>1, <1>2
<1>5. all \in Seq(Rows(Height))
  BY <1>3
<1> HIDE DEF all
<1>6. \E off \in 0..Len(all) :
        /\ LastRows(all) \in Seq(Rows(Height)) /\ Len(LastRows(all)) = Len(all) - off
        /\ \A i \in 1..Len(LastRows(all)) : LastRows(all)[i] = all[off + i]
  BY <1>5, LastRowsFit
<1>7. PICK off \in 0..Len(all) :
         /\ LastRows(all) \in Seq(Rows(Height)) /\ Len(LastRows(all)) = Len(all) - off
         /\ \A i \in 1..Len(LastRows(all)) : LastRows(all)[i] = all[off + i]
  BY <1>6
<1>8. Extended(c, A) = LastRows(all)
  BY DEF Extended, all, new
<1>9. ASSUME NEW i \in 1..Len(LastRows(all))
      PROVE  \/ LastRows(all)[i].of = c.id
             \/ \E j \in DOMAIN c.rows : LastRows(all)[i] = c.rows[j]
  <2> DEFINE k == off + i
  <2>4. Len(all) \in Nat /\ off \in Int /\ i \in Int /\ 1 <= i /\ i <= Len(all) - off
    BY <1>3, <1>4, <1>7
  <2>5. LastRows(all)[i] = all[k]
    BY <1>7
  <2>1. k \in 1..Len(all) /\ LastRows(all)[i] = all[k] /\ k \in Int
    BY <1>7, <2>4, <2>5
  <2> HIDE DEF k
  <2>2. CASE k <= Len(c.rows)
    <3>1. k \in DOMAIN c.rows /\ all[k] = c.rows[k]
      BY <1>3, <1>4, <2>1, <2>2
    <3> QED BY <2>1, <3>1
  <2>3. CASE k > Len(c.rows)
    <3>1. all[k] = new[k - Len(c.rows)] /\ k - Len(c.rows) \in 1..Len(new)
      BY <1>3, <1>4, <2>1, <2>3
    <3> QED BY <1>2, <2>1, <3>1
  <2> QED BY <1>4, <2>1, <2>2, <2>3
<1>10. DOMAIN LastRows(all) = 1..Len(LastRows(all))
  BY <1>7
<1> QED BY <1>7, <1>8, <1>9, <1>10

LEMMA Outcome_fetchMinerTotalValidShares ==
    ASSUME NEW s, StoreType(s, Height), NEW c, RequestFits(c, tip), tip \in Nat,
           tip <= MaxTip, c.thunk = "fetchMinerTotalValidShares",
           NEW o \in fetchMinerTotalValidShares(s, c)
    PROVE  Outcome(s, c, o)
<1>1. o = [store |-> Dispatch(s, "MINER_TOTAL_VALID_SHARES", c.id), next |-> <<>>]
  BY DEF fetchMinerTotalValidShares, Done
<1>2. DataFits("MINER_TOTAL_VALID_SHARES", c.id)
  BY DEF DataFits, RequestFits
<1>3. DataOwners("MINER_TOTAL_VALID_SHARES", c.id) \subseteq {c.id} /\ c.thunk \in Writers
  BY DEF DataOwners, Writers, Private, Scalars
<1>4. "MINER_TOTAL_VALID_SHARES" \in DataTypes \ {"LATEST_BLOCK"} /\ <<>> \in Seq(Quiet)
  BY DEF DataTypes
<1> QED BY <1>1, <1>2, <1>3, <1>4, OneSlice

LEMMA Outcome_fetchMinerPaymentData ==
    ASSUME NEW s, StoreType(s, Height), NEW c, RequestFits(c, tip), tip \in Nat,
           tip <= MaxTip, c.thunk = "fetchMinerPaymentData",
           NEW o \in fetchMinerPaymentData(s, c)
    PROVE  Outcome(s, c, o)
<1>1. o = [store |-> Dispatch(s, "MINER_PAYMENT_DATA", c.id), next |-> <<>>]
  BY DEF fetchMinerPaymentData, Done
<1>2. DataFits("MINER_PAYMENT_DATA", c.id)
  BY DEF DataFits, RequestFits
<1>3. DataOwners("MINER_PAYMENT_DATA", c.id) \subseteq {c.id} /\ c.thunk \in Writers
  BY DEF DataOwners, Writers, Private, Scalars
<1>4. "MINER_PAYMENT_DATA" \in DataTypes \ {"LATEST_BLOCK"} /\ <<>> \in Seq(Quiet)
  BY DEF DataTypes
<1> QED BY <1>1, <1>2, <1>3, <1>4, OneSlice

LEMMA Outcome_fetchMinerImmatureBalance ==
    ASSUME NEW s, StoreType(s, Height), NEW c, RequestFits(c, tip), tip \in Nat,
           tip <= MaxTip, c.thunk = "fetchMinerImmatureBalance",
           NEW o \in fetchMinerImmatureBalance(s, c)
    PROVE  Outcome(s, c, o)
<1>1. o = [store |-> Dispatch(s, "MINER_IMMATURE_BALANCE", c.id), next |-> <<>>]
  BY DEF fetchMinerImmatureBalance, Done
<1>2. DataFits("MINER_IMMATURE_BALANCE", c.id)
  BY DEF DataFits, RequestFits
<1>3. DataOwners("MINER_IMMATURE_BALANCE", c.id) \subseteq {c.id} /\ c.thunk \in Writers
  BY DEF DataOwners, Writers, Private, Scalars
<1>4. "MINER_IMMATURE_BALANCE" \in DataTypes \ {"LATEST_BLOCK"} /\ <<>> \in Seq(Quiet)
  BY DEF DataTypes
<1> QED BY <1>1, <1>2, <1>3, <1>4, OneSlice

LEMMA Outcome_fetchMinerLatestBlockReward ==
    ASSUME NEW s, StoreType(s, Height), NEW c, RequestFits(c, tip), tip \in Nat,
           tip <= MaxTip, c.thunk = "fetchMinerLatestBlockReward",
           NEW o \in fetchMinerLatestBlockReward(s, c)
    PROVE  Outcome(s, c, o)
<1>1. o = [store |-> Dispatch(s, "MINER_LATEST_BLOCK_MUGLE_EARNED", c.id), next |-> <<>>]
  BY DEF fetchMinerLatestBlockReward, Done
<1>2. DataFits("MINER_LATEST_BLOCK_MUGLE_EARNED", c.id)
  BY DEF DataFits, RequestFits
<1>3. DataOwners("MINER_LATEST_BLOCK_MUGLE_EARNED", c.id) \subseteq {c.id} /\ c.thunk \in Writers
  BY DEF DataOwners, Writers, Private, Scalars
<1>4. "MINER_LATEST_BLOCK_MUGLE_EARNED" \in DataTypes \ {"LATEST_BLOCK"} /\ <<>> \in Seq(Quiet)
  BY DEF DataTypes
<1> QED BY <1>1, <1>2, <1>3, <1>4, OneSlice

LEMMA Outcome_fetchMinerNextBlockReward ==
    ASSUME NEW s, StoreType(s, Height), NEW c, RequestFits(c, tip), tip \in Nat,
           tip <= MaxTip, c.thunk = "fetchMinerNextBlockReward",
           NEW o \in fetchMinerNextBlockReward(s, c)
    PROVE  Outcome(s, c, o)
<1>1. o = [store |-> Dispatch(s, "MINER_NEXT_BLOCK_MUGLE_EARNED", c.id), next |-> <<>>]
  BY DEF fetchMinerNextBlockReward, Done
<1>2. DataFits("MINER_NEXT_BLOCK_MUGLE_EARNED", c.id)
  BY DEF DataFits, RequestFits
<1>3. DataOwners("MINER_NEXT_BLOCK_MUGLE_EARNED", c.id) \subseteq {c.id} /\ c.thunk \in Writers
  BY DEF DataOwners, Writers, Private, Scalars
<1>4. "MINER_NEXT_BLOCK_MUGLE_EARNED" \in DataTypes \ {"LATEST_BLOCK"} /\ <<>> \in Seq(Quiet)
  BY DEF DataTypes
<1> QED BY <1>1, <1>2, <1>3, <1>4, OneSlice

LEMMA Outcome_getLatestMinerPaymentRange ==
    ASSUME NEW s, StoreType(s, Height), NEW c, RequestFits(c, tip), tip \in Nat,
           tip <= MaxTip, c.thunk = "getLatestMinerPaymentRange",
           NEW o \in getLatestMinerPaymentRange(s, c)
    PROVE  Outcome(s, c, o)
<1>1. o = [store |-> Dispatch(s, "LATEST_MINER_PAYMENTS", c.id), next |-> <<>>]
  BY DEF getLatestMinerPaymentRange, Done
<1>2. DataFits("LATEST_MINER_PAYMENTS", c.id)
  BY DEF DataFits, RequestFits
<1>3. /\ DataOwners("LATEST_MINER_PAYMENTS", c.id) = {} /\ c.thunk \in Writers
      /\ KeptData("LATEST_MINER_PAYMENTS", c.id) = {c.id}
  BY DEF DataOwners, KeptData, Writers, Private, Scalars
<1>4. "LATEST_MINER_PAYMENTS" \in DataTypes \ {"LATEST_BLOCK"} /\ <<>> \in Seq(Quiet)
  BY DEF DataTypes
<1> QED BY <1>1, <1>2, <1>3, <1>4, OneSlice

LEMMA Outcome_fetchMinerData ==
    ASSUME NEW s, StoreType(s, Height), NEW c, RequestFits(c, tip), tip \in Nat,
           tip <= MaxTip, c.thunk = "fetchMinerData",
           NEW o \in fetchMinerData(s, c)
    PROVE  Outcome(s, c, o)
<1>1. PICK A \in WindowAnswers(c) :
         o = [store |-> Dispatch(s, "MINER_DATA", Extended(c, A \cap Worked)), next |-> <<>>]
  BY DEF fetchMinerData, Done
<1>2. c.thunk \in WindowThunks
  BY DEF WindowThunks
<1>3. A \in WindowAnswers(c) /\ A \cap Worked \in SUBSET Height /\ A \in SUBSET Height
  <2>1. A \in WindowAnswers(c)
    BY DEF PoolAnswers
  <2> QED BY <1>2, <2>1, WindowFits
<1> DEFINE rows == Extended(c, A \cap Worked)
           d == Extended(c, A \cap Worked)
<1>4. /\ rows \in Seq(Rows(Height))
      /\ \A i \in DOMAIN rows :
            rows[i].of = c.id \/ \E j \in DOMAIN c.rows : rows[i] = c.rows[j]
  <2> DEFINE B == A \cap Worked
  <2>1. B \in SUBSET Height
    BY <1>3
  <2> HIDE DEF B
  <2>2. /\ Extended(c, B) \in Seq(Rows(Height))
        /\ \A i \in DOMAIN Extended(c, B) :
              \/ Extended(c, B)[i].of = c.id
              \/ \E j \in DOMAIN c.rows : Extended(c, B)[i] = c.rows[j]
    BY <1>2, <2>1, ExtendedFits
  <2> QED BY <2>2 DEF B
<1>5. DataFits("MINER_DATA", d)
  <2> HIDE DEF rows
  <2> QED BY <1>4 DEF DataFits, rows
<1>6. DataOwners("MINER_DATA", d)
         \subseteq {NoUser} \cup (IF c.thunk \in Writers THEN {c.id} \cup Recalled(c) ELSE {})
  <2>1. c.thunk \in Writers /\ Recalled(c) = {c.rows[i].of : i \in DOMAIN c.rows}
    BY DEF Writers, Private, Recalled, Owners
  <2>2. DataOwners("MINER_DATA", d) = {rows[i].of : i \in DOMAIN rows}
    BY DEF DataOwners, Owners
  <2> HIDE DEF rows
  <2> QED BY <1>4, <2>1, <2>2
<1> DEFINE new == Dispatch(s, "MINER_DATA", d)
<1>7. HistoriesBecome(s, new, "MINER_DATA", d)
  BY HistoriesDispatched DEF DataTypes
<1>8. d = rows
  OBVIOUS
<1>9. rows = Extended(c, A \cap Worked)
  OBVIOUS
<1> HIDE DEF new, d, rows
<1>10. Histories(s, c, new)
  BY <1>3, <1>7, <1>8, <1>9 DEF HistoriesBecome, Histories
<1>11. "MINER_DATA" \in DataTypes \ {"LATEST_BLOCK"} /\ <<>> \in Seq(Quiet)
  BY DEF DataTypes
<1>12. o = [store |-> new, next |-> <<>>]
  BY <1>1 DEF new, d, rows
<1> QED BY <1>5, <1>6, <1>10, <1>11, <1>12, OneSlice DEF new

LEMMA Outcome_fetchMuglePoolData ==
    ASSUME NEW s, StoreType(s, Height), NEW c, RequestFits(c, tip), tip \in Nat,
           tip <= MaxTip, c.thunk = "fetchMuglePoolData",
           NEW o \in fetchMuglePoolData(s, c)
    PROVE  Outcome(s, c, o)
<1>1. PICK A \in PoolAnswers(c) :
         o = [store |-> Dispatch(s, "MUGLE_POOL_DATA", Extended(c, A)), next |-> <<>>]
  BY DEF fetchMuglePoolData, Done
<1>2. c.thunk \in WindowThunks
  BY DEF WindowThunks
<1>3. A \in WindowAnswers(c) /\ A \in SUBSET Height /\ A \in SUBSET Height
  <2>1. A \in WindowAnswers(c)
    BY DEF PoolAnswers
  <2> QED BY <1>2, <2>1, WindowFits
<1> DEFINE rows == Extended(c, A)
           d == Extended(c, A)
<1>4. /\ rows \in Seq(Rows(Height))
      /\ \A i \in DOMAIN rows :
            rows[i].of = c.id \/ \E j \in DOMAIN c.rows : rows[i] = c.rows[j]
  BY <1>2, <1>3, ExtendedFits
<1>5. DataFits("MUGLE_POOL_DATA", d)
  <2> HIDE DEF rows
  <2> QED BY <1>4 DEF DataFits, rows
<1>6. DataOwners("MUGLE_POOL_DATA", d)
         \subseteq {NoUser} \cup (IF c.thunk \in Writers THEN {c.id} \cup Recalled(c) ELSE {})
  BY DEF DataOwners
<1> DEFINE new == Dispatch(s, "MUGLE_POOL_DATA", d)
<1>7. HistoriesBecome(s, new, "MUGLE_POOL_DATA", d)
  BY HistoriesDispatched DEF DataTypes
<1>8. d = rows
  OBVIOUS
<1>9. rows = Extended(c, A)
  OBVIOUS
<1> HIDE DEF new, d, rows
<1>10. Histories(s, c, new)
  BY <1>3, <1>7, <1>8, <1>9 DEF HistoriesBecome, Histories
<1>11. "MUGLE_POOL_DATA" \in DataTypes \ {"LATEST_BLOCK"} /\ <<>> \in Seq(Quiet)
  BY DEF DataTypes
<1>12. o = [store |-> new, next |-> <<>>]
  BY <1>1 DEF new, d, rows
<1> QED BY <1>5, <1>6, <1>10, <1>11, <1>12, OneSlice DEF new

LEMMA Outcome_fetchMuglePoolSharesSubmitted ==
    ASSUME NEW s, StoreType(s, Height), NEW c, RequestFits(c, tip), tip \in Nat,
           tip <= MaxTip, c.thunk = "fetchMuglePoolSharesSubmitted",
           NEW o \in fetchMuglePoolSharesSubmitted(s, c)
    PROVE  Outcome(s, c, o)
<1>1. PICK A \in PoolAnswers(c) :
         o = [store |-> Dispatch(s, "MUGLE_POOL_SHARES_SUBMITTED", Extended(c, A)), next |-> <<>>]
  BY DEF fetchMuglePoolSharesSubmitted, Done
<1>2. c.thunk \in WindowThunks
  BY DEF WindowThunks
<1>3. A \in WindowAnswers(c) /\ A \in SUBSET Height /\ A \in SUBSET Height
  <2>1. A \in WindowAnswers(c)
    BY DEF PoolAnswers
  <2> QED BY <1>2, <2>1, WindowFits
<1> DEFINE rows == Extended(c, A)
           d == Extended(c, A)
<1>4. /\ rows \in Seq(Rows(Height))
      /\ \A i \in DOMAIN rows :
            rows[i].of = c.id \/ \E j \in DOMAIN c.rows : rows[i] = c.rows[j]
  BY <1>2, <1>3, ExtendedFits
<1>5. DataFits("MUGLE_POOL_SHARES_SUBMITTED", d)
  <2> HIDE DEF rows
  <2> QED BY <1>4 DEF DataFits, rows
<1>6. DataOwners("MUGLE_POOL_SHARES_SUBMITTED", d)
         \subseteq {NoUser} \cup (IF c.thunk \in Writers THEN {c.id} \cup Recalled(c) ELSE {})
  BY DEF DataOwners
<1> DEFINE new == Dispatch(s, "MUGLE_POOL_SHARES_SUBMITTED", d)
<1>7. HistoriesBecome(s, new, "MUGLE_POOL_SHARES_SUBMITTED", d)
  BY HistoriesDispatched DEF DataTypes
<1>8. d = rows
  OBVIOUS
<1>9. rows = Extended(c, A)
  OBVIOUS
<1> HIDE DEF new, d, rows
<1>10. Histories(s, c, new)
  BY <1>3, <1>7, <1>8, <1>9 DEF HistoriesBecome, Histories
<1>11. "MUGLE_POOL_SHARES_SUBMITTED" \in DataTypes \ {"LATEST_BLOCK"} /\ <<>> \in Seq(Quiet)
  BY DEF DataTypes
<1>12. o = [store |-> new, next |-> <<>>]
  BY <1>1 DEF new, d, rows
<1> QED BY <1>5, <1>6, <1>10, <1>11, <1>12, OneSlice DEF new

LEMMA Outcome_fetchNetworkData ==
    ASSUME NEW s, StoreType(s, Height), NEW c, RequestFits(c, tip), tip \in Nat,
           tip <= MaxTip, c.thunk = "fetchNetworkData",
           NEW o \in fetchNetworkData(s, c)
    PROVE  Outcome(s, c, o)
<1>1. PICK A \in WindowAnswers(c) :
         o = [store |-> Dispatch(s, "NETWORK_DATA",
                 [historical |-> Extended(c, A),
                  blocksByHeight |-> s.networkData.blocksByHeight \cup A]), next |-> <<>>]
  BY DEF fetchNetworkData, Done
<1>2. c.thunk \in WindowThunks
  BY DEF WindowThunks
<1>3. A \in WindowAnswers(c) /\ A \in SUBSET Height /\ A \in SUBSET Height
  <2>1. A \in WindowAnswers(c)
    BY DEF PoolAnswers
  <2> QED BY <1>2, <2>1, WindowFits
<1> DEFINE rows == Extended(c, A)
           d == 
                 [historical |-> Extended(c, A),
                  blocksByHeight |-> s.networkData.blocksByHeight \cup A]
<1>4. /\ rows \in Seq(Rows(Height))
      /\ \A i \in DOMAIN rows :
            rows[i].of = c.id \/ \E j \in DOMAIN c.rows : rows[i] = c.rows[j]
  BY <1>2, <1>3, ExtendedFits
<1>5. DataFits("NETWORK_DATA", d)
  <2>1. s.networkData.blocksByHeight \subseteq Height
    BY StoreParts DEF NetType
  <2> HIDE DEF rows
  <2>2. d.historical = rows /\ d.blocksByHeight = s.networkData.blocksByHeight \cup A
    BY DEF rows
  <2> HIDE DEF d
  <2> QED BY <1>3, <1>4, <2>1, <2>2 DEF DataFits
<1>6. DataOwners("NETWORK_DATA", d)
         \subseteq {NoUser} \cup (IF c.thunk \in Writers THEN {c.id} \cup Recalled(c) ELSE {})
  BY DEF DataOwners
<1> DEFINE new == Dispatch(s, "NETWORK_DATA", d)
<1>7. HistoriesBecome(s, new, "NETWORK_DATA", d)
  BY HistoriesDispatched DEF DataTypes
<1>8. d.historical = rows
  OBVIOUS
<1>9. rows = Extended(c, A)
  OBVIOUS
<1> HIDE DEF new, d, rows
<1>10. Histories(s, c, new)
  BY <1>3, <1>7, <1>8, <1>9 DEF HistoriesBecome, Histories
<1>11. "NETWORK_DATA" \in DataTypes \ {"LATEST_BLOCK"} /\ <<>> \in Seq(Quiet)
  BY DEF DataTypes
<1>12. o = [store |-> new, next |-> <<>>]
  BY <1>1 DEF new, d, rows
<1> QED BY <1>5, <1>6, <1>10, <1>11, <1>12, OneSlice DEF new

LEMMA Outcome_fetchMinerShareData ==
    ASSUME NEW s, StoreType(s, Height), NEW c, RequestFits(c, tip), tip \in Nat,
           tip <= MaxTip, c.thunk = "fetchMinerShareData",
           NEW o \in fetchMinerShareData(s, c)
    PROVE  Outcome(s, c, o)
<1>1. c.latest \in Int /\ c.known \subseteq Rows(Height) /\ c.id \in Owner
  BY DEF RequestFits, NeedsHeight
<1>2. RowHeights(c.known) \in SUBSET Height
  BY <1>1 DEF RowHeights, Rows
<1>3. Newest(c.latest, RowHeights(c.known)) \in Int
  BY <1>1, <1>2, NewestFits
<1>4. PICK A \in Answers(Newest(c.latest, RowHeights(c.known)), c.latest) :
         o = [store |-> Dispatch(s, "MINER_SHARE_DATA",
                           c.known \cup {[of |-> c.id, height |-> h] : h \in A \cap Worked}),
              next |-> <<>>]
  BY DEF fetchMinerShareData, Done
<1>5. A \in SUBSET Height
  BY <1>1, <1>3, AnswersAre
<1> DEFINE d == c.known \cup {[of |-> c.id, height |-> h] : h \in A \cap Worked}
<1>6. DataFits("MINER_SHARE_DATA", d)
  <2>1. d \subseteq Rows(Height)
    BY <1>1, <1>5 DEF Rows
  <2> HIDE DEF d
  <2> QED BY <2>1 DEF DataFits
<1>7. DataOwners("MINER_SHARE_DATA", d) \subseteq {c.id} \cup Recalled(c) /\ c.thunk \in Writers
  <2>1. DataOwners("MINER_SHARE_DATA", d) = {r.of : r \in d}
    BY DEF DataOwners, RowOwners
  <2>2. Recalled(c) = {r.of : r \in c.known} /\ c.thunk \in Writers
    BY DEF Recalled, RowOwners, Writers, Private
  <2>3. \A r \in d : r.of = c.id \/ r \in c.known
    OBVIOUS
  <2> HIDE DEF d
  <2> QED BY <2>1, <2>2, <2>3
<1>8. "MINER_SHARE_DATA" \in DataTypes \ {"LATEST_BLOCK"} /\ <<>> \in Seq(Quiet)
  BY DEF DataTypes
<1> HIDE DEF d
<1>9. o = [store |-> Dispatch(s, "MINER_SHARE_DATA", d), next |-> <<>>]
  BY <1>4 DEF d
<1> QED BY <1>6, <1>7, <1>8, <1>9, OneSlice

LEMMA Outcome_fetchRigData ==
    ASSUME NEW s, StoreType(s, Height), NEW c, RequestFits(c, tip), tip \in Nat,
           tip <= MaxTip, c.thunk = "fetchRigData",
           NEW o \in fetchRigData(s, c)
    PROVE  Outcome(s, c, o)
<1> DEFINE known == s.networkData.blocksByHeight
           based(heights) == {h \in heights : h - RigPeriod \in known}
           kept(heights) ==
               {h \in based(heights) : \A h2 \in based(heights) : h2 <= h => h2 \in known}
           shares(heights) ==
               {r \in s.minerData.rigShareData : r.height \notin heights}
               \cup {[of |-> c.id, height |-> h] : h \in heights}
           d(heights) ==
               [rigGpsData |-> AsRows(c.id, heights), rigShareData |-> shares(heights),
                rigWorkers |-> c.workers \cup (IF heights = {} THEN {} ELSE {c.id})]
<1>1. PICK A \in Answers(c.latest - BlockRange - 1, c.latest) :
         o = IF kept(A \cap Worked) # based(A \cap Worked)
             THEN [store |-> [s EXCEPT !.minerData.rigShareData =
                                       shares(kept(A \cap Worked))],
                   next |-> <<>>]
             ELSE [store |-> Dispatch(s, "RIG_DATA", d(kept(A \cap Worked))), next |-> <<>>]
  BY DEF fetchRigData, Done
<1>2. c.latest \in Int /\ c.workers \subseteq Users /\ c.id \in Users /\ c.id \in Owner
  BY DEF RequestFits, NeedsHeight, Private, Owner
<1>3. A \in SUBSET Height
  <2>1. c.latest - BlockRange - 1 \in Int
    BY <1>2, BoundAssumption
  <2> QED BY <1>2, <2>1, AnswersAre
<1> DEFINE H == A \cap Worked
           K == kept(H)
           S == shares(K)
<1>4. K \in SUBSET Height
  BY <1>3
<1>5. S \subseteq Rows(Height)
  <2>1. s.minerData.rigShareData \subseteq Rows(Height)
    BY StoreParts DEF MineType
  <2>2. \A h \in K : [of |-> c.id, height |-> h] \in Rows(Height)
    BY <1>2, <1>4 DEF Rows
  <2> HIDE DEF K
  <2> QED BY <2>1, <2>2
<1>8. RowOwners(S) \subseteq RowOwners(s.minerData.rigShareData) \cup {c.id}
  <2> HIDE DEF K
  <2> QED BY DEF RowOwners
<1>6. CASE K # based(H)
  <2> DEFINE new == [s EXCEPT !.minerData.rigShareData = S]
  <2>1. o = [store |-> new, next |-> <<>>]
    BY <1>1, <1>6
  <2>2. /\ new.networkData = s.networkData /\ new.muglePoolData = s.muglePoolData
        /\ new.auth = s.auth
        /\ new.minerData = [s.minerData EXCEPT !.rigShareData = S]
    <3> HIDE DEF S
    <3> QED OBVIOUS
  <2>3. StoreType(new, Height)
    <3> DEFINE m == s.minerData
               n == new.minerData
    <3>1. n = [m EXCEPT !.rigShareData = S]
      BY <2>2
    <3>2. MineType(m) /\ OwnedType(m)
      BY StoreParts
    <3> HIDE DEF new, S, m, n
    <3>3. /\ n.historical = m.historical /\ n.rigGpsData = m.rigGpsData
          /\ n.minerShareData = m.minerShareData /\ n.rigWorkers = m.rigWorkers
          /\ n.rigShareData = S \/ n.rigShareData = m.rigShareData
      BY <3>1
    <3>4. /\ n.isPaymentSettingProcessing = m.isPaymentSettingProcessing
          /\ n.isTxSlateLoading = m.isTxSlateLoading
      BY <3>1
    <3>5. MineType(n)
      BY <1>5, <3>2, <3>3, <3>4 DEF MineType
    <3>6. OwnedType(n)
      BY <3>1, <3>2 DEF OwnedType
    <3>7. MineType(new.minerData) /\ OwnedType(new.minerData)
      BY <3>5, <3>6 DEF n
    <3>8. NetType(new.networkData) /\ PoolType(new.muglePoolData) /\ AuthType(new.auth)
      BY <2>2, StoreParts
    <3> QED BY <3>7, <3>8, StoreParts
  <2> HIDE DEF new, S
  <2>4. /\ Latest(new) = Latest(s) /\ SameAccount(s, new)
        /\ new.minerData.isPaymentSettingProcessing = s.minerData.isPaymentSettingProcessing
        /\ new.minerData.historical = s.minerData.historical
    BY <2>2 DEF Latest, SameAccount
  <2>5. ClearedOwners(new) = ClearedOwners(s)
    BY <2>2 DEF ClearedOwners
  <2>8. KeptOwners(new) \subseteq KeptOwners(s) \cup {c.id} /\ c.thunk \in Writers
    BY <1>8, <2>2 DEF KeptOwners, Writers, Private
  <2>6. Histories(s, c, new)
    BY <2>2, <2>4 DEF Histories
  <2>7. o.store = new /\ o.next = <<>> /\ <<>> \in Seq(Quiet)
    BY <2>1
  <2> QED BY <2>3, <2>4, <2>5, <2>6, <2>7, <2>8 DEF Outcome
<1>7. CASE K = based(H)
  <2>1. o = [store |-> Dispatch(s, "RIG_DATA", d(K)), next |-> <<>>]
    BY <1>1, <1>7
  <2>2. AsRows(c.id, K) \in Seq(Rows(Height))
    <3> HIDE DEF K
    <3> QED BY <1>2, <1>4, AsRowsFit
  <2> DEFINE D == d(K)
  <2>3. /\ D.rigGpsData = AsRows(c.id, K) /\ D.rigShareData = S
        /\ D.rigWorkers = c.workers \cup (IF K = {} THEN {} ELSE {c.id})
    <3> HIDE DEF K
    <3>1. D = [rigGpsData |-> AsRows(c.id, K), rigShareData |-> S,
               rigWorkers |-> c.workers \cup (IF K = {} THEN {} ELSE {c.id})]
      OBVIOUS
    <3> HIDE DEF D, S
    <3> QED BY ONLY <3>1
  <2> HIDE DEF D, K, S
  <2>4. DataFits("RIG_DATA", D) /\ DataOwners("RIG_DATA", D) = {}
    BY <1>2, <1>5, <2>2, <2>3 DEF DataFits, DataOwners
  <2>7. Owners(AsRows(c.id, K)) \subseteq {c.id}
    BY <1>2, <1>4, AsRowsFit DEF Owners
  <2>8. /\ c.thunk \in Writers
        /\ KeptData("RIG_DATA", D) \subseteq {c.id} \cup Handed(c) \cup KeptOwners(s)
    BY <1>8, <2>3, <2>7 DEF Writers, Private, KeptData, KeptOwners, Handed
  <2>5. "RIG_DATA" \in DataTypes \ {"LATEST_BLOCK"} /\ <<>> \in Seq(Quiet)
    BY DEF DataTypes
  <2>6. o = [store |-> Dispatch(s, "RIG_DATA", D), next |-> <<>>]
    BY <2>1 DEF D
  <2> QED BY <2>4, <2>5, <2>6, <2>8, OneSlice
<1> QED BY <1>6, <1>7

LEMMA Outcome_getLatestBlock ==
    ASSUME NEW s, StoreType(s, Height), NEW c, RequestFits(c, tip), tip \in Nat,
           tip <= MaxTip, c.thunk = "getLatestBlock",
           NEW o \in getLatestBlock(s, c)
    PROVE  Outcome(s, c, o)
<1>1. PICK h \in 1..tip :
         o = [store |-> Dispatch(s, "LATEST_BLOCK", h), next |-> <<>>]
  BY DEF getLatestBlock, Done
<1> DEFINE new == Dispatch(s, "LATEST_BLOCK", h)
<1>2. h \in Height /\ DataFits("LATEST_BLOCK", h)
  <2>1. h \in Height
    BY BoundAssumption DEF Height
  <2> QED BY <2>1 DEF DataFits
<1>3. /\ StoreType(new, Height) /\ SameAccount(s, new)
      /\ new.minerData.isPaymentSettingProcessing = s.minerData.isPaymentSettingProcessing
      /\ ClearedOwners(new) \subseteq ClearedOwners(s) \cup {NoUser}
      /\ KeptOwners(new) \subseteq KeptOwners(s)
  <2>1. /\ "LATEST_BLOCK" \in DataTypes /\ DataOwners("LATEST_BLOCK", h) = {}
        /\ KeptData("LATEST_BLOCK", h) = {}
    BY DEF DataTypes, DataOwners, KeptData
  <2> QED BY <1>2, <2>1, DataDispatched
<1>4. Latest(new) = h
  BY LatestDispatched
<1>5. Histories(s, c, new)
  <2>1. HistoriesBecome(s, new, "LATEST_BLOCK", h)
    BY HistoriesDispatched DEF DataTypes
  <2> HIDE DEF new
  <2> QED BY <2>1 DEF HistoriesBecome, Histories
<1>6. o.store = new /\ o.next = <<>> /\ <<>> \in Seq(Quiet)
  BY <1>1
<1> HIDE DEF new
<1> QED BY <1>3, <1>4, <1>5, <1>6 DEF Outcome

LEMMA Outcome_fetchNetworkRecentBlocks ==
    ASSUME NEW s, StoreType(s, Height), NEW c, RequestFits(c, tip), tip \in Nat,
           tip <= MaxTip, c.thunk = "fetchNetworkRecentBlocks",
           NEW o \in fetchNetworkRecentBlocks(s, c)
    PROVE  Outcome(s, c, o)
<1>1. PICK A \in Answers(c.latest - RecentRange, c.latest) :
         o = [store |-> Dispatch(s, "NETWORK_RECENT_BLOCKS", A), next |-> <<>>]
  BY DEF fetchNetworkRecentBlocks, Done
<1>2. DataFits("NETWORK_RECENT_BLOCKS", A)
  <2>1. c.latest \in Int /\ c.latest - RecentRange \in Int
    BY BoundAssumption DEF RequestFits, NeedsHeight
  <2>2. A \subseteq Height
    BY <2>1, AnswersAre
  <2> QED BY <2>2 DEF DataFits
<1> DEFINE d == A
<1>3. DataOwners("NETWORK_RECENT_BLOCKS", d) = {}
  BY DEF DataOwners
<1>4. "NETWORK_RECENT_BLOCKS" \in DataTypes \ {"LATEST_BLOCK"} /\ <<>> \in Seq(Quiet)
  BY DEF DataTypes
<1> HIDE DEF d
<1>5. o = [store |-> Dispatch(s, "NETWORK_RECENT_BLOCKS", d), next |-> <<>>]
  BY <1>1 DEF d
<1> QED BY <1>2, <1>3, <1>4, <1>5, OneSlice DEF d

LEMMA Outcome_fetchMuglePoolLastBlock ==
    ASSUME NEW s, StoreType(s, Height), NEW c, RequestFits(c, tip), tip \in Nat,
           tip <= MaxTip, c.thunk = "fetchMuglePoolLastBlock",
           NEW o \in fetchMuglePoolLastBlock(s, c)
    PROVE  Outcome(s, c, o)
<1>1. PICK h \in PoolFound \cap 1..tip :
         o = [store |-> Dispatch(s, "MUGLE_POOL_LAST_BLOCK_MINED", h), next |-> <<>>]
  BY DEF fetchMuglePoolLastBlock, Done
<1>2. DataFits("MUGLE_POOL_LAST_BLOCK_MINED", h)
  <2>1. h \in Height
    BY BoundAssumption DEF Height
  <2> QED BY <2>1 DEF DataFits
<1> DEFINE d == h
<1>3. DataOwners("MUGLE_POOL_LAST_BLOCK_MINED", d) = {}
  BY DEF DataOwners
<1>4. "MUGLE_POOL_LAST_BLOCK_MINED" \in DataTypes \ {"LATEST_BLOCK"} /\ <<>> \in Seq(Quiet)
  BY DEF DataTypes
<1> HIDE DEF d
<1>5. o = [store |-> Dispatch(s, "MUGLE_POOL_LAST_BLOCK_MINED", d), next |-> <<>>]
  BY <1>1 DEF d
<1> QED BY <1>2, <1>3, <1>4, <1>5, OneSlice DEF d

LEMMA Outcome_fetchMuglePoolRecentBlocks ==
    ASSUME NEW s, StoreType(s, Height), NEW c, RequestFits(c, tip), tip \in Nat,
           tip <= MaxTip, c.thunk = "fetchMuglePoolRecentBlocks",
           NEW o \in fetchMuglePoolRecentBlocks(s, c)
    PROVE  Outcome(s, c, o)
<1>1. PICK A \in Answers(0, c.latest) :
         o = [store |-> Dispatch(s, "MUGLE_POOL_RECENT_BLOCKS",
                 {[height |-> h, edge_bits |-> IF h \in Range(c.algos.c31) THEN 31 ELSE 29] :
                     h \in A \cap PoolFound}), next |-> <<>>]
  BY DEF fetchMuglePoolRecentBlocks, Done
<1>2. DataFits("MUGLE_POOL_RECENT_BLOCKS",
               {[height |-> h, edge_bits |-> IF h \in Range(c.algos.c31) THEN 31 ELSE 29] :
                   h \in A \cap PoolFound})
  <2>1. c.latest \in Int /\ 0 \in Int
    BY DEF RequestFits, NeedsHeight
  <2>2. A \subseteq Height
    BY <2>1, AnswersAre
  <2>3. \A h \in A \cap PoolFound :
           [height |-> h, edge_bits |-> IF h \in Range(c.algos.c31) THEN 31 ELSE 29]
              \in Blocks(Height)
    BY <2>2 DEF Blocks
  <2> QED BY <2>3 DEF DataFits
<1> DEFINE d == {[height |-> h, edge_bits |-> IF h \in Range(c.algos.c31) THEN 31 ELSE 29] :
                    h \in A \cap PoolFound}
<1>3. DataOwners("MUGLE_POOL_RECENT_BLOCKS", d) = {}
  BY DEF DataOwners
<1>4. "MUGLE_POOL_RECENT_BLOCKS" \in DataTypes \ {"LATEST_BLOCK"} /\ <<>> \in Seq(Quiet)
  BY DEF DataTypes
<1> HIDE DEF d
<1>5. o = [store |-> Dispatch(s, "MUGLE_POOL_RECENT_BLOCKS", d), next |-> <<>>]
  BY <1>1 DEF d
<1> QED BY <1>2, <1>3, <1>4, <1>5, OneSlice DEF d

LEMMA Outcome_getMinedBlocksAlgos ==
    ASSUME NEW s, StoreType(s, Height), NEW c, RequestFits(c, tip), tip \in Nat,
           tip <= MaxTip, c.thunk = "getMinedBlocksAlgos",
           NEW o \in getMinedBlocksAlgos(s, c)
    PROVE  Outcome(s, c, o)
<1> DEFINE listed == Range(c.algos.c29) \cup Range(c.algos.c31)
           of(bits, heights) == Ascending({h \in heights : Edge[h] = bits})
           d(heights) == [c29 |-> c.algos.c29 \o of(29, heights),
                          c31 |-> c.algos.c31 \o of(31, heights)]
<1>1. PICK A \in Answers(Newest(c.latest, listed), c.latest) :
         o = [store |-> Dispatch(s, "MINED_BLOCKS_ALGOS", d(A)),
              next |-> <<"fetchMuglePoolBlocksMined">>]
  BY DEF getMinedBlocksAlgos
<1>2. c.latest \in Int /\ c.algos.c29 \in Seq(Height) /\ c.algos.c31 \in Seq(Height)
  BY DEF RequestFits, NeedsHeight
<1>3. listed \in SUBSET Height
  BY <1>2 DEF Range
<1>4. A \in SUBSET Height
  <2> HIDE DEF listed
  <2>1. Newest(c.latest, listed) \in Int
    BY <1>2, <1>3, NewestFits
  <2> QED BY <1>2, <2>1, AnswersAre
<1>5. ASSUME NEW bits PROVE of(bits, A) \in Seq(Height)
  <2> DEFINE S == {h \in A : Edge[h] = bits}
  <2>1. S \in SUBSET Height
    BY <1>4
  <2> HIDE DEF S
  <2>2. IsFiniteSet(S) /\ S \in SUBSET Int
    BY <2>1, HeightFinite
  <2>3. Ascending(S) \in Seq(S)
    BY <2>2, AscendingFits
  <2>4. Ascending(S) \in Seq(Height)
    BY <2>1, <2>3
  <2> QED BY <2>4 DEF S
<1>6. DataFits("MINED_BLOCKS_ALGOS", d(A))
  <2> DEFINE a == of(29, A)
             b == of(31, A)
  <2>1. a \in Seq(Height) /\ b \in Seq(Height)
    BY <1>5
  <2> HIDE DEF a, b
  <2>2. c.algos.c29 \o a \in Seq(Height) /\ c.algos.c31 \o b \in Seq(Height)
    BY <1>2, <2>1
  <2>3. [c29 |-> c.algos.c29 \o a, c31 |-> c.algos.c31 \o b]
           \in [c29 : Seq(Height), c31 : Seq(Height)]
    BY <2>2
  <2>4. d(A) \in [c29 : Seq(Height), c31 : Seq(Height)]
    BY <2>3 DEF a, b
  <2> HIDE DEF d
  <2> QED BY <2>4 DEF DataFits
<1> HIDE DEF d
<1>7. DataOwners("MINED_BLOCKS_ALGOS", d(A)) = {}
  BY DEF DataOwners
<1>8. "MINED_BLOCKS_ALGOS" \in DataTypes \ {"LATEST_BLOCK"}
  BY DEF DataTypes
<1>9. <<"fetchMuglePoolBlocksMined">> \in Seq(Quiet)
  BY QuietNames
<1> QED BY <1>1, <1>6, <1>7, <1>8, <1>9, OneSlice

LEMMA Outcome_fetchMuglePoolBlocksMined ==
    ASSUME NEW s, StoreType(s, Height), NEW c, RequestFits(c, tip), tip \in Nat,
           tip <= MaxTip, c.thunk = "fetchMuglePoolBlocksMined",
           NEW o \in fetchMuglePoolBlocksMined(s, c)
    PROVE  Outcome(s, c, o)
<1> DEFINE last == Largest({0} \cup c.mined.c29 \cup c.mined.c31 \cup c.orphaned)
           number == IF last = 0 THEN BlockRange ELSE c.latest - last
           newest(seen) == {h \in PoolFound \cap 1..seen :
                               Cardinality({x \in PoolFound \cap 1..seen : x > h}) < number}
           sent == {newest(seen) : seen \in 0..(IF c.latest < tip THEN c.latest ELSE tip)}
           states == UNION {[blocks -> {"new", "orphan", "paid"}] : blocks \in sent}
           in(f, state) == {h \in DOMAIN f : f[h] = state}
           d(f) == [c29BlocksFound |-> c.mined.c29 \cup (in(f, "new") \cap Range(c.algos.c29)),
                    c31BlocksFound |-> c.mined.c31 \cup (in(f, "new") \cap Range(c.algos.c31)),
                    blocksOrphaned |-> c.orphaned \cup in(f, "orphan")]
<1>1. PICK f \in states : o = [store |-> Dispatch(s, "POOL_BLOCKS_MINED", d(f)), next |-> <<>>]
  BY DEF fetchMuglePoolBlocksMined, Done
<1>2. /\ c.latest \in Int
      /\ c.mined.c29 \subseteq Height /\ c.mined.c31 \subseteq Height
      /\ c.orphaned \subseteq Height
  <2>1. c.mined \in [c29 : SUBSET Height, c31 : SUBSET Height]
    BY DEF RequestFits
  <2>2. c.mined.c29 \subseteq Height /\ c.mined.c31 \subseteq Height
    BY <2>1
  <2> QED BY <2>2 DEF RequestFits, NeedsHeight
<1>3. DOMAIN f \subseteq Height
  <2>1. PICK seen \in 0..(IF c.latest < tip THEN c.latest ELSE tip) : DOMAIN f = newest(seen)
    <3> HIDE DEF newest
    <3> QED OBVIOUS
  <2>2. \A h \in newest(seen) : h \in 1..seen
    <3> HIDE DEF number
    <3> QED OBVIOUS
  <2>3. \A h \in 1..seen : h \in Height
    BY <1>2, BoundAssumption DEF Height
  <2> HIDE DEF newest
  <2> QED BY <2>1, <2>2, <2>3
<1> DEFINE D == d(f)
<1>4. /\ D.c29BlocksFound \subseteq Height /\ D.c31BlocksFound \subseteq Height
      /\ D.blocksOrphaned \subseteq Height
  <2> HIDE DEF states, sent, newest, number, last
  <2>1. in(f, "new") \subseteq Height /\ in(f, "orphan") \subseteq Height
    BY <1>3
  <2> HIDE DEF in
  <2> QED BY <1>2, <2>1
<1>5. o = [store |-> Dispatch(s, "POOL_BLOCKS_MINED", D), next |-> <<>>]
  BY <1>1
<1> HIDE DEF D
<1>6. DataFits("POOL_BLOCKS_MINED", D) /\ DataOwners("POOL_BLOCKS_MINED", D) = {}
  BY <1>4 DEF DataFits, DataOwners
<1>7. "POOL_BLOCKS_MINED" \in DataTypes \ {"LATEST_BLOCK"} /\ <<>> \in Seq(Quiet)
  BY DEF DataTypes
<1> QED BY <1>5, <1>6, <1>7, OneSlice

LEMMA Outcome_getLatestMinerPayments ==
    ASSUME NEW s, StoreType(s, Height), NEW c, RequestFits(c, tip), tip \in Nat,
           tip <= MaxTip, c.thunk = "getLatestMinerPayments",
           NEW o \in getLatestMinerPayments(s, c)
    PROVE  Outcome(s, c, o)
<1>1. o.store = s /\ o.next = <<>> /\ <<>> \in Seq(Quiet)
  BY DoneIs DEF getLatestMinerPayments
<1> QED BY <1>1 DEF Outcome, SameAccount, Histories

LEMMA Outcome_fetchMinerPaymentTxSlate ==
    ASSUME NEW s, StoreType(s, Height), NEW c, RequestFits(c, tip), tip \in Nat,
           tip <= MaxTip, c.thunk = "fetchMinerPaymentTxSlate",
           NEW o \in fetchMinerPaymentTxSlate(s, c)
    PROVE  Outcome(s, c, o)
<1> DEFINE told == Dispatch(s, "MINER_PAYMENT_TX_SLATE", c.id)
           loaded(x) == [store |-> Dispatch(x, "IS_TX_SLATE_LOADING", FALSE), next |-> <<>>]
<1>1. o \in {loaded(told), loaded(s)}
  BY DEF fetchMinerPaymentTxSlate, Done
<1>2. /\ "IS_TX_SLATE_LOADING" \in DataTypes \ {"LATEST_BLOCK"} /\ <<>> \in Seq(Quiet)
      /\ "MINER_PAYMENT_TX_SLATE" \in DataTypes \ {"LATEST_BLOCK"}
  BY DEF DataTypes
<1>3. /\ DataFits("IS_TX_SLATE_LOADING", FALSE)
      /\ DataOwners("IS_TX_SLATE_LOADING", FALSE) = {}
      /\ DataFits("MINER_PAYMENT_TX_SLATE", c.id)
      /\ DataOwners("MINER_PAYMENT_TX_SLATE", c.id) \subseteq {c.id} /\ c.thunk \in Writers
  BY DEF DataFits, DataOwners, RequestFits, Writers, Private, Scalars
<1>4. CASE o = loaded(s)
  BY <1>2, <1>3, <1>4, OneSlice
<1>5. CASE o = loaded(told)
  <2>1. Outcome(s, c, [store |-> told, next |-> <<>>])
    BY <1>2, <1>3, OneSlice
  <2>2. /\ StoreType(told, Height) /\ Latest(told) = Latest(s) /\ SameAccount(s, told)
        /\ told.minerData.isPaymentSettingProcessing
              = s.minerData.isPaymentSettingProcessing
        /\ ClearedOwners(told) \subseteq ClearedOwners(s) \cup {NoUser, c.id}
        /\ KeptOwners(told) \subseteq KeptOwners(s) \cup KeptData("MINER_PAYMENT_TX_SLATE", c.id)
    BY <1>2, <1>3, DataDispatched
  <2>7. KeptData("MINER_PAYMENT_TX_SLATE", c.id) = {}
    BY DEF KeptData
  <2>3. /\ told.networkData.historical = s.networkData.historical
        /\ told.muglePoolData.historical = s.muglePoolData.historical
        /\ told.minerData.historical = s.minerData.historical
    <3>1. HistoriesBecome(s, told, "MINER_PAYMENT_TX_SLATE", c.id)
      BY <1>2, HistoriesDispatched
    <3> HIDE DEF told
    <3> QED BY <3>1 DEF HistoriesBecome
  <2> HIDE DEF told
  <2>4. Outcome(told, c, o)
    BY <1>2, <1>3, <1>5, <2>2, OneSlice
  <2>5. c.thunk # "setPaymentMethodSetting"
    OBVIOUS
  <2>6. Histories(told, c, o.store) => Histories(s, c, o.store)
    BY <2>3 DEF Histories
  <2> QED BY <1>3, <2>2, <2>4, <2>5, <2>6, <2>7 DEF Outcome, SameAccount
<1> QED BY <1>1, <1>4, <1>5

LEMMA Outcome_setPaymentMethodSetting ==
    ASSUME NEW s, StoreType(s, Height), NEW c, RequestFits(c, tip), tip \in Nat,
           tip <= MaxTip, c.thunk = "setPaymentMethodSetting",
           NEW o \in setPaymentMethodSetting(s, c)
    PROVE  Outcome(s, c, o)
<1>1. PICK t \in PayoutTypes, d \in {c.id, NoUser, FALSE} :
         /\ o = [store |-> Dispatch(s, t, d), next |-> <<>>]
         /\ t = "MANUAL_PAYMENT_SUBMISSION" => d \in {c.id, NoUser}
         /\ t = "IS_PAYMENT_SETTING_PROCESSING" => d = FALSE
  <2>1. \/ o = [store |-> Dispatch(s, "MANUAL_PAYMENT_SUBMISSION", c.id), next |-> <<>>]
        \/ o = [store |-> Dispatch(s, "MANUAL_PAYMENT_SUBMISSION", NoUser), next |-> <<>>]
        \/ o = [store |-> Dispatch(s, "MANUAL_PAYMENT_FAILURE", NoUser), next |-> <<>>]
        \/ o = [store |-> Dispatch(s, "IS_PAYMENT_SETTING_PROCESSING", FALSE), next |-> <<>>]
    <3>1. PICK a \in {<<"MANUAL_PAYMENT_SUBMISSION", c.id>>,
                      <<"MANUAL_PAYMENT_SUBMISSION", NoUser>>,
                      <<"MANUAL_PAYMENT_FAILURE", NoUser>>,
                      <<"IS_PAYMENT_SETTING_PROCESSING", FALSE>>} :
               o = [store |-> Dispatch(s, a[1], a[2]), next |-> <<>>]
      BY DEF setPaymentMethodSetting, Done
    <3>2. CASE a = <<"MANUAL_PAYMENT_SUBMISSION", c.id>>
      <4>1. a[1] = "MANUAL_PAYMENT_SUBMISSION" /\ a[2] = c.id
        BY <3>2
      <4> QED BY <3>1, <4>1
    <3>3. CASE a = <<"MANUAL_PAYMENT_SUBMISSION", NoUser>>
      <4>1. a[1] = "MANUAL_PAYMENT_SUBMISSION" /\ a[2] = NoUser
        BY <3>3
      <4> QED BY <3>1, <4>1
    <3>4. CASE a = <<"MANUAL_PAYMENT_FAILURE", NoUser>>
      <4>1. a[1] = "MANUAL_PAYMENT_FAILURE" /\ a[2] = NoUser
        BY <3>4
      <4> QED BY <3>1, <4>1
    <3>5. CASE a = <<"IS_PAYMENT_SETTING_PROCESSING", FALSE>>
      <4>1. a[1] = "IS_PAYMENT_SETTING_PROCESSING" /\ a[2] = FALSE
        BY <3>5
      <4> QED BY <3>1, <4>1
    <3> QED BY <3>2, <3>3, <3>4, <3>5
  <2> DEFINE told(t, d) ==
                /\ o = [store |-> Dispatch(s, t, d), next |-> <<>>]
                /\ t = "MANUAL_PAYMENT_SUBMISSION" => d \in {c.id, NoUser}
                /\ t = "IS_PAYMENT_SETTING_PROCESSING" => d = FALSE
  <2>2. \/ told("MANUAL_PAYMENT_SUBMISSION", c.id)
        \/ told("MANUAL_PAYMENT_SUBMISSION", NoUser)
        \/ told("MANUAL_PAYMENT_FAILURE", NoUser)
        \/ told("IS_PAYMENT_SETTING_PROCESSING", FALSE)
    BY <2>1
  <2> HIDE DEF told
  <2>3. \E t \in PayoutTypes, d \in {c.id, NoUser, FALSE} : told(t, d)
    BY <2>2 DEF PayoutTypes
  <2> QED BY <2>3 DEF told
<1> DEFINE new == Dispatch(s, t, d)
<1>2. c.id \in Owner /\ NoUser \in Owner /\ c.thunk \in Writers
  BY DEF RequestFits, Owner, Writers, Private
<1>3. DataFits(t, d)
  BY <1>1, <1>2 DEF DataFits, PayoutTypes
<1>4. StoreType(new, Height)
  BY <1>3, DispatchFits
<1>5. t \in DataTypes \cup PayoutTypes /\ t # "LATEST_BLOCK"
  BY DEF PayoutTypes
<1>6. SameAccount(s, new) /\ ~Out(t, d) /\ Latest(new) = Latest(s)
  BY <1>5, AccountDispatched, LatestDispatched
<1>7. ClearedOwners(new) \subseteq ClearedOwners(s) \cup {NoUser, c.id}
  <2>1. ClearedOwners(new) \subseteq ClearedOwners(s) \cup {NoUser} \cup DataOwners(t, d)
    BY <1>6, OwnersDispatched
  <2>2. DataOwners(t, d) \subseteq {NoUser, c.id}
    BY <1>1 DEF DataOwners, PayoutTypes
  <2> HIDE DEF new
  <2> QED BY <2>1, <2>2
<1>11. KeptOwners(new) \subseteq KeptOwners(s)
  <2>1. KeptOwners(new) \subseteq KeptOwners(s) \cup KeptData(t, d)
    BY KeptDispatched
  <2>2. KeptData(t, d) = {}
    BY DEF KeptData, PayoutTypes
  <2> HIDE DEF new
  <2> QED BY <2>1, <2>2
<1>8. Histories(s, c, new)
  <2>1. HistoriesBecome(s, new, t, d)
    BY <1>5, HistoriesDispatched
  <2>2. t \notin {"NETWORK_DATA", "MUGLE_POOL_DATA", "MINER_DATA"}
    BY DEF PayoutTypes
  <2> HIDE DEF new
  <2> QED BY <2>1, <2>2 DEF HistoriesBecome, Histories
<1>9. new.minerData.isPaymentSettingProcessing = FALSE
  <2> DEFINE m == s.minerData
             n == new.minerData
  <2>1. MineBecomes(m, n, t, d)
    BY MineFields
  <2> HIDE DEF m, n, new
  <2>2. n.isPaymentSettingProcessing = FALSE
    BY <1>1, <2>1 DEF MineBecomes, PayoutTypes
  <2> QED BY <2>2 DEF n
<1>10. o.store = new /\ o.next = <<>> /\ <<>> \in Seq(Quiet)
  BY <1>1
<1> HIDE DEF new
<1> QED BY <1>2, <1>4, <1>6, <1>7, <1>8, <1>9, <1>10, <1>11 DEF Outcome

LEMMA LandedFits ==
    ASSUME NEW s, StoreType(s, Height), NEW c, RequestFits(c, tip), tip \in Nat,
           tip <= MaxTip, c.thunk \in Thunks, NEW o \in Landed(s, c)
    PROVE  Outcome(s, c, o)
<1>1. CASE c.thunk = "fetchMinerData"
  <2>1. o \in fetchMinerData(s, c)
    BY <1>1 DEF Landed
  <2> QED BY <1>1, <2>1, Outcome_fetchMinerData
<1>2. CASE c.thunk = "fetchMuglePoolData"
  <2>1. o \in fetchMuglePoolData(s, c)
    BY <1>2 DEF Landed
  <2> QED BY <1>2, <2>1, Outcome_fetchMuglePoolData
<1>3. CASE c.thunk = "fetchMuglePoolSharesSubmitted"
  <2>1. o \in fetchMuglePoolSharesSubmitted(s, c)
    BY <1>3 DEF Landed
  <2> QED BY <1>3, <2>1, Outcome_fetchMuglePoolSharesSubmitted
<1>4. CASE c.thunk = "fetchNetworkData"
  <2>1. o \in fetchNetworkData(s, c)
    BY <1>4 DEF Landed
  <2> QED BY <1>4, <2>1, Outcome_fetchNetworkData
<1>5. CASE c.thunk = "fetchMinerShareData"
  <2>1. o \in fetchMinerShareData(s, c)
    BY <1>5 DEF Landed
  <2> QED BY <1>5, <2>1, Outcome_fetchMinerShareData
<1>6. CASE c.thunk = "fetchRigData"
  <2>1. o \in fetchRigData(s, c)
    BY <1>6 DEF Landed
  <2> QED BY <1>6, <2>1, Outcome_fetchRigData
<1>7. CASE c.thunk = "getLatestBlock"
  <2>1. o \in getLatestBlock(s, c)
    BY <1>7 DEF Landed
  <2> QED BY <1>7, <2>1, Outcome_getLatestBlock
<1>8. CASE c.thunk = "fetchNetworkRecentBlocks"
  <2>1. o \in fetchNetworkRecentBlocks(s, c)
    BY <1>8 DEF Landed
  <2> QED BY <1>8, <2>1, Outcome_fetchNetworkRecentBlocks
<1>9. CASE c.thunk = "getMinedBlocksAlgos"
  <2>1. o \in getMinedBlocksAlgos(s, c)
    BY <1>9 DEF Landed
  <2> QED BY <1>9, <2>1, Outcome_getMinedBlocksAlgos
<1>10. CASE c.thunk = "fetchMuglePoolLastBlock"
  <2>1. o \in fetchMuglePoolLastBlock(s, c)
    BY <1>10 DEF Landed
  <2> QED BY <1>10, <2>1, Outcome_fetchMuglePoolLastBlock
<1>11. CASE c.thunk = "fetchMuglePoolRecentBlocks"
  <2>1. o \in fetchMuglePoolRecentBlocks(s, c)
    BY <1>11 DEF Landed
  <2> QED BY <1>11, <2>1, Outcome_fetchMuglePoolRecentBlocks
<1>12. CASE c.thunk = "fetchMuglePoolBlocksMined"
  <2>1. o \in fetchMuglePoolBlocksMined(s, c)
    BY <1>12 DEF Landed
  <2> QED BY <1>12, <2>1, Outcome_fetchMuglePoolBlocksMined
<1>13. CASE c.thunk = "fetchMinerTotalValidShares"
  <2>1. o \in fetchMinerTotalValidShares(s, c)
    BY <1>13 DEF Landed
  <2> QED BY <1>13, <2>1, Outcome_fetchMinerTotalValidShares
<1>14. CASE c.thunk = "fetchMinerPaymentData"
  <2>1. o \in fetchMinerPaymentData(s, c)
    BY <1>14 DEF Landed
  <2> QED BY <1>14, <2>1, Outcome_fetchMinerPaymentData
<1>15. CASE c.thunk = "fetchMinerImmatureBalance"
  <2>1. o \in fetchMinerImmatureBalance(s, c)
    BY <1>15 DEF Landed
  <2> QED BY <1>15, <2>1, Outcome_fetchMinerImmatureBalance
<1>16. CASE c.thunk = "fetchMinerLatestBlockReward"
  <2>1. o \in fetchMinerLatestBlockReward(s, c)
    BY <1>16 DEF Landed
  <2> QED BY <1>16, <2>1, Outcome_fetchMinerLatestBlockReward
<1>17. CASE c.thunk = "fetchMinerNextBlockReward"
  <2>1. o \in fetchMinerNextBlockReward(s, c)
    BY <1>17 DEF Landed
  <2> QED BY <1>17, <2>1, Outcome_fetchMinerNextBlockReward
<1>18. CASE c.thunk = "getLatestMinerPayments"
  <2>1. o \in getLatestMinerPayments(s, c)
    BY <1>18 DEF Landed
  <2> QED BY <1>18, <2>1, Outcome_getLatestMinerPayments
<1>19. CASE c.thunk = "getLatestMinerPaymentRange"
  <2>1. o \in getLatestMinerPaymentRange(s, c)
    BY <1>19 DEF Landed
  <2> QED BY <1>19, <2>1, Outcome_getLatestMinerPaymentRange
<1>20. CASE c.thunk = "fetchMinerPaymentTxSlate"
  <2>1. o \in fetchMinerPaymentTxSlate(s, c)
    BY <1>20 DEF Landed
  <2> QED BY <1>20, <2>1, Outcome_fetchMinerPaymentTxSlate
<1>21. CASE c.thunk = "setPaymentMethodSetting"
  <2>1. o \in setPaymentMethodSetting(s, c)
    BY <1>21 DEF Landed
  <2> QED BY <1>21, <2>1, Outcome_setPaymentMethodSetting
<1> QED
  BY <1>1, <1>2, <1>3, <1>4, <1>5, <1>6, <1>7, <1>8, <1>9, <1>10, <1>11,
     <1>12, <1>13, <1>14, <1>15, <1>16, <1>17, <1>18, <1>19, <1>20, <1>21
  DEF Thunks, Private, Scalars, NeedsHeight, WindowThunks

-----------------------------------------------------------------------------
(* What a thunk reads of the store before its await.                       *)
LEMMA RequestNames ==
    ASSUME NEW s, NEW t
    PROVE  /\ Request(s, t).thunk = t
           /\ Request(s, t).id = IF t \in Private THEN s.auth.account ELSE NoUser
           /\ t \in NeedsHeight => Request(s, t).latest = Latest(s)
           /\ t \in WindowThunks => Request(s, t).rows = WindowOf(s, t)
           /\ t = "fetchMinerShareData" => Request(s, t).known = s.minerData.minerShareData
           /\ t = "fetchRigData" => Request(s, t).workers = s.minerData.rigWorkers
           /\ t \in {"getMinedBlocksAlgos", "fetchMuglePoolRecentBlocks",
                     "fetchMuglePoolBlocksMined"} =>
                 Request(s, t).algos = s.networkData.minedBlockAlgos
           /\ t = "fetchMuglePoolBlocksMined" =>
                 /\ Request(s, t).mined = s.muglePoolData.poolBlocksMined
                 /\ Request(s, t).orphaned = s.muglePoolData.poolBlocksOrphaned
<1> DEFINE id == IF t \in Private THEN s.auth.account ELSE NoUser
<1>1. CASE t \in WindowThunks
  <2>1. Request(s, t)
           = [thunk |-> t, id |-> id, latest |-> Latest(s), rows |-> WindowOf(s, t)]
    BY <1>1 DEF Request, WindowThunks
  <2>2. t \notin {"fetchMinerShareData", "fetchRigData", "getMinedBlocksAlgos",
                  "fetchMuglePoolRecentBlocks", "fetchMuglePoolBlocksMined"}
    BY <1>1 DEF WindowThunks
  <2> HIDE DEF id
  <2>3. /\ Request(s, t).thunk = t /\ Request(s, t).id = id
        /\ Request(s, t).latest = Latest(s) /\ Request(s, t).rows = WindowOf(s, t)
    BY <2>1
  <2> QED BY <2>2, <2>3 DEF id
<1>2. CASE t = "fetchMinerShareData"
  <2>1. Request(s, t) = [thunk |-> t, id |-> id, latest |-> Latest(s),
                         known |-> s.minerData.minerShareData]
    BY <1>2 DEF Request, WindowThunks
  <2> QED BY <1>2, <2>1 DEF WindowThunks
<1>3. CASE t = "fetchRigData"
  <2>1. Request(s, t) = [thunk |-> t, id |-> id, latest |-> Latest(s),
                         workers |-> s.minerData.rigWorkers]
    BY <1>3 DEF Request, WindowThunks
  <2> QED BY <1>3, <2>1 DEF WindowThunks
<1>4. CASE t \in {"getMinedBlocksAlgos", "fetchMuglePoolRecentBlocks"}
  <2>1. Request(s, t) = [thunk |-> t, id |-> id, latest |-> Latest(s),
                         algos |-> s.networkData.minedBlockAlgos]
    BY <1>4 DEF Request, WindowThunks
  <2> QED BY <1>4, <2>1 DEF WindowThunks
<1>5. CASE t = "fetchMuglePoolBlocksMined"
  <2>1. Request(s, t) = [thunk |-> t, id |-> id, latest |-> Latest(s),
                         algos |-> s.networkData.minedBlockAlgos,
                         mined |-> s.muglePoolData.poolBlocksMined,
                         orphaned |-> s.muglePoolData.poolBlocksOrphaned]
    BY <1>5 DEF Request, WindowThunks
  <2> QED BY <1>5, <2>1 DEF WindowThunks
<1>6. CASE t = "fetchNetworkRecentBlocks"
  <2>1. Request(s, t) = [thunk |-> t, id |-> id, latest |-> Latest(s)]
    BY <1>6 DEF Request, WindowThunks
  <2> QED BY <1>6, <2>1 DEF WindowThunks
<1>7. CASE t \notin NeedsHeight
  <2>1. t \notin WindowThunks /\ t \notin {"fetchMinerShareData", "fetchRigData",
            "getMinedBlocksAlgos", "fetchMuglePoolRecentBlocks",
            "fetchMuglePoolBlocksMined", "fetchNetworkRecentBlocks"}
    BY <1>7 DEF NeedsHeight
  <2>2. Request(s, t) = [thunk |-> t, id |-> id]
    BY <2>1 DEF Request
  <2>3. Request(s, t).thunk = t /\ Request(s, t).id = id
    BY <2>2
  <2> HIDE DEF id
  <2> QED BY <1>7, <2>1, <2>3 DEF id
<1> QED BY <1>1, <1>2, <1>3, <1>4, <1>5, <1>6, <1>7 DEF NeedsHeight

LEMMA RequestMade ==
    ASSUME NEW s, StoreType(s, Height), NEW t \in Thunks, Starts(s, t), NEW top \in Nat,
           Latest(s) <= top
    PROVE  /\ RequestFits(Request(s, t), top)
           /\ Recalled(Request(s, t)) \subseteq ClearedOwners(s)
           /\ Handed(Request(s, t)) \subseteq KeptOwners(s)
           /\ t \notin Private => Recalled(Request(s, t)) \cup Handed(Request(s, t)) = {}
<1> DEFINE r == Request(s, t)
<1>1. /\ r.thunk = t
      /\ r.id = IF t \in Private THEN s.auth.account ELSE NoUser
      /\ t \in NeedsHeight => r.latest = Latest(s)
      /\ t \in WindowThunks => r.rows = WindowOf(s, t)
      /\ t = "fetchMinerShareData" => r.known = s.minerData.minerShareData
      /\ t = "fetchRigData" => r.workers = s.minerData.rigWorkers
      /\ t \in {"getMinedBlocksAlgos", "fetchMuglePoolRecentBlocks",
                "fetchMuglePoolBlocksMined"} => r.algos = s.networkData.minedBlockAlgos
      /\ t = "fetchMuglePoolBlocksMined" =>
            /\ r.mined = s.muglePoolData.poolBlocksMined
            /\ r.orphaned = s.muglePoolData.poolBlocksOrphaned
  BY RequestNames
<1> HIDE DEF r
<1>2. /\ NetType(s.networkData) /\ PoolType(s.muglePoolData) /\ MineType(s.minerData)
      /\ AuthType(s.auth)
  BY StoreParts
<1>3. t \in NeedsHeight => r.latest \in 1..top
  <2>1. Latest(s) \in Height \cup {0}
    BY <1>2 DEF NetType, Latest
  <2>2. \A h \in Height : h \in Int /\ 1 <= h
    BY BoundAssumption DEF Height
  <2> QED BY <1>1, <2>1, <2>2 DEF Starts
<1>4. t \in WindowThunks => r.rows \in Seq(Rows(Height))
  <2>1. t \in WindowThunks => WindowOf(s, t) \in {s.networkData.historical,
           s.muglePoolData.historical, s.muglePoolData.sharesSubmitted,
           s.minerData.historical}
    BY DEF WindowThunks, WindowOf
  <2> QED BY <1>1, <1>2, <2>1 DEF NetType, PoolType, MineType
<1>5. r.id \in Owner /\ (t \in Private => r.id \in Users)
  BY <1>1, <1>2 DEF AuthType, Owner, Starts
<1>6. t \notin {"login", "createUser"}
  BY DEF Thunks, Private, Scalars, NeedsHeight, WindowThunks
<1>7. RequestFits(r, top)
  <2>1. t = "fetchMinerShareData" => r.known \subseteq Rows(Height)
    BY <1>1, <1>2 DEF MineType
  <2>2. t = "fetchRigData" => r.workers \subseteq Users
    BY <1>1, <1>2 DEF MineType
  <2>3. t \in {"getMinedBlocksAlgos", "fetchMuglePoolRecentBlocks",
               "fetchMuglePoolBlocksMined"} =>
           r.algos \in [c29 : Seq(Height), c31 : Seq(Height)]
    BY <1>1, <1>2 DEF NetType
  <2>4. t = "fetchMuglePoolBlocksMined" =>
           /\ r.mined \in [c29 : SUBSET Height, c31 : SUBSET Height]
           /\ r.orphaned \subseteq Height
    BY <1>1, <1>2 DEF PoolType
  <2> QED BY <1>1, <1>3, <1>4, <1>5, <1>6, <2>1, <2>2, <2>3, <2>4 DEF RequestFits
<1>8. Recalled(r) \subseteq ClearedOwners(s) /\ (t \notin Private => Recalled(r) = {})
  <2>1. CASE t = "fetchMinerData"
    <3>1. r.rows = s.minerData.historical
      BY <1>1, <2>1 DEF WindowThunks, WindowOf
    <3>2. Recalled(r) = Owners(s.minerData.historical)
      BY <1>1, <2>1, <3>1 DEF Recalled
    <3> QED BY <2>1, <3>2 DEF ClearedOwners, Private
  <2>2. CASE t = "fetchMinerShareData"
    <3>1. Recalled(r) = RowOwners(s.minerData.minerShareData)
      BY <1>1, <2>2 DEF Recalled
    <3> QED BY <2>2, <3>1 DEF ClearedOwners, Private
  <2>3. CASE t \notin {"fetchMinerData", "fetchMinerShareData"}
    BY <1>1, <2>3 DEF Recalled
  <2> QED BY <2>1, <2>2, <2>3
<1>9. Handed(r) \subseteq KeptOwners(s) /\ (t \notin Private => Handed(r) = {})
  BY <1>1 DEF Handed, KeptOwners, Private
<1> QED BY <1>7, <1>8, <1>9 DEF r

-----------------------------------------------------------------------------
(* What is true of the store, the requests and the rest of the state.  Of  *)
(* whom data may be besides the account, in the slices that a sign-out     *)
(* clears and in those that it leaves, is one record.                      *)
Known == [cleared |-> left, kept |-> left \cup former]

Nobody == [cleared |-> {}, kept |-> {}]

StoreFits(s, top, known) ==
    /\ StoreType(s, Height) /\ Latest(s) <= top
    /\ ClearedOwners(s) \subseteq {NoUser, s.auth.account} \cup known.cleared
    /\ KeptOwners(s) \subseteq {NoUser, s.auth.account} \cup known.kept

CallFits(c, top, known) ==
    /\ RequestFits(c, top) /\ c.thunk \in Live \cup {"login", "createUser"}
    /\ Recalled(c) \subseteq {NoUser, c.id} \cup known.cleared
    /\ Handed(c) \subseteq {NoUser, c.id} \cup known.kept

CallsFit(bag, top, known) ==
    BagFits(bag) /\ \A c \in DOMAIN bag : CallFits(c, top, known)

Kinds == {"RigGraph", "RigData"}

Noted == left \subseteq Users /\ former \subseteq Users /\ unwaited \subseteq Users

(* The payouts in flight, user by user.                                    *)
Payouts(bag) == [u \in Users |-> PayoutsOf(bag, u)]

PaysFor(u, c) == c.thunk = "setPaymentMethodSetting" /\ c.id = u

Around ==
    /\ visit \in Visits /\ tip \in 1..visit.blocks
    /\ session \in Owner /\ expired \in BOOLEAN
    /\ page \in Pages \cup {"rigs", "login"} /\ timers \subseteq Kinds
    /\ Noted

LEMMA StartedKeeps ==
    ASSUME visit \in Visits, NEW s, NEW top \in Nat, NEW known, StoreFits(s, top, known),
           NEW bag, CallsFit(bag, top, known), NEW thunks \in Seq(Thunks),
           NEW b \in Started(s, bag, thunks)
    PROVE  /\ CallsFit(b, top, known) /\ DOMAIN bag \subseteq DOMAIN b
           /\ SentBy(s, Thunks, bag, b)
<1>1. BagFits(b) /\ DOMAIN bag \subseteq DOMAIN b /\ SentBy(s, Thunks, bag, b)
  <2>1. BagFits(bag)
    BY DEF CallsFit
  <2>2. BagFits(b) /\ DOMAIN bag \subseteq DOMAIN b /\ SentBy(s, Thunks, bag, b)
    BY <2>1, StartedFits
  <2> QED BY <2>2
<1>2. ASSUME NEW t \in Thunks, Starts(s, t)
      PROVE  CallFits(Request(s, t), top, known)
  <2> DEFINE r == Request(s, t)
  <2>1. RequestFits(r, top) /\ Recalled(r) \subseteq ClearedOwners(s)
        /\ Handed(r) \subseteq KeptOwners(s)
        /\ (t \notin Private => Recalled(r) \cup Handed(r) = {})
    BY <1>2, RequestMade DEF StoreFits
  <2>2. r.thunk = t /\ (t \in Private => r.id = s.auth.account)
    BY RequestNames
  <2>3. t \in Live
    BY <1>2 DEF Starts
  <2> HIDE DEF r
  <2>4. /\ Recalled(r) \subseteq {NoUser, r.id} \cup known.cleared
        /\ Handed(r) \subseteq {NoUser, r.id} \cup known.kept
    BY <2>1, <2>2 DEF StoreFits
  <2>5. CallFits(r, top, known)
    BY <2>1, <2>2, <2>3, <2>4 DEF CallFits
  <2> QED BY <2>5 DEF r
<1>3. CallsFit(b, top, known)
  BY <1>1, <1>2 DEF CallsFit, SentBy
<1> QED BY <1>1, <1>3

LEMMA StartedQuiet ==
    ASSUME visit \in Visits, NEW s, NEW top \in Nat, NEW known, StoreFits(s, top, known),
           NEW bag, CallsFit(bag, top, known), NEW thunks \in Seq(Quiet),
           NEW b \in Started(s, bag, thunks)
    PROVE  /\ CallsFit(b, top, known) /\ DOMAIN bag \subseteq DOMAIN b
           /\ SentBy(s, Thunks, bag, b) /\ Payouts(b) = Payouts(bag)
<1>1. thunks \in Seq(Thunks)
  BY DEF Quiet
<1>2. /\ CallsFit(b, top, known) /\ DOMAIN bag \subseteq DOMAIN b
      /\ SentBy(s, Thunks, bag, b)
  BY <1>1, StartedKeeps
<1>3. ASSUME NEW u \in Users
      PROVE  PayoutsOf(b, u) = PayoutsOf(bag, u)
  <2> DEFINE C == {c \in DOMAIN b : PaysFor(u, c)}
  <2>1. \A t \in Quiet : Starts(s, t) => Request(s, t) \notin C
    BY RequestNames DEF Quiet, PaysFor
  <2>2. Copies(b, C \cap DOMAIN b) = Copies(bag, C \cap DOMAIN bag)
    <3>1. BagFits(bag)
      BY DEF CallsFit
    <3>2. ASSUME NEW D, \A t \in Quiet : Starts(s, t) => Request(s, t) \notin D
          PROVE  SameCopies(b, bag, D)
      <4> HIDE DEF C
      <4> QED BY <3>1, <3>2, StartedFits
    <3> HIDE DEF C
    <3> QED BY <2>1, <3>2 DEF SameCopies
  <2>3. /\ C \cap DOMAIN b = C
        /\ C \cap DOMAIN bag = {c \in DOMAIN bag : PaysFor(u, c)}
    BY <1>2
  <2> QED BY <2>2, <2>3 DEF PayoutsOf, PaysFor
<1>4. Payouts(b) = Payouts(bag)
  BY <1>3 DEF Payouts
<1> QED BY <1>2, <1>4

LEMMA PayoutsBounded ==
    ASSUME NEW bag, BagFits(bag)
    PROVE  Payouts(bag) \in [Users -> Nat]
<1> SUFFICES ASSUME NEW u \in Users
             PROVE  PayoutsOf(bag, u) \in Nat
  BY DEF Payouts
<1> DEFINE P == {c \in DOMAIN bag : PaysFor(u, c)}
<1>1. Copies(bag, P) \subseteq Copies(bag, DOMAIN bag)
  BY DEF Copies
<1>2. IsFiniteSet(Copies(bag, P))
  <2> HIDE DEF P
  <2> QED BY <1>1, FS_Subset DEF BagFits
<1>3. Cardinality(Copies(bag, P)) \in Nat
  BY <1>2, FS_CardinalityType
<1> QED BY <1>3 DEF PayoutsOf, PaysFor

(* Who has none.                                                           *)
LEMMA NoPayouts ==
    ASSUME NEW bag, NEW u \in Users, u \notin Payers(bag)
    PROVE  Payouts(bag)[u] = 0
<1>1. {c \in DOMAIN bag : c.thunk = "setPaymentMethodSetting" /\ c.id = u} = {}
  BY DEF Payers
<1>2. Copies(bag, {}) = {}
  BY DEF Copies
<1> QED BY <1>1, <1>2, FS_EmptySet DEF Payouts, PayoutsOf

LEMMA PayersAreUsers ==
    ASSUME NEW bag, NEW top, NEW known, CallsFit(bag, top, known)
    PROVE  Payers(bag) \subseteq Users
BY DEF Payers, CallsFit, CallFits, RequestFits, Private

(* A request lands or is refused.                                          *)
LEMMA WithoutFits ==
    ASSUME NEW top, NEW known, CallsFit(calls, top, known), NEW c \in DOMAIN calls
    PROVE  /\ CallsFit(Without(c), top, known) /\ DOMAIN Without(c) \subseteq DOMAIN calls
           /\ InFlight(Without(c)) < MaxCalls
           /\ \A x \in DOMAIN calls : x # c => x \in DOMAIN Without(c)
           /\ \A u \in Users : Payouts(Without(c))[u]
                 = Payouts(calls)[u] - (IF PaysFor(u, c) THEN 1 ELSE 0)
           /\ c.thunk # "setPaymentMethodSetting" => Payouts(Without(c)) = Payouts(calls)
<1> DEFINE b == Without(c)
<1>1. BagFits(calls) /\ b = calls (-) SetToBag({c})
  BY DEF CallsFit, Without
<1> HIDE DEF b
<1>2. /\ BagFits(b) /\ InFlight(b) = InFlight(calls) - 1
      /\ DOMAIN b \subseteq DOMAIN calls
      /\ \A x \in DOMAIN calls : x # c => x \in DOMAIN b
      /\ \A C : Copies(b, C \cap DOMAIN b)
                   = Copies(calls, C \cap DOMAIN calls) \ {<<c, calls[c]>>}
  BY <1>1, TakenOut
<1>3. InFlight(b) < MaxCalls
  <2>1. InFlight(calls) \in Nat /\ MaxCalls \in Nat /\ InFlight(calls) <= MaxCalls
    BY <1>1, FS_CardinalityType, BoundAssumption DEF BagFits, InFlight
  <2> QED BY <1>2, <2>1
<1>4. CallsFit(b, top, known)
  BY <1>2 DEF CallsFit
<1>5. Payouts(b) \in [Users -> Nat] /\ Payouts(calls) \in [Users -> Nat]
  BY <1>1, <1>2, PayoutsBounded
<1>6. ASSUME NEW u \in Users
      PROVE  PayoutsOf(b, u) = PayoutsOf(calls, u) - (IF PaysFor(u, c) THEN 1 ELSE 0)
  <2> DEFINE P == {x \in DOMAIN calls : PaysFor(u, x)}
  <2>1. /\ P \cap DOMAIN b = {x \in DOMAIN b : PaysFor(u, x)}
        /\ P \cap DOMAIN calls = P
    BY <1>2
  <2>2. /\ PayoutsOf(b, u) = Cardinality(Copies(b, P \cap DOMAIN b))
        /\ PayoutsOf(calls, u) = Cardinality(Copies(calls, P))
    BY <2>1 DEF PayoutsOf, PaysFor
  <2>3. c \in P <=> PaysFor(u, c)
    OBVIOUS
  <2> HIDE DEF P
  <2>4. PayoutsOf(b, u) = Cardinality(Copies(calls, P) \ {<<c, calls[c]>>})
    BY <1>2, <2>1, <2>2
  <2>5. IsFiniteSet(Copies(calls, P))
    <3>1. Copies(calls, P) \subseteq Copies(calls, DOMAIN calls)
      BY <2>1 DEF Copies
    <3> QED BY <1>1, <3>1, FS_Subset DEF BagFits
  <2>6. CASE PaysFor(u, c)
    <3>1. calls[c] \in Nat /\ calls[c] > 0
      BY <1>1 DEF BagFits, IsABag
    <3>2. calls[c] \in 1..calls[c] /\ c \in P
      BY <2>3, <2>6, <3>1
    <3>3. <<c, calls[c]>> \in Copies(calls, P)
      BY <3>2 DEF Copies
    <3> QED BY <2>2, <2>4, <2>5, <2>6, <3>3, FS_RemoveElement
  <2>7. CASE ~PaysFor(u, c)
    <3>1. <<c, calls[c]>> \notin Copies(calls, P)
      BY <2>3, <2>7 DEF Copies
    <3>2. Copies(calls, P) \ {<<c, calls[c]>>} = Copies(calls, P)
      BY <3>1
    <3>3. PayoutsOf(b, u) = PayoutsOf(calls, u) /\ PayoutsOf(calls, u) \in Nat
      BY <2>2, <2>4, <2>5, <3>2, FS_CardinalityType
    <3> QED BY <2>7, <3>3
  <2> QED BY <2>6, <2>7
<1>7. \A u \in Users : Payouts(b)[u] = Payouts(calls)[u] - (IF PaysFor(u, c) THEN 1 ELSE 0)
  BY <1>6 DEF Payouts
<1>8. c.thunk # "setPaymentMethodSetting" => Payouts(b) = Payouts(calls)
  <2> SUFFICES ASSUME c.thunk # "setPaymentMethodSetting"
               PROVE  Payouts(b) = Payouts(calls)
    OBVIOUS
  <2>1. \A u \in Users : ~PaysFor(u, c)
    BY DEF PaysFor
  <2>2. \A u \in Users : Payouts(b)[u] = Payouts(calls)[u]
    BY <1>5, <1>7, <2>1
  <2> QED BY <1>5, <2>2
<1> QED BY <1>2, <1>3, <1>4, <1>7, <1>8 DEF b

(* One request of the login page is put in.                                *)
LEMMA AddedFits ==
    ASSUME NEW bag, NEW top, NEW known, CallsFit(bag, top, known), InFlight(bag) < MaxCalls,
           NEW c, c.thunk \in {"login", "createUser"}, CallFits(c, top, known),
           NEW b, b = bag (+) SetToBag({c})
    PROVE  /\ CallsFit(b, top, known) /\ DOMAIN b = DOMAIN bag \cup {c}
           /\ Payouts(b) = Payouts(bag)
<1>1. BagFits(bag)
  BY DEF CallsFit
<1>2. /\ BagFits(b) /\ DOMAIN b = DOMAIN bag \cup {c}
      /\ \A C : c \in C \/ SameCopies(b, bag, C)
  BY <1>1, PutIn
<1>3. ASSUME NEW u \in Users
      PROVE  PayoutsOf(b, u) = PayoutsOf(bag, u)
  <2> DEFINE P == {x \in DOMAIN b : PaysFor(u, x)}
  <2>1. /\ P \cap DOMAIN b = P
        /\ P \cap DOMAIN bag = {x \in DOMAIN bag : PaysFor(u, x)}
    BY <1>2
  <2>2. c \notin P
    BY DEF PaysFor
  <2>3. Copies(b, P \cap DOMAIN b) = Copies(bag, P \cap DOMAIN bag)
    <3> HIDE DEF P
    <3> QED BY <1>2, <2>2 DEF SameCopies
  <2> QED BY <2>1, <2>3 DEF PayoutsOf, PaysFor
<1>4. Payouts(b) = Payouts(bag)
  BY <1>3 DEF Payouts
<1>5. CallsFit(b, top, known)
  BY <1>2 DEF CallsFit
<1> QED BY <1>2, <1>4, <1>5

(* One payout is put in.                                                   *)
LEMMA PayoutSent ==
    ASSUME NEW bag, BagFits(bag), InFlight(bag) < MaxCalls, NEW c, NEW b,
           b = bag (+) SetToBag({c})
    PROVE  \A u \in Users : Payouts(b)[u] <= Payouts(bag)[u] + 1
<1> SUFFICES ASSUME NEW u \in Users
             PROVE  PayoutsOf(b, u) <= PayoutsOf(bag, u) + 1
  BY DEF Payouts
<1> DEFINE P == {x \in DOMAIN b : PaysFor(u, x)}
<1>1. /\ DOMAIN b = DOMAIN bag \cup {c}
      /\ Cardinality(Copies(b, P \cap DOMAIN b))
            <= Cardinality(Copies(bag, P \cap DOMAIN bag)) + 1
  <2> HIDE DEF P
  <2> QED BY PutIn
<1>2. /\ P \cap DOMAIN b = P
      /\ P \cap DOMAIN bag = {x \in DOMAIN bag : PaysFor(u, x)}
  BY <1>1
<1> QED BY <1>1, <1>2 DEF PayoutsOf, PaysFor

-----------------------------------------------------------------------------
(* The actions of the pages themselves.                                    *)
LEMMA InitialFits ==
    ASSUME NEW user \in Owner, NEW top \in Nat
    PROVE  LET s == Dispatch(InitialStore, "ACCOUNT", user)
           IN /\ StoreFits(s, top, Nobody) /\ Latest(s) = 0 /\ s.auth.account = user
              /\ ~s.auth.isLoggingIn /\ ~s.auth.isCreatingAccount
              /\ ~s.minerData.isPaymentSettingProcessing
<1> DEFINE s == Dispatch(InitialStore, "ACCOUNT", user)
<1>1. DataFits("ACCOUNT", user) /\ DataOwners("ACCOUNT", user) = {}
  BY DEF DataFits, DataOwners
<1>2. StoreType(InitialStore, Height)
  <2>1. NetType(InitialStore.networkData)
    <3>1. /\ InitialStore.networkData = InitialNetworkData
          /\ InitialNetworkData.historical = <<>> /\ InitialNetworkData.blocksByHeight = {}
          /\ InitialNetworkData.recentBlocks = {} /\ InitialNetworkData.latestBlock = 0
          /\ InitialNetworkData.minedBlockAlgos = [c29 |-> <<>>, c31 |-> <<>>]
      BY DEF InitialStore, InitialNetworkData
    <3>2. [c29 |-> <<>>, c31 |-> <<>>] \in [c29 : Seq(Height), c31 : Seq(Height)]
      OBVIOUS
    <3> QED BY <3>1, <3>2 DEF NetType
  <2>2. PoolType(InitialStore.muglePoolData)
    <3>1. /\ InitialStore.muglePoolData = InitialMuglePoolData
          /\ InitialMuglePoolData.historical = <<>>
          /\ InitialMuglePoolData.lastBlockMined = 0
          /\ InitialMuglePoolData.recentBlocks = {}
          /\ InitialMuglePoolData.poolBlocksMined = [c29 |-> {}, c31 |-> {}]
          /\ InitialMuglePoolData.poolBlocksOrphaned = {}
          /\ InitialMuglePoolData.sharesSubmitted = <<>>
      BY DEF InitialStore, InitialMuglePoolData
    <3>2. [c29 |-> {}, c31 |-> {}] \in [c29 : SUBSET Height, c31 : SUBSET Height]
      OBVIOUS
    <3> QED BY <3>1, <3>2 DEF PoolType
  <2>3. MineType(InitialStore.minerData)
    <3>1. /\ InitialStore.minerData = InitialMinerData
          /\ InitialMinerData.historical = <<>> /\ InitialMinerData.rigGpsData = <<>>
          /\ InitialMinerData.rigShareData = {} /\ InitialMinerData.rigWorkers = {}
          /\ InitialMinerData.minerShareData = {}
          /\ InitialMinerData.isPaymentSettingProcessing = FALSE
          /\ InitialMinerData.isTxSlateLoading = FALSE
      BY DEF InitialStore, InitialMinerData
    <3> DEFINE m == InitialStore.minerData
    <3>2. /\ m.historical = <<>> /\ m.rigGpsData = <<>>
          /\ m.rigShareData = {} /\ m.rigWorkers = {} /\ m.minerShareData = {}
      BY <3>1
    <3>3. m.isPaymentSettingProcessing \in BOOLEAN /\ m.isTxSlateLoading \in BOOLEAN
      BY <3>1
    <3>4. <<>> \in Seq(Rows(Height))
      OBVIOUS
    <3> HIDE DEF m
    <3>5. MineType(m)
      BY <3>2, <3>3, <3>4 DEF MineType
    <3> QED BY <3>5 DEF m
  <2>4. OwnedType(InitialStore.minerData)
    BY DEF InitialStore, InitialMinerData, OwnedType, Owner
  <2>5. AuthType(InitialStore.auth)
    BY DEF InitialStore, InitialAuth, AuthType, Owner
  <2> QED BY <2>1, <2>2, <2>3, <2>4, <2>5, StoreParts
<1>3. StoreType(s, Height)
  BY <1>1, <1>2, DispatchFits
<1>4. Latest(s) = 0
  <2>1. Latest(InitialStore) = 0
    BY DEF Latest, InitialStore, InitialNetworkData
  <2> QED BY <2>1, LatestDispatched
<1>5. ClearedOwners(s) \subseteq {NoUser}
  <2>1. ClearedOwners(InitialStore) = {NoUser}
    <3>1. /\ InitialStore.minerData = InitialMinerData
          /\ InitialMinerData.historical = <<>> /\ InitialMinerData.minerShareData = {}
          /\ InitialMinerData.totalSharesSubmitted = NoUser
          /\ InitialMinerData.paymentData = NoUser
          /\ InitialMinerData.minerImmatureBalance = NoUser
          /\ InitialMinerData.latestBlockMugleEarned = NoUser
          /\ InitialMinerData.nextBlockMugleEarned = NoUser
          /\ InitialMinerData.minerPaymentTxSlate = NoUser
          /\ InitialMinerData.paymentFormFeedback = NoUser
      BY DEF InitialStore, InitialMinerData
    <3> QED BY <3>1 DEF ClearedOwners, Owners, RowOwners
  <2>2. ClearedOwners(s) \subseteq (IF Out("ACCOUNT", user) THEN {} ELSE {NoUser})
                                      \cup {NoUser} \cup {}
    BY <1>1, <2>1, OwnersDispatched
  <2> QED BY <2>2
<1>10. KeptOwners(s) \subseteq {NoUser}
  <2>1. KeptOwners(InitialStore) = {NoUser}
    <3>1. /\ InitialStore.minerData = InitialMinerData
          /\ InitialMinerData.rigGpsData = <<>> /\ InitialMinerData.rigShareData = {}
          /\ InitialMinerData.rigWorkers = {}
          /\ InitialMinerData.latestMinerPayments = NoUser
          /\ InitialMinerData.totalPayoutsAmount = NoUser
      BY DEF InitialStore, InitialMinerData
    <3> QED BY <3>1 DEF KeptOwners, Owners, RowOwners
  <2>2. KeptOwners(s) \subseteq KeptOwners(InitialStore) \cup KeptData("ACCOUNT", user)
    BY KeptDispatched
  <2>3. KeptData("ACCOUNT", user) = {}
    BY DEF KeptData
  <2> HIDE DEF s
  <2> QED BY <2>1, <2>2, <2>3
<1>6. s.auth.account = user /\ s.auth.isLoggingIn = FALSE
      /\ s.auth.isCreatingAccount = FALSE
  <2> DEFINE m == InitialStore.auth
             n == s.auth
  <2>1. AuthBecomes(m, n, "ACCOUNT", user)
    BY AuthFields
  <2> HIDE DEF m, n
  <2>2. n.account = user /\ n.isLoggingIn = FALSE /\ n.isCreatingAccount = FALSE
    BY <2>1 DEF AuthBecomes
  <2> QED BY <2>2 DEF n
<1>7. s.minerData.isPaymentSettingProcessing = FALSE
  <2> DEFINE m == InitialStore.minerData
             n == s.minerData
  <2>1. MineBecomes(m, n, "ACCOUNT", user)
    BY MineFields
  <2>2. m.isPaymentSettingProcessing = FALSE
    BY DEF InitialStore, InitialMinerData
  <2> HIDE DEF m, n
  <2>3. n.isPaymentSettingProcessing = FALSE
    BY <2>1, <2>2 DEF MineBecomes
  <2> QED BY <2>3 DEF n
<1> HIDE DEF s
<1>8. StoreFits(s, top, Nobody)
  BY <1>3, <1>4, <1>5, <1>10 DEF StoreFits
<1>9. StoreFits(s, top, Nobody) /\ Latest(s) = 0 /\ s.auth.account = user
      /\ ~s.auth.isLoggingIn /\ ~s.auth.isCreatingAccount
      /\ ~s.minerData.isPaymentSettingProcessing
  BY <1>4, <1>6, <1>7, <1>8
<1> QED BY <1>9 DEF s

(* The account is told to the store, at a login and at a sign-out.         *)
LEMMA AccountTold ==
    ASSUME NEW s, NEW top, NEW known, StoreFits(s, top, known), NEW u \in Owner,
           NEW known2, known.kept \cup ({s.auth.account} \ {NoUser, u}) \subseteq known2.kept,
           u # NoUser =>
              known.cleared \cup ({s.auth.account} \ {NoUser, u}) \subseteq known2.cleared
    PROVE  LET new == Dispatch(s, "ACCOUNT", u)
           IN /\ StoreFits(new, top, known2)
              /\ Latest(new) = Latest(s) /\ new.auth.account = u
              /\ ~new.auth.isLoggingIn /\ ~new.auth.isCreatingAccount
              /\ new.minerData.isPaymentSettingProcessing
                    = (u # NoUser /\ s.minerData.isPaymentSettingProcessing)
<1> DEFINE new == Dispatch(s, "ACCOUNT", u)
<1>1. DataFits("ACCOUNT", u) /\ DataOwners("ACCOUNT", u) = {}
  BY DEF DataFits, DataOwners
<1>2. StoreType(new, Height)
  BY <1>1, DispatchFits DEF StoreFits
<1>3. Latest(new) = Latest(s)
  BY LatestDispatched
<1>4. ClearedOwners(new) \subseteq (IF u = NoUser THEN {} ELSE ClearedOwners(s)) \cup {NoUser}
  <2>1. Out("ACCOUNT", u) <=> u = NoUser
    BY DEF Out
  <2>2. ClearedOwners(new) \subseteq (IF Out("ACCOUNT", u) THEN {} ELSE ClearedOwners(s))
                                        \cup {NoUser} \cup DataOwners("ACCOUNT", u)
    BY OwnersDispatched
  <2> HIDE DEF new
  <2> QED BY <1>1, <2>1, <2>2
<1>10. KeptOwners(new) \subseteq KeptOwners(s)
  <2>1. KeptData("ACCOUNT", u) = {}
    BY DEF KeptData
  <2> QED BY <2>1, KeptDispatched
<1>5. new.auth.account = u /\ new.auth.isLoggingIn = FALSE
      /\ new.auth.isCreatingAccount = FALSE
  <2> DEFINE m == s.auth
             n == new.auth
  <2>1. AuthBecomes(m, n, "ACCOUNT", u)
    BY AuthFields
  <2> HIDE DEF m, n
  <2>2. n.account = u /\ n.isLoggingIn = FALSE /\ n.isCreatingAccount = FALSE
    BY <2>1 DEF AuthBecomes
  <2> QED BY <2>2 DEF n
<1>6. new.minerData.isPaymentSettingProcessing
         = (u # NoUser /\ s.minerData.isPaymentSettingProcessing)
  <2> DEFINE m == s.minerData
             n == new.minerData
  <2>1. MineBecomes(m, n, "ACCOUNT", u)
    BY MineFields
  <2>2. MineType(m)
    BY StoreParts DEF StoreFits
  <2> HIDE DEF m, n
  <2>3. n.isPaymentSettingProcessing
           = IF u = NoUser THEN FALSE ELSE m.isPaymentSettingProcessing
    BY <2>1 DEF MineBecomes, Out
  <2>4. m.isPaymentSettingProcessing \in BOOLEAN
    BY <2>2 DEF MineType
  <2>5. n.isPaymentSettingProcessing = (u # NoUser /\ m.isPaymentSettingProcessing)
    BY <2>3, <2>4
  <2> QED BY <2>5 DEF m, n
<1> HIDE DEF new
<1>7. ClearedOwners(new) \subseteq {NoUser, u} \cup known2.cleared
  <2>1. ClearedOwners(s) \subseteq {NoUser, s.auth.account} \cup known.cleared
    BY DEF StoreFits
  <2> QED BY <1>4, <2>1
<1>11. KeptOwners(new) \subseteq {NoUser, u} \cup known2.kept
  <2>1. KeptOwners(s) \subseteq {NoUser, s.auth.account} \cup known.kept
    BY DEF StoreFits
  <2> QED BY <1>10, <2>1
<1>8. StoreFits(new, top, known2)
  BY <1>2, <1>3, <1>5, <1>7, <1>11 DEF StoreFits
<1>9. /\ StoreFits(new, top, known2)
      /\ Latest(new) = Latest(s) /\ new.auth.account = u
      /\ ~new.auth.isLoggingIn /\ ~new.auth.isCreatingAccount
      /\ new.minerData.isPaymentSettingProcessing
            = (u # NoUser /\ s.minerData.isPaymentSettingProcessing)
  BY <1>3, <1>5, <1>6, <1>8
<1> QED BY <1>9 DEF new

(* A flag of the login page, or something of the payment page.             *)
PageTypes == {"IS_LOGGING_IN", "IS_CREATING_ACCOUNT", "AUTH_ERROR", "PAYMENT_FORM_FEEDBACK",
              "IS_TX_SLATE_LOADING", "IS_PAYMENT_SETTING_PROCESSING"}

Told(s, t) == Dispatch(s, t, IF t = "PAYMENT_FORM_FEEDBACK" THEN NoUser ELSE TRUE)

FlagsBecome(s, t, new) ==
    /\ new.auth.isLoggingIn => t = "IS_LOGGING_IN"
          \/ (s.auth.isLoggingIn /\ t # "AUTH_ERROR")
    /\ new.auth.isCreatingAccount => t = "IS_CREATING_ACCOUNT"
          \/ (s.auth.isCreatingAccount /\ t \notin {"IS_LOGGING_IN", "AUTH_ERROR"})
    /\ new.minerData.isPaymentSettingProcessing
          = (t = "IS_PAYMENT_SETTING_PROCESSING" \/ s.minerData.isPaymentSettingProcessing)

LEMMA PageTold ==
    ASSUME NEW s, NEW top, NEW known, StoreFits(s, top, known), NEW t \in PageTypes,
           NEW new, new = Told(s, t)
    PROVE  /\ StoreFits(new, top, known) /\ Latest(new) = Latest(s)
           /\ new.auth.account = s.auth.account
           /\ FlagsBecome(s, t, new)
<1>1. PICK d : d = IF t = "PAYMENT_FORM_FEEDBACK" THEN NoUser ELSE TRUE
  OBVIOUS
<1>2. new = Dispatch(s, t, d) /\ t \in {"IS_LOGGING_IN", "IS_CREATING_ACCOUNT", "AUTH_ERROR",
          "PAYMENT_FORM_FEEDBACK", "IS_TX_SLATE_LOADING", "IS_PAYMENT_SETTING_PROCESSING"}
  BY <1>1 DEF Told, PageTypes
<1>3. DataFits(t, d) /\ DataOwners(t, d) \subseteq {NoUser}
  BY <1>1, <1>2 DEF DataFits, DataOwners, Owner
<1>4. StoreType(new, Height)
  BY <1>2, <1>3, DispatchFits DEF StoreFits
<1>5. Latest(new) = Latest(s)
  BY <1>2, LatestDispatched
<1>6. ClearedOwners(new) \subseteq ClearedOwners(s) \cup {NoUser}
  <2>1. ~Out(t, d)
    BY <1>2 DEF Out
  <2>2. ClearedOwners(new) \subseteq (IF Out(t, d) THEN {} ELSE ClearedOwners(s))
                                        \cup {NoUser} \cup DataOwners(t, d)
    BY <1>2, OwnersDispatched
  <2> QED BY <1>3, <2>1, <2>2
<1>10. KeptOwners(new) \subseteq KeptOwners(s)
  <2>1. KeptData(t, d) = {}
    BY <1>2 DEF KeptData
  <2> QED BY <1>2, <2>1, KeptDispatched
<1>7. /\ new.auth.account = s.auth.account
      /\ new.auth.isLoggingIn => t = "IS_LOGGING_IN"
            \/ (s.auth.isLoggingIn /\ t # "AUTH_ERROR")
      /\ new.auth.isCreatingAccount => t = "IS_CREATING_ACCOUNT"
            \/ (s.auth.isCreatingAccount /\ t \notin {"IS_LOGGING_IN", "AUTH_ERROR"})
  <2> DEFINE m == s.auth
             n == new.auth
  <2>1. AuthBecomes(m, n, t, d)
    BY <1>2, AuthFields
  <2> HIDE DEF m, n
  <2>2. n.account = m.account
    BY <1>2, <2>1 DEF AuthBecomes
  <2>3. n.isLoggingIn = IF t = "AUTH_ERROR" THEN FALSE
                        ELSE IF t = "IS_LOGGING_IN" THEN TRUE ELSE m.isLoggingIn
    BY <1>1, <1>2, <2>1 DEF AuthBecomes
  <2>4. n.isCreatingAccount
           = IF t \in {"IS_LOGGING_IN", "AUTH_ERROR"} THEN FALSE
             ELSE IF t = "IS_CREATING_ACCOUNT" THEN TRUE ELSE m.isCreatingAccount
    BY <1>1, <1>2, <2>1 DEF AuthBecomes
  <2>5. n.isLoggingIn => t = "IS_LOGGING_IN" \/ (m.isLoggingIn /\ t # "AUTH_ERROR")
    BY <2>3
  <2>6. n.isCreatingAccount => t = "IS_CREATING_ACCOUNT"
           \/ (m.isCreatingAccount /\ t \notin {"IS_LOGGING_IN", "AUTH_ERROR"})
    BY <2>4
  <2> QED BY <2>2, <2>5, <2>6 DEF m, n
<1>8. new.minerData.isPaymentSettingProcessing
         = (t = "IS_PAYMENT_SETTING_PROCESSING" \/ s.minerData.isPaymentSettingProcessing)
  <2> DEFINE m == s.minerData
             n == new.minerData
  <2>1. MineBecomes(m, n, t, d)
    BY <1>2, MineFields
  <2>2. MineType(m)
    BY StoreParts DEF StoreFits
  <2> HIDE DEF m, n
  <2>3. n.isPaymentSettingProcessing
           = IF t = "IS_PAYMENT_SETTING_PROCESSING" THEN TRUE
             ELSE m.isPaymentSettingProcessing
    BY <1>1, <1>2, <2>1 DEF MineBecomes, Out
  <2>4. m.isPaymentSettingProcessing \in BOOLEAN
    BY <2>2 DEF MineType
  <2>5. n.isPaymentSettingProcessing
           = (t = "IS_PAYMENT_SETTING_PROCESSING" \/ m.isPaymentSettingProcessing)
    BY <2>3, <2>4
  <2> QED BY <2>5 DEF m, n
<1>9. StoreFits(new, top, known)
  BY <1>4, <1>5, <1>6, <1>7, <1>10 DEF StoreFits
<1> QED BY <1>5, <1>7, <1>8, <1>9 DEF FlagsBecome

(* The routes, and the page that is shown for one.                         *)
LEMMA ShownFits ==
    ASSUME visit \in Visits, NEW s, NEW p \in Pages \cup {"rigs", "login"}
    PROVE  /\ Shown(s, p) \in Pages \cup {"rigs", "login"}
           /\ Shown(s, p) \in Routes
           /\ Shown(s, p) \in PrivatePages => s.auth.account # NoUser
BY VisitsAssumption DEF Shown, PrivatePages, Pages, Routes

LEMMA ShowFits ==
    ASSUME visit \in Visits, timers \subseteq Kinds, NEW s, NEW top \in Nat, NEW known,
           StoreFits(s, top, known), NEW bag, CallsFit(bag, top, known),
           NEW p \in Pages \cup {"rigs", "login"}, Show(s, p, bag)
    PROVE  /\ store' = s /\ page' \in Pages \cup {"rigs", "login"} /\ timers' \subseteq Kinds
           /\ page' \in PrivatePages => s.auth.account # NoUser
           /\ CallsFit(calls', top, known) /\ DOMAIN bag \subseteq DOMAIN calls'
           /\ SentBy(s, Thunks, bag, calls')
           /\ Payouts(calls') = Payouts(bag)
<1>1. store' = s /\ page' = Shown(s, p)
  BY DEF Show
<1>2. /\ page' \in Pages \cup {"rigs", "login"} /\ page' \in Routes
      /\ page' \in PrivatePages => s.auth.account # NoUser
  BY <1>1, ShownFits
<1>3. CASE page' = page
  <2>1. calls' = bag /\ timers' = timers
    BY <1>3 DEF Show
  <2> QED BY <1>1, <1>2, <2>1 DEF SentBy
<1>4. CASE page' # page
  <2>1. /\ calls' \in Started(s, bag, Mounts(s, page'))
        /\ timers' = timers \cup MountTimers(s, page')
    BY <1>4 DEF Show
  <2>2. Mounts(s, page') \in Seq(Quiet)
    BY <1>2, PagesQuiet
  <2>3. MountTimers(s, page') \subseteq Kinds
    BY DEF MountTimers, Kinds
  <2>4. /\ CallsFit(calls', top, known) /\ DOMAIN bag \subseteq DOMAIN calls'
        /\ SentBy(s, Thunks, bag, calls')
        /\ Payouts(calls') = Payouts(bag)
    BY <2>1, <2>2, StartedQuiet
  <2> QED BY <1>1, <1>2, <2>1, <2>3, <2>4
<1> QED BY <1>3, <1>4

LEMMA BeginFits ==
    ASSUME visit \in Visits, NEW user \in Owner, NEW p \in Pages \cup {"rigs", "login"},
           NEW top \in Nat, NEW b \in Begin(user, p)
    PROVE  /\ StoreFits(b.store, top, Nobody) /\ b.store.auth.account = user
           /\ Latest(b.store) = 0
           /\ ~b.store.auth.isLoggingIn /\ ~b.store.auth.isCreatingAccount
           /\ ~b.store.minerData.isPaymentSettingProcessing
           /\ b.page \in Pages \cup {"rigs", "login"}
           /\ b.page \in PrivatePages => user # NoUser
           /\ CallsFit(b.calls, top, Nobody) /\ Payouts(b.calls) = [u \in Users |-> 0]
           /\ \A r \in DOMAIN b.calls :
                 \E t \in Thunks : Starts(b.store, t) /\ r = Request(b.store, t)
           /\ b.timers \subseteq Kinds
<1> DEFINE s == Dispatch(InitialStore, "ACCOUNT", user)
           q == Shown(s, p)
           thunks == <<"getLatestBlock">> \o Mounts(s, q)
<1>1. /\ StoreFits(s, top, Nobody) /\ Latest(s) = 0 /\ s.auth.account = user
      /\ ~s.auth.isLoggingIn /\ ~s.auth.isCreatingAccount
      /\ ~s.minerData.isPaymentSettingProcessing
  BY InitialFits
<1>2. PICK bag \in Started(s, EmptyBag, thunks) :
         b = [store |-> s, page |-> q, calls |-> bag, timers |-> MountTimers(s, q)]
  BY DEF Begin
<1> HIDE DEF s
<1>3. /\ q \in Pages \cup {"rigs", "login"} /\ q \in Routes
      /\ q \in PrivatePages => user # NoUser
  BY <1>1, ShownFits
<1> HIDE DEF q
<1>4. b.store = s /\ b.page = q /\ b.calls = bag /\ b.timers = MountTimers(s, q)
  BY <1>2
<1>5. thunks \in Seq(Quiet)
  <2>1. Mounts(s, q) \in Seq(Quiet) /\ "getLatestBlock" \in Quiet
    BY <1>3, PagesQuiet, QuietNames
  <2> QED BY <2>1
<1> HIDE DEF thunks
<1>6. /\ CallsFit(EmptyBag, top, Nobody) /\ DOMAIN EmptyBag = {}
      /\ Payouts(EmptyBag) = [u \in Users |-> 0]
  <2>1. BagFits(EmptyBag) /\ DOMAIN EmptyBag = {}
    BY EmptyFits
  <2>2. \A u \in Users : u \notin Payers(EmptyBag)
    BY <2>1 DEF Payers
  <2>3. \A u \in Users : PayoutsOf(EmptyBag, u) = 0
    BY <2>2, NoPayouts DEF Payouts
  <2> QED BY <2>1, <2>3 DEF CallsFit, Payouts
<1>7. /\ CallsFit(bag, top, Nobody) /\ Payouts(bag) = [u \in Users |-> 0]
      /\ SentBy(s, Thunks, EmptyBag, bag)
  <2> DEFINE none == Nobody
             empty == EmptyBag
  <2>1. StoreFits(s, top, none) /\ CallsFit(empty, top, none) /\ thunks \in Seq(Quiet)
        /\ bag \in Started(s, empty, thunks)
    BY <1>1, <1>2, <1>5, <1>6
  <2> HIDE DEF none, empty
  <2>2. /\ CallsFit(bag, top, none) /\ DOMAIN empty \subseteq DOMAIN bag
        /\ SentBy(s, Thunks, empty, bag) /\ Payouts(bag) = Payouts(empty)
    BY <2>1, StartedQuiet
  <2> QED BY <1>6, <2>2 DEF none, empty
<1>8. MountTimers(s, q) \subseteq Kinds
  BY DEF MountTimers, Kinds
<1> QED BY <1>1, <1>3, <1>4, <1>6, <1>7, <1>8 DEF SentBy

-----------------------------------------------------------------------------
(* The inductive invariant.  What a request remembers is kept as well as   *)
(* what the store holds: a reply brings back the rows its request took.    *)
Running(bag, thunks) == \E c \in DOMAIN bag : c.thunk \in thunks

Spinning(s, bag) ==
    /\ s.auth.isLoggingIn => Running(bag, {"login"})
    /\ s.auth.isCreatingAccount => Running(bag, {"login", "createUser"})
    /\ s.minerData.isPaymentSettingProcessing => Running(bag, {"setPaymentMethodSetting"})

Paying(s, bag, n) ==
    \A u \in Users \ n :
        Payouts(bag)[u] <= (IF s.minerData.isPaymentSettingProcessing THEN 1 ELSE 0)

Sound(s, bag, p, user, top, known, n) ==
    /\ StoreFits(s, top, known) /\ CallsFit(bag, top, known)
    /\ s.auth.account = user /\ (p \in PrivatePages => user # NoUser)
    /\ Spinning(s, bag) /\ Paying(s, bag, n)

WebInv == Around /\ Sound(store, calls, page, session, tip, Known, unwaited)

LEMMA InvPrimed ==
    ASSUME visit' = visit, visit \in Visits, tip' \in 1..visit.blocks,
           session' \in Owner, expired' \in BOOLEAN,
           page' \in Pages \cup {"rigs", "login"}, timers' \subseteq Kinds,
           Noted',
           Sound(store', calls', page', session', tip', Known', unwaited')
    PROVE  WebInv'
<1>1. Around'
  BY DEF Around, Pages
<1>2. CallsFit(calls', tip', Known') => CallsFit(calls, tip, Known)'
  BY DEF CallsFit, CallFits, Live
<1>3. Sound(store, calls, page, session, tip, Known, unwaited)'
  BY <1>2 DEF Sound
<1> QED BY <1>1, <1>3 DEF WebInv

LEMMA InvParts ==
    ASSUME WebInv
    PROVE  /\ visit \in Visits /\ tip \in 1..visit.blocks /\ tip \in Nat /\ tip <= MaxTip
           /\ visit.blocks \in Nat /\ visit.blocks <= MaxTip
           /\ session \in Owner /\ expired \in BOOLEAN
           /\ page \in Pages \cup {"rigs", "login"} /\ page \in Routes
           /\ Live \subseteq Thunks
           /\ timers \subseteq Kinds /\ Noted /\ MaxCalls \in Nat
           /\ StoreFits(store, tip, Known) /\ CallsFit(calls, tip, Known) /\ account = session
           /\ page \in PrivatePages => session # NoUser
           /\ Spinning(store, calls) /\ Paying(store, calls, unwaited)
           /\ Payouts(calls) \in [Users -> Nat]
<1>1. visit.blocks \in 1..MaxTip /\ Live \subseteq Thunks /\ Pages \subseteq Routes
  BY VisitsAssumption DEF WebInv, Around, Live, Pages
<1>2. tip \in Nat /\ tip <= MaxTip /\ visit.blocks \in Nat /\ visit.blocks <= MaxTip
      /\ MaxCalls \in Nat
  BY <1>1, BoundAssumption DEF WebInv, Around
<1>3. page \in Routes
  BY <1>1 DEF WebInv, Around, Routes
<1>4. Payouts(calls) \in [Users -> Nat]
  BY PayoutsBounded DEF WebInv, Sound, CallsFit
<1> QED BY <1>1, <1>2, <1>3, <1>4 DEF WebInv, Sound, Around, account

LEMMA NothingNoted ==
    ASSUME WebInv, UNCHANGED <<left, former, unwaited>>
    PROVE  Noted' /\ Known' = Known /\ unwaited' = unwaited
BY InvParts DEF Noted, Known

(* A higher tip and more former users leave what fits fitting.             *)
LEMMA StillFits ==
    ASSUME NEW top \in Nat, NEW top2 \in Nat, top <= top2, NEW known, NEW known2,
           known.cleared \subseteq known2.cleared, known.kept \subseteq known2.kept
    PROVE  /\ \A s : StoreFits(s, top, known) => StoreFits(s, top2, known2)
           /\ \A bag : CallsFit(bag, top, known) => CallsFit(bag, top2, known2)
<1>1. ASSUME NEW s, StoreFits(s, top, known) PROVE StoreFits(s, top2, known2)
  <2>1. Latest(s) \in Int
    <3>1. Latest(s) \in Height \cup {0}
      BY <1>1, StoreParts DEF StoreFits, NetType, Latest
    <3>2. \A h \in Height : h \in Int
      BY BoundAssumption DEF Height
    <3> QED BY <3>1, <3>2
  <2> QED BY <1>1, <2>1 DEF StoreFits
<1>2. ASSUME NEW bag, CallsFit(bag, top, known) PROVE CallsFit(bag, top2, known2)
  <2>1. ASSUME NEW c \in DOMAIN bag PROVE CallFits(c, top2, known2)
    <3>1. CallFits(c, top, known)
      BY <1>2 DEF CallsFit
    <3>2. RequestFits(c, top2)
      <4>1. c.thunk \in NeedsHeight => c.latest \in 1..top2
        BY <3>1 DEF CallFits, RequestFits
      <4> QED BY <3>1, <4>1 DEF CallFits, RequestFits
    <3> QED BY <3>1, <3>2 DEF CallFits
  <2> QED BY <1>2, <2>1 DEF CallsFit
<1> QED BY <1>1, <1>2

LEMMA RunningKept ==
    ASSUME NEW bag, NEW b, DOMAIN bag \subseteq DOMAIN b
    PROVE  \A thunks : Running(bag, thunks) => Running(b, thunks)
BY DEF Running

-----------------------------------------------------------------------------
(* Every action keeps it.                                                  *)
LEMMA ReloadKeeps ==
    ASSUME WebInv, Reload
    PROVE  WebInv'
<1>1. /\ visit \in Visits /\ tip \in 1..visit.blocks /\ tip \in Nat /\ session \in Owner
      /\ page \in Pages \cup {"rigs", "login"} /\ MaxCalls \in Nat
  BY InvParts
<1>2. Remembered \in Owner
  BY <1>1 DEF Remembered, Owner
<1> DEFINE user == Remembered
<1> HIDE DEF user
<1>3. PICK b \in Begin(user, page) :
         store' = b.store /\ page' = b.page /\ calls' = b.calls /\ timers' = b.timers
  BY DEF Reload, user
<1>4. /\ session' = user /\ expired' = FALSE /\ left' = {} /\ former' = {}
      /\ unwaited' = {} /\ visit' = visit /\ tip' = tip
  BY DEF Reload, user
<1>5. user \in Owner
  BY <1>2 DEF user
<1>6. /\ StoreFits(b.store, tip, Nobody) /\ b.store.auth.account = user
      /\ ~b.store.auth.isLoggingIn /\ ~b.store.auth.isCreatingAccount
      /\ ~b.store.minerData.isPaymentSettingProcessing
      /\ b.page \in Pages \cup {"rigs", "login"}
      /\ b.page \in PrivatePages => user # NoUser
      /\ CallsFit(b.calls, tip, Nobody) /\ Payouts(b.calls) = [u \in Users |-> 0]
      /\ b.timers \subseteq Kinds
  BY <1>1, <1>3, <1>5, BeginFits
<1>7. Spinning(store', calls') /\ Paying(store', calls', unwaited')
  BY <1>3, <1>4, <1>6 DEF Spinning, Paying
<1>9. Noted' /\ Known' = Nobody
  BY <1>4 DEF Noted, Known, Nobody
<1>8. Sound(store', calls', page', session', tip', Known', unwaited')
  BY <1>3, <1>4, <1>6, <1>7, <1>9 DEF Sound
<1>10. expired' \in BOOLEAN
  BY <1>4
<1> QED BY <1>1, <1>3, <1>4, <1>5, <1>6, <1>8, <1>9, <1>10, InvPrimed

LEMMA NavigateKeeps ==
    ASSUME WebInv, Navigate
    PROVE  WebInv'
<1>1. /\ visit \in Visits /\ tip \in 1..visit.blocks /\ tip \in Nat /\ session \in Owner
      /\ expired \in BOOLEAN /\ timers \subseteq Kinds
      /\ StoreFits(store, tip, Known) /\ CallsFit(calls, tip, Known)
      /\ store.auth.account = session
      /\ Spinning(store, calls) /\ Paying(store, calls, unwaited)
  BY InvParts DEF account
<1>2. PICK p \in Pages : Show(store, p, calls)
  BY DEF Navigate
<1>3. /\ store' = store /\ page' \in Pages \cup {"rigs", "login"} /\ timers' \subseteq Kinds
      /\ page' \in PrivatePages => store.auth.account # NoUser
      /\ CallsFit(calls', tip, Known) /\ DOMAIN calls \subseteq DOMAIN calls'
      /\ Payouts(calls') = Payouts(calls)
  BY <1>1, <1>2, ShowFits
<1>4. /\ UNCHANGED <<visit, session, expired, tip, left, former, unwaited>>
      /\ Noted' /\ Known' = Known
  BY NothingNoted DEF Navigate
<1>5. Spinning(store', calls') /\ Paying(store', calls', unwaited')
  BY <1>1, <1>3, <1>4, RunningKept DEF Spinning, Paying
<1>6. Sound(store', calls', page', session', tip', Known', unwaited')
  BY <1>1, <1>3, <1>4, <1>5 DEF Sound
<1> QED BY <1>1, <1>3, <1>4, <1>6, InvPrimed

(* A sign-out, by the button or at the expiry.  What the requests in       *)
(* flight recall is among what is carried, and what the rigs are of is     *)
(* noted for good; whoever has a payout in flight is no longer waited for. *)
LEMMA LeavesFits ==
    ASSUME WebInv, account # NoUser, Leaves
    PROVE  LET s == Logout(store)
           IN /\ StoreFits(s, tip, Known') /\ CallsFit(calls, tip, Known')
              /\ s.auth.account = NoUser
              /\ ~s.auth.isLoggingIn /\ ~s.auth.isCreatingAccount
              /\ ~s.minerData.isPaymentSettingProcessing
              /\ Paying(s, calls, unwaited') /\ Noted'
<1>1. /\ StoreFits(store, tip, Known) /\ CallsFit(calls, tip, Known) /\ Noted
      /\ Paying(store, calls, unwaited) /\ Payouts(calls) \in [Users -> Nat]
      /\ session \in Owner /\ account = session
  BY InvParts
<1>2. /\ left' = left \cap Carried /\ former' = former \cup left \cup {account}
      /\ unwaited' = unwaited \cup (IF Processing THEN Payers(calls) ELSE {})
  BY DEF Leaves
<1>3. account \in Users
  BY <1>1 DEF Owner
<1>4. Payers(calls) \subseteq Users
  BY <1>1, PayersAreUsers
<1>5. Noted'
  BY <1>1, <1>2, <1>3, <1>4 DEF Noted
<1>6. /\ Known.cleared = left /\ Known.kept = left \cup former
      /\ Known'.cleared = left \cap Carried
      /\ Known'.kept = (left \cap Carried) \cup former \cup left \cup {account}
  BY <1>2 DEF Known
<1>7. PICK known : known = Known'
  OBVIOUS
<1>8. /\ known.cleared = left \cap Carried
      /\ known.kept = (left \cap Carried) \cup former \cup left \cup {account}
  BY <1>6, <1>7
<1>9. ASSUME NEW c \in DOMAIN calls
      PROVE  CallFits(c, tip, known)
  <2>1. CallFits(c, tip, Known)
    BY <1>1 DEF CallsFit
  <2>2. Recalled(c) \subseteq Carried
    BY DEF Carried
  <2>3. /\ Recalled(c) \subseteq {NoUser, c.id} \cup known.cleared
        /\ Handed(c) \subseteq {NoUser, c.id} \cup known.kept
    BY <1>6, <1>8, <2>1, <2>2 DEF CallFits
  <2> QED BY <2>1, <2>3 DEF CallFits
<1>10. CallsFit(calls, tip, known)
  BY <1>1, <1>9 DEF CallsFit
<1> DEFINE s == Logout(store)
<1>11. /\ StoreFits(s, tip, known) /\ s.auth.account = NoUser
       /\ ~s.auth.isLoggingIn /\ ~s.auth.isCreatingAccount
       /\ ~s.minerData.isPaymentSettingProcessing
  <2>1. NoUser \in Owner
    BY DEF Owner
  <2>2. PICK old, u : old = Known /\ u = NoUser
    OBVIOUS
  <2>3. /\ StoreFits(store, tip, old) /\ u \in Owner
        /\ old.kept \cup ({store.auth.account} \ {NoUser, u}) \subseteq known.kept
        /\ u # NoUser =>
              old.cleared \cup ({store.auth.account} \ {NoUser, u}) \subseteq known.cleared
    BY <1>1, <1>6, <1>8, <2>1, <2>2 DEF account
  <2>4. s = Dispatch(store, "ACCOUNT", u)
    BY <2>2 DEF Logout
  <2> HIDE DEF s
  <2>5. /\ StoreFits(s, tip, known) /\ s.auth.account = u
        /\ ~s.auth.isLoggingIn /\ ~s.auth.isCreatingAccount
        /\ s.minerData.isPaymentSettingProcessing
              = (u # NoUser /\ store.minerData.isPaymentSettingProcessing)
    BY <2>3, <2>4, AccountTold
  <2> QED BY <2>2, <2>5
<1> HIDE DEF s
<1>12. Paying(s, calls, unwaited')
  <2> SUFFICES ASSUME NEW u \in Users \ unwaited'
               PROVE  Payouts(calls)[u] <= 0
    BY <1>11 DEF Paying
  <2>1. CASE Processing
    <3>1. u \notin Payers(calls)
      BY <1>2, <2>1
    <3>2. Payouts(calls)[u] = 0
      BY <3>1, NoPayouts
    <3> QED BY <3>2
  <2>2. CASE ~Processing
    BY <1>1, <1>2, <2>2 DEF Paying, Processing
  <2> QED BY <2>1, <2>2
<1>13. /\ StoreFits(s, tip, Known') /\ CallsFit(calls, tip, Known')
  BY <1>7, <1>10, <1>11
<1> QED BY <1>5, <1>11, <1>12, <1>13 DEF s

LEMMA SignsOutKeeps ==
    ASSUME WebInv, visit' = visit, tip' = tip, session' = NoUser, expired' = FALSE,
           account # NoUser, Leaves, NEW p \in Pages \cup {"rigs", "login"},
           NEW bag, CallsFit(bag, tip, Known'), Payouts(bag) = Payouts(calls),
           Show(Logout(store), p, bag)
    PROVE  WebInv'
<1>1. /\ visit \in Visits /\ tip \in 1..visit.blocks /\ tip \in Nat /\ timers \subseteq Kinds
  BY InvParts
<1>2. PICK s, known : s = Logout(store) /\ known = Known'
  OBVIOUS
<1>3. /\ StoreFits(s, tip, known) /\ s.auth.account = NoUser
      /\ ~s.auth.isLoggingIn /\ ~s.auth.isCreatingAccount
      /\ ~s.minerData.isPaymentSettingProcessing
      /\ Paying(s, calls, unwaited') /\ Noted'
  BY <1>2, LeavesFits
<1>4. CallsFit(bag, tip, known) /\ Show(s, p, bag)
  BY <1>2
<1>5. /\ store' = s /\ page' \in Pages \cup {"rigs", "login"} /\ timers' \subseteq Kinds
      /\ page' \in PrivatePages => NoUser # NoUser
      /\ CallsFit(calls', tip, known) /\ Payouts(calls') = Payouts(bag)
  BY <1>1, <1>3, <1>4, ShowFits
<1>6. Spinning(store', calls') /\ Paying(store', calls', unwaited')
  BY <1>3, <1>5 DEF Spinning, Paying
<1>7. Sound(store', calls', page', session', tip', Known', unwaited')
  BY <1>2, <1>3, <1>5, <1>6 DEF Sound
<1>8. session' \in Owner /\ expired' \in BOOLEAN
  BY DEF Owner
<1> QED BY <1>1, <1>3, <1>5, <1>7, <1>8, InvPrimed

LEMMA SignOutKeeps ==
    ASSUME WebInv, SignOut
    PROVE  WebInv'
<1>1. account # NoUser /\ Leaves
  BY DEF SignOut
<1>2. CallsFit(calls, tip, Known')
  BY <1>1, LeavesFits
<1> QED BY <1>1, <1>2, SignsOutKeeps DEF SignOut

LEMMA PollKeeps ==
    ASSUME WebInv, Poll
    PROVE  WebInv'
<1>1. /\ visit \in Visits /\ tip \in 1..visit.blocks /\ tip \in Nat /\ session \in Owner
      /\ expired \in BOOLEAN /\ timers \subseteq Kinds
      /\ page \in Pages \cup {"rigs", "login"}
      /\ StoreFits(store, tip, Known) /\ CallsFit(calls, tip, Known)
      /\ store.auth.account = session
      /\ Spinning(store, calls) /\ Paying(store, calls, unwaited)
  BY InvParts DEF account
<1>2. <<"getLatestBlock">> \in Seq(Quiet)
  BY QuietNames
<1>3. CASE account # NoUser /\ expired
  <2>1. PICK bag \in Started(Logout(store), calls, <<"getLatestBlock">>) :
           Show(Logout(store), page, bag)
    BY <1>3 DEF Poll
  <2>2. Leaves /\ account # NoUser
    BY <1>3 DEF Poll
  <2>3. CallsFit(bag, tip, Known') /\ Payouts(bag) = Payouts(calls)
    <3> DEFINE s == Logout(store)
               thunks == <<"getLatestBlock">>
    <3>4. PICK known : known = Known'
      OBVIOUS
    <3>1. StoreFits(s, tip, known) /\ bag \in Started(s, calls, thunks)
          /\ CallsFit(calls, tip, known) /\ visit \in Visits /\ tip \in Nat
      BY <1>1, <2>1, <2>2, <3>4, LeavesFits
    <3>2. thunks \in Seq(Quiet)
      BY <1>2
    <3> HIDE DEF s, thunks
    <3>3. /\ CallsFit(bag, tip, known) /\ DOMAIN calls \subseteq DOMAIN bag
          /\ SentBy(s, Thunks, calls, bag) /\ Payouts(bag) = Payouts(calls)
      BY <3>1, <3>2, StartedQuiet
    <3> QED BY <3>3, <3>4
  <2>4. visit' = visit /\ tip' = tip /\ session' = NoUser /\ expired' = FALSE
    BY <1>3 DEF Poll
  <2> QED BY <1>1, <2>1, <2>2, <2>3, <2>4, SignsOutKeeps
<1>4. CASE ~(account # NoUser /\ expired)
  <2>1. PICK bag \in Started(store, calls, <<"getLatestBlock">>) : Show(store, page, bag)
    BY <1>4 DEF Poll
  <2>2. /\ CallsFit(bag, tip, Known) /\ Payouts(bag) = Payouts(calls)
        /\ DOMAIN calls \subseteq DOMAIN bag
    <3> DEFINE thunks == <<"getLatestBlock">>
    <3>1. bag \in Started(store, calls, thunks) /\ visit \in Visits /\ tip \in Nat
          /\ StoreFits(store, tip, Known) /\ CallsFit(calls, tip, Known)
      BY <1>1, <2>1
    <3>2. thunks \in Seq(Quiet)
      BY <1>2
    <3> HIDE DEF thunks
    <3> QED BY <3>1, <3>2, StartedQuiet
  <2>3. /\ UNCHANGED <<visit, tip, session, expired, unwaited>>
        /\ Noted' /\ Known' = Known
    BY <1>4, NothingNoted DEF Poll
  <2>4. /\ store' = store /\ page' \in Pages \cup {"rigs", "login"} /\ timers' \subseteq Kinds
        /\ page' \in PrivatePages => store.auth.account # NoUser
        /\ CallsFit(calls', tip, Known) /\ DOMAIN bag \subseteq DOMAIN calls'
        /\ Payouts(calls') = Payouts(bag)
    BY <1>1, <2>1, <2>2, ShowFits
  <2>5. DOMAIN calls \subseteq DOMAIN calls'
    BY <2>2, <2>4
  <2>6. Spinning(store', calls') /\ Paying(store', calls', unwaited')
    BY <1>1, <2>2, <2>3, <2>4, <2>5, RunningKept DEF Spinning, Paying
  <2>7. Sound(store', calls', page', session', tip', Known', unwaited')
    BY <1>1, <2>3, <2>4, <2>6 DEF Sound
  <2> QED BY <1>1, <2>3, <2>4, <2>7, InvPrimed
<1> QED BY <1>3, <1>4

(* The actions that leave the session, the page and the tip alone.         *)
LEMMA SessionStays ==
    ASSUME WebInv, UNCHANGED <<visit, session, expired, page, tip, left, former,
    unwaited>>,
           timers' \subseteq Kinds, StoreFits(store', tip, Known), CallsFit(calls', tip, Known),
           store'.auth.account = store.auth.account,
           Spinning(store', calls'), Paying(store', calls', unwaited)
    PROVE  WebInv'
<1>1. /\ visit \in Visits /\ tip \in 1..visit.blocks /\ session \in Owner
      /\ expired \in BOOLEAN /\ page \in Pages \cup {"rigs", "login"}
      /\ store.auth.account = session /\ (page \in PrivatePages => session # NoUser)
  BY InvParts DEF account
<1>2. Noted' /\ Known' = Known /\ unwaited' = unwaited
  BY NothingNoted
<1>3. Sound(store', calls', page', session', tip', Known', unwaited')
  BY <1>1, <1>2 DEF Sound
<1> QED BY <1>1, <1>2, <1>3, InvPrimed

LEMMA FireTimerKeeps ==
    ASSUME WebInv, FireTimer
    PROVE  WebInv'
<1>1. /\ visit \in Visits /\ tip \in Nat /\ timers \subseteq Kinds
      /\ StoreFits(store, tip, Known) /\ CallsFit(calls, tip, Known)
      /\ Spinning(store, calls) /\ Paying(store, calls, unwaited)
  BY InvParts
<1>2. PICK k \in timers : /\ timers' = timers \ {k}
                          /\ calls' \in Started(store, calls, TimerThunks(k))
  BY DEF FireTimer
<1>3. UNCHANGED <<visit, store, session, expired, page, tip, left, former, unwaited>>
  BY DEF FireTimer
<1>4. /\ CallsFit(calls', tip, Known) /\ DOMAIN calls \subseteq DOMAIN calls'
      /\ SentBy(store, Thunks, calls, calls') /\ Payouts(calls') = Payouts(calls)
  <2> DEFINE thunks == TimerThunks(k)
             b == calls'
  <2>1. /\ thunks \in Seq(Quiet) /\ b \in Started(store, calls, thunks)
        /\ visit \in Visits /\ tip \in Nat
        /\ StoreFits(store, tip, Known) /\ CallsFit(calls, tip, Known)
    BY <1>1, <1>2, ViewsQuiet
  <2> HIDE DEF thunks, b
  <2>2. /\ CallsFit(b, tip, Known) /\ DOMAIN calls \subseteq DOMAIN b
        /\ SentBy(store, Thunks, calls, b) /\ Payouts(b) = Payouts(calls)
    BY <2>1, StartedQuiet
  <2> QED BY <2>2 DEF b
<1>5. Spinning(store', calls') /\ Paying(store', calls', unwaited)
  BY <1>1, <1>3, <1>4, RunningKept DEF Spinning, Paying
<1> QED BY <1>1, <1>2, <1>3, <1>4, <1>5, SessionStays

LEMMA LandKeeps ==
    ASSUME WebInv, NEW thunk \in Live, Land(thunk)
    PROVE  WebInv'
<1>1. /\ visit \in Visits /\ tip \in 1..visit.blocks /\ tip \in Nat /\ tip <= MaxTip
      /\ session \in Owner /\ expired \in BOOLEAN /\ timers \subseteq Kinds
      /\ Noted /\ Payouts(calls) \in [Users -> Nat]
      /\ page \in Pages \cup {"rigs", "login"} /\ page \in Routes /\ Live \subseteq Thunks
      /\ StoreFits(store, tip, Known) /\ CallsFit(calls, tip, Known) /\ account = session
      /\ page \in PrivatePages => session # NoUser
      /\ Spinning(store, calls) /\ Paying(store, calls, unwaited)
  BY InvParts
<1>2. PICK c \in {x \in DOMAIN calls : x.thunk = thunk} :
         /\ \E o \in Landed(store, c) :
               /\ store' = o.store
               /\ calls' \in Started(o.store, Without(c),
                                     o.next \o Refreshes(store, o.store, page))
         /\ left' = IF c.id = account \/ thunk \notin Writers THEN left ELSE left \cup {c.id}
         /\ unwaited' = Payers(calls') \cap
               (unwaited \cup (IF thunk = "setPaymentMethodSetting" /\ Processing
                              THEN Payers(calls') \ {c.id} ELSE {}))
  BY DEF Land
<1>3. PICK o \in Landed(store, c) :
        /\ store' = o.store
        /\ calls' \in Started(o.store, Without(c), o.next \o Refreshes(store, o.store, page))
  BY <1>2
<1>4. UNCHANGED <<visit, session, expired, page, timers, tip, former>>
  BY DEF Land
<1>5. c \in DOMAIN calls /\ c.thunk = thunk /\ c.thunk \in Thunks
  BY <1>1
<1>6. /\ RequestFits(c, tip) /\ Recalled(c) \subseteq {NoUser, c.id} \cup left
      /\ Handed(c) \subseteq {NoUser, c.id} \cup left \cup former
  BY <1>1, <1>5 DEF CallsFit, CallFits, Known
<1> DEFINE s == o.store
           b == calls'
           known == Known'
           thunks == o.next \o Refreshes(store, o.store, page)
<1>7. Outcome(store, c, o)
  BY <1>1, <1>5, <1>6, LandedFits DEF StoreFits
<1>8. thunks \in Seq(Quiet)
  <2> DEFINE more == Refreshes(store, o.store, page)
  <2>1. more \in Seq(Quiet) /\ o.next \in Seq(Quiet)
    BY <1>1, <1>7, PagesQuiet DEF Outcome
  <2> HIDE DEF more
  <2>2. o.next \o more \in Seq(Quiet)
    BY <2>1
  <2> QED BY <2>2 DEF more
<1>9. b \in Started(s, Without(c), thunks)
  BY <1>3
<1>10. /\ StoreType(s, Height) /\ Latest(s) \in {Latest(store)} \cup 1..tip
       /\ SameAccount(store, s)
       /\ c.thunk # "setPaymentMethodSetting" =>
             s.minerData.isPaymentSettingProcessing = store.minerData.isPaymentSettingProcessing
       /\ c.thunk = "setPaymentMethodSetting" => ~s.minerData.isPaymentSettingProcessing
       /\ ClearedOwners(s)
             \subseteq ClearedOwners(store) \cup {NoUser}
                \cup (IF c.thunk \in Writers THEN {c.id} \cup Recalled(c) ELSE {})
       /\ KeptOwners(s)
             \subseteq KeptOwners(store)
                \cup (IF c.thunk \in Writers THEN {c.id} \cup Handed(c) ELSE {})
  BY <1>7 DEF Outcome
<1>11. /\ left \subseteq left' /\ left' \subseteq Users
       /\ known.cleared = left' /\ known.kept = left' \cup former
       /\ c.thunk \in Writers => c.id \in {session} \cup left'
  <2>1. c.thunk \in Writers => c.id \in Users
    BY <1>6 DEF RequestFits, Writers
  <2>2. known.cleared = left' /\ known.kept = left' \cup former
    BY <1>4 DEF Known
  <2>3. left \subseteq Users
    BY <1>1 DEF Noted
  <2> QED BY <1>1, <1>2, <1>5, <2>1, <2>2, <2>3
<1>12. store' = s
  BY <1>3
<1> HIDE DEF s, b, known, thunks
<1>13. StoreFits(s, tip, known) /\ s.auth.account = session
  <2>1. Latest(s) <= tip
    BY <1>1, <1>10 DEF StoreFits
  <2>2. s.auth.account = session
    BY <1>1, <1>10 DEF SameAccount, account
  <2>3. ClearedOwners(store) \subseteq {NoUser, session} \cup left
    BY <1>1 DEF StoreFits, Known, account
  <2>4. ClearedOwners(s) \subseteq {NoUser, session} \cup left'
    BY <1>6, <1>10, <1>11, <2>3
  <2>5. KeptOwners(store) \subseteq {NoUser, session} \cup left \cup former
    BY <1>1 DEF StoreFits, Known, account
  <2>6. KeptOwners(s) \subseteq {NoUser, session} \cup left' \cup former
    BY <1>6, <1>10, <1>11, <2>5
  <2> QED BY <1>10, <1>11, <2>1, <2>2, <2>4, <2>6 DEF StoreFits
<1>14. CallsFit(calls, tip, known)
  <2>1. tip <= tip
    BY <1>1
  <2>2. Known.cleared \subseteq known.cleared /\ Known.kept \subseteq known.kept
    BY <1>11 DEF Known
  <2> QED BY <1>1, <2>1, <2>2, StillFits
<1> DEFINE rest == Without(c)
<1>15. /\ CallsFit(rest, tip, known)
       /\ \A x \in DOMAIN calls : x # c => x \in DOMAIN rest
       /\ \A u \in Users : Payouts(rest)[u]
             = Payouts(calls)[u] - (IF PaysFor(u, c) THEN 1 ELSE 0)
       /\ c.thunk # "setPaymentMethodSetting" => Payouts(rest) = Payouts(calls)
  BY <1>5, <1>14, WithoutFits
<1> HIDE DEF rest
<1>16. /\ visit \in Visits /\ tip \in Nat /\ StoreFits(s, tip, known)
       /\ CallsFit(rest, tip, known) /\ thunks \in Seq(Quiet) /\ b \in Started(s, rest, thunks)
  BY <1>1, <1>8, <1>9, <1>13, <1>15 DEF rest
<1>17. /\ CallsFit(b, tip, known) /\ DOMAIN rest \subseteq DOMAIN b
       /\ SentBy(s, Thunks, rest, b) /\ Payouts(b) = Payouts(rest)
  BY <1>16, StartedQuiet
<1>18. \A thunks2 : c.thunk \notin thunks2 /\ Running(calls, thunks2) => Running(b, thunks2)
  BY <1>15, <1>17 DEF Running
<1>19. Spinning(s, b)
  <2>1. c.thunk \notin {"login", "createUser"}
    BY <1>5 DEF Thunks, Private, Scalars, NeedsHeight, WindowThunks
  <2> QED BY <1>1, <1>10, <1>18, <2>1 DEF Spinning, SameAccount
<1>20. Paying(s, b, unwaited')
  <2> SUFFICES ASSUME NEW u \in Users \ unwaited'
               PROVE  Payouts(b)[u]
                         <= (IF s.minerData.isPaymentSettingProcessing THEN 1 ELSE 0)
    BY DEF Paying
  <2>1. Payouts(calls)[u] \in Nat /\ Payouts(b)[u] = Payouts(rest)[u]
    BY <1>1, <1>17
  <2>2. CASE u \notin Payers(b)
    <3>1. Payouts(b)[u] = 0
      BY <2>2, NoPayouts
    <3> QED BY <3>1
  <2>3. CASE u \in Payers(b)
    <3>1. /\ u \notin unwaited
          /\ c.thunk = "setPaymentMethodSetting" /\ Processing => u = c.id
      BY <1>2, <1>5, <2>3 DEF b
    <3>2. Payouts(calls)[u] <= (IF Processing THEN 1 ELSE 0)
      BY <1>1, <3>1 DEF Paying, Processing
    <3>3. CASE c.thunk # "setPaymentMethodSetting"
      BY <1>10, <1>15, <2>1, <3>2, <3>3 DEF Processing
    <3>4. CASE c.thunk = "setPaymentMethodSetting" /\ Processing
      <4>1. PaysFor(u, c)
        BY <3>1, <3>4 DEF PaysFor
      <4>2. Payouts(b)[u] = Payouts(calls)[u] - 1
        BY <1>15, <2>1, <4>1
      <4> QED BY <2>1, <3>2, <3>4, <4>2
    <3>5. CASE c.thunk = "setPaymentMethodSetting" /\ ~Processing
      <4>1. Payouts(calls)[u] = 0
        BY <2>1, <3>2, <3>5
      <4>2. Payouts(b)[u] \in {Payouts(calls)[u], Payouts(calls)[u] - 1}
        BY <1>15, <2>1
      <4> QED BY <4>1, <4>2
    <3> QED BY <3>3, <3>4, <3>5
  <2> QED BY <2>2, <2>3
<1>21. Sound(store', calls', page', session', tip', Known', unwaited')
  BY <1>1, <1>4, <1>12, <1>13, <1>17, <1>19, <1>20 DEF Sound, b, known
<1>22. Noted'
  <2>1. Payers(b) \subseteq Users
    BY <1>17, PayersAreUsers
  <2> QED BY <1>1, <1>2, <1>4, <1>11, <2>1 DEF Noted, b
<1> QED BY <1>1, <1>4, <1>21, <1>22, InvPrimed

LEMMA FailKeeps ==
    ASSUME WebInv, NEW thunk \in Live, Fail(thunk)
    PROVE  WebInv'
<1>1. /\ Live \subseteq Thunks /\ timers \subseteq Kinds
      /\ StoreFits(store, tip, Known) /\ CallsFit(calls, tip, Known)
      /\ Spinning(store, calls) /\ Paying(store, calls, unwaited)
  BY InvParts
<1>2. PICK c \in DOMAIN calls : c.thunk = thunk /\ calls' = Without(c)
  BY DEF Fail
<1>3. /\ UNCHANGED <<visit, store, session, expired, page, timers, tip, left, former, unwaited>>
      /\ thunk # "setPaymentMethodSetting"
  BY DEF Fail
<1>4. /\ CallsFit(calls', tip, Known)
      /\ \A x \in DOMAIN calls : x # c => x \in DOMAIN calls'
      /\ Payouts(calls') = Payouts(calls)
  <2> DEFINE b == Without(c)
  <2>1. /\ CallsFit(b, tip, Known)
        /\ \A x \in DOMAIN calls : x # c => x \in DOMAIN b
        /\ c.thunk # "setPaymentMethodSetting" => Payouts(b) = Payouts(calls)
    BY <1>1, WithoutFits
  <2> HIDE DEF b
  <2>2. Payouts(b) = Payouts(calls)
    BY <1>2, <1>3, <2>1
  <2>3. calls' = b
    BY <1>2 DEF b
  <2> QED BY <2>1, <2>2, <2>3
<1>5. Spinning(store', calls') /\ Paying(store', calls', unwaited)
  <2>1. c.thunk \notin {"login", "createUser", "setPaymentMethodSetting"}
    BY <1>1, <1>2, <1>3 DEF Thunks, Private, Scalars, NeedsHeight, WindowThunks
  <2>2. \A thunks : c.thunk \notin thunks /\ Running(calls, thunks) => Running(calls', thunks)
    BY <1>4 DEF Running
  <2> QED BY <1>1, <1>3, <1>4, <2>1, <2>2 DEF Spinning, Paying
<1> QED BY <1>1, <1>3, <1>4, <1>5, SessionStays

(* The actions of the login page and the payment page that tell the store  *)
(* one thing, with the request, if there is one, that goes with it.        *)
LEMMA ToldKeeps ==
    ASSUME WebInv, UNCHANGED <<visit, session, expired, page, timers, tip, left,
    former, unwaited>>,
           NEW t \in PageTypes, store' = Told(store, t),
           CallsFit(calls', tip, Known), DOMAIN calls \subseteq DOMAIN calls',
           t = "IS_LOGGING_IN" => Running(calls', {"login"}),
           t = "IS_CREATING_ACCOUNT" => Running(calls', {"login", "createUser"}),
           t = "IS_PAYMENT_SETTING_PROCESSING" =>
              /\ Running(calls', {"setPaymentMethodSetting"})
              /\ ~store.minerData.isPaymentSettingProcessing
              /\ \A u \in Users : Payouts(calls')[u] <= Payouts(calls)[u] + 1,
           t # "IS_PAYMENT_SETTING_PROCESSING" => Payouts(calls') = Payouts(calls)
    PROVE  WebInv'
<1>1. /\ timers \subseteq Kinds /\ StoreFits(store, tip, Known) /\ CallsFit(calls, tip, Known)
      /\ Spinning(store, calls) /\ Paying(store, calls, unwaited)
      /\ Payouts(calls) \in [Users -> Nat]
  BY InvParts
<1>2. Payouts(calls') \in [Users -> Nat]
  <2> DEFINE b == calls'
  <2>1. BagFits(b)
    BY DEF CallsFit
  <2> HIDE DEF b
  <2>2. Payouts(b) \in [Users -> Nat]
    BY <2>1, PayoutsBounded
  <2> QED BY <2>2 DEF b
<1>3. PICK new : new = store'
  OBVIOUS
<1>4. /\ StoreFits(new, tip, Known) /\ new.auth.account = store.auth.account
      /\ FlagsBecome(store, t, new)
  BY <1>1, <1>3, PageTold
<1>5. store.minerData.isPaymentSettingProcessing \in BOOLEAN
  BY <1>1, StoreParts DEF StoreFits, MineType
<1>6. Spinning(new, calls')
  <2>1. new.auth.isLoggingIn => Running(calls', {"login"})
    BY <1>1, <1>4, RunningKept DEF Spinning, FlagsBecome
  <2>2. new.auth.isCreatingAccount => Running(calls', {"login", "createUser"})
    BY <1>1, <1>4, RunningKept DEF Spinning, FlagsBecome
  <2>3. new.minerData.isPaymentSettingProcessing => Running(calls', {"setPaymentMethodSetting"})
    BY <1>1, <1>4, RunningKept DEF Spinning, FlagsBecome
  <2> QED BY <2>1, <2>2, <2>3 DEF Spinning
<1>7. Paying(new, calls', unwaited)
  <2>1. CASE t = "IS_PAYMENT_SETTING_PROCESSING"
    <3>1. /\ new.minerData.isPaymentSettingProcessing
          /\ ~store.minerData.isPaymentSettingProcessing
          /\ \A u \in Users : Payouts(calls')[u] <= Payouts(calls)[u] + 1
      BY <1>4, <2>1 DEF FlagsBecome
    <3>2. \A u \in Users \ unwaited : Payouts(calls)[u] <= 0
      BY <1>1, <3>1 DEF Paying
    <3>3. \A u \in Users : Payouts(calls)[u] \in Nat /\ Payouts(calls')[u] \in Nat
      BY <1>1, <1>2
    <3>4. \A u \in Users \ unwaited : Payouts(calls')[u] <= 1
      BY <3>1, <3>2, <3>3
    <3> QED BY <3>1, <3>4 DEF Paying
  <2>2. CASE t # "IS_PAYMENT_SETTING_PROCESSING"
    <3>1. /\ new.minerData.isPaymentSettingProcessing
                = store.minerData.isPaymentSettingProcessing
          /\ Payouts(calls') = Payouts(calls)
      BY <1>4, <1>5, <2>2 DEF FlagsBecome
    <3> QED BY <1>1, <3>1 DEF Paying
  <2> QED BY <2>1, <2>2
<1> QED BY <1>1, <1>3, <1>4, <1>6, <1>7, SessionStays

(* A request of the login page fits, whoever it is for.                    *)
LEMMA LoginFits ==
    ASSUME NEW c, c.thunk \in {"login", "createUser"}, c.id \in Users, NEW top, NEW known
    PROVE  CallFits(c, top, known)
<1>1. c.thunk \notin Thunks
  BY DEF Thunks, Private, Scalars, NeedsHeight, WindowThunks
<1>2. c.thunk \notin NeedsHeight /\ c.thunk \notin WindowThunks
      /\ c.thunk \notin {"fetchMinerShareData", "fetchRigData", "getMinedBlocksAlgos",
                         "fetchMuglePoolRecentBlocks", "fetchMuglePoolBlocksMined"}
  BY <1>1 DEF Thunks, NeedsHeight
<1>3. RequestFits(c, top)
  BY <1>2 DEF RequestFits, Owner
<1>4. Recalled(c) = {} /\ Handed(c) = {}
  BY DEF Recalled, Handed
<1> QED BY <1>3, <1>4 DEF CallFits

LEMMA SignInKeeps ==
    ASSUME WebInv, SignIn
    PROVE  WebInv'
<1>1. PICK u \in Users :
         /\ store' = Dispatch(store, "IS_LOGGING_IN", TRUE)
         /\ calls' = calls (+) SetToBag({[thunk |-> "login", id |-> u, legacy |-> FALSE]})
  BY DEF SignIn
<1>2. PICK c : c = [thunk |-> "login", id |-> u, legacy |-> FALSE]
  OBVIOUS
<1>3. /\ CallsFit(calls, tip, Known) /\ InFlight(calls) < MaxCalls
      /\ c.thunk = "login" /\ CallFits(c, tip, Known)
      /\ calls' = calls (+) SetToBag({c})
  BY <1>1, <1>2, InvParts, LoginFits DEF SignIn, Room
<1>4. /\ CallsFit(calls', tip, Known) /\ DOMAIN calls' = DOMAIN calls \cup {c}
      /\ Payouts(calls') = Payouts(calls)
  BY <1>3, AddedFits
<1>5. PICK t : t = "IS_LOGGING_IN"
  OBVIOUS
<1>6. /\ t \in PageTypes /\ store' = Told(store, t)
      /\ t \notin {"IS_CREATING_ACCOUNT", "IS_PAYMENT_SETTING_PROCESSING"}
  BY <1>1, <1>5 DEF PageTypes, Told
<1>7. Running(calls', {"login"})
  BY <1>3, <1>4 DEF Running
<1>8. UNCHANGED <<visit, session, expired, page, timers, tip, left, former, unwaited>>
  BY DEF SignIn
<1> QED BY <1>4, <1>6, <1>7, <1>8, ToldKeeps

LEMMA CreateAccountKeeps ==
    ASSUME WebInv, CreateAccount
    PROVE  WebInv'
<1>1. PICK u \in Users :
         /\ store' = Dispatch(store, "IS_CREATING_ACCOUNT", TRUE)
         /\ calls' = calls (+) SetToBag({[thunk |-> "createUser", id |-> u]})
  BY DEF CreateAccount
<1>2. PICK c : c = [thunk |-> "createUser", id |-> u]
  OBVIOUS
<1>3. /\ CallsFit(calls, tip, Known) /\ InFlight(calls) < MaxCalls
      /\ c.thunk = "createUser" /\ CallFits(c, tip, Known)
      /\ calls' = calls (+) SetToBag({c})
  BY <1>1, <1>2, InvParts, LoginFits DEF CreateAccount, Room
<1>4. /\ CallsFit(calls', tip, Known) /\ DOMAIN calls' = DOMAIN calls \cup {c}
      /\ Payouts(calls') = Payouts(calls)
  BY <1>3, AddedFits
<1>5. PICK t : t = "IS_CREATING_ACCOUNT"
  OBVIOUS
<1>6. /\ t \in PageTypes /\ store' = Told(store, t)
      /\ t \notin {"IS_LOGGING_IN", "IS_PAYMENT_SETTING_PROCESSING"}
  BY <1>1, <1>5 DEF PageTypes, Told
<1>7. Running(calls', {"login", "createUser"})
  BY <1>3, <1>4 DEF Running
<1>8. UNCHANGED <<visit, session, expired, page, timers, tip, left, former, unwaited>>
  BY DEF CreateAccount
<1> QED BY <1>4, <1>6, <1>7, <1>8, ToldKeeps

(* Nothing but a flag or the line of feedback is told.                     *)
LEMMA OnlyTold ==
    ASSUME WebInv, UNCHANGED <<visit, session, expired, page, calls, timers, tip, left,
    former, unwaited>>,
           NEW t \in {"AUTH_ERROR", "PAYMENT_FORM_FEEDBACK"}, store' = Told(store, t)
    PROVE  WebInv'
<1>1. t \in PageTypes /\ t \notin {"IS_LOGGING_IN", "IS_CREATING_ACCOUNT",
                                   "IS_PAYMENT_SETTING_PROCESSING"}
  BY DEF PageTypes
<1>2. CallsFit(calls', tip, Known) /\ calls' = calls
  BY InvParts
<1> QED BY <1>1, <1>2, ToldKeeps

LEMMA RejectNameKeeps ==
    ASSUME WebInv, RejectName
    PROVE  WebInv'
<1>1. store' = Told(store, "AUTH_ERROR")
  BY DEF RejectName, Told
<1> QED BY <1>1, OnlyTold DEF RejectName

LEMMA ChoosePaymentTypeKeeps ==
    ASSUME WebInv, ChoosePaymentType
    PROVE  WebInv'
<1>1. store' = Told(store, "PAYMENT_FORM_FEEDBACK")
  BY DEF ChoosePaymentType, Told
<1> QED BY <1>1, OnlyTold DEF ChoosePaymentType

LEMMA SubmitPayoutKeeps ==
    ASSUME WebInv, SubmitPayout
    PROVE  WebInv'
<1>1. CASE store' = Dispatch(store, "PAYMENT_FORM_FEEDBACK", NoUser) /\ UNCHANGED calls
  <2>1. store' = Told(store, "PAYMENT_FORM_FEEDBACK")
    BY <1>1 DEF Told
  <2> QED BY <1>1, <2>1, OnlyTold DEF SubmitPayout
<1>2. CASE /\ store' = Dispatch(store, "IS_PAYMENT_SETTING_PROCESSING", TRUE)
           /\ calls' \in Started(store', calls, <<"setPaymentMethodSetting">>)
  <2>1. /\ visit \in Visits /\ tip \in Nat /\ account = session
        /\ page \in PrivatePages => session # NoUser
        /\ StoreFits(store, tip, Known) /\ CallsFit(calls, tip, Known)
    BY InvParts
  <2>2. /\ page = "payment" /\ "setPaymentMethodSetting" \in Live /\ InFlight(calls) < MaxCalls
        /\ ~store.minerData.isPaymentSettingProcessing
    BY DEF SubmitPayout, Room
  <2>3. UNCHANGED <<visit, session, expired, page, timers, tip, left, former, unwaited>>
    BY DEF SubmitPayout
  <2>4. PICK t : t = "IS_PAYMENT_SETTING_PROCESSING"
    OBVIOUS
  <2>5. t \in PageTypes /\ store' = Told(store, t)
    BY <1>2, <2>4 DEF PageTypes, Told
  <2>6. PICK new, b, pay : new = store' /\ b = calls' /\ pay = "setPaymentMethodSetting"
    OBVIOUS
  <2>7. StoreFits(new, tip, Known) /\ new.auth.account = store.auth.account
    BY <2>1, <2>5, <2>6, PageTold
  <2>8. /\ StoreFits(new, tip, Known) /\ CallsFit(calls, tip, Known) /\ visit \in Visits
        /\ tip \in Nat /\ <<pay>> \in Seq(Thunks) /\ b \in Started(new, calls, <<pay>>)
    <3>1. pay \in Thunks
      BY <2>6 DEF Thunks, Private
    <3>2. <<pay>> \in Seq(Thunks)
      BY <3>1
    <3>3. b \in Started(new, calls, <<pay>>)
      BY <1>2, <2>6
    <3> QED BY <2>1, <2>7, <3>2, <3>3
  <2>9. CallsFit(b, tip, Known) /\ DOMAIN calls \subseteq DOMAIN b
    <3> DEFINE thunks == <<pay>>
    <3>1. /\ StoreFits(new, tip, Known) /\ CallsFit(calls, tip, Known) /\ visit \in Visits
          /\ tip \in Nat /\ thunks \in Seq(Thunks) /\ b \in Started(new, calls, thunks)
      BY <2>8
    <3> HIDE DEF thunks
    <3>2. /\ CallsFit(b, tip, Known) /\ DOMAIN calls \subseteq DOMAIN b
          /\ SentBy(new, Thunks, calls, b)
      BY <3>1, StartedKeeps
    <3> QED BY <3>2
  <2>10. Starts(new, pay)
    <3>1. new.auth.account # NoUser
      BY <2>1, <2>2, <2>7 DEF PrivatePages, account
    <3>2. pay \in Live /\ pay \notin NeedsHeight
      BY <2>2, <2>6 DEF NeedsHeight, WindowThunks
    <3> QED BY <3>1, <3>2 DEF Starts
  <2>11. PICK r : r = Request(new, pay)
    OBVIOUS
  <2>12. BagFits(calls) /\ b = calls (+) SetToBag({r})
    BY <2>2, <2>8, <2>10, <2>11, StartedOne DEF CallsFit
  <2>13. \A u \in Users : Payouts(b)[u] <= Payouts(calls)[u] + 1
    BY <2>2, <2>12, PayoutSent
  <2>14. Running(b, {"setPaymentMethodSetting"})
    <3>1. r.thunk = "setPaymentMethodSetting"
      BY <2>6, <2>11, RequestNames
    <3>2. DOMAIN b = DOMAIN calls \cup {r}
      BY <2>2, <2>12, PutIn
    <3>3. r \in DOMAIN b
      BY <3>2
    <3> QED BY <3>1, <3>3 DEF Running
  <2>15. t \notin {"IS_LOGGING_IN", "IS_CREATING_ACCOUNT"}
    BY <2>4
  <2> QED BY <2>2, <2>3, <2>5, <2>6, <2>9, <2>13, <2>14, <2>15, <2>4, ToldKeeps
<1> QED BY <1>1, <1>2 DEF SubmitPayout

(* A request of the login page ends, and another login takes its place.    *)
LEMMA PassedOn ==
    ASSUME WebInv, UNCHANGED <<visit, store, session, expired, page, timers, tip, left,
    former, unwaited>>,
           NEW c \in DOMAIN calls, c.thunk \in {"login", "createUser"},
           NEW r, r.thunk = "login", r.id = c.id, calls' = Without(c) (+) SetToBag({r})
    PROVE  WebInv'
<1>1. /\ timers \subseteq Kinds /\ StoreFits(store, tip, Known) /\ CallsFit(calls, tip, Known)
      /\ Spinning(store, calls) /\ Paying(store, calls, unwaited)
  BY InvParts
<1>2. c.id \in Users
  BY <1>1 DEF CallsFit, CallFits, RequestFits
<1> DEFINE rest == Without(c)
<1>3. /\ CallsFit(rest, tip, Known) /\ InFlight(rest) < MaxCalls
      /\ \A x \in DOMAIN calls : x # c => x \in DOMAIN rest
      /\ Payouts(rest) = Payouts(calls)
  BY <1>1, WithoutFits
<1>4. calls' = rest (+) SetToBag({r})
  OBVIOUS
<1> HIDE DEF rest
<1>5. /\ CallsFit(calls', tip, Known) /\ DOMAIN calls' = DOMAIN rest \cup {r}
      /\ Payouts(calls') = Payouts(rest)
  <2>1. CallFits(r, tip, Known)
    BY <1>2, LoginFits
  <2>2. PICK b : b = calls'
    OBVIOUS
  <2>3. /\ CallsFit(rest, tip, Known) /\ InFlight(rest) < MaxCalls
        /\ r.thunk \in {"login", "createUser"} /\ CallFits(r, tip, Known)
        /\ b = rest (+) SetToBag({r})
    BY <1>3, <1>4, <2>1, <2>2
  <2>4. /\ CallsFit(b, tip, Known) /\ DOMAIN b = DOMAIN rest \cup {r}
        /\ Payouts(b) = Payouts(rest)
    BY <2>3, AddedFits
  <2> QED BY <2>2, <2>4
<1>6. Spinning(store, calls')
  <2>1. Running(calls', {"login"}) /\ Running(calls', {"login", "createUser"})
    BY <1>5 DEF Running
  <2>2. Running(calls, {"setPaymentMethodSetting"})
           => Running(calls', {"setPaymentMethodSetting"})
    BY <1>3, <1>5 DEF Running
  <2> QED BY <1>1, <2>1, <2>2 DEF Spinning
<1>7. Paying(store, calls', unwaited)
  <2>1. Payouts(calls') = Payouts(calls)
    BY <1>3, <1>5
  <2> QED BY <1>1, <2>1 DEF Paying
<1> QED BY <1>1, <1>5, <1>6, <1>7, SessionStays

LEMMA CreatedKeeps ==
    ASSUME WebInv, Created
    PROVE  WebInv'
<1>1. PICK c \in DOMAIN calls :
         /\ c.thunk = "createUser"
         /\ calls' = Without(c) (+) SetToBag({[thunk |-> "login", id |-> c.id, legacy |-> FALSE]})
  BY DEF Created
<1>2. PICK r : r = [thunk |-> "login", id |-> c.id, legacy |-> FALSE]
  OBVIOUS
<1>3. r.thunk = "login" /\ r.id = c.id /\ calls' = Without(c) (+) SetToBag({r})
  BY <1>1, <1>2
<1>4. UNCHANGED <<visit, store, session, expired, page, timers, tip, left, former, unwaited>>
  BY DEF Created
<1> QED BY <1>1, <1>3, <1>4, PassedOn

LEMMA LoginAcceptedKeeps ==
    ASSUME WebInv, LoginAccepted
    PROVE  WebInv'
<1>1. PICK c \in DOMAIN calls :
         /\ c.thunk = "login"
         /\ calls' = Without(c) (+) SetToBag({[thunk |-> "login", id |-> c.id, legacy |-> TRUE]})
  BY DEF LoginAccepted
<1>2. PICK r : r = [thunk |-> "login", id |-> c.id, legacy |-> TRUE]
  OBVIOUS
<1>3. r.thunk = "login" /\ r.id = c.id /\ calls' = Without(c) (+) SetToBag({r})
  BY <1>1, <1>2
<1>4. UNCHANGED <<visit, store, session, expired, page, timers, tip, left, former, unwaited>>
  BY DEF LoginAccepted
<1> QED BY <1>1, <1>3, <1>4, PassedOn

LEMMA SigningInFailedKeeps ==
    ASSUME WebInv, SigningInFailed
    PROVE  WebInv'
<1>1. /\ timers \subseteq Kinds /\ StoreFits(store, tip, Known) /\ CallsFit(calls, tip, Known)
      /\ Spinning(store, calls) /\ Paying(store, calls, unwaited)
  BY InvParts
<1>2. PICK c \in DOMAIN calls : c.thunk \in {"login", "createUser"} /\ calls' = Without(c)
  BY DEF SigningInFailed
<1>3. PICK t : t = "AUTH_ERROR"
  OBVIOUS
<1>4. t \in PageTypes /\ store' = Told(store, t)
  BY <1>3 DEF SigningInFailed, PageTypes, Told
<1>5. PICK new, b : new = store' /\ b = calls'
  OBVIOUS
<1>6. /\ StoreFits(new, tip, Known) /\ new.auth.account = store.auth.account
      /\ FlagsBecome(store, t, new)
  BY <1>1, <1>4, <1>5, PageTold
<1>7. /\ CallsFit(Without(c), tip, Known)
      /\ \A x \in DOMAIN calls : x # c => x \in DOMAIN Without(c)
      /\ Payouts(Without(c)) = Payouts(calls)
  BY <1>1, <1>2, WithoutFits
<1>8. /\ CallsFit(b, tip, Known) /\ Payouts(b) = Payouts(calls)
      /\ \A x \in DOMAIN calls : x # c => x \in DOMAIN b
  BY <1>2, <1>5, <1>7
<1>9. store.minerData.isPaymentSettingProcessing \in BOOLEAN
  BY <1>1, StoreParts DEF StoreFits, MineType
<1>10. /\ ~new.auth.isLoggingIn /\ ~new.auth.isCreatingAccount
       /\ new.minerData.isPaymentSettingProcessing = store.minerData.isPaymentSettingProcessing
  BY <1>3, <1>6, <1>9 DEF FlagsBecome
<1>11. Spinning(new, b) /\ Paying(new, b, unwaited)
  <2>1. Running(calls, {"setPaymentMethodSetting"}) => Running(b, {"setPaymentMethodSetting"})
    BY <1>2, <1>8 DEF Running
  <2> QED BY <1>1, <1>8, <1>10, <2>1 DEF Spinning, Paying
<1>12. UNCHANGED <<visit, session, expired, page, timers, tip, left, former, unwaited>>
  BY DEF SigningInFailed
<1> QED BY <1>1, <1>5, <1>6, <1>8, <1>11, <1>12, SessionStays

(* The second login API answers: the account is told, and the rigs shown.  *)
LEMMA LoggedInKeeps ==
    ASSUME WebInv, LoggedIn
    PROVE  WebInv'
<1>1. /\ visit \in Visits /\ tip \in 1..visit.blocks /\ tip \in Nat
      /\ session \in Owner /\ timers \subseteq Kinds /\ Noted
      /\ StoreFits(store, tip, Known) /\ CallsFit(calls, tip, Known)
      /\ Spinning(store, calls) /\ Paying(store, calls, unwaited) /\ account = session
  BY InvParts
<1>2. PICK c \in DOMAIN calls :
         /\ c.thunk = "login" /\ Show(Dispatch(store, "ACCOUNT", c.id), "rigs", Without(c))
         /\ session' = c.id /\ left' = left \cup ({account} \ {NoUser, c.id})
  BY DEF LoggedIn
<1>3. UNCHANGED <<visit, tip, former, unwaited>> /\ expired' = FALSE
  BY DEF LoggedIn
<1>4. c.id \in Users /\ c.id \in Owner
  BY <1>1, <1>2 DEF CallsFit, CallFits, RequestFits, Owner
<1> DEFINE s == Dispatch(store, "ACCOUNT", c.id)
           rest == Without(c)
           known == Known'
           rigs == "rigs"
<1>6. /\ Noted' /\ known.cleared = left \cup ({store.auth.account} \ {NoUser, c.id})
      /\ known.kept = known.cleared \cup former
  BY <1>1, <1>2, <1>3 DEF Noted, Known, Owner, account
<1>7. Show(s, rigs, rest) /\ rigs \in Pages \cup {"rigs", "login"}
  BY <1>2
<1> HIDE DEF known, rigs
<1>15. Known.cleared \subseteq known.cleared /\ Known.kept \subseteq known.kept
       /\ {store.auth.account} \ {NoUser, c.id} \subseteq known.cleared \cap known.kept
  BY <1>6 DEF Known
<1>5. /\ StoreFits(s, tip, known) /\ s.auth.account = c.id
      /\ ~s.auth.isLoggingIn /\ ~s.auth.isCreatingAccount
      /\ s.minerData.isPaymentSettingProcessing
            = (c.id # NoUser /\ store.minerData.isPaymentSettingProcessing)
  BY <1>1, <1>4, <1>15, AccountTold
<1> HIDE DEF s
<1>8. CallsFit(calls, tip, known)
  <2>1. tip <= tip
    BY <1>1
  <2> QED BY <1>1, <1>15, <2>1, StillFits
<1>9. /\ CallsFit(rest, tip, known)
      /\ \A x \in DOMAIN calls : x # c => x \in DOMAIN rest
      /\ Payouts(rest) = Payouts(calls)
  BY <1>2, <1>8, WithoutFits
<1> HIDE DEF rest
<1>10. /\ store' = s /\ page' \in Pages \cup {"rigs", "login"} /\ timers' \subseteq Kinds
       /\ page' \in PrivatePages => s.auth.account # NoUser
       /\ CallsFit(calls', tip, known) /\ DOMAIN rest \subseteq DOMAIN calls'
       /\ Payouts(calls') = Payouts(rest)
  BY <1>1, <1>5, <1>7, <1>9, ShowFits
<1>11. s.minerData.isPaymentSettingProcessing = store.minerData.isPaymentSettingProcessing
  <2>1. store.minerData.isPaymentSettingProcessing \in BOOLEAN
    BY <1>1, StoreParts DEF StoreFits, MineType
  <2>2. c.id # NoUser
    BY <1>4, NoUserAssumption
  <2> QED BY <1>5, <2>1, <2>2
<1>12. Spinning(s, calls') /\ Paying(s, calls', unwaited)
  <2>1. Running(calls, {"setPaymentMethodSetting"})
           => Running(calls', {"setPaymentMethodSetting"})
    BY <1>2, <1>9, <1>10 DEF Running
  <2>2. Payouts(calls') = Payouts(calls)
    BY <1>2, <1>9, <1>10
  <2> QED BY <1>1, <1>5, <1>11, <2>1, <2>2 DEF Spinning, Paying
<1>13. Sound(store', calls', page', session', tip', Known', unwaited')
  BY <1>2, <1>3, <1>5, <1>10, <1>12 DEF Sound, known
<1>14. session' \in Owner /\ expired' \in BOOLEAN
  BY <1>2, <1>3, <1>4
<1> QED BY <1>1, <1>3, <1>6, <1>10, <1>13, <1>14, InvPrimed

LEMMA ChooseTxSlateKeeps ==
    ASSUME WebInv, ChooseTxSlate
    PROVE  WebInv'
<1>1. /\ visit \in Visits /\ tip \in Nat /\ timers \subseteq Kinds
      /\ StoreFits(store, tip, Known) /\ CallsFit(calls, tip, Known)
      /\ Spinning(store, calls) /\ Paying(store, calls, unwaited)
  BY InvParts
<1>2. PICK t, u : t = "PAYMENT_FORM_FEEDBACK" /\ u = "IS_TX_SLATE_LOADING"
  OBVIOUS
<1>3. PICK old, new, b, thunks :
         /\ old = Told(store, t) /\ new = Told(old, u)
         /\ b = calls' /\ thunks = <<"fetchMinerPaymentTxSlate">>
  OBVIOUS
<1>4. store' = new /\ b \in Started(new, calls, thunks)
  BY <1>2, <1>3 DEF ChooseTxSlate, Told
<1>5. UNCHANGED <<visit, session, expired, page, timers, tip, left, former, unwaited>>
  BY DEF ChooseTxSlate
<1>6. t \in PageTypes /\ u \in PageTypes /\ t # u
      /\ {t, u} \cap {"IS_LOGGING_IN", "IS_CREATING_ACCOUNT", "IS_PAYMENT_SETTING_PROCESSING"} = {}
  BY <1>2 DEF PageTypes
<1>7. /\ StoreFits(old, tip, Known) /\ old.auth.account = store.auth.account
      /\ FlagsBecome(store, t, old)
  BY <1>1, <1>3, <1>6, PageTold
<1>8. /\ StoreFits(new, tip, Known) /\ new.auth.account = old.auth.account
      /\ FlagsBecome(old, u, new)
  BY <1>3, <1>6, <1>7, PageTold
<1>9. thunks \in Seq(Quiet)
  BY <1>3, QuietNames
<1>10. /\ CallsFit(b, tip, Known) /\ DOMAIN calls \subseteq DOMAIN b
       /\ SentBy(new, Thunks, calls, b) /\ Payouts(b) = Payouts(calls)
  <2>1. /\ StoreFits(new, tip, Known) /\ CallsFit(calls, tip, Known) /\ visit \in Visits
        /\ tip \in Nat /\ thunks \in Seq(Quiet) /\ b \in Started(new, calls, thunks)
    BY <1>1, <1>4, <1>8, <1>9
  <2> QED BY <2>1, StartedQuiet
<1>11. /\ new.auth.isLoggingIn => store.auth.isLoggingIn
       /\ new.auth.isCreatingAccount => store.auth.isCreatingAccount
       /\ new.minerData.isPaymentSettingProcessing = store.minerData.isPaymentSettingProcessing
  <2>1. \A s \in {store, old, new} : s.minerData.isPaymentSettingProcessing \in BOOLEAN
    BY <1>1, <1>7, <1>8, StoreParts DEF StoreFits, MineType
  <2>2. new.minerData.isPaymentSettingProcessing = old.minerData.isPaymentSettingProcessing
    BY <1>6, <1>8, <2>1 DEF FlagsBecome
  <2>3. old.minerData.isPaymentSettingProcessing = store.minerData.isPaymentSettingProcessing
    BY <1>6, <1>7, <2>1 DEF FlagsBecome
  <2> QED BY <1>6, <1>7, <1>8, <2>2, <2>3 DEF FlagsBecome
<1>12. Spinning(new, b) /\ Paying(new, b, unwaited)
  BY <1>1, <1>10, <1>11, RunningKept DEF Spinning, Paying
<1> QED BY <1>1, <1>3, <1>4, <1>5, <1>7, <1>8, <1>10, <1>12, SessionStays

(* A block is mined, a session runs out, and nothing happens.              *)
LEMMA OutsideKeeps ==
    ASSUME WebInv, Mined \/ Expire \/ UNCHANGED vars
    PROVE  WebInv'
<1>1. /\ visit \in Visits /\ tip \in 1..visit.blocks /\ tip \in Nat
      /\ session \in Owner /\ expired \in BOOLEAN /\ visit.blocks \in Nat
      /\ page \in Pages \cup {"rigs", "login"} /\ timers \subseteq Kinds
      /\ StoreFits(store, tip, Known) /\ CallsFit(calls, tip, Known) /\ account = session
      /\ page \in PrivatePages => session # NoUser
      /\ Spinning(store, calls) /\ Paying(store, calls, unwaited)
  BY InvParts
<1>2. /\ UNCHANGED <<visit, store, session, page, calls, timers, left, former, unwaited>>
      /\ expired' \in BOOLEAN /\ tip' \in 1..visit.blocks /\ tip' \in Nat /\ tip <= tip'
  <2>1. CASE Mined
    BY <1>1, <2>1 DEF Mined
  <2>2. CASE Expire
    BY <1>1, <2>2 DEF Expire
  <2>3. CASE UNCHANGED vars
    BY <1>1, <2>3 DEF vars
  <2> QED BY <2>1, <2>2, <2>3
<1>3. StoreFits(store, tip', Known) /\ CallsFit(calls, tip', Known)
  <2>1. PICK top : top = tip'
    OBVIOUS
  <2>2. top \in Nat /\ tip <= top
    BY <1>2, <2>1
  <2>3. StoreFits(store, top, Known) /\ CallsFit(calls, top, Known)
    BY <1>1, <2>2, StillFits
  <2> QED BY <2>1, <2>3
<1>5. Noted' /\ Known' = Known /\ unwaited' = unwaited
  BY <1>2, NothingNoted
<1>4. Sound(store', calls', page', session', tip', Known', unwaited')
  BY <1>1, <1>2, <1>3, <1>5 DEF Sound, account
<1> QED BY <1>1, <1>2, <1>4, <1>5, InvPrimed

LEMMA InitSound ==
    ASSUME Init
    PROVE  WebInv
<1>1. /\ visit \in Visits /\ session \in Owner /\ expired = FALSE /\ tip = 1
      /\ left = {} /\ former = {} /\ unwaited = {}
  BY DEF Init
<1>2. PICK p \in Pages : \E b \in Begin(session, p) :
         store = b.store /\ page = b.page /\ calls = b.calls /\ timers = b.timers
  BY DEF Init
<1>3. PICK b \in Begin(session, p) :
         store = b.store /\ page = b.page /\ calls = b.calls /\ timers = b.timers
  BY <1>2
<1>4. tip \in Nat /\ p \in Pages \cup {"rigs", "login"}
  BY <1>1
<1>5. /\ StoreFits(b.store, tip, Nobody) /\ b.store.auth.account = session
      /\ ~b.store.auth.isLoggingIn /\ ~b.store.auth.isCreatingAccount
      /\ ~b.store.minerData.isPaymentSettingProcessing
      /\ b.page \in Pages \cup {"rigs", "login"}
      /\ b.page \in PrivatePages => session # NoUser
      /\ CallsFit(b.calls, tip, Nobody) /\ Payouts(b.calls) = [u \in Users |-> 0]
      /\ b.timers \subseteq Kinds
  BY <1>1, <1>3, <1>4, BeginFits
<1>6. Around
  <2>1. 1 \in 1..visit.blocks
    BY <1>1, VisitsAssumption, BoundAssumption
  <2> QED BY <1>1, <1>3, <1>5, <2>1 DEF Around, Noted
<1>8. Known = Nobody
  BY <1>1 DEF Known, Nobody
<1>7. Spinning(store, calls) /\ Paying(store, calls, unwaited)
  BY <1>1, <1>3, <1>5 DEF Spinning, Paying
<1> QED BY <1>1, <1>3, <1>5, <1>6, <1>7, <1>8 DEF WebInv, Sound

LEMMA NextKeeps ==
    ASSUME WebInv, [Next]_vars
    PROVE  WebInv'
<1>1. CASE Reload
  BY <1>1, ReloadKeeps
<1>2. CASE Navigate
  BY <1>2, NavigateKeeps
<1>3. CASE SignOut
  BY <1>3, SignOutKeeps
<1>4. CASE Poll
  BY <1>4, PollKeeps
<1>5. CASE FireTimer
  BY <1>5, FireTimerKeeps
<1>6. CASE \E thunk \in Live : Land(thunk) \/ Fail(thunk)
  BY <1>6, LandKeeps, FailKeeps
<1>7. CASE SignIn
  BY <1>7, SignInKeeps
<1>8. CASE CreateAccount
  BY <1>8, CreateAccountKeeps
<1>9. CASE RejectName
  BY <1>9, RejectNameKeeps
<1>10. CASE Created
  BY <1>10, CreatedKeeps
<1>11. CASE LoginAccepted
  BY <1>11, LoginAcceptedKeeps
<1>12. CASE LoggedIn
  BY <1>12, LoggedInKeeps
<1>13. CASE SigningInFailed
  BY <1>13, SigningInFailedKeeps
<1>14. CASE ChoosePaymentType
  BY <1>14, ChoosePaymentTypeKeeps
<1>15. CASE ChooseTxSlate
  BY <1>15, ChooseTxSlateKeeps
<1>16. CASE SubmitPayout
  BY <1>16, SubmitPayoutKeeps
<1>17. CASE Mined \/ Expire \/ UNCHANGED vars
  BY <1>17, OutsideKeeps
<1> QED BY <1>1, <1>2, <1>3, <1>4, <1>5, <1>6, <1>7, <1>8, <1>9, <1>10, <1>11, <1>12,
           <1>13, <1>14, <1>15, <1>16, <1>17 DEF Next

LEMMA WebInvHolds == Spec => []WebInv
<1>1. Init => WebInv
  BY InitSound
<1>2. WebInv /\ [Next]_vars => WebInv'
  BY NextKeeps
<1> QED BY <1>1, <1>2, PTL DEF Spec

(* In every store a thunk, a timer, a reload or a sign-out leaves there is *)
(* what the reducers and the views of the pages read, and every request in *)
(* flight is one of the thunks' (redux/actions, redux/reducers).           *)
THEOREM WebType == Spec => []TypeOK
<1>1. WebInv => TypeOK
  <2> SUFFICES ASSUME WebInv
               PROVE  TypeOK
    OBVIOUS
  <2>1. StoreType(store, Height)
    BY DEF WebInv, Sound, StoreFits
  <2>2. IsABag(calls)
    BY DEF WebInv, Sound, CallsFit, BagFits
  <2>3. \A c \in DOMAIN calls : c.id \in Owner /\ c.thunk \in Live \cup {"login", "createUser"}
    BY DEF WebInv, Sound, CallsFit, CallFits, RequestFits
  <2> QED BY <2>1, <2>2, <2>3 DEF TypeOK, WebInv, Around, Noted, Kinds
<1> QED BY <1>1, WebInvHolds, PTL

(* The account the page works with is the one a reload would find in the   *)
(* session, and no private page is shown without one, whatever logins,     *)
(* sign-outs, expiries and reloads overlap (authActions.js, PrivateRoute). *)
THEOREM SessionIsKept == Spec => []SessionKept
<1>1. WebInv => SessionKept
  BY DEF WebInv, Sound, SessionKept, account
<1> QED BY <1>1, WebInvHolds, PTL

(* Whose data are on the page: the user's own, and besides, in the slices  *)
(* a sign-out clears, those of users whose reply was late or who were      *)
(* signed in when another login came, until a later sign-out; in the rigs  *)
(* and the list of payments, which no sign-out clears, those of whoever    *)
(* signed out since the page was loaded (minerDataReducer.js).             *)
THEOREM FormerDataIsLate == Spec => []FormerUserData
<1>1. WebInv => FormerUserData
  BY DEF WebInv, Sound, StoreFits, FormerUserData, Known, account
<1> QED BY <1>1, WebInvHolds, PTL

(* However the payment form is used, and however its answers are late, a   *)
(* second payout of a user is in flight only if the page stopped waiting   *)
(* for one of that user's: at a sign-out, or since the late answer to      *)
(* somebody else's payout lowered the flag (MinerPayment.js,               *)
(* minerDataReducer.js).                                                   *)
THEOREM PayoutsOneByOne == Spec => []OnePayout
<1>1. WebInv => OnePayout
  <2> SUFFICES ASSUME WebInv, NEW u \in Users \ unwaited
               PROVE  PayoutsOf(calls, u) <= 1
    BY DEF OnePayout
  <2>1. Paying(store, calls, unwaited) /\ Payouts(calls) \in [Users -> Nat]
    BY InvParts
  <2>2. Payouts(calls)[u] \in Nat
        /\ Payouts(calls)[u] <= (IF store.minerData.isPaymentSettingProcessing THEN 1 ELSE 0)
    BY <2>1 DEF Paying
  <2>3. Payouts(calls)[u] <= 1
    BY <2>2
  <2> QED BY <2>3 DEF Payouts
<1> QED BY <1>1, WebInvHolds, PTL

(* No spinner of the login page or the payment form is left turning: the   *)
(* request whose end lowers its flag is always in flight.                  *)
THEOREM SpinnersHaveRequests == Spec => []SpinnersEnd
<1>1. WebInv => SpinnersEnd
  BY DEF WebInv, Sound, Spinning, Running, SpinnersEnd
<1> QED BY <1>1, WebInvHolds, PTL

-----------------------------------------------------------------------------
(* The histories of the network, of the pool and of the miner are feeds.   *)
(* First what an answer makes of the rows that its request remembers; then *)
(* what the actions do to a history and to the requests for more of it     *)
(* (Moved); then that this is what Feed allows.  What Feed does not ask    *)
(* for, and has to be kept along, is that the remembered rows are in order *)
(* (HistoriesInOrder).                                                     *)
(* The rows of a history, and the rows an answer leaves of them.           *)
Increasing(r) == \A i, j \in 1..Len(r) : i < j => r[i] < r[j]

Lasting(c) == [prev |-> HeightsOf(c.rows), latest |-> c.latest]

(* Is there a row for every block?  There is, but in a miner's history.    *)
EveryBlock(f) == f # "fetchMinerData"

JoinedTo(f, q, new) == IF EveryBlock(f) THEN Network!Joined(q, new) ELSE Miner!Joined(q, new)

(* The rows of an answer: a tail of the old ones and all of the new ones.  *)
LEMMA ExtendedRows ==
    ASSUME NEW c, c.rows \in Seq(Rows(Height)), c.id \in Owner, NEW B \in SUBSET Height,
           Cardinality(B) <= BlockRange
    PROVE  \E off \in 0..Len(c.rows) :
              LET new == Extended(c, B)
                  kept == Len(c.rows) - off
              IN /\ new \in Seq(Rows(Height)) /\ Len(Ascending(B)) \in Nat
                 /\ Len(new) = kept + Len(Ascending(B)) /\ Len(new) <= BlockRange
                 /\ off > 0 => Len(new) = BlockRange
                 /\ \A i \in 1..kept : new[i].height = c.rows[off + i].height
                 /\ \A i \in kept + 1..Len(new) : new[i].height = Ascending(B)[i - kept]
<1> DEFINE more == AsRows(c.id, B)
           all == c.rows \o more
           a == Ascending(B)
<1>1. /\ more \in Seq(Rows(Height)) /\ Len(more) = Len(a)
      /\ \A i \in 1..Len(more) : more[i].height = a[i]
  BY AsRowsFit
<1>2. Len(a) = Cardinality(B) /\ Len(a) \in Nat
  <2>1. B \in SUBSET Int /\ IsFiniteSet(B)
    BY HeightFinite
  <2> QED BY <2>1, AscendingFits
<1>3. Len(a) <= BlockRange /\ BlockRange \in Nat
  BY <1>2, BoundAssumption
<1> HIDE DEF more, a
<1>4. /\ all \in Seq(Rows(Height)) /\ Len(all) = Len(c.rows) + Len(more)
      /\ \A i \in 1..Len(all) : all[i] = IF i <= Len(c.rows) THEN c.rows[i]
                                         ELSE more[i - Len(c.rows)]
  <2>1. c.rows \in Seq(Rows(Height)) /\ more \in Seq(Rows(Height))
    BY <1>1
  <2> QED BY <2>1
<1>5. Len(c.rows) \in Nat
  OBVIOUS
<1>6. all \in Seq(Rows(Height))
  BY <1>4
<1>7. Extended(c, B) = LastRows(all)
  BY DEF Extended, all, more
<1> HIDE DEF all
<1> DEFINE new == LastRows(all)
<1>8. PICK off \in 0..Len(all) :
         /\ new \in Seq(Rows(Height)) /\ Len(new) = Len(all) - off
         /\ Len(new) <= BlockRange
         /\ off > 0 => Len(new) = BlockRange
         /\ \A i \in 1..Len(new) : new[i] = all[off + i]
  BY <1>6, LastRowsFit
<1> HIDE DEF new
<1>9. off \in 0..Len(c.rows)
  BY <1>1, <1>3, <1>4, <1>5, <1>8
<1> DEFINE kept == Len(c.rows) - off
<1>10. Len(new) = kept + Len(a) /\ kept \in Nat
  BY <1>1, <1>4, <1>5, <1>8, <1>9
<1>11. ASSUME NEW i \in 1..kept
       PROVE  new[i].height = c.rows[off + i].height
  <2>1. off + i \in 1..Len(c.rows) /\ i \in 1..Len(new) /\ off + i \in 1..Len(all)
    BY <1>1, <1>2, <1>4, <1>5, <1>9, <1>10
  <2>2. new[i] = all[off + i] /\ all[off + i] = c.rows[off + i]
    BY <1>4, <1>5, <1>8, <2>1
  <2> QED BY <2>2
<1>12. ASSUME NEW i \in kept + 1..Len(new)
       PROVE  new[i].height = a[i - kept]
  <2> DEFINE k == off + i
  <2>1. /\ k \in Int /\ ~(k <= Len(c.rows)) /\ i \in 1..Len(new) /\ k \in 1..Len(all)
        /\ k - Len(c.rows) = i - kept
    BY <1>1, <1>2, <1>4, <1>5, <1>9, <1>10
  <2>2. i - kept \in 1..Len(more)
    <3>1. Len(more) = Len(a) /\ Len(new) = kept + Len(a) /\ kept \in Nat /\ Len(a) \in Nat
      BY <1>1, <1>2, <1>10
    <3> HIDE DEF kept
    <3> QED BY <3>1
  <2>3. new[i] = all[k]
    BY <1>8, <2>1
  <2> HIDE DEF k
  <2>4. all[k] = more[k - Len(c.rows)]
    BY <1>4, <2>1
  <2> QED BY <1>1, <2>1, <2>2, <2>3, <2>4
<1> HIDE DEF kept
<1>13. /\ new \in Seq(Rows(Height)) /\ Len(a) \in Nat
       /\ Len(new) = kept + Len(a) /\ Len(new) <= BlockRange
       /\ off > 0 => Len(new) = BlockRange
       /\ \A i \in 1..kept : new[i].height = c.rows[off + i].height
       /\ \A i \in kept + 1..Len(new) : new[i].height = a[i - kept]
  BY <1>2, <1>8, <1>10, <1>11, <1>12
<1> QED BY <1>7, <1>9, <1>13 DEF new, a, kept

(* The blocks of an answer: an interval that begins above the newest row.  *)
LEMMA AnswerInterval ==
    ASSUME NEW c, RequestFits(c, tip), c.thunk \in WindowThunks, tip \in Nat,
           NEW A \in WindowAnswers(c)
    PROVE  LET from == Newest(c.latest, Heights(c.rows))
           IN \E seen \in Int : A = (from + 1)..seen \cap Height /\ seen <= c.latest
<1> DEFINE from == Newest(c.latest, Heights(c.rows))
<1>1. from \in Int /\ c.latest \in Int
  BY WindowFits
<1> HIDE DEF from
<1>2. PICK seen \in Int : A = (from + 1)..seen \cap Height /\ (seen <= from \/ seen <= c.latest)
  <2>1. A \in Answers(from, c.latest)
    BY DEF WindowAnswers, from
  <2> QED BY <1>1, <2>1, AnswersAre
<1>3. CASE seen <= c.latest
  BY <1>2, <1>3 DEF from
<1>4. CASE ~(seen <= c.latest)
  <2> DEFINE low == IF from < c.latest THEN from ELSE c.latest
  <2>1. low \in Int /\ low <= c.latest /\ low <= from
    BY <1>1
  <2>2. A = {}
    BY <1>1, <1>2, <1>4
  <2>3. (from + 1)..low \cap Height = {}
    BY <1>1, <2>1
  <2> HIDE DEF low
  <2> QED BY <2>1, <2>2, <2>3 DEF from
<1> QED BY <1>3, <1>4

LEMMA AnswerSize ==
    ASSUME NEW c, RequestFits(c, tip), c.thunk \in WindowThunks, tip \in Nat,
           NEW A \in WindowAnswers(c), NEW B \in SUBSET A
    PROVE  B \in SUBSET Height /\ Cardinality(B) <= BlockRange
<1> DEFINE from == Newest(c.latest, Heights(c.rows))
<1>1. from \in Int /\ c.latest \in Int /\ c.latest - BlockRange <= from
  BY WindowFits, NewestFits
<1> HIDE DEF from
<1>2. PICK seen \in Int : A = (from + 1)..seen \cap Height /\ seen <= c.latest
  BY AnswerInterval DEF from
<1>3. BlockRange \in Nat
  BY BoundAssumption
<1>4. B \in SUBSET Height /\ B \subseteq (from + 1)..seen
  BY <1>2
<1> DEFINE S == (from + 1)..seen
<1>5. /\ IsFiniteSet(S)
      /\ Cardinality(S) = IF from + 1 > seen THEN 0 ELSE seen - (from + 1) + 1
  BY <1>1, FS_Interval
<1>6. Cardinality(S) \in Int /\ Cardinality(S) <= BlockRange
  BY <1>1, <1>2, <1>3, <1>5
<1> HIDE DEF S
<1>7. IsFiniteSet(B) /\ Cardinality(B) <= Cardinality(S)
  BY <1>4, <1>5, FS_Subset DEF S
<1>8. Cardinality(B) \in Int
  BY <1>7, FS_CardinalityType
<1> QED BY <1>3, <1>4, <1>6, <1>7, <1>8

(* The first n of a are the members of S in ascending order, and of them a *)
(* member follows its predecessor.                                         *)
Listed(n, S, a) ==
    /\ \A i \in 1..n : a[i] \in Int
    /\ \A i, j \in 1..n : i < j => a[i] < a[j]
    /\ \A h \in S : \E i \in 1..n : a[i] = h

Follows(k, a) == k > 1 /\ a[k] = a[k - 1] + 1

LEMMA Consecutive ==
    ASSUME NEW n \in Nat, NEW k \in 1..n, NEW S, NEW a, Listed(n, S, a), a[k] - 1 \in S
    PROVE  Follows(k, a)
<1>0. /\ \A i \in 1..n : a[i] \in Int
      /\ \A i, j \in 1..n : i < j => a[i] < a[j]
  BY DEF Listed
<1>1. PICK m \in 1..n : a[m] = a[k] - 1
  BY DEF Listed
<1>2. m < k
  BY <1>0, <1>1
<1>3. ~(m < k - 1)
  <2> SUFFICES ASSUME m < k - 1 PROVE FALSE
    OBVIOUS
  <2> DEFINE l == k - 1
  <2>1. l \in 1..n /\ m < l /\ l < k
    OBVIOUS
  <2> HIDE DEF l
  <2>2. a[m] < a[l] /\ a[l] < a[k]
    BY <1>0, <2>1
  <2> QED BY <1>0, <1>1, <2>1, <2>2
<1>4. m = k - 1 /\ k > 1
  BY <1>2, <1>3
<1> QED BY <1>0, <1>1, <1>4 DEF Follows

(* The rows of an interval follow one another.                             *)
LEMMA AscendingInterval ==
    ASSUME NEW lo \in Int, NEW hi \in Int, NEW S, S = lo..hi \cap Height,
           NEW a, a = Ascending(S), NEW k \in 1..Len(a)
    PROVE  a[k] \in {1, lo} \/ Follows(k, a)
<1>1. S \in SUBSET Height
  OBVIOUS
<1>2. S \in SUBSET Int /\ IsFiniteSet(S)
  BY <1>1, HeightFinite
<1>3. /\ a \in Seq(S) /\ Len(a) \in Nat
      /\ \A i, j \in 1..Len(a) : i < j => a[i] < a[j]
      /\ \A h \in S : \E i \in 1..Len(a) : a[i] = h
  BY <1>2, AscendingFits
<1>4. /\ \A h \in Int : h \in S <=> lo <= h /\ h <= hi /\ 1 <= h /\ h <= MaxTip
      /\ \A h \in S : h \in Int
      /\ MaxTip \in Int
  BY BoundAssumption DEF Height
<1>5. k \in 1..Len(a) /\ k \in Int
  OBVIOUS
<1>6. a[k] \in S
  BY <1>3, <1>5
<1>7. CASE a[k] \in {1, lo}
  BY <1>7
<1>8. CASE a[k] \notin {1, lo}
  <2>1. PICK n : n = Len(a)
    OBVIOUS
  <2>2. /\ n \in Nat /\ k \in 1..n /\ \A i \in 1..n : a[i] \in S /\ a[i] \in Int
        /\ \A i, j \in 1..n : i < j => a[i] < a[j]
        /\ \A h \in S : \E i \in 1..n : a[i] = h
    <3>1. \A i \in 1..Len(a) : a[i] \in S
      BY <1>3
    <3> QED BY <1>3, <1>4, <1>5, <2>1, <3>1
  <2>3. a[k] - 1 \in S
    <3> DEFINE h == a[k]
    <3>1. h \in Int /\ h # 1 /\ h # lo /\ h \in S
      BY <1>4, <1>6, <1>8
    <3> HIDE DEF h
    <3>2. lo <= h - 1 /\ h - 1 <= hi /\ 1 <= h - 1 /\ h - 1 <= MaxTip /\ h - 1 \in Int
      BY <1>4, <3>1
    <3>3. h - 1 \in S
      BY <1>4, <3>2
    <3> QED BY <3>3 DEF h
  <2>4. Listed(n, S, a)
    BY <2>2 DEF Listed
  <2>5. Follows(k, a)
    BY <2>2, <2>3, <2>4, Consecutive
  <2> QED BY <2>5
<1> QED BY <1>7, <1>8

(* Rows are put together of the n rows prev but the first off, none above  *)
(* from, and of the m heights of a, all above from.                        *)
Together(n, m, off, from, latest, f, prev, a, new) ==
    /\ Len(prev) = n /\ Len(new) = n - off + m /\ Len(new) <= BlockRange
    /\ off > 0 => Len(new) = BlockRange
    /\ \A i \in 1..n : prev[i] \in Int /\ prev[i] <= from
    /\ \A i, j \in 1..n : i < j => prev[i] < prev[j]
    /\ (n > 0 /\ prev # <<>> /\ prev[n] = from) \/ from = latest - BlockRange
    /\ \A i \in 1..m : a[i] \in Int /\ from + 1 <= a[i] /\ a[i] <= latest
    /\ \A i, j \in 1..m : i < j => a[i] < a[j]
    /\ EveryBlock(f) => \A i \in 1..m : a[i] \in {1, from + 1} \/ Follows(i, a)
    /\ \A i \in 1..(n - off) : new[i] = prev[off + i]
    /\ \A i \in (n - off) + 1..Len(new) : new[i] = a[i - (n - off)]

(* The row at k follows one that is new as well, or begins the new ones.   *)
Filled(k, first, from, new) ==
    new[k] \in {1, from + 1} \/ (k > first /\ new[k] = new[k - 1] + 1)

(* Old rows and new ones above them, put together.                         *)
LEMMA RowsJoined ==
    ASSUME NEW n \in Nat, NEW m \in Nat, NEW off \in 0..n, NEW from \in Int,
           NEW latest \in Int, latest - BlockRange <= from, BlockRange \in Nat,
           NEW f, NEW q, q.latest = latest, NEW prev, q.prev = prev, NEW a, NEW new,
           Together(n, m, off, from, latest, f, prev, a, new)
    PROVE  Increasing(new) /\ JoinedTo(f, q, new)
<1>0. /\ Len(prev) = n /\ Len(new) = n - off + m /\ Len(new) <= BlockRange
      /\ off > 0 => Len(new) = BlockRange
      /\ \A i \in 1..n : prev[i] \in Int /\ prev[i] <= from
      /\ \A i, j \in 1..n : i < j => prev[i] < prev[j]
      /\ (n > 0 /\ prev # <<>> /\ prev[n] = from) \/ from = latest - BlockRange
      /\ \A i \in 1..m : a[i] \in Int /\ from + 1 <= a[i] /\ a[i] <= latest
      /\ \A i, j \in 1..m : i < j => a[i] < a[j]
      /\ EveryBlock(f) => \A i \in 1..m : a[i] \in {1, from + 1} \/ Follows(i, a)
      /\ \A i \in 1..(n - off) : new[i] = prev[off + i]
      /\ \A i \in (n - off) + 1..Len(new) : new[i] = a[i - (n - off)]
  BY DEF Together
<1> DEFINE kept == n - off
           len == Len(new)
<1>1. /\ kept \in Nat /\ len \in Nat /\ len = kept + m /\ n - kept = off /\ kept \in 0..n
      /\ off \in Nat /\ n = kept + off /\ len <= BlockRange
      /\ off > 0 => len = BlockRange
  BY <1>0
<1>2. /\ \A i \in 1..kept : new[i] = prev[off + i]
      /\ \A i \in kept + 1..len : new[i] = a[i - kept]
  BY <1>0
<1> HIDE DEF kept, len
<1>3. ASSUME NEW i \in 1..kept
      PROVE  new[i] \in Int /\ new[i] <= from
  <2> DEFINE k == off + i
  <2>1. k \in 1..n /\ new[i] = prev[k]
    BY <1>0, <1>1, <1>2
  <2> HIDE DEF k
  <2> QED BY <1>0, <2>1
<1>4. ASSUME NEW i \in kept + 1..len
      PROVE  /\ new[i] \in Int /\ from + 1 <= new[i] /\ new[i] <= latest
             /\ \A j \in kept + 1..len : i < j => new[i] < new[j]
             /\ EveryBlock(f) => Filled(i, kept + 1, from, new)
  <2> DEFINE k == i - kept
  <2>1. k \in 1..m /\ new[i] = a[k] /\ k \in Int /\ i = k + kept
    <3>1. i \in Int /\ kept \in Int /\ kept + 1 <= i /\ i <= kept + m
      BY <1>0, <1>1
    <3>2. i - kept \in 1..m /\ i - kept \in Int /\ i = (i - kept) + kept
      BY <1>0, <3>1
    <3>3. new[i] = a[i - kept]
      BY <1>0, <1>2
    <3> QED BY <1>0, <3>2, <3>3
  <2> HIDE DEF k
  <2>2. new[i] \in Int /\ from + 1 <= new[i] /\ new[i] <= latest
    BY <1>0, <2>1
  <2>3. ASSUME NEW j \in kept + 1..len, i < j
        PROVE  new[i] < new[j]
    <3> DEFINE l == j - kept
    <3>1. l \in 1..m /\ new[j] = a[l] /\ k < l
      BY <1>0, <1>1, <1>2, <2>1, <2>3
    <3> HIDE DEF l
    <3> QED BY <1>0, <2>1, <3>1
  <2>4. ASSUME EveryBlock(f)
        PROVE  Filled(i, kept + 1, from, new)
    <3>1. a[k] \in {1, from + 1} \/ (k > 1 /\ a[k] = a[k - 1] + 1)
      BY <1>0, <2>1, <2>4 DEF Follows
    <3>2. CASE k > 1 /\ a[k] = a[k - 1] + 1
      <4> DEFINE l == k - 1
      <4>1. i - 1 \in kept + 1..len /\ (i - 1) - kept = l /\ i > kept + 1
        BY <1>0, <1>1, <2>1, <3>2
      <4>2. new[i - 1] = a[l]
        BY <1>0, <1>2, <4>1
      <4> QED BY <1>0, <2>1, <3>2, <4>1, <4>2 DEF Filled
    <3>3. CASE a[k] \in {1, from + 1}
      BY <1>0, <2>1, <3>3 DEF Filled
    <3> QED BY <1>0, <3>1, <3>2, <3>3
  <2>5. \A j \in kept + 1..len : i < j => new[i] < new[j]
    BY <1>0, <2>3
  <2> QED BY <1>0, <2>2, <2>4, <2>5
<1>5. ASSUME NEW i \in 1..len, NEW j \in 1..len, i < j
      PROVE  new[i] < new[j]
  <2>1. CASE j <= kept
    <3> DEFINE k == off + i
               l == off + j
    <3>1. k \in 1..n /\ l \in 1..n /\ k < l /\ new[i] = prev[k] /\ new[j] = prev[l]
      <4>1. i \in 1..kept /\ j \in 1..kept
        BY <1>0, <1>1, <1>5, <2>1
      <4>2. new[i] = prev[off + i] /\ new[j] = prev[off + j]
        BY <1>0, <1>2, <4>1
      <4>3. off + i \in 1..n /\ off + j \in 1..n /\ off + i < off + j
        BY <1>0, <1>1, <1>5, <4>1
      <4> QED BY <1>0, <4>2, <4>3
    <3> HIDE DEF k, l
    <3> QED BY <1>0, <3>1
  <2>2. CASE i <= kept /\ kept < j
    <3>1. i \in 1..kept /\ j \in kept + 1..len
      BY <1>0, <1>1, <2>2
    <3>2. new[i] \in Int /\ new[i] <= from
      BY <1>0, <1>3, <3>1
    <3>3. new[j] \in Int /\ from + 1 <= new[j]
      BY <1>0, <1>4, <3>1
    <3> QED BY <1>0, <3>2, <3>3
  <2>3. CASE kept < i
    <3>1. i \in kept + 1..len /\ j \in kept + 1..len
      <4>1. /\ i \in Int /\ j \in Int /\ kept \in Int /\ len \in Int
            /\ i <= len /\ j <= len /\ kept < i /\ i < j
        BY <1>0, <1>1, <1>5, <2>3
      <4> QED BY <1>0, <4>1
    <3> QED BY <1>0, <1>4, <1>5, <3>1
  <2> QED BY <1>0, <1>1, <2>1, <2>2, <2>3
<1>6. Increasing(new)
  BY <1>0, <1>5 DEF Increasing, len
<1>7. ASSUME NEW i \in kept + 1..len
      PROVE  /\ new[i] \in latest - BlockRange + 1..latest
             /\ \A j \in 1..n : new[i] > prev[j]
             /\ \A j \in kept + 1..i - 1 : new[i] > new[j]
  <2>1. new[i] \in Int /\ from + 1 <= new[i] /\ new[i] <= latest
    BY <1>0, <1>4
  <2>2. new[i] \in latest - BlockRange + 1..latest
    BY <1>0, <2>1
  <2>3. \A j \in 1..n : new[i] > prev[j]
    BY <1>0, <2>1
  <2>4. ASSUME NEW j \in kept + 1..i - 1
        PROVE  new[i] > new[j]
    <3>1. j \in kept + 1..len /\ j < i
      BY <1>0, <1>1
    <3>2. new[j] < new[i] /\ new[j] \in Int
      BY <1>0, <1>4, <3>1
    <3> QED BY <1>0, <2>1, <3>2
  <2> QED BY <1>0, <2>2, <2>3, <2>4
<1>8. ASSUME EveryBlock(f), NEW i \in kept + 1..len
      PROVE  \/ new[i] \in {1, latest - BlockRange + 1}
             \/ i > kept + 1 /\ new[i] = new[i - 1] + 1
             \/ i = kept + 1 /\ prev # <<>> /\ new[i] = prev[n] + 1
  <2>1. \/ new[i] \in {1, from + 1}
        \/ i > kept + 1 /\ new[i] = new[i - 1] + 1
    BY <1>0, <1>4, <1>8 DEF Filled
  <2>2. CASE new[i] = from + 1 /\ from # latest - BlockRange
    <3>1. prev # <<>> /\ new[i] = prev[n] + 1
      BY <1>0, <2>2
    <3>2. i = kept + 1
      <4> SUFFICES ASSUME i # kept + 1 PROVE FALSE
        OBVIOUS
      <4>1. i - 1 \in kept + 1..len /\ i - 1 < i
        BY <1>0, <1>1
      <4> DEFINE j == i - 1
      <4>2. j \in kept + 1..len /\ j < i
        BY <1>0, <4>1
      <4> HIDE DEF j
      <4>3. new[j] < new[i] /\ new[j] \in Int /\ from + 1 <= new[j]
        BY <1>0, <1>4, <4>2
      <4> QED BY <1>0, <2>2, <4>3
    <3> QED BY <1>0, <3>1, <3>2
  <2> QED BY <1>0, <2>1, <2>2
<1>9. JoinedTo(f, q, new)
  <2>1. /\ kept \in 0..Len(q.prev) /\ Len(q.prev) - kept = off /\ Len(q.prev) = n
        /\ kept <= len /\ len = Len(new)
    BY <1>0, <1>1 DEF len
  <2>2. CASE EveryBlock(f)
    <3>1. Network!Joined(q, new)
      <4> HIDE DEF kept, len
      <4>1. /\ kept <= Len(new) /\ Len(new) <= BlockRange
            /\ off > 0 => Len(new) = BlockRange
            /\ \A i \in 1..kept : new[i] = q.prev[off + i]
            /\ \A i \in kept + 1..Len(new) :
                  /\ new[i] \in q.latest - BlockRange + 1..q.latest
                  /\ \A j \in 1..Len(q.prev) : new[i] > q.prev[j]
                  /\ \A j \in kept + 1..i - 1 : new[i] > new[j]
            /\ \A i \in kept + 1..Len(new) :
                  \/ new[i] \in {1, q.latest - BlockRange + 1}
                  \/ i > kept + 1 /\ new[i] = new[i - 1] + 1
                  \/ i = kept + 1 /\ q.prev # <<>> /\ new[i] = q.prev[Len(q.prev)] + 1
        BY <1>0, <1>1, <1>2, <1>7, <1>8, <2>1, <2>2
      <4> QED BY <1>0, <2>1, <4>1 DEF Network!Joined
    <3> QED BY <1>0, <2>2, <3>1 DEF JoinedTo
  <2>3. CASE ~EveryBlock(f)
    <3>1. Miner!Joined(q, new)
      <4>1. /\ kept <= Len(new) /\ Len(new) <= BlockRange
            /\ off > 0 => Len(new) = BlockRange
            /\ \A i \in 1..kept : new[i] = q.prev[off + i]
            /\ \A i \in kept + 1..Len(new) :
                  /\ new[i] \in q.latest - BlockRange + 1..q.latest
                  /\ \A j \in 1..Len(q.prev) : new[i] > q.prev[j]
                  /\ \A j \in kept + 1..i - 1 : new[i] > new[j]
        BY <1>0, <1>1, <1>2, <1>7, <2>1
      <4> QED BY <1>0, <2>1, <4>1 DEF Miner!Joined
    <3> QED BY <1>0, <2>3, <3>1 DEF JoinedTo
  <2> QED BY <1>0, <2>2, <2>3
<1> QED BY <1>6, <1>9

(* An answer to a request whose rows were increasing is an answer of Feed, *)
(* and leaves increasing rows.                                             *)
LEMMA ExtendedJoins ==
    ASSUME NEW c, RequestFits(c, tip), c.thunk \in WindowThunks, tip \in Nat,
           Increasing(HeightsOf(c.rows)), NEW A \in WindowAnswers(c), NEW B,
           NEW f, B = IF EveryBlock(f) THEN A ELSE A \cap Worked
    PROVE  LET new == HeightsOf(Extended(c, B))
           IN /\ new \in Seq(Nat \ {0}) /\ Increasing(new) /\ JoinedTo(f, Lasting(c), new)
<1> DEFINE from == Newest(c.latest, Heights(c.rows))
           S == Heights(c.rows)
<1>1. /\ from \in Int /\ c.latest \in Int /\ c.latest - BlockRange <= from
      /\ from \in {c.latest - BlockRange} \cup S /\ S \in SUBSET Height
      /\ \A h \in S : h <= from
  BY WindowFits, NewestFits
<1>2. c.rows \in Seq(Rows(Height)) /\ c.id \in Owner
  BY DEF RequestFits
<1>3. S = {c.rows[i].height : i \in 1..Len(c.rows)}
  BY <1>2 DEF Heights
<1> HIDE DEF from, S
<1>4. PICK seen \in Int : A = (from + 1)..seen \cap Height /\ seen <= c.latest
  BY AnswerInterval DEF from
<1>5. B \in SUBSET A /\ B \in SUBSET Height /\ Cardinality(B) <= BlockRange
  <2>1. B \in SUBSET A
    OBVIOUS
  <2> QED BY <2>1, AnswerSize
<1> DEFINE n == Len(c.rows)
           prev == HeightsOf(c.rows)
           a == Ascending(B)
           rows == Extended(c, B)
           new == HeightsOf(rows)
<1>6. PICK off \in 0..n :
         /\ rows \in Seq(Rows(Height)) /\ Len(a) \in Nat
         /\ Len(rows) = n - off + Len(a) /\ Len(rows) <= BlockRange
         /\ off > 0 => Len(rows) = BlockRange
         /\ \A i \in 1..(n - off) : rows[i].height = c.rows[off + i].height
         /\ \A i \in (n - off) + 1..Len(rows) : rows[i].height = a[i - (n - off)]
  <2>1. \E off \in 0..Len(c.rows) :
              LET fresh == Extended(c, B)
                  kept == Len(c.rows) - off
              IN /\ fresh \in Seq(Rows(Height)) /\ Len(Ascending(B)) \in Nat
                 /\ Len(fresh) = kept + Len(Ascending(B)) /\ Len(fresh) <= BlockRange
                 /\ off > 0 => Len(fresh) = BlockRange
                 /\ \A i \in 1..kept : fresh[i].height = c.rows[off + i].height
                 /\ \A i \in kept + 1..Len(fresh) : fresh[i].height = Ascending(B)[i - kept]
    BY <1>2, <1>5, ExtendedRows
  <2> HIDE DEF rows, a, n
  <2> QED BY <2>1 DEF rows, a, n
<1>7. n \in Nat /\ off \in Nat /\ off <= n /\ n - off \in Nat
  BY <1>2
<1>8. /\ prev = [i \in 1..n |-> c.rows[i].height] /\ prev \in Seq(Height) /\ Len(prev) = n
      /\ \A i \in 1..n : prev[i] \in S /\ prev[i] \in Int /\ prev[i] <= from
  <2>1. \A i \in 1..n : c.rows[i] \in Rows(Height)
    BY <1>2
  <2>2. \A i \in 1..n : c.rows[i].height \in Height
    BY <2>1 DEF Rows
  <2>3. \A h \in Height : h \in Int
    BY BoundAssumption DEF Height
  <2>4. prev = [i \in 1..n |-> c.rows[i].height]
    BY <1>2 DEF HeightsOf
  <2> HIDE DEF prev
  <2>5. prev \in Seq(Height) /\ Len(prev) = n
    BY <1>7, <2>2, <2>4
  <2>6. \A i \in 1..n : prev[i] \in S
    BY <1>3, <2>4
  <2> QED BY <1>1, <2>3, <2>4, <2>5, <2>6
<1>9. /\ \A k \in 1..Len(a) :
            a[k] \in Height /\ a[k] \in Int /\ from + 1 <= a[k] /\ a[k] <= c.latest
      /\ \A i, j \in 1..Len(a) : i < j => a[i] < a[j]
  <2>1. B \in SUBSET Int /\ IsFiniteSet(B)
    BY <1>5, HeightFinite
  <2>2. /\ a \in Seq(B) /\ \A i, j \in 1..Len(a) : i < j => a[i] < a[j]
    BY <2>1, AscendingFits
  <2> HIDE DEF a
  <2>3. \A k \in 1..Len(a) : a[k] \in B
    BY <2>2
  <2>4. \A h \in B : h \in Height /\ h \in Int /\ from + 1 <= h /\ h <= c.latest
    <3>1. \A h \in Height : h \in Int
      BY BoundAssumption DEF Height
    <3>2. \A h \in B : h \in Height /\ h \in (from + 1)..seen
      BY <1>4, <1>5
    <3> QED BY <1>1, <1>4, <3>1, <3>2
  <2> QED BY <2>2, <2>3, <2>4
<1>10. EveryBlock(f) => \A k \in 1..Len(a) : a[k] \in {1, from + 1} \/ Follows(k, a)
  <2> SUFFICES ASSUME EveryBlock(f), NEW k \in 1..Len(a)
               PROVE  a[k] \in {1, from + 1} \/ Follows(k, a)
    OBVIOUS
  <2> DEFINE lo == from + 1
  <2>1. lo \in Int /\ seen \in Int /\ B = lo..seen \cap Height
    BY <1>1, <1>4
  <2> HIDE DEF lo
  <2> HIDE DEF a
  <2>2. a = Ascending(B)
    BY DEF a
  <2>3. a[k] \in {1, lo} \/ Follows(k, a)
    BY <2>1, <2>2, AscendingInterval
  <2> QED BY <2>3 DEF lo
<1>11. (n > 0 /\ prev # <<>> /\ prev[n] = from) \/ from = c.latest - BlockRange
  <2> SUFFICES ASSUME from # c.latest - BlockRange
               PROVE  n > 0 /\ prev # <<>> /\ prev[n] = from
    OBVIOUS
  <2>1. PICK i \in 1..n : c.rows[i].height = from
    BY <1>1, <1>3
  <2>2. prev[i] = from /\ n > 0 /\ n \in 1..n /\ i <= n
    BY <1>7, <1>8, <2>1
  <2>3. \A j, k \in 1..n : j < k => prev[j] < prev[k]
    BY <1>8 DEF Increasing
  <2> HIDE DEF prev, n
  <2>4. prev[n] = from
    BY <1>1, <1>8, <2>2, <2>3
  <2>5. prev # <<>>
    BY <1>8, <2>2
  <2> QED BY <2>2, <2>4, <2>5
<1>12. /\ new \in Seq(Nat \ {0}) /\ Len(new) = Len(rows)
       /\ \A i \in 1..Len(new) : new[i] = rows[i].height
  <2> HIDE DEF rows
  <2>0. rows \in Seq(Rows(Height))
    BY <1>6
  <2>1. \A i \in 1..Len(rows) : rows[i] \in Rows(Height)
    BY <2>0
  <2>2. \A i \in 1..Len(rows) : rows[i].height \in Nat \ {0}
    BY <2>1, BoundAssumption DEF Rows, Height
  <2>3. new = [i \in 1..Len(rows) |-> rows[i].height] /\ Len(rows) \in Nat
    BY <2>0 DEF HeightsOf
  <2> HIDE DEF new
  <2> QED BY <2>2, <2>3
<1>13. Lasting(c).prev = prev /\ Lasting(c).latest = c.latest
  BY DEF Lasting
<1>14. \A i, j \in 1..n : i < j => prev[i] < prev[j]
  BY <1>8 DEF Increasing
<1> DEFINE m == Len(a)
           q == Lasting(c)
<1>15. BlockRange \in Nat
  BY BoundAssumption
<1> HIDE DEF n, prev, a, rows, new, q
<1>16. /\ m \in Nat /\ Len(new) = n - off + m /\ Len(new) <= BlockRange
       /\ Len(prev) = n /\ (off > 0 => Len(new) = BlockRange)
       /\ \A i \in 1..(n - off) : new[i] = prev[off + i]
       /\ \A i \in (n - off) + 1..Len(new) : new[i] = a[i - (n - off)]
  <2>1. m \in Nat /\ Len(new) = n - off + m /\ Len(new) <= BlockRange /\ Len(prev) = n
        /\ (off > 0 => Len(new) = BlockRange)
    BY <1>6, <1>8, <1>12
  <2>2. ASSUME NEW i \in 1..(n - off) PROVE new[i] = prev[off + i]
    <3>1. i \in 1..Len(new) /\ off + i \in 1..n
      BY <1>7, <2>1
    <3> DEFINE k == off + i
    <3>2. k \in 1..n /\ rows[i].height = c.rows[k].height
      BY <1>6, <3>1
    <3> HIDE DEF k
    <3>3. new[i] = prev[k]
      BY <1>8, <1>12, <3>1, <3>2
    <3> QED BY <3>3 DEF k
  <2>3. ASSUME NEW i \in (n - off) + 1..Len(new) PROVE new[i] = a[i - (n - off)]
    <3>1. i \in 1..Len(new)
      BY <1>7, <2>1
    <3> QED BY <1>6, <1>12, <3>1
  <2> QED BY <2>1, <2>2, <2>3
<1> HIDE DEF m
<1>17. Increasing(new) /\ JoinedTo(f, q, new)
  <2>1. /\ n \in Nat /\ m \in Nat /\ off \in 0..n /\ from \in Int
        /\ c.latest \in Int /\ c.latest - BlockRange <= from
        /\ q.latest = c.latest /\ q.prev = prev
        /\ \A i \in 1..n : prev[i] \in Int /\ prev[i] <= from
    BY <1>1, <1>7, <1>8, <1>13, <1>16 DEF q
  <2>2. /\ \A i \in 1..m : a[i] \in Int /\ from + 1 <= a[i] /\ a[i] <= c.latest
        /\ \A i, j \in 1..m : i < j => a[i] < a[j]
        /\ EveryBlock(f) => \A i \in 1..m : a[i] \in {1, from + 1} \/ Follows(i, a)
    BY <1>9, <1>10 DEF m
  <2>3. /\ m \in Nat /\ Len(prev) = n /\ Len(new) = n - off + m /\ Len(new) <= BlockRange
        /\ (off > 0 => Len(new) = BlockRange) /\ BlockRange \in Nat
        /\ \A i, j \in 1..n : i < j => prev[i] < prev[j]
        /\ \A i \in 1..(n - off) : new[i] = prev[off + i]
        /\ \A i \in (n - off) + 1..Len(new) : new[i] = a[i - (n - off)]
    BY <1>14, <1>15, <1>16
  <2>4. (n > 0 /\ prev # <<>> /\ prev[n] = from) \/ from = c.latest - BlockRange
    BY <1>11
  <2>5. Together(n, m, off, from, c.latest, f, prev, a, new)
    BY <2>1, <2>2, <2>3, <2>4 DEF Together
  <2> QED BY <2>1, <2>3, <2>5, RowsJoined
<1> QED BY <1>12, <1>17 DEF new, rows, q

-----------------------------------------------------------------------------
(* The steps of a history, whichever it is: what it shows, which requests  *)
(* for more of it wait, and what a step of Feed makes of them.             *)
Feeds == {"fetchNetworkData", "fetchMuglePoolData", "fetchMinerData"}

Shows(s, f) == HeightsOf(WindowOf(s, f))

Waiting(bag, f) == {Lasting(c) : c \in {x \in DOMAIN bag : x.thunk = f}}

Query(rows, latest) == [prev |-> rows, latest |-> latest]

(* Nothing happens to it, or it is asked for by a page that knows a height *)
(* and, if it is private, an account.                                      *)
AsksOrNot(s, f, asked, asked2, top) ==
    \/ asked2 = asked
    \/ /\ Starts(s, f) /\ Latest(s) \in 1..top
       /\ asked2 = asked \cup {Query(Shows(s, f), Latest(s))}

Moves(f, rows, rows2, asked, asked2, top, top2) ==
    \/ rows2 = rows /\ asked2 = asked /\ top2 \in {top, top + 1}
    \/ /\ rows2 = rows /\ top2 = top
       /\ \E latest \in 1..top : asked2 = asked \cup {Query(rows, latest)}
    \/ /\ top2 = top
       /\ \E q \in asked : /\ rows2 \in Seq(Nat \ {0}) /\ JoinedTo(f, q, rows2)
                           /\ Increasing(rows2) /\ asked2 \in {asked, asked \ {q}}
    \/ rows2 = rows /\ top2 = top /\ \E q \in asked : asked2 = asked \ {q}
    \/ rows2 = <<>> /\ top2 = top /\ asked2 \in {asked, {}}

Moved(f) == Moves(f, Shows(store, f), Shows(store, f)', Waiting(calls, f), Waiting(calls, f)',
                  tip, tip')

(* All histories that are shown or remembered are in order.                *)
InOrder(rows, asked) == Increasing(rows) /\ \A q \in asked : Increasing(q.prev)

LEMMA MovesKeep ==
    ASSUME NEW f, NEW rows, NEW rows2, NEW asked, NEW asked2, NEW top, NEW top2,
           InOrder(rows, asked), Moves(f, rows, rows2, asked, asked2, top, top2)
    PROVE  InOrder(rows2, asked2)
<1>1. Increasing(<<>>)
  BY DEF Increasing
<1>2. \A latest : Query(rows, latest).prev = rows
  BY DEF Query
<1> QED BY <1>1, <1>2 DEF InOrder, Moves

LEMMA FeedNames ==
    ASSUME NEW f \in Feeds
    PROVE  f \in WindowThunks /\ f \in Thunks /\ f \in NeedsHeight /\ f \in Quiet
BY DEF Feeds, WindowThunks, NeedsHeight, Thunks, Quiet

LEMMA RowsShown ==
    ASSUME NEW s, NEW f \in Feeds
    PROVE  WindowOf(s, f) = IF f = "fetchNetworkData" THEN s.networkData.historical
                            ELSE IF f = "fetchMuglePoolData" THEN s.muglePoolData.historical
                            ELSE s.minerData.historical
BY DEF Feeds, WindowOf

(* The requests of a history, once thunks have run.                        *)
LEMMA StartedAsks ==
    ASSUME NEW s, NEW top \in Nat, NEW known, StoreFits(s, top, known), NEW bag, BagFits(bag),
           NEW T, NEW thunks \in Seq(T), NEW b \in Started(s, bag, thunks), NEW f \in Feeds
    PROVE  /\ AsksOrNot(s, f, Waiting(bag, f), Waiting(b, f), top)
           /\ f \notin T => Waiting(b, f) = Waiting(bag, f)
<1> DEFINE r == Request(s, f)
<1>1. DOMAIN bag \subseteq DOMAIN b /\ SentBy(s, T, bag, b)
  BY StartedFits
<1>2. \A t : Request(s, t).thunk = t
  BY RequestNames
<1>3. r.rows = WindowOf(s, f) /\ r.latest = Latest(s) /\ r.thunk = f
  BY FeedNames, RequestNames
<1>4. Lasting(r) = Query(Shows(s, f), Latest(s))
  <2> HIDE DEF r
  <2> QED BY <1>3 DEF Lasting, Query, Shows
<1>5. \A x \in DOMAIN b : x.thunk = f => x \in DOMAIN bag \/ (f \in T /\ Starts(s, f) /\ x = r)
  BY <1>1, <1>2 DEF SentBy
<1> HIDE DEF r
<1>6. CASE r \in DOMAIN b /\ r \notin DOMAIN bag
  <2>1. f \in T /\ Starts(s, f)
    BY <1>3, <1>5, <1>6
  <2>2. Waiting(b, f) = Waiting(bag, f) \cup {Lasting(r)}
    BY <1>1, <1>3, <1>5, <1>6 DEF Waiting
  <2>3. Latest(s) \in 1..top
    <3>1. Latest(s) \in Height \cup {0} /\ Latest(s) <= top
      BY StoreParts DEF StoreFits, NetType, Latest
    <3>2. Latest(s) # 0
      BY <2>1, FeedNames DEF Starts
    <3> QED BY <3>1, <3>2, BoundAssumption DEF Height
  <2> QED BY <1>4, <2>1, <2>2, <2>3 DEF AsksOrNot
<1>7. CASE ~(r \in DOMAIN b /\ r \notin DOMAIN bag)
  <2>1. Waiting(b, f) = Waiting(bag, f)
    BY <1>1, <1>5, <1>7 DEF Waiting
  <2> QED BY <2>1 DEF AsksOrNot
<1> QED BY <1>6, <1>7

(* And once a page is shown.                                               *)
LEMMA ShowAsks ==
    ASSUME visit \in Visits, NEW s, NEW top \in Nat, NEW known, StoreFits(s, top, known),
           NEW bag, CallsFit(bag, top, known), NEW p \in Pages \cup {"rigs", "login"},
           Show(s, p, bag), NEW f \in Feeds
    PROVE  store' = s /\ AsksOrNot(s, f, Waiting(bag, f), Waiting(calls', f), top)
<1>1. store' = s /\ page' = Shown(s, p) /\ page' \in Routes
  BY ShownFits DEF Show
<1>2. CASE page' = page
  <2>1. calls' = bag
    BY <1>2 DEF Show
  <2> QED BY <1>1, <2>1 DEF AsksOrNot
<1>3. CASE page' # page
  <2>1. PICK thunks, b : thunks = Mounts(s, page') /\ b = calls'
    OBVIOUS
  <2>2. b \in Started(s, bag, thunks)
    BY <1>3, <2>1 DEF Show
  <2>3. thunks \in Seq(Quiet)
    BY <1>1, <2>1, PagesQuiet
  <2>4. BagFits(bag)
    BY DEF CallsFit
  <2>5. AsksOrNot(s, f, Waiting(bag, f), Waiting(b, f), top)
    BY <2>2, <2>3, <2>4, StartedAsks
  <2> QED BY <1>1, <2>1, <2>5
<1> QED BY <1>2, <1>3

(* And when a request lands or fails.                                      *)
LEMMA WithoutAsks ==
    ASSUME NEW top, NEW known, CallsFit(calls, top, known), NEW c \in DOMAIN calls, NEW f
    PROVE  /\ c.thunk # f => Waiting(Without(c), f) = Waiting(calls, f)
           /\ c.thunk = f => /\ Lasting(c) \in Waiting(calls, f)
                             /\ Waiting(Without(c), f)
                                   \in {Waiting(calls, f), Waiting(calls, f) \ {Lasting(c)}}
<1>1. PICK b : b = Without(c)
  OBVIOUS
<1>2. DOMAIN b \subseteq DOMAIN calls /\ \A x \in DOMAIN calls : x # c => x \in DOMAIN b
  BY <1>1, WithoutFits
<1>3. CASE c.thunk # f
  BY <1>1, <1>2, <1>3 DEF Waiting
<1>4. CASE c.thunk = f
  <2>1. Lasting(c) \in Waiting(calls, f)
    BY <1>4 DEF Waiting
  <2>2. CASE \E x \in DOMAIN b : x.thunk = f /\ Lasting(x) = Lasting(c)
    <3>1. Waiting(b, f) = Waiting(calls, f)
      BY <1>2, <2>2 DEF Waiting
    <3> QED BY <1>1, <1>4, <2>1, <3>1
  <2>3. CASE ~\E x \in DOMAIN b : x.thunk = f /\ Lasting(x) = Lasting(c)
    <3>1. Waiting(b, f) = Waiting(calls, f) \ {Lasting(c)}
      BY <1>2, <2>3 DEF Waiting
    <3> QED BY <1>1, <1>4, <2>1, <3>1
  <2> QED BY <2>2, <2>3
<1> QED BY <1>3, <1>4

(* Only three actions write a history, and a sign-out the miner's.         *)
LEMMA RowsDispatched ==
    ASSUME NEW s, NEW t \in PageTypes \cup {"ACCOUNT"}, NEW d, NEW f \in Feeds
    PROVE  IF Out(t, d) /\ f = "fetchMinerData" THEN Shows(Dispatch(s, t, d), f) = <<>>
           ELSE Shows(Dispatch(s, t, d), f) = Shows(s, f)
<1>0. t \notin {"NETWORK_DATA", "MUGLE_POOL_DATA", "MINER_DATA"}
  BY DEF PageTypes
<1>1. Dispatch(s, t, d).networkData.historical = s.networkData.historical
  BY <1>0 DEF Dispatch, Reducer, NetworkData, NetworkHistorical, Takes
<1>2. Dispatch(s, t, d).muglePoolData.historical = s.muglePoolData.historical
  BY <1>0 DEF Dispatch, Reducer, MuglePoolData, PoolHistorical, Takes
<1>3. Dispatch(s, t, d).minerData.historical
         = IF Out(t, d) THEN <<>> ELSE s.minerData.historical
  <2> DEFINE m == s.minerData
             n == Dispatch(s, t, d).minerData
  <2>1. MineBecomes(m, n, t, d)
    BY MineFields
  <2> HIDE DEF m, n
  <2>2. n.historical = IF Out(t, d) THEN <<>> ELSE m.historical
    BY <1>0, <2>1 DEF MineBecomes
  <2> QED BY <2>2 DEF m, n
<1>4. PICK new : new = Dispatch(s, t, d)
  OBVIOUS
<1>5. HeightsOf(<<>>) = <<>>
  BY DEF HeightsOf
<1>6. /\ new.networkData.historical = s.networkData.historical
      /\ new.muglePoolData.historical = s.muglePoolData.historical
      /\ new.minerData.historical = IF Out(t, d) THEN <<>> ELSE s.minerData.historical
  BY <1>1, <1>2, <1>3, <1>4
<1>7. IF Out(t, d) /\ f = "fetchMinerData" THEN Shows(new, f) = <<>>
      ELSE Shows(new, f) = Shows(s, f)
  <2>1. WindowOf(new, f) = IF Out(t, d) /\ f = "fetchMinerData" THEN <<>> ELSE WindowOf(s, f)
    BY <1>6, RowsShown DEF Feeds
  <2> QED BY <1>5, <2>1 DEF Shows
<1> QED BY <1>4, <1>7

-----------------------------------------------------------------------------
HistoriesInOrder == \A f \in Feeds : InOrder(Shows(store, f), Waiting(calls, f))

LEMMA AsksMove ==
    ASSUME NEW f, NEW s, NEW rows, Shows(s, f) = rows, NEW asked, NEW asked2, NEW top,
           AsksOrNot(s, f, asked, asked2, top)
    PROVE  Moves(f, rows, rows, asked, asked2, top, top)
BY DEF AsksOrNot, Moves

LEMMA OnlyAsks ==
    ASSUME NEW f \in Feeds, tip' = tip, Shows(store', f) = Shows(store, f),
           AsksOrNot(store', f, Waiting(calls, f), Waiting(calls', f), tip)
    PROVE  Moved(f)
BY AsksMove DEF Moved

(* A page that is loaded shows nothing and asks for no history yet.        *)
LEMMA BeginsEmpty ==
    ASSUME visit \in Visits, NEW user \in Owner, NEW p \in Pages \cup {"rigs", "login"},
           tip \in Nat, NEW b \in Begin(user, p), NEW f \in Feeds
    PROVE  Shows(b.store, f) = <<>> /\ Waiting(b.calls, f) = {}
<1>1. /\ Latest(b.store) = 0
      /\ \A r \in DOMAIN b.calls :
            \E t \in Thunks : Starts(b.store, t) /\ r = Request(b.store, t)
  BY BeginFits
<1>2. Waiting(b.calls, f) = {}
  <2>1. ASSUME NEW r \in DOMAIN b.calls, r.thunk = f PROVE FALSE
    <3>1. PICK t \in Thunks : Starts(b.store, t) /\ r = Request(b.store, t)
      BY <1>1
    <3>2. t = f
      BY <2>1, <3>1, RequestNames
    <3> QED BY <1>1, <3>1, <3>2, FeedNames DEF Starts
  <2> QED BY <2>1 DEF Waiting
<1>3. Shows(b.store, f) = <<>>
  <2>1. PICK t, first : t = "ACCOUNT" /\ first = InitialStore
    OBVIOUS
  <2>2. b.store = Dispatch(first, t, user)
    BY <2>1 DEF Begin
  <2>3. Shows(first, f) = <<>>
    <3>1. WindowOf(first, f) = <<>>
      BY <2>1, RowsShown
         DEF InitialStore, InitialNetworkData, InitialMuglePoolData, InitialMinerData
    <3> QED BY <3>1 DEF Shows, HeightsOf
  <2>4. IF Out(t, user) /\ f = "fetchMinerData" THEN Shows(Dispatch(first, t, user), f) = <<>>
        ELSE Shows(Dispatch(first, t, user), f) = Shows(first, f)
    BY <2>1, RowsDispatched
  <2> QED BY <2>2, <2>3, <2>4
<1> QED BY <1>2, <1>3

LEMMA ReloadMoves ==
    ASSUME WebInv, Reload, NEW f \in Feeds
    PROVE  Moved(f)
<1>1. /\ visit \in Visits /\ tip \in Nat /\ session \in Owner
      /\ page \in Pages \cup {"rigs", "login"}
  BY InvParts
<1>2. PICK user : user = Remembered
  OBVIOUS
<1>3. user \in Owner
  BY <1>1, <1>2 DEF Remembered, Owner
<1>4. PICK b \in Begin(user, page) : store' = b.store /\ calls' = b.calls
  BY <1>2 DEF Reload
<1>5. Shows(b.store, f) = <<>> /\ Waiting(b.calls, f) = {}
  BY <1>1, <1>3, <1>4, BeginsEmpty
<1>6. tip' = tip
  BY DEF Reload
<1> QED BY <1>4, <1>5, <1>6 DEF Moved, Moves

LEMMA NavigateMoves ==
    ASSUME WebInv, Navigate, NEW f \in Feeds
    PROVE  Moved(f)
<1>1. visit \in Visits /\ tip \in Nat /\ StoreFits(store, tip, Known) /\ CallsFit(calls, tip, Known)
  BY InvParts
<1>2. PICK p \in Pages : Show(store, p, calls)
  BY DEF Navigate
<1>3. store' = store /\ AsksOrNot(store, f, Waiting(calls, f), Waiting(calls', f), tip)
  BY <1>1, <1>2, ShowAsks
<1>4. tip' = tip
  BY DEF Navigate
<1> QED BY <1>3, <1>4, OnlyAsks

(* Whose data the page may hold when the account has just been told out.   *)
Gone == [cleared |-> left, kept |-> left \cup former \cup {account}]

LEMMA GoneFits ==
    ASSUME WebInv
    PROVE  StoreFits(Logout(store), tip, Gone) /\ Logout(store).auth.account = NoUser
           /\ CallsFit(calls, tip, Gone)
<1>1. /\ tip \in Nat /\ StoreFits(store, tip, Known) /\ CallsFit(calls, tip, Known)
      /\ NoUser \in Owner
  BY InvParts DEF Owner
<1>2. PICK known : known = Gone
  OBVIOUS
<1>3. /\ Known.kept \cup ({store.auth.account} \ {NoUser, NoUser}) \subseteq known.kept
      /\ Known.cleared \subseteq known.cleared /\ Known.kept \subseteq known.kept
  BY <1>2 DEF Gone, Known, account
<1>4. StoreFits(Logout(store), tip, known) /\ Logout(store).auth.account = NoUser
  BY <1>1, <1>3, AccountTold DEF Logout
<1>5. CallsFit(calls, tip, known)
  <2>1. tip <= tip
    BY <1>1
  <2> QED BY <1>1, <1>3, <2>1, StillFits
<1> QED BY <1>2, <1>4, <1>5

(* A sign-out clears the miner's history, and with no account left no more *)
(* of it is asked for.                                                     *)
LEMMA SignsOutMoves ==
    ASSUME WebInv, tip' = tip, NEW p \in Pages \cup {"rigs", "login"},
           NEW bag, CallsFit(bag, tip, Gone), Show(Logout(store), p, bag),
           NEW f \in Feeds, Waiting(bag, f) = Waiting(calls, f)
    PROVE  Moved(f)
<1>1. visit \in Visits /\ tip \in Nat /\ timers \subseteq Kinds
  BY InvParts
<1>2. PICK t, s, known : t = "ACCOUNT" /\ s = Logout(store) /\ known = Gone
  OBVIOUS
<1>3. s = Dispatch(store, t, NoUser) /\ Out(t, NoUser)
  BY <1>2 DEF Logout, Out
<1>4. /\ StoreFits(s, tip, known) /\ s.auth.account = NoUser
      /\ CallsFit(bag, tip, known) /\ Show(s, p, bag)
  BY <1>2, GoneFits
<1>5. store' = s /\ AsksOrNot(s, f, Waiting(bag, f), Waiting(calls', f), tip)
  BY <1>1, <1>4, ShowAsks
<1>6. IF f = "fetchMinerData" THEN Shows(s, f) = <<>> ELSE Shows(s, f) = Shows(store, f)
  BY <1>2, <1>3, RowsDispatched
<1>7. CASE f = "fetchMinerData"
  <2>1. ~Starts(s, f)
    BY <1>4, <1>7 DEF Starts, Private
  <2>2. Waiting(calls', f) = Waiting(calls, f)
    BY <1>5, <2>1 DEF AsksOrNot
  <2> QED BY <1>5, <1>6, <1>7, <2>2 DEF Moved, Moves
<1>8. CASE f # "fetchMinerData"
  BY <1>5, <1>6, <1>8, OnlyAsks
<1> QED BY <1>7, <1>8

LEMMA SignOutMoves ==
    ASSUME WebInv, SignOut, NEW f \in Feeds
    PROVE  Moved(f)
<1>1. CallsFit(calls, tip, Gone)
  BY GoneFits
<1> QED BY <1>1, SignsOutMoves DEF SignOut

LEMMA PollMoves ==
    ASSUME WebInv, Poll, NEW f \in Feeds
    PROVE  Moved(f)
<1>1. /\ visit \in Visits /\ tip \in Nat /\ page \in Pages \cup {"rigs", "login"}
      /\ StoreFits(store, tip, Known) /\ CallsFit(calls, tip, Known)
  BY InvParts
<1>2. PICK s, out : /\ s = IF out THEN Logout(store) ELSE store
                    /\ \E bag \in Started(s, calls, <<"getLatestBlock">>) : Show(s, page, bag)
                    /\ out = (account # NoUser /\ expired)
  BY DEF Poll
<1>3. PICK T, thunks : T = {"getLatestBlock"} /\ thunks = <<"getLatestBlock">>
  OBVIOUS
<1>4. PICK bag \in Started(s, calls, thunks) : Show(s, page, bag)
  BY <1>2, <1>3
<1>12. PICK known : known = IF out THEN Gone ELSE Known
  OBVIOUS
<1>5. StoreFits(s, tip, known) /\ CallsFit(calls, tip, known)
  BY <1>1, <1>2, <1>12, GoneFits
<1>6. BagFits(calls) /\ thunks \in Seq(T) /\ f \notin T /\ thunks \in Seq(Quiet)
  BY <1>1, <1>3, QuietNames DEF CallsFit, Feeds
<1>7. Waiting(bag, f) = Waiting(calls, f)
  <2>1. /\ AsksOrNot(s, f, Waiting(calls, f), Waiting(bag, f), tip)
        /\ f \notin T => Waiting(bag, f) = Waiting(calls, f)
    BY <1>1, <1>4, <1>5, <1>6, StartedAsks
  <2> QED BY <1>6, <2>1
<1>8. CallsFit(bag, tip, known)
  BY <1>1, <1>4, <1>5, <1>6, StartedQuiet
<1>9. tip' = tip
  BY DEF Poll
<1>10. CASE out
  BY <1>1, <1>2, <1>4, <1>7, <1>8, <1>9, <1>10, <1>12, SignsOutMoves
<1>11. CASE ~out
  <2>1. s = store /\ known = Known
    BY <1>2, <1>11, <1>12
  <2>2. store' = store /\ AsksOrNot(store, f, Waiting(bag, f), Waiting(calls', f), tip)
    BY <1>1, <1>4, <1>8, <2>1, ShowAsks
  <2> QED BY <1>7, <1>9, <2>2, OnlyAsks
<1> QED BY <1>10, <1>11

LEMMA FireTimerMoves ==
    ASSUME WebInv, FireTimer, NEW f \in Feeds
    PROVE  Moved(f)
<1>1. tip \in Nat /\ StoreFits(store, tip, Known) /\ BagFits(calls)
  BY InvParts DEF CallsFit
<1>2. PICK k \in timers : calls' \in Started(store, calls, TimerThunks(k))
  BY DEF FireTimer
<1>3. PICK thunks, b : thunks = TimerThunks(k) /\ b = calls'
  OBVIOUS
<1>4. thunks \in Seq(Quiet) /\ b \in Started(store, calls, thunks)
  BY <1>2, <1>3, ViewsQuiet
<1>5. AsksOrNot(store, f, Waiting(calls, f), Waiting(b, f), tip)
  BY <1>1, <1>4, StartedAsks
<1>6. tip' = tip /\ store' = store
  BY DEF FireTimer
<1> QED BY <1>3, <1>5, <1>6, OnlyAsks

(* An answer with rows of a history starts nothing.                        *)
LEMMA LandsAlone ==
    ASSUME NEW s, NEW c, c.thunk \in Feeds, NEW o \in Landed(s, c)
    PROVE  o.next = <<>> /\ Latest(o.store) = Latest(s)
<1>1. PICK t, d : o = Done(Dispatch(s, t, d)) /\ t # "LATEST_BLOCK"
  <2>1. CASE c.thunk = "fetchNetworkData"
    <3>1. o \in fetchNetworkData(s, c)
      BY <2>1 DEF Landed
    <3>2. PICK h \in WindowAnswers(c) :
             o = Done(Dispatch(s, "NETWORK_DATA",
                               [historical |-> Extended(c, h),
                                blocksByHeight |-> s.networkData.blocksByHeight \cup h]))
      BY <3>1 DEF fetchNetworkData
    <3> QED BY <3>2
  <2>2. CASE c.thunk = "fetchMuglePoolData"
    <3>1. o \in fetchMuglePoolData(s, c)
      BY <2>2 DEF Landed
    <3>2. PICK h \in PoolAnswers(c) : o = Done(Dispatch(s, "MUGLE_POOL_DATA", Extended(c, h)))
      BY <3>1 DEF fetchMuglePoolData
    <3> QED BY <3>2
  <2>3. CASE c.thunk = "fetchMinerData"
    <3>1. o \in fetchMinerData(s, c)
      BY <2>3 DEF Landed
    <3>2. PICK h \in WindowAnswers(c) :
             o = Done(Dispatch(s, "MINER_DATA", Extended(c, h \cap Worked)))
      BY <3>1 DEF fetchMinerData
    <3> QED BY <3>2
  <2> QED BY <2>1, <2>2, <2>3 DEF Feeds
<1>2. o.next = <<>> /\ o.store = Dispatch(s, t, d)
  BY <1>1 DEF Done
<1> QED BY <1>1, <1>2, LatestDispatched

LEMMA LandMoves ==
    ASSUME WebInv, HistoriesInOrder, NEW thunk \in Live, Land(thunk), NEW f \in Feeds
    PROVE  Moved(f)
<1>1. /\ visit \in Visits /\ tip \in Nat /\ tip <= MaxTip /\ page \in Routes
      /\ Live \subseteq Thunks /\ StoreFits(store, tip, Known) /\ CallsFit(calls, tip, Known)
  BY InvParts
<1>2. PICK c \in DOMAIN calls :
         /\ c.thunk = thunk
         /\ \E o \in Landed(store, c) :
               /\ store' = o.store
               /\ calls' \in Started(o.store, Without(c),
                                     o.next \o Refreshes(store, o.store, page))
  BY DEF Land
<1>3. PICK o \in Landed(store, c) :
        /\ store' = o.store
        /\ calls' \in Started(o.store, Without(c), o.next \o Refreshes(store, o.store, page))
  BY <1>2
<1>4. tip' = tip
  BY DEF Land
<1>5. RequestFits(c, tip) /\ c.thunk \in Thunks
  BY <1>1, <1>2 DEF CallsFit, CallFits
<1>6. Outcome(store, c, o)
  BY <1>1, <1>5, LandedFits DEF StoreFits
<1>7. PICK s, b, rest, more, known :
         /\ s = o.store /\ b = calls' /\ rest = Without(c)
         /\ more = Refreshes(store, o.store, page) /\ known = Known'
  OBVIOUS
<1>8. b \in Started(s, rest, o.next \o more) /\ store' = s /\ calls' = b
  BY <1>3, <1>7
<1>9. /\ more \in Seq(Quiet) /\ o.next \in Seq(Quiet)
      /\ Histories(store, c, s)
  BY <1>1, <1>6, <1>7, PagesQuiet DEF Outcome
<1>10. StoreFits(s, tip, known)
  <2>1. WebInv'
    BY LandKeeps
  <2>2. StoreFits(store', tip', Known')
    BY <2>1 DEF WebInv, Sound
  <2> QED BY <1>4, <1>7, <1>8, <2>2
<1>11. BagFits(rest)
  <2>1. CallsFit(Without(c), tip, Known)
    BY <1>1, WithoutFits
  <2> QED BY <1>7, <2>1 DEF CallsFit
<1>12. /\ c.thunk # f => Waiting(rest, f) = Waiting(calls, f)
       /\ c.thunk = f => /\ Lasting(c) \in Waiting(calls, f)
                         /\ Waiting(rest, f)
                               \in {Waiting(calls, f), Waiting(calls, f) \ {Lasting(c)}}
  <2>1. /\ c.thunk # f => Waiting(Without(c), f) = Waiting(calls, f)
        /\ c.thunk = f => /\ Lasting(c) \in Waiting(calls, f)
                          /\ Waiting(Without(c), f)
                                \in {Waiting(calls, f), Waiting(calls, f) \ {Lasting(c)}}
    BY <1>1, WithoutAsks
  <2> QED BY <1>7, <2>1
<1>13. CASE c.thunk # f
  <2>1. PICK thunks : thunks = o.next \o more
    OBVIOUS
  <2>2. thunks \in Seq(Quiet)
    BY <1>9, <2>1
  <2>3. AsksOrNot(s, f, Waiting(rest, f), Waiting(b, f), tip)
    BY <1>1, <1>8, <1>10, <1>11, <2>1, <2>2, StartedAsks
  <2>4. Shows(s, f) = Shows(store, f)
    <3>1. WindowOf(s, f) = WindowOf(store, f)
      BY <1>9, <1>13, RowsShown DEF Histories, Feeds
    <3> QED BY <3>1 DEF Shows
  <2> QED BY <1>4, <1>8, <1>12, <1>13, <2>3, <2>4, OnlyAsks
<1>14. CASE c.thunk = f
  <2>1. o.next = <<>> /\ Latest(o.store) = Latest(store)
    BY <1>14, LandsAlone
  <2>2. PICK none, thunks : none = {} /\ thunks = o.next \o more
    OBVIOUS
  <2>3. thunks = <<>>
    <3>1. more = <<>>
      BY <1>7, <2>1 DEF Refreshes
    <3> QED BY <2>1, <2>2, <3>1
  <2>4. thunks \in Seq(none) /\ f \notin none /\ b \in Started(s, rest, thunks)
    BY <1>8, <2>2, <2>3
  <2>5. /\ AsksOrNot(s, f, Waiting(rest, f), Waiting(b, f), tip)
        /\ f \notin none => Waiting(b, f) = Waiting(rest, f)
    BY <1>1, <1>10, <1>11, <2>4, StartedAsks
  <2>6. /\ Lasting(c) \in Waiting(calls, f)
        /\ Waiting(b, f) \in {Waiting(calls, f), Waiting(calls, f) \ {Lasting(c)}}
    BY <1>12, <1>14, <2>4, <2>5
  <2>7. CASE Shows(s, f) = Shows(store, f)
    BY <1>4, <1>8, <2>6, <2>7 DEF Moved, Moves
  <2>8. CASE Shows(s, f) # Shows(store, f)
    <3>1. PICK A \in WindowAnswers(c) :
             WindowOf(s, f) = Extended(c, IF EveryBlock(f) THEN A ELSE A \cap Worked)
      <4>1. WindowOf(s, f) # WindowOf(store, f)
        BY <2>8 DEF Shows
      <4> QED BY <1>9, <4>1, RowsShown DEF Histories, Feeds, EveryBlock
    <3>2. PICK B : B = IF EveryBlock(f) THEN A ELSE A \cap Worked
      OBVIOUS
    <3>3. Increasing(HeightsOf(c.rows))
      <4>1. Lasting(c).prev = HeightsOf(c.rows)
        BY DEF Lasting
      <4> QED BY <2>6, <4>1 DEF HistoriesInOrder, InOrder
    <3>4. PICK new : new = HeightsOf(Extended(c, B))
      OBVIOUS
    <3>5. new \in Seq(Nat \ {0}) /\ Increasing(new) /\ JoinedTo(f, Lasting(c), new)
      <4>1. c.thunk \in WindowThunks
        BY <1>14, FeedNames
      <4>2. /\ HeightsOf(Extended(c, B)) \in Seq(Nat \ {0})
            /\ Increasing(HeightsOf(Extended(c, B)))
            /\ JoinedTo(f, Lasting(c), HeightsOf(Extended(c, B)))
        BY <1>1, <1>5, <3>2, <3>3, <4>1, ExtendedJoins
      <4> QED BY <3>4, <4>2
    <3>6. Shows(s, f) = new
      BY <3>1, <3>2, <3>4 DEF Shows
    <3> QED BY <1>4, <1>8, <2>6, <3>5, <3>6 DEF Moved, Moves
  <2> QED BY <2>7, <2>8
<1> QED BY <1>13, <1>14

LEMMA FailMoves ==
    ASSUME WebInv, NEW thunk \in Live, Fail(thunk), NEW f \in Feeds
    PROVE  Moved(f)
<1>1. CallsFit(calls, tip, Known)
  BY InvParts
<1>2. PICK c \in DOMAIN calls : c.thunk = thunk /\ calls' = Without(c)
  BY DEF Fail
<1>3. tip' = tip /\ store' = store
  BY DEF Fail
<1>4. /\ c.thunk # f => Waiting(Without(c), f) = Waiting(calls, f)
      /\ c.thunk = f => /\ Lasting(c) \in Waiting(calls, f)
                        /\ Waiting(Without(c), f)
                              \in {Waiting(calls, f), Waiting(calls, f) \ {Lasting(c)}}
  BY <1>1, WithoutAsks
<1> QED BY <1>2, <1>3, <1>4 DEF Moved, Moves

(* The actions of the login page and of the payment page.                  *)
LEMMA ToldMoves ==
    ASSUME NEW f \in Feeds, tip' = tip, NEW t \in PageTypes, NEW d, NEW s,
           s = Dispatch(store, t, d), Shows(store', f) = Shows(s, f),
           AsksOrNot(store', f, Waiting(calls, f), Waiting(calls', f), tip)
    PROVE  Moved(f)
<1>1. ~Out(t, d)
  BY DEF PageTypes, Out
<1>2. Shows(s, f) = Shows(store, f)
  BY <1>1, RowsDispatched
<1> QED BY <1>2, OnlyAsks

LEMMA LoginAsks ==
    ASSUME NEW bag, NEW top, NEW known, CallsFit(bag, top, known), InFlight(bag) < MaxCalls,
           NEW c, c.thunk \in {"login", "createUser"}, c.id \in Users,
           NEW b, b = bag (+) SetToBag({c}), NEW f \in Feeds
    PROVE  Waiting(b, f) = Waiting(bag, f)
<1>1. DOMAIN b = DOMAIN bag \cup {c}
  BY AddedFits, LoginFits
<1>2. c.thunk # f
  BY DEF Feeds
<1> QED BY <1>1, <1>2 DEF Waiting

LEMMA SignInMoves ==
    ASSUME WebInv, SignIn, NEW f \in Feeds
    PROVE  Moved(f)
<1>1. CallsFit(calls, tip, Known) /\ InFlight(calls) < MaxCalls
  BY InvParts DEF SignIn, Room
<1>2. PICK t, c :
         /\ t = "IS_LOGGING_IN" /\ store' = Dispatch(store, t, TRUE)
         /\ c.thunk \in {"login", "createUser"} /\ c.id \in Users
         /\ calls' = calls (+) SetToBag({c})
  <2>1. PICK u \in Users :
           /\ store' = Dispatch(store, "IS_LOGGING_IN", TRUE)
           /\ calls' = calls (+) SetToBag({[thunk |-> "login", id |-> u, legacy |-> FALSE]})
    BY DEF SignIn
  <2>2. PICK c : c = [thunk |-> "login", id |-> u, legacy |-> FALSE]
    OBVIOUS
  <2>3. c.thunk \in {"login", "createUser"} /\ c.id \in Users
    BY <2>2
  <2> QED BY <2>1, <2>2, <2>3
<1>3. Waiting(calls', f) = Waiting(calls, f)
  <2>1. PICK b : b = calls'
    OBVIOUS
  <2>2. Waiting(b, f) = Waiting(calls, f)
    BY <1>1, <1>2, <2>1, LoginAsks
  <2> QED BY <2>1, <2>2
<1>4. t \in PageTypes /\ tip' = tip
  BY <1>2 DEF PageTypes, SignIn
<1> QED BY <1>2, <1>3, <1>4, ToldMoves DEF AsksOrNot

LEMMA CreateAccountMoves ==
    ASSUME WebInv, CreateAccount, NEW f \in Feeds
    PROVE  Moved(f)
<1>1. CallsFit(calls, tip, Known) /\ InFlight(calls) < MaxCalls
  BY InvParts DEF CreateAccount, Room
<1>2. PICK t, c :
         /\ t = "IS_CREATING_ACCOUNT" /\ store' = Dispatch(store, t, TRUE)
         /\ c.thunk \in {"login", "createUser"} /\ c.id \in Users
         /\ calls' = calls (+) SetToBag({c})
  <2>1. PICK u \in Users :
           /\ store' = Dispatch(store, "IS_CREATING_ACCOUNT", TRUE)
           /\ calls' = calls (+) SetToBag({[thunk |-> "createUser", id |-> u]})
    BY DEF CreateAccount
  <2>2. PICK c : c = [thunk |-> "createUser", id |-> u]
    OBVIOUS
  <2>3. c.thunk \in {"login", "createUser"} /\ c.id \in Users
    BY <2>2
  <2> QED BY <2>1, <2>2, <2>3
<1>3. Waiting(calls', f) = Waiting(calls, f)
  <2>1. PICK b : b = calls'
    OBVIOUS
  <2>2. Waiting(b, f) = Waiting(calls, f)
    BY <1>1, <1>2, <2>1, LoginAsks
  <2> QED BY <2>1, <2>2
<1>4. t \in PageTypes /\ tip' = tip
  BY <1>2 DEF PageTypes, CreateAccount
<1> QED BY <1>2, <1>3, <1>4, ToldMoves DEF AsksOrNot

LEMMA FeedbackMoves ==
    ASSUME RejectName \/ ChoosePaymentType, NEW f \in Feeds
    PROVE  Moved(f)
<1>1. PICK t, d : t \in PageTypes /\ store' = Dispatch(store, t, d)
  <2>1. CASE RejectName
    <3>1. store' = Dispatch(store, "AUTH_ERROR", TRUE) /\ "AUTH_ERROR" \in PageTypes
      BY <2>1 DEF RejectName, PageTypes
    <3> QED BY <3>1, Zenon
  <2>2. CASE ChoosePaymentType
    BY <2>2 DEF ChoosePaymentType, PageTypes
  <2> QED BY <2>1, <2>2
<1>2. calls' = calls /\ tip' = tip
  BY DEF RejectName, ChoosePaymentType
<1> QED BY <1>1, <1>2, ToldMoves DEF AsksOrNot

LEMMA PassedOnMoves ==
    ASSUME WebInv, Created \/ LoginAccepted, NEW f \in Feeds
    PROVE  Moved(f)
<1>1. CallsFit(calls, tip, Known)
  BY InvParts
<1>2. PICK c, r :
         /\ c \in DOMAIN calls
         /\ c.thunk \in {"login", "createUser"} /\ r.thunk = "login" /\ r.id = c.id
         /\ calls' = Without(c) (+) SetToBag({r})
  <2>1. \A c, legacy : LET r == [thunk |-> "login", id |-> c.id, legacy |-> legacy]
                       IN r.thunk = "login" /\ r.id = c.id
    OBVIOUS
  <2>2. CASE Created
    <3>1. PICK c \in DOMAIN calls :
             /\ c.thunk = "createUser"
             /\ calls' = Without(c) (+)
                   SetToBag({[thunk |-> "login", id |-> c.id, legacy |-> FALSE]})
      BY <2>2 DEF Created
    <3>2. PICK r : r = [thunk |-> "login", id |-> c.id, legacy |-> FALSE]
      OBVIOUS
    <3>3. r.thunk = "login" /\ r.id = c.id /\ calls' = Without(c) (+) SetToBag({r})
      BY <3>1, <3>2
    <3> QED BY <3>1, <3>3
  <2>3. CASE LoginAccepted
    <3>1. PICK c \in DOMAIN calls :
             /\ c.thunk = "login"
             /\ calls' = Without(c) (+)
                   SetToBag({[thunk |-> "login", id |-> c.id, legacy |-> TRUE]})
      BY <2>3 DEF LoginAccepted
    <3>2. PICK r : r = [thunk |-> "login", id |-> c.id, legacy |-> TRUE]
      OBVIOUS
    <3>3. r.thunk = "login" /\ r.id = c.id /\ calls' = Without(c) (+) SetToBag({r})
      BY <3>1, <3>2
    <3> QED BY <3>1, <3>3
  <2> QED BY <2>2, <2>3
<1>3. PICK rest : rest = Without(c)
  OBVIOUS
<1>4. CallsFit(rest, tip, Known) /\ InFlight(rest) < MaxCalls
  <2>1. CallsFit(Without(c), tip, Known) /\ InFlight(Without(c)) < MaxCalls
    BY <1>1, <1>2, WithoutFits
  <2> QED BY <1>3, <2>1
<1>5. c.id \in Users
  BY <1>1, <1>2 DEF CallsFit, CallFits, RequestFits
<1>6. Waiting(rest, f) = Waiting(calls, f)
  <2>1. c.thunk # f
    BY <1>2 DEF Feeds
  <2>2. c.thunk # f => Waiting(Without(c), f) = Waiting(calls, f)
    BY <1>1, <1>2, WithoutAsks
  <2> QED BY <1>3, <2>1, <2>2
<1>7. Waiting(calls', f) = Waiting(rest, f)
  BY <1>2, <1>3, <1>4, <1>5, LoginAsks
<1>8. store' = store /\ tip' = tip
  BY DEF Created, LoginAccepted
<1> QED BY <1>6, <1>7, <1>8, OnlyAsks DEF AsksOrNot

LEMMA SigningInFailedMoves ==
    ASSUME WebInv, SigningInFailed, NEW f \in Feeds
    PROVE  Moved(f)
<1>1. CallsFit(calls, tip, Known)
  BY InvParts
<1>2. PICK c \in DOMAIN calls : c.thunk \in {"login", "createUser"} /\ calls' = Without(c)
  BY DEF SigningInFailed
<1>3. Waiting(calls', f) = Waiting(calls, f)
  <2>1. c.thunk # f
    BY <1>2 DEF Feeds
  <2>2. c.thunk # f => Waiting(Without(c), f) = Waiting(calls, f)
    BY <1>1, WithoutAsks
  <2> QED BY <1>2, <2>1, <2>2
<1>4. PICK t \in PageTypes : store' = Dispatch(store, t, TRUE)
  BY DEF SigningInFailed, PageTypes
<1>5. tip' = tip
  BY DEF SigningInFailed
<1> QED BY <1>3, <1>4, <1>5, ToldMoves DEF AsksOrNot

LEMMA LoggedInMoves ==
    ASSUME WebInv, LoggedIn, NEW f \in Feeds
    PROVE  Moved(f)
<1>1. /\ visit \in Visits /\ tip \in Nat
      /\ StoreFits(store, tip, Known) /\ CallsFit(calls, tip, Known)
  BY InvParts
<1>2. PICK c \in DOMAIN calls :
         c.thunk = "login" /\ Show(Dispatch(store, "ACCOUNT", c.id), "rigs", Without(c))
  BY DEF LoggedIn
<1>3. tip' = tip
  BY DEF LoggedIn
<1>4. c.id \in Users /\ c.id \in Owner /\ c.id # NoUser
  BY <1>1, <1>2, NoUserAssumption DEF CallsFit, CallFits, RequestFits, Owner
<1>5. PICK t, u, s, rest, rigs, known :
         /\ t = "ACCOUNT" /\ u = c.id /\ s = Dispatch(store, t, u)
         /\ rest = Without(c) /\ rigs = "rigs"
         /\ known = [cleared |-> left \cup ({store.auth.account} \ {NoUser, c.id}),
                     kept |-> left \cup former \cup ({store.auth.account} \ {NoUser, c.id})]
  OBVIOUS
<1>12. /\ Known.cleared \subseteq known.cleared /\ Known.kept \subseteq known.kept
       /\ {store.auth.account} \ {NoUser, c.id} \subseteq known.cleared \cap known.kept
  BY <1>5 DEF Known
<1>6. StoreFits(s, tip, known)
  <2>1. StoreFits(Dispatch(store, "ACCOUNT", c.id), tip, known)
    BY <1>1, <1>4, <1>12, AccountTold
  <2> QED BY <1>5, <2>1
<1>7. CallsFit(calls, tip, known)
  <2>1. tip <= tip
    BY <1>1
  <2> QED BY <1>1, <1>12, <2>1, StillFits
<1>8. CallsFit(rest, tip, known) /\ Waiting(rest, f) = Waiting(calls, f)
  <2>1. CallsFit(Without(c), tip, known)
    BY <1>2, <1>7, WithoutFits
  <2>2. c.thunk # f
    BY <1>2 DEF Feeds
  <2>3. c.thunk # f => Waiting(Without(c), f) = Waiting(calls, f)
    BY <1>7, WithoutAsks
  <2> QED BY <1>5, <2>1, <2>2, <2>3
<1>9. Show(s, rigs, rest) /\ rigs \in Pages \cup {"rigs", "login"}
  BY <1>2, <1>5
<1>10. store' = s /\ AsksOrNot(s, f, Waiting(rest, f), Waiting(calls', f), tip)
  BY <1>1, <1>6, <1>8, <1>9, ShowAsks
<1>11. Shows(s, f) = Shows(store, f)
  <2>1. ~Out(t, u) /\ t \in PageTypes \cup {"ACCOUNT"}
    BY <1>4, <1>5 DEF Out
  <2> QED BY <1>5, <2>1, RowsDispatched
<1> QED BY <1>3, <1>8, <1>10, <1>11, OnlyAsks

LEMMA ChooseTxSlateMoves ==
    ASSUME WebInv, ChooseTxSlate, NEW f \in Feeds
    PROVE  Moved(f)
<1>1. tip \in Nat /\ StoreFits(store, tip, Known) /\ CallsFit(calls, tip, Known)
  BY InvParts
<1>2. PICK t, u, one, two, slate :
         /\ t = "PAYMENT_FORM_FEEDBACK" /\ u = "IS_TX_SLATE_LOADING"
         /\ slate = "fetchMinerPaymentTxSlate"
         /\ one = Dispatch(store, t, NoUser) /\ two = Dispatch(one, u, TRUE)
  OBVIOUS
<1>3. store' = two /\ calls' \in Started(two, calls, <<slate>>) /\ tip' = tip
  BY <1>2 DEF ChooseTxSlate
<1>4. PICK b, thunks, T : b = calls' /\ thunks = <<slate>> /\ T = {slate}
  OBVIOUS
<1>5. b \in Started(two, calls, thunks) /\ thunks \in Seq(T) /\ f \notin T /\ BagFits(calls)
  <2>1. slate # f /\ BagFits(calls)
    BY <1>1, <1>2 DEF Feeds, CallsFit
  <2>2. b \in Started(two, calls, thunks)
    BY <1>3, <1>4
  <2>3. thunks \in Seq(T)
    BY <1>4
  <2> QED BY <1>4, <2>1, <2>2, <2>3
<1>6. t \in PageTypes /\ u \in PageTypes
  BY <1>2 DEF PageTypes
<1>7. StoreFits(two, tip, Known)
  <2>1. one = Told(store, t) /\ two = Told(one, u)
    BY <1>2 DEF Told
  <2>2. StoreFits(one, tip, Known)
    BY <1>1, <1>6, <2>1, PageTold
  <2> QED BY <1>6, <2>1, <2>2, PageTold
<1>8. Waiting(b, f) = Waiting(calls, f)
  <2>1. /\ AsksOrNot(two, f, Waiting(calls, f), Waiting(b, f), tip)
        /\ f \notin T => Waiting(b, f) = Waiting(calls, f)
    BY <1>1, <1>5, <1>7, StartedAsks
  <2> QED BY <1>5, <2>1
<1>9. Shows(two, f) = Shows(one, f)
  <2>1. PICK d : d = TRUE
    OBVIOUS
  <2>2. ~Out(u, d) /\ u \in PageTypes \cup {"ACCOUNT"} /\ two = Dispatch(one, u, d)
    BY <1>2, <1>6, <2>1 DEF Out
  <2> QED BY <2>2, RowsDispatched
<1> QED BY <1>2, <1>3, <1>4, <1>6, <1>8, <1>9, ToldMoves DEF AsksOrNot

LEMMA SubmitPayoutMoves ==
    ASSUME WebInv, SubmitPayout, NEW f \in Feeds
    PROVE  Moved(f)
<1>0. tip' = tip
  BY DEF SubmitPayout
<1>1. CASE store' = Dispatch(store, "PAYMENT_FORM_FEEDBACK", NoUser) /\ UNCHANGED calls
  <2>1. PICK t : t = "PAYMENT_FORM_FEEDBACK"
    OBVIOUS
  <2>2. t \in PageTypes /\ store' = Dispatch(store, t, NoUser) /\ calls' = calls
    BY <1>1, <2>1 DEF PageTypes
  <2> QED BY <1>0, <2>2, ToldMoves DEF AsksOrNot
<1>2. CASE /\ store' = Dispatch(store, "IS_PAYMENT_SETTING_PROCESSING", TRUE)
           /\ calls' \in Started(store', calls, <<"setPaymentMethodSetting">>)
  <2>1. tip \in Nat /\ StoreFits(store, tip, Known) /\ CallsFit(calls, tip, Known)
    BY InvParts
  <2>2. PICK t, pay, b, thunks, T, new :
           /\ t = "IS_PAYMENT_SETTING_PROCESSING" /\ pay = "setPaymentMethodSetting"
           /\ b = calls' /\ thunks = <<pay>> /\ T = {pay} /\ new = store'
    OBVIOUS
  <2>3. /\ new = Dispatch(store, t, TRUE) /\ new = Told(store, t) /\ t \in PageTypes
        /\ b \in Started(new, calls, thunks)
    BY <1>2, <2>2 DEF Told, PageTypes
  <2>4. /\ thunks \in Seq(T) /\ f \notin T /\ BagFits(calls)
        /\ b \in Started(new, calls, thunks)
    <3>1. pay # f
      BY <2>2 DEF Feeds
    <3>2. thunks \in Seq(T)
      BY <2>2
    <3> QED BY <2>1, <2>2, <2>3, <3>1, <3>2 DEF CallsFit
  <2>5. StoreFits(new, tip, Known)
    BY <2>1, <2>3, PageTold
  <2>6. Waiting(b, f) = Waiting(calls, f)
    <3>1. /\ AsksOrNot(new, f, Waiting(calls, f), Waiting(b, f), tip)
          /\ f \notin T => Waiting(b, f) = Waiting(calls, f)
      BY <2>1, <2>4, <2>5, StartedAsks
    <3> QED BY <2>4, <3>1
  <2> QED BY <1>0, <2>2, <2>3, <2>6, ToldMoves DEF AsksOrNot
<1> QED BY <1>1, <1>2 DEF SubmitPayout

LEMMA OutsideMoves ==
    ASSUME WebInv, Mined \/ Expire \/ UNCHANGED vars, NEW f \in Feeds
    PROVE  Moved(f)
<1>1. store' = store /\ calls' = calls /\ tip' \in {tip, tip + 1}
  BY DEF Mined, Expire, vars
<1> QED BY <1>1 DEF Moved, Moves

LEMMA NextMoves ==
    ASSUME WebInv, HistoriesInOrder, [Next]_vars, NEW f \in Feeds
    PROVE  Moved(f)
<1>1. CASE Reload
  BY <1>1, ReloadMoves
<1>2. CASE Navigate
  BY <1>2, NavigateMoves
<1>3. CASE SignOut
  BY <1>3, SignOutMoves
<1>4. CASE Poll
  BY <1>4, PollMoves
<1>5. CASE FireTimer
  BY <1>5, FireTimerMoves
<1>6. CASE \E thunk \in Live : Land(thunk) \/ Fail(thunk)
  BY <1>6, LandMoves, FailMoves
<1>7. CASE SignIn
  BY <1>7, SignInMoves
<1>8. CASE CreateAccount
  BY <1>8, CreateAccountMoves
<1>9. CASE RejectName \/ ChoosePaymentType
  BY <1>9, FeedbackMoves
<1>10. CASE Created \/ LoginAccepted
  BY <1>10, PassedOnMoves
<1>11. CASE LoggedIn
  BY <1>11, LoggedInMoves
<1>12. CASE SigningInFailed
  BY <1>12, SigningInFailedMoves
<1>13. CASE ChooseTxSlate
  BY <1>13, ChooseTxSlateMoves
<1>14. CASE SubmitPayout
  BY <1>14, SubmitPayoutMoves
<1>15. CASE Mined \/ Expire \/ UNCHANGED vars
  BY <1>15, OutsideMoves
<1> QED BY <1>1, <1>2, <1>3, <1>4, <1>5, <1>6, <1>7, <1>8, <1>9, <1>10, <1>11, <1>12,
           <1>13, <1>14, <1>15 DEF Next

LEMMA StartsEmpty ==
    ASSUME Init, NEW f \in Feeds
    PROVE  Shows(store, f) = <<>> /\ Waiting(calls, f) = {} /\ tip \in Nat
<1>1. visit \in Visits /\ session \in Owner /\ tip = 1
  BY DEF Init
<1>2. PICK p \in Pages : \E b \in Begin(session, p) : store = b.store /\ calls = b.calls
  BY DEF Init
<1>3. PICK b \in Begin(session, p) : store = b.store /\ calls = b.calls
  BY <1>2
<1>4. p \in Pages \cup {"rigs", "login"} /\ tip \in Nat
  BY <1>1
<1> QED BY <1>1, <1>3, <1>4, BeginsEmpty

-----------------------------------------------------------------------------
(* Every step keeps the histories in order, and is a step of each of them *)
(* as Feed has it, or none.                                                *)
LEMMA HistoriesStay ==
    ASSUME WebInv, HistoriesInOrder, [Next]_vars
    PROVE  HistoriesInOrder'
<1>1. \A f \in Feeds : InOrder(Shows(store', f), Waiting(calls', f))
  BY NextMoves, MovesKeep DEF HistoriesInOrder, Moved
<1> QED BY <1>1 DEF HistoriesInOrder

LEMMA AsWaiting == \A f : Asked(f) = Waiting(calls, f)
BY DEF Asked, Waiting, Lasting

LEMMA InitOrdered ==
    ASSUME Init
    PROVE  HistoriesInOrder
BY StartsEmpty DEF HistoriesInOrder, InOrder, Increasing

LEMMA NetworkMoves ==
    ASSUME Moved("fetchNetworkData"), tip \in Nat
    PROVE  [Network!Next]_(Network!vars)
<1> DEFINE f == "fetchNetworkData"
<1>1. Shows(store, f) = HeightsOf(store.networkData.historical)
  BY DEF Shows, WindowOf
<1>2. Asked(f) = Waiting(calls, f) /\ Asked(f)' = Waiting(calls', f)
  BY DEF Asked, Waiting, Lasting
<1>3. Shows(store', f) = HeightsOf(store.networkData.historical)'
  BY DEF Shows, WindowOf
<1>4. Moves(f, Shows(store, f), Shows(store', f), Waiting(calls, f), Waiting(calls', f), tip, tip')
  BY DEF Moved
<1>5. PICK r, r2, w, w2 : /\ r = Shows(store, f) /\ r2 = Shows(store', f)
                          /\ w = Waiting(calls, f) /\ w2 = Waiting(calls', f)
  OBVIOUS
<1>6. Moves(f, r, r2, w, w2, tip, tip')
  BY <1>4, <1>5
<1>7. CASE r2 = r /\ w2 = w /\ tip' \in {tip, tip + 1}
  BY <1>1, <1>2, <1>3, <1>5, <1>7 DEF Network!Next, Network!Rise, Network!vars
<1>8. CASE /\ r2 = r /\ tip' = tip
           /\ \E latest \in 1..tip : w2 = w \cup {Query(r, latest)}
  BY <1>1, <1>2, <1>3, <1>5, <1>8 DEF Network!Next, Network!Ask, Query
<1>9. CASE /\ tip' = tip
           /\ \E q \in w : /\ r2 \in Seq(Nat \ {0}) /\ JoinedTo(f, q, r2)
                           /\ Increasing(r2) /\ w2 \in {w, w \ {q}}
  BY <1>1, <1>2, <1>3, <1>5, <1>9
     DEF Network!Next, Network!Answer, JoinedTo, EveryBlock, Network!Height
<1>10. CASE r2 = r /\ tip' = tip /\ \E q \in w : w2 = w \ {q}
  BY <1>1, <1>2, <1>3, <1>5, <1>10 DEF Network!Next, Network!Fail
<1>11. CASE r2 = <<>> /\ tip' = tip /\ w2 \in {w, {}}
  BY <1>1, <1>2, <1>3, <1>5, <1>11 DEF Network!Next, Network!Clear, Network!Reload
<1> QED BY <1>6, <1>7, <1>8, <1>9, <1>10, <1>11 DEF Moves
LEMMA PoolMoves ==
    ASSUME Moved("fetchMuglePoolData"), tip \in Nat
    PROVE  [Pool!Next]_(Pool!vars)
<1> DEFINE f == "fetchMuglePoolData"
<1>1. Shows(store, f) = HeightsOf(store.muglePoolData.historical)
  BY DEF Shows, WindowOf
<1>2. Asked(f) = Waiting(calls, f) /\ Asked(f)' = Waiting(calls', f)
  BY DEF Asked, Waiting, Lasting
<1>3. Shows(store', f) = HeightsOf(store.muglePoolData.historical)'
  BY DEF Shows, WindowOf
<1>4. Moves(f, Shows(store, f), Shows(store', f), Waiting(calls, f), Waiting(calls', f), tip, tip')
  BY DEF Moved
<1>5. PICK r, r2, w, w2 : /\ r = Shows(store, f) /\ r2 = Shows(store', f)
                          /\ w = Waiting(calls, f) /\ w2 = Waiting(calls', f)
  OBVIOUS
<1>6. Moves(f, r, r2, w, w2, tip, tip')
  BY <1>4, <1>5
<1>7. CASE r2 = r /\ w2 = w /\ tip' \in {tip, tip + 1}
  BY <1>1, <1>2, <1>3, <1>5, <1>7 DEF Pool!Next, Pool!Rise, Pool!vars
<1>8. CASE /\ r2 = r /\ tip' = tip
           /\ \E latest \in 1..tip : w2 = w \cup {Query(r, latest)}
  BY <1>1, <1>2, <1>3, <1>5, <1>8 DEF Pool!Next, Pool!Ask, Query
<1>9. CASE /\ tip' = tip
           /\ \E q \in w : /\ r2 \in Seq(Nat \ {0}) /\ JoinedTo(f, q, r2)
                           /\ Increasing(r2) /\ w2 \in {w, w \ {q}}
  <2>1. \A q : JoinedTo(f, q, r2) => Pool!Joined(q, r2)
    BY DEF JoinedTo, EveryBlock, Network!Joined, Pool!Joined
  <2> QED BY <1>1, <1>2, <1>3, <1>5, <1>9, <2>1 DEF Pool!Next, Pool!Answer, Pool!Height
<1>10. CASE r2 = r /\ tip' = tip /\ \E q \in w : w2 = w \ {q}
  BY <1>1, <1>2, <1>3, <1>5, <1>10 DEF Pool!Next, Pool!Fail
<1>11. CASE r2 = <<>> /\ tip' = tip /\ w2 \in {w, {}}
  BY <1>1, <1>2, <1>3, <1>5, <1>11 DEF Pool!Next, Pool!Clear, Pool!Reload
<1> QED BY <1>6, <1>7, <1>8, <1>9, <1>10, <1>11 DEF Moves
LEMMA MinerMoves ==
    ASSUME Moved("fetchMinerData"), tip \in Nat
    PROVE  [Miner!Next]_(Miner!vars)
<1> DEFINE f == "fetchMinerData"
<1>1. Shows(store, f) = HeightsOf(store.minerData.historical)
  BY DEF Shows, WindowOf
<1>2. Asked(f) = Waiting(calls, f) /\ Asked(f)' = Waiting(calls', f)
  BY DEF Asked, Waiting, Lasting
<1>3. Shows(store', f) = HeightsOf(store.minerData.historical)'
  BY DEF Shows, WindowOf
<1>4. Moves(f, Shows(store, f), Shows(store', f), Waiting(calls, f), Waiting(calls', f), tip, tip')
  BY DEF Moved
<1>5. PICK r, r2, w, w2 : /\ r = Shows(store, f) /\ r2 = Shows(store', f)
                          /\ w = Waiting(calls, f) /\ w2 = Waiting(calls', f)
  OBVIOUS
<1>6. Moves(f, r, r2, w, w2, tip, tip')
  BY <1>4, <1>5
<1>7. CASE r2 = r /\ w2 = w /\ tip' \in {tip, tip + 1}
  BY <1>1, <1>2, <1>3, <1>5, <1>7 DEF Miner!Next, Miner!Rise, Miner!vars
<1>8. CASE /\ r2 = r /\ tip' = tip
           /\ \E latest \in 1..tip : w2 = w \cup {Query(r, latest)}
  BY <1>1, <1>2, <1>3, <1>5, <1>8 DEF Miner!Next, Miner!Ask, Query
<1>9. CASE /\ tip' = tip
           /\ \E q \in w : /\ r2 \in Seq(Nat \ {0}) /\ JoinedTo(f, q, r2)
                           /\ Increasing(r2) /\ w2 \in {w, w \ {q}}
  BY <1>1, <1>2, <1>3, <1>5, <1>9
     DEF Miner!Next, Miner!Answer, JoinedTo, EveryBlock, Miner!Height
<1>10. CASE r2 = r /\ tip' = tip /\ \E q \in w : w2 = w \ {q}
  BY <1>1, <1>2, <1>3, <1>5, <1>10 DEF Miner!Next, Miner!Fail
<1>11. CASE r2 = <<>> /\ tip' = tip /\ w2 \in {w, {}}
  BY <1>1, <1>2, <1>3, <1>5, <1>11 DEF Miner!Next, Miner!Clear, Miner!Reload
<1> QED BY <1>6, <1>7, <1>8, <1>9, <1>10, <1>11 DEF Moves

(* What the pages show of the network and of the pool are feeds as Feed    *)
(* states them (networkDataActions.js, muglePoolDataActions.js): no block  *)
(* twice, none out of order, none missing without cause, although every    *)
(* answer rewrites the history from what its request remembers of it.      *)
THEOREM PublicHistoriesAreFeeds == Spec => PublicFeeds
<1>1. Init => WebInv /\ HistoriesInOrder /\ Network!Init /\ Pool!Init
  <2> SUFFICES ASSUME Init
               PROVE  WebInv /\ HistoriesInOrder /\ Network!Init /\ Pool!Init
    OBVIOUS
  <2>1. WebInv /\ HistoriesInOrder
    BY InitSound, InitOrdered
  <2>2. Network!Init
    BY StartsEmpty, AsWaiting DEF Feeds, Network!Init, Shows, WindowOf
  <2>3. Pool!Init
    BY StartsEmpty, AsWaiting DEF Feeds, Pool!Init, Shows, WindowOf
  <2> QED BY <2>1, <2>2, <2>3
<1>2. WebInv /\ HistoriesInOrder /\ [Next]_vars
         => /\ WebInv' /\ HistoriesInOrder'
            /\ [Network!Next]_(Network!vars) /\ [Pool!Next]_(Pool!vars)
  <2> SUFFICES ASSUME WebInv, HistoriesInOrder, [Next]_vars
               PROVE  /\ WebInv' /\ HistoriesInOrder'
                      /\ [Network!Next]_(Network!vars) /\ [Pool!Next]_(Pool!vars)
    OBVIOUS
  <2>1. tip \in Nat
    BY InvParts
  <2>2. Moved("fetchNetworkData") /\ Moved("fetchMuglePoolData")
    BY NextMoves DEF Feeds
  <2> QED BY <2>1, <2>2, NextKeeps, HistoriesStay, NetworkMoves, PoolMoves
<1> QED BY <1>1, <1>2, PTL DEF Spec, PublicFeeds, Network!Spec, Pool!Spec

(* And so is the miner's own history, which a sign-out empties under the   *)
(* requests in flight (minerDataActions.js, minerDataReducer.js).          *)
THEOREM MinerHistoryIsFeed == Spec => MinerFeed
<1>1. Init => WebInv /\ HistoriesInOrder /\ Miner!Init
  <2> SUFFICES ASSUME Init
               PROVE  WebInv /\ HistoriesInOrder /\ Miner!Init
    OBVIOUS
  <2>1. WebInv /\ HistoriesInOrder
    BY InitSound, InitOrdered
  <2>2. Miner!Init
    BY StartsEmpty, AsWaiting DEF Feeds, Miner!Init, Shows, WindowOf
  <2> QED BY <2>1, <2>2
<1>2. WebInv /\ HistoriesInOrder /\ [Next]_vars
         => WebInv' /\ HistoriesInOrder' /\ [Miner!Next]_(Miner!vars)
  <2> SUFFICES ASSUME WebInv, HistoriesInOrder, [Next]_vars
               PROVE  WebInv' /\ HistoriesInOrder' /\ [Miner!Next]_(Miner!vars)
    OBVIOUS
  <2>1. tip \in Nat
    BY InvParts
  <2>2. Moved("fetchMinerData")
    BY NextMoves DEF Feeds
  <2> QED BY <2>1, <2>2, NextKeeps, HistoriesStay, MinerMoves
<1> QED BY <1>1, <1>2, PTL DEF Spec, MinerFeed, Miner!Spec

(* What Feed's histories have, the histories of the pages have too.        *)
NetworkHas == INSTANCE FeedProofs WITH Window <- BlockRange, Dense <- TRUE, top <- tip,
    rows <- HeightsOf(store.networkData.historical), asked <- Asked("fetchNetworkData")
PoolHas == INSTANCE FeedProofs WITH Window <- BlockRange, Dense <- TRUE, top <- tip,
    rows <- HeightsOf(store.muglePoolData.historical), asked <- Asked("fetchMuglePoolData")
MinerHas == INSTANCE FeedProofs WITH Window <- BlockRange, Dense <- FALSE, top <- tip,
    rows <- HeightsOf(store.minerData.historical), asked <- Asked("fetchMinerData")

LEMMA NetworkStays ==
    /\ Network!Init => NetworkHas!IInv
    /\ NetworkHas!IInv /\ [Network!Next]_(Network!vars) => NetworkHas!IInv'
    /\ NetworkHas!IInv => Network!Ordered /\ Network!Gapless
<1>1. NetworkHas!Constants
  BY BoundAssumption DEF NetworkHas!Constants
<1>2. Network!Init => NetworkHas!IInv
  <2>1. Network!Init => NetworkHas!Init
    BY DEF Network!Init, NetworkHas!Init
  <2> QED BY <1>1, <2>1, NetworkHas!InitIInv
<1>3. NetworkHas!IInv /\ [Network!Next]_(Network!vars) => NetworkHas!IInv'
  <2>1. Network!vars = NetworkHas!vars /\ Network!vars' = NetworkHas!vars'
    BY DEF Network!vars, NetworkHas!vars
  <2>2. Network!Next => NetworkHas!Next
    BY DEF Network!Next, NetworkHas!Next, Network!Rise, NetworkHas!Rise, Network!Ask,
           NetworkHas!Ask, Network!Answer, NetworkHas!Answer, Network!Fail,
           NetworkHas!Fail, Network!Clear, NetworkHas!Clear, Network!Reload,
           NetworkHas!Reload,
           Network!Height, NetworkHas!Height, Network!Joined, NetworkHas!Joined
  <2> QED BY <1>1, <2>1, <2>2, NetworkHas!NextIInv
<1>4. NetworkHas!IInv => Network!Ordered /\ Network!Gapless
  BY DEF NetworkHas!IInv, NetworkHas!Good, NetworkHas!Sorted, NetworkHas!Unbroken,
         Network!Ordered, Network!Gapless
<1> QED BY <1>2, <1>3, <1>4

LEMMA PoolStays ==
    /\ Pool!Init => PoolHas!IInv
    /\ PoolHas!IInv /\ [Pool!Next]_(Pool!vars) => PoolHas!IInv'
    /\ PoolHas!IInv => Pool!Ordered /\ Pool!Gapless
<1>1. PoolHas!Constants
  BY BoundAssumption DEF PoolHas!Constants
<1>2. Pool!Init => PoolHas!IInv
  <2>1. Pool!Init => PoolHas!Init
    BY DEF Pool!Init, PoolHas!Init
  <2> QED BY <1>1, <2>1, PoolHas!InitIInv
<1>3. PoolHas!IInv /\ [Pool!Next]_(Pool!vars) => PoolHas!IInv'
  <2>1. Pool!vars = PoolHas!vars /\ Pool!vars' = PoolHas!vars'
    BY DEF Pool!vars, PoolHas!vars
  <2>2. Pool!Next => PoolHas!Next
    BY DEF Pool!Next, PoolHas!Next, Pool!Rise, PoolHas!Rise, Pool!Ask, PoolHas!Ask,
           Pool!Answer, PoolHas!Answer, Pool!Fail, PoolHas!Fail, Pool!Clear,
           PoolHas!Clear, Pool!Reload, PoolHas!Reload,
           Pool!Height, PoolHas!Height, Pool!Joined, PoolHas!Joined
  <2> QED BY <1>1, <2>1, <2>2, PoolHas!NextIInv
<1>4. PoolHas!IInv => Pool!Ordered /\ Pool!Gapless
  BY DEF PoolHas!IInv, PoolHas!Good, PoolHas!Sorted, PoolHas!Unbroken, Pool!Ordered,
     Pool!Gapless
<1> QED BY <1>2, <1>3, <1>4

LEMMA MinerStays ==
    /\ Miner!Init => MinerHas!IInv
    /\ MinerHas!IInv /\ [Miner!Next]_(Miner!vars) => MinerHas!IInv'
    /\ MinerHas!IInv => Miner!Ordered /\ Miner!Gapless
<1>1. MinerHas!Constants
  BY BoundAssumption DEF MinerHas!Constants
<1>2. Miner!Init => MinerHas!IInv
  <2>1. Miner!Init => MinerHas!Init
    BY DEF Miner!Init, MinerHas!Init
  <2> QED BY <1>1, <2>1, MinerHas!InitIInv
<1>3. MinerHas!IInv /\ [Miner!Next]_(Miner!vars) => MinerHas!IInv'
  <2>1. Miner!vars = MinerHas!vars /\ Miner!vars' = MinerHas!vars'
    BY DEF Miner!vars, MinerHas!vars
  <2>2. Miner!Next => MinerHas!Next
    BY DEF Miner!Next, MinerHas!Next, Miner!Rise, MinerHas!Rise, Miner!Ask,
           MinerHas!Ask, Miner!Answer, MinerHas!Answer, Miner!Fail, MinerHas!Fail,
           Miner!Clear, MinerHas!Clear, Miner!Reload, MinerHas!Reload,
           Miner!Height, MinerHas!Height, Miner!Joined, MinerHas!Joined
  <2> QED BY <1>1, <2>1, <2>2, MinerHas!NextIInv
<1>4. MinerHas!IInv => Miner!Ordered /\ Miner!Gapless
  BY DEF MinerHas!IInv, MinerHas!Good, MinerHas!Sorted, MinerHas!Unbroken,
         Miner!Ordered, Miner!Gapless
<1> QED BY <1>2, <1>3, <1>4

(* So the pages show no block twice and none out of order, never more than *)
(* the window, and of the network and the pool every block but where they  *)
(* had fallen behind by a whole window (NetworkData.js, MuglePoolData.js,  *)
(* MinerData.js).                                                          *)
THEOREM HistoriesAreWhole ==
    Spec => [](/\ Network!Ordered /\ Network!Gapless
               /\ Pool!Ordered /\ Pool!Gapless
               /\ Miner!Ordered)
BY PublicHistoriesAreFeeds, MinerHistoryIsFeed, NetworkStays, PoolStays, MinerStays,
   PTL DEF PublicFeeds, MinerFeed, Network!Spec, Pool!Spec, Miner!Spec
=============================================================================
