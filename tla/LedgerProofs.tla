---------------------------- MODULE LedgerProofs ----------------------------
(***************************************************************************)
(* Theorems about Ledger for every set of users and payouts.  That no      *)
(* money is made or lost is a statement about a sum; the first part shows  *)
(* what the sum of the community modules does when one payout is added.    *)
(***************************************************************************)
EXTENDS Ledger, FiniteSetTheorems, WellFoundedInduction, TLAPS

-----------------------------------------------------------------------------
(* Sums over finite sets *)

(* The sum in Spent, for any set of payouts. *)
SumOf(k, S) == LET Total(p) == k[p].total IN MapThenSumSet(Total, S)

(* One step of the fold by which that sum is defined. *)
Folded(k, S, g) ==
  [T \in SUBSET S |->
     IF T = {} THEN 0
     ELSE k[CHOOSE x \in T : TRUE].total + g[T \ {CHOOSE x \in T : TRUE}]]

(* What a sum should be: each element adds its own part. *)
Additive(k, S, g) ==
  /\ g \in [SUBSET S -> Int]
  /\ g[{}] = 0
  /\ \A T \in SUBSET S, x \in S : x \notin T => g[T \cup {x}] = k[x].total + g[T]

LEMMA SumIsFold ==
  ASSUME NEW k, NEW S
  PROVE  SumOf(k, S) = (CHOOSE g : g = Folded(k, S, g))[S]
  BY DEF SumOf, MapThenSumSet, MapThenFoldSet, Folded

(* A non-empty family of finite sets has a smallest member. *)
LEMMA SmallestSet ==
  ASSUME NEW S, IsFiniteSet(S), NEW F \in SUBSET SUBSET S, F # {}
  PROVE  \E T \in F : \A U \in F : U \subseteq T => U = T
  <1>1. IsWellFoundedOn(StrictSubsetOrdering(S), SUBSET S)
    BY FS_StrictSubsetOrderingWellFounded, FS_FiniteSubsetsOfFinite
  <1>2. PICK T \in F : \A U \in F : <<U, T>> \notin StrictSubsetOrdering(S)
    BY <1>1, WFMin
  <1>3. ASSUME NEW U \in F, U \subseteq T, U # T PROVE FALSE
    BY <1>2, <1>3 DEF StrictSubsetOrdering
  <1>4. QED
    BY <1>2, <1>3

(* An additive function exists: by induction on the set. *)
LEMMA AdditiveGrows ==
  ASSUME NEW k, NEW S, NEW y, y \notin S, NEW g, Additive(k, S, g),
         \A p \in S \cup {y} : k[p].total \in Int
  PROVE  \E h : Additive(k, S \cup {y}, h)
  <1> DEFINE h == [T \in SUBSET (S \cup {y}) |->
                     IF y \in T THEN k[y].total + g[T \ {y}] ELSE g[T]]
  <1>1. h \in [SUBSET (S \cup {y}) -> Int]
    <2>1. ASSUME NEW T \in SUBSET (S \cup {y}) PROVE h[T] \in Int
      <3>1. T \ {y} \in SUBSET S
        OBVIOUS
      <3>2. g[T \ {y}] \in Int
        BY <3>1 DEF Additive
      <3>3. y \notin T => g[T] \in Int
        BY DEF Additive
      <3>4. QED
        BY <3>2, <3>3
    <2>2. QED
      BY <2>1
  <1>2. h[{}] = 0
    BY DEF Additive
  <1>3. ASSUME NEW T \in SUBSET (S \cup {y}), NEW x \in S \cup {y}, x \notin T
        PROVE  h[T \cup {x}] = k[x].total + h[T]
    <2> DEFINE R == T \ {y}
    <2>0. R \in SUBSET S /\ T \cup {x} \in SUBSET (S \cup {y})
      OBVIOUS
    <2>1. CASE x = y
      <3>1. (T \cup {x}) \ {y} = T
        BY <1>3, <2>1
      <3>2. QED
        BY <1>3, <2>0, <2>1, <3>1
    <2>2. CASE x # y
      <3>1. g[R \cup {x}] = k[x].total + g[R] /\ g[R] \in Int /\ g[R \cup {x}] \in Int
        BY <1>3, <2>0, <2>2 DEF Additive
      <3>2. CASE y \in T
        <4>1. (T \cup {x}) \ {y} = R \cup {x}
          BY <2>2
        <4>2. h[T \cup {x}] = k[y].total + g[R \cup {x}] /\ h[T] = k[y].total + g[R]
          BY <2>0, <3>2, <4>1
        <4>3. k[x].total \in Int /\ k[y].total \in Int
          OBVIOUS
        <4>4. QED
          BY <3>1, <4>2, <4>3
      <3>3. CASE y \notin T
        BY <2>0, <2>2, <3>1, <3>3
      <3>4. QED
        BY <3>2, <3>3
    <2>3. QED
      BY <2>1, <2>2
  <1> HIDE DEF h
  <1>4. Additive(k, S \cup {y}, h)
    BY <1>1, <1>2, <1>3 DEF Additive
  <1>5. QED
    BY <1>4

LEMMA AdditiveExists ==
  ASSUME NEW k, NEW S, IsFiniteSet(S), \A p \in S : k[p].total \in Int
  PROVE  \E g : Additive(k, S, g)
  <1> DEFINE F == {T \in SUBSET S : \E g : Additive(k, S \ T, g)}
  <1>1. S \in F
    <2> DEFINE g == [T \in SUBSET {} |-> 0]
    <2>1. Additive(k, {}, g)
      BY DEF Additive
    <2>2. S \ S = {}
      OBVIOUS
    <2>3. QED
      BY <2>1, <2>2
  <1>2. PICK T \in F : \A U \in F : U \subseteq T => U = T
    <2>1. F \in SUBSET SUBSET S /\ F # {}
      BY <1>1
    <2> HIDE DEF F
    <2>2. QED
      BY <2>1, SmallestSet
  <1>3. CASE T = {}
    <2>1. S \ T = S
      BY <1>3
    <2>2. QED
      BY <1>2, <2>1
  <1>4. ASSUME NEW y \in T PROVE FALSE
    <2>1. PICK g : Additive(k, S \ T, g)
      OBVIOUS
    <2>2. y \in S /\ y \notin S \ T /\ (S \ T) \cup {y} = S \ (T \ {y})
      OBVIOUS
    <2>3. \A p \in (S \ T) \cup {y} : k[p].total \in Int
      BY <2>2
    <2> DEFINE S0 == S \ T
    <2> HIDE DEF S0
    <2>4. \E h : Additive(k, S0 \cup {y}, h)
      BY <2>1, <2>2, <2>3, AdditiveGrows DEF S0
    <2>5. T \ {y} \in F
      BY <2>2, <2>4 DEF S0
    <2>6. QED
      BY <1>2, <2>5
  <1>5. QED
    BY <1>3, <1>4

(* The fold computes it. *)
LEMMA SumIsAdditive ==
  ASSUME NEW k, NEW S, IsFiniteSet(S), NEW g, Additive(k, S, g)
  PROVE  SumOf(k, S) = g[S]
  <1> DEFINE Pick(T) == CHOOSE x \in T : TRUE
             f == CHOOSE f : f = Folded(k, S, f)
             F == {T \in SUBSET S : f[T] # g[T]}
  <1>0. ASSUME NEW T \in SUBSET S, T # {} PROVE Pick(T) \in T
    BY <1>0
  <1>1. ASSUME NEW T \in SUBSET S, T # {}
        PROVE  g[T] = k[Pick(T)].total + g[T \ {Pick(T)}]
    <2>1. Pick(T) \in T
      BY <1>0, <1>1
    <2> HIDE DEF Pick
    <2>2. (T \ {Pick(T)}) \cup {Pick(T)} = T /\ T \ {Pick(T)} \in SUBSET S
      BY <2>1
    <2>3. QED
      BY <2>1, <2>2 DEF Additive
  <1>2. g = Folded(k, S, g)
    <2>1. ASSUME NEW T \in SUBSET S PROVE g[T] = Folded(k, S, g)[T]
      BY <1>1 DEF Folded, Additive
    <2>2. g \in [SUBSET S -> Int] /\ Folded(k, S, g) = [T \in SUBSET S |-> Folded(k, S, g)[T]]
      BY DEF Folded, Additive
    <2>3. QED
      BY <2>1, <2>2
  <1>3. f = Folded(k, S, f)
    BY <1>2
  <1>4. CASE F = {}
    <2>1. f[S] = g[S]
      BY <1>4
    <2>2. QED
      BY <2>1, SumIsFold
  <1>5. CASE F # {}
    <2>1. PICK T \in F : \A U \in F : U \subseteq T => U = T
      <3>1. F \in SUBSET SUBSET S
        OBVIOUS
      <3> HIDE DEF F
      <3>2. QED
        BY <1>5, <3>1, SmallestSet
    <2> HIDE DEF f
    <2>2. T # {}
      BY <1>3, <2>1 DEF Folded, Additive
    <2>3. Pick(T) \in T
      BY <1>0, <2>2
    <2>4. f[T] = k[Pick(T)].total + f[T \ {Pick(T)}]
      BY <1>3, <2>2 DEF Folded
    <2> HIDE DEF Pick
    <2>5. T \ {Pick(T)} \notin F
      BY <2>1, <2>3
    <2>6. f[T \ {Pick(T)}] = g[T \ {Pick(T)}]
      BY <2>5
    <2>7. g[T] = k[Pick(T)].total + g[T \ {Pick(T)}]
      BY <1>1, <2>2
    <2>8. QED
      BY <2>4, <2>6, <2>7
  <1>6. QED
    BY <1>4, <1>5


(* What the proofs below use of a sum. *)
LEMMA SumGrows ==
  ASSUME NEW k, NEW S, IsFiniteSet(S), NEW y, y \notin S,
         \A p \in S \cup {y} : k[p].total \in Int
  PROVE  /\ SumOf(k, S) \in Int
         /\ SumOf(k, S \cup {y}) = k[y].total + SumOf(k, S)
  <1>1. IsFiniteSet(S \cup {y})
    BY FS_AddElement
  <1>2. PICK g : Additive(k, S \cup {y}, g)
    BY <1>1, AdditiveExists
  <1>3. SumOf(k, S \cup {y}) = g[S \cup {y}]
    BY <1>1, <1>2, SumIsAdditive
  <1> DEFINE h == [T \in SUBSET S |-> g[T]]
  <1>4. Additive(k, S, h)
    <2>1. ASSUME NEW T \in SUBSET S PROVE g[T] \in Int
      BY <1>2 DEF Additive
    <2>2. ASSUME NEW T \in SUBSET S, NEW x \in S, x \notin T
          PROVE  h[T \cup {x}] = k[x].total + h[T]
      BY <1>2, <2>2 DEF Additive
    <2>3. h[{}] = 0
      BY <1>2 DEF Additive
    <2>4. QED
      BY <2>1, <2>2, <2>3 DEF Additive
  <1>5. SumOf(k, S) = h[S]
    <2> HIDE DEF h
    <2>1. QED
      BY <1>4, SumIsAdditive
  <1>6. g[S \cup {y}] = k[y].total + g[S] /\ g[S] \in Int
    BY <1>2 DEF Additive
  <1>7. QED
    BY <1>3, <1>5, <1>6

LEMMA SumIsInt ==
  ASSUME NEW k, NEW S, IsFiniteSet(S), \A p \in S : k[p].total \in Int
  PROVE  SumOf(k, S) \in Int
  <1>1. PICK g : Additive(k, S, g)
    BY AdditiveExists
  <1>2. SumOf(k, S) = g[S]
    BY <1>1, SumIsAdditive
  <1>3. QED
    BY <1>1, <1>2 DEF Additive

LEMMA SumOfSame ==
  ASSUME NEW k, NEW m, NEW S, IsFiniteSet(S),
         \A p \in S : k[p].total \in Int /\ m[p].total = k[p].total
  PROVE  SumOf(m, S) = SumOf(k, S)
  <1>1. PICK g : Additive(k, S, g)
    BY AdditiveExists
  <1>2. Additive(m, S, g)
    BY <1>1 DEF Additive
  <1>3. QED
    BY <1>1, <1>2, SumIsAdditive

LEMMA SumOfNone == ASSUME NEW k PROVE SumOf(k, {}) = 0
  <1>1. PICK g : Additive(k, {}, g)
    BY AdditiveExists, FS_EmptySet
  <1>2. SumOf(k, {}) = g[{}]
    BY <1>1, FS_EmptySet, SumIsAdditive
  <1>3. QED
    BY <1>1, <1>2 DEF Additive

-----------------------------------------------------------------------------
(* The ledger *)

(* Types; every payout that began has an owner, and only finitely many did. *)
LedgerFits ==
  /\ balance \in [Users -> Int] /\ granted \in [Users -> Int]
  /\ claim \in [Slates -> Claims]
  /\ cost \in [Slates -> [user : Users \cup {Nobody}, total : Int]]
  /\ \A p \in Slates : claim[p] # "none" => cost[p].user \in Users
  /\ IsFiniteSet({p \in Slates : claim[p] # "none"})

(* The payouts that u was charged for and not refunded. *)
Held(u) == {p \in Slates : cost[p].user = u /\ claim[p] \in {"open", "settled"}}

LEMMA SpentIsSum ==
  /\ \A u : Spent(u) = SumOf(cost, Held(u))
  /\ \A u : Spent(u)' = SumOf(cost', Held(u)')
  BY DEF Spent, SumOf, Held, MapThenSumSet, MapThenFoldSet

LEMMA HeldFits ==
  ASSUME LedgerFits, NEW u
  PROVE  /\ IsFiniteSet(Held(u)) /\ Held(u) \subseteq Slates
         /\ \A p \in Slates : cost[p].total \in Int
         /\ Spent(u) \in Int
  <1>1. Held(u) \in SUBSET {p \in Slates : claim[p] # "none"}
    BY DEF Held
  <1>2. IsFiniteSet(Held(u))
    BY <1>1, FS_Subset DEF LedgerFits
  <1>3. \A p \in Slates : cost[p].total \in Int
    BY DEF LedgerFits
  <1>4. Held(u) \subseteq Slates
    BY DEF Held
  <1>5. SumOf(cost, Held(u)) \in Int
    BY <1>2, <1>3, <1>4, SumIsInt
  <1>6. QED
    BY <1>2, <1>3, <1>4, <1>5, SpentIsSum

LEMMA LedgerInit == Init => LedgerFits /\ Balanced
  <1> SUFFICES ASSUME Init PROVE LedgerFits /\ Balanced
    OBVIOUS
  <1>1. {p \in Slates : claim[p] # "none"} = {}
    BY DEF Init
  <1>2. LedgerFits
    BY <1>1, FS_EmptySet DEF Init, LedgerFits, Claims, NoCost
  <1>3. ASSUME NEW u \in Users PROVE granted[u] = balance[u] + Spent(u)
    <2>1. Held(u) = {}
      BY DEF Init, Held
    <2>2. Spent(u) = 0
      BY <2>1, SpentIsSum, SumOfNone
    <2>3. QED
      BY <2>2 DEF Init
  <1>4. QED
    BY <1>2, <1>3 DEF Balanced

LEMMA NextCases ==
  ASSUME Next
  PROVE  \/ \E u \in Users, n \in Grants : Credit(u, n)
         \/ \E u \in Users, p \in Slates, f \in Fees : Charge(u, p, f)
         \/ \E p \in Slates : Settle(p)
         \/ \E p \in Slates : Refund(p)
  BY DEF Next

LEMMA LedgerFitsStep ==
  ASSUME Fees \subseteq Int, Grants \subseteq Int, LedgerFits, [Next]_vars
  PROVE  LedgerFits'
  <1> DEFINE Begun == {p \in Slates : claim[p] # "none"}
  <1>1. ASSUME NEW u \in Users, NEW n \in Grants, Credit(u, n) PROVE LedgerFits'
    <2>1. Begun' = Begun
      BY <1>1 DEF Credit
    <2>2. QED
      BY <1>1, <2>1 DEF Credit, LedgerFits
  <1>2. ASSUME NEW u \in Users, NEW p \in Slates, NEW f \in Fees, Charge(u, p, f)
        PROVE  LedgerFits'
    <2>1. f \in Int /\ balance[u] \in Int
      BY DEF LedgerFits
    <2>2. [user |-> u, total |-> balance[u] + f] \in [user : Users \cup {Nobody}, total : Int]
      BY <2>1
    <2>3. Begun' = Begun \cup {p}
      BY <1>2 DEF Charge, LedgerFits
    <2>4. IsFiniteSet(Begun')
      <3>1. IsFiniteSet(Begun)
        BY DEF LedgerFits
      <3> HIDE DEF Begun
      <3>2. QED
        BY <2>3, <3>1, FS_AddElement
    <2>5. balance' \in [Users -> Int] /\ granted' \in [Users -> Int]
      BY <1>2, <2>1 DEF Charge, LedgerFits
    <2>6. claim' \in [Slates -> Claims]
      BY <1>2 DEF Charge, LedgerFits, Claims
    <2>7. cost' \in [Slates -> [user : Users \cup {Nobody}, total : Int]]
      BY <1>2, <2>2 DEF Charge, LedgerFits
    <2>8. ASSUME NEW q \in Slates, claim'[q] # "none" PROVE cost'[q].user \in Users
      BY <1>2, <2>8 DEF Charge, LedgerFits
    <2>9. QED
      BY <2>4, <2>5, <2>6, <2>7, <2>8 DEF LedgerFits
  <1>3. ASSUME NEW p \in Slates, Settle(p) PROVE LedgerFits'
    <2>1. Begun' = Begun
      BY <1>3 DEF Settle, LedgerFits
    <2>2. QED
      BY <1>3, <2>1 DEF Settle, LedgerFits, Claims
  <1>4. ASSUME NEW p \in Slates, Refund(p) PROVE LedgerFits'
    <2>1. Begun' = Begun
      BY <1>4 DEF Refund, LedgerFits
    <2>2. cost[p].user \in Users /\ cost[p].total \in Int
      BY <1>4 DEF Refund, LedgerFits
    <2>3. balance' \in [Users -> Int]
      BY <1>4, <2>2 DEF Refund, LedgerFits
    <2>4. QED
      BY <1>4, <2>1, <2>3 DEF Refund, LedgerFits, Claims
  <1>5. CASE UNCHANGED vars
    BY <1>5 DEF vars, LedgerFits
  <1>6. QED
    BY <1>1, <1>2, <1>3, <1>4, <1>5, NextCases

LEMMA BalancedStep ==
  ASSUME Fees \subseteq Int, Grants \subseteq Int, LedgerFits, Balanced, [Next]_vars
  PROVE  Balanced'
  <1>0. \A u \in Users : granted[u] = balance[u] + SumOf(cost, Held(u))
    BY SpentIsSum DEF Balanced
  <1> SUFFICES ASSUME NEW v \in Users
               PROVE  granted'[v] = balance'[v] + SumOf(cost', Held(v)')
    BY SpentIsSum DEF Balanced
  <1>1. /\ balance[v] \in Int /\ granted[v] \in Int
        /\ IsFiniteSet(Held(v)) /\ Held(v) \subseteq Slates
        /\ \A p \in Slates : cost[p].total \in Int
        /\ SumOf(cost, Held(v)) \in Int
    BY HeldFits, SpentIsSum DEF LedgerFits
  <1>2. ASSUME NEW u \in Users, NEW n \in Grants, Credit(u, n)
        PROVE  granted'[v] = balance'[v] + SumOf(cost', Held(v)')
    <2>1. cost' = cost /\ Held(v)' = Held(v)
      BY <1>2 DEF Credit, Held
    <2>2. /\ balance'[v] = IF v = u THEN balance[v] + n ELSE balance[v]
          /\ granted'[v] = IF v = u THEN granted[v] + n ELSE granted[v]
      BY <1>2 DEF Credit, LedgerFits
    <2>3. n \in Int
      OBVIOUS
    <2>4. QED
      BY <1>0, <1>1, <2>1, <2>2, <2>3
  <1>3. ASSUME NEW u \in Users, NEW p \in Slates, NEW f \in Fees, Charge(u, p, f)
        PROVE  granted'[v] = balance'[v] + SumOf(cost', Held(v)')
    <2>1. /\ claim[p] = "none" /\ p \notin Held(v)
          /\ \A q \in Slates : q # p => cost'[q] = cost[q] /\ claim'[q] = claim[q]
          /\ claim'[p] = "open"
          /\ cost'[p].user = u /\ cost'[p].total = balance[u] + f
          /\ balance'[v] = IF v = u THEN -f ELSE balance[v]
          /\ granted'[v] = granted[v]
      BY <1>3 DEF Charge, LedgerFits, Held
    <2>2. \A q \in Held(v) : cost'[q].total = cost[q].total
      BY <1>1, <2>1
    <2>3. SumOf(cost', Held(v)) = SumOf(cost, Held(v))
      BY <1>1, <2>2, SumOfSame
    <2>4. CASE v # u
      <3>1. Held(v)' = Held(v)
        BY <2>1, <2>4 DEF Held
      <3>2. QED
        BY <1>0, <2>1, <2>3, <2>4, <3>1
    <2>5. CASE v = u
      <3>1. Held(v)' = Held(v) \cup {p}
        BY <2>1, <2>5 DEF Held
      <3>2. f \in Int
        OBVIOUS
      <3>3. \A q \in Held(v) \cup {p} : cost'[q].total \in Int
        BY <1>1, <2>1, <2>2, <2>5, <3>2
      <3>4. SumOf(cost', Held(v) \cup {p}) = cost'[p].total + SumOf(cost', Held(v))
        BY <1>1, <2>1, <3>3, SumGrows
      <3>5. SumOf(cost', Held(v)') = balance[v] + f + SumOf(cost, Held(v))
        BY <2>1, <2>3, <2>5, <3>1, <3>4
      <3>6. QED
        BY <1>0, <1>1, <2>1, <2>5, <3>2, <3>5
    <2>6. QED
      BY <2>4, <2>5
  <1>4. ASSUME NEW p \in Slates, Settle(p)
        PROVE  granted'[v] = balance'[v] + SumOf(cost', Held(v)')
    <2>1. cost' = cost /\ Held(v)' = Held(v)
      BY <1>4 DEF Settle, Held, LedgerFits
    <2>2. QED
      BY <1>0, <1>4, <2>1 DEF Settle
  <1>5. ASSUME NEW p \in Slates, Refund(p)
        PROVE  granted'[v] = balance'[v] + SumOf(cost', Held(v)')
    <2>1. /\ claim[p] = "open" /\ cost' = cost /\ granted' = granted
          /\ \A q \in Slates : q # p => claim'[q] = claim[q]
          /\ claim'[p] = "refunded"
          /\ balance'[v] = IF v = cost[p].user THEN balance[v] + cost[p].total ELSE balance[v]
      BY <1>5 DEF Refund, LedgerFits
    <2>2. CASE v # cost[p].user
      <3>1. Held(v)' = Held(v)
        BY <2>1, <2>2 DEF Held
      <3>2. QED
        BY <1>0, <2>1, <2>2, <3>1
    <2>3. CASE v = cost[p].user
      <3> DEFINE Rest == Held(v) \ {p}
      <3>1. Held(v)' = Rest /\ Held(v) = Rest \cup {p} /\ p \notin Rest
        BY <2>1, <2>3 DEF Held
      <3>2. IsFiniteSet(Rest)
        BY <1>1, FS_RemoveElement
      <3>3. \A q \in Rest \cup {p} : cost[q].total \in Int
        BY <1>1
      <3> HIDE DEF Rest
      <3>4. /\ SumOf(cost, Rest) \in Int
            /\ SumOf(cost, Rest \cup {p}) = cost[p].total + SumOf(cost, Rest)
        BY <3>1, <3>2, <3>3, SumGrows
      <3>5. granted[v] = balance[v] + (cost[p].total + SumOf(cost, Rest))
        BY <1>0, <3>1, <3>4
      <3>6. QED
        BY <1>1, <2>1, <2>3, <3>1, <3>4, <3>5
    <2>4. QED
      BY <2>2, <2>3
  <1>6. CASE UNCHANGED vars
    <2>1. cost' = cost /\ Held(v)' = Held(v) /\ granted' = granted /\ balance' = balance
      BY <1>6 DEF vars, Held
    <2>2. QED
      BY <1>0, <2>1
  <1>7. QED
    BY <1>2, <1>3, <1>4, <1>5, <1>6, NextCases

(* No money is made or lost: what a user was credited is the balance plus  *)
(* the payouts charged and not refunded, for any number of users and       *)
(* payouts.                                                                *)
THEOREM MoneyIsKept ==
  ASSUME Fees \subseteq Int, Grants \subseteq Int
  PROVE  Spec => []Balanced
  <1>1. Init => LedgerFits /\ Balanced
    BY LedgerInit
  <1>2. LedgerFits /\ Balanced /\ [Next]_vars => LedgerFits' /\ Balanced'
    BY LedgerFitsStep, BalancedStep
  <1>3. QED
    BY <1>1, <1>2, PTL DEF Spec

=============================================================================
