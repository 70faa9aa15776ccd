--------------------------- MODULE QueryApiProofs ---------------------------
(***************************************************************************)
(* Theorems about QueryApi for every number of requests at once, every     *)
(* size of the cache, every set of miners and whatever they have mined:    *)
(* its rows and requests keep their types, and an answer is what its URL   *)
(* asks for, whichever request put it into the cache.                      *)
(***************************************************************************)
EXTENDS QueryApi, FiniteSetTheorems, SequenceTheorems, WellFoundedInduction, TLAPS

-----------------------------------------------------------------------------
(* The order of the natural numbers                                        *)

(* The order of the natural numbers is well-founded.                       *)
LEMMA LessNat == \E R : /\ IsWellFoundedOn(R, Nat)
                        /\ \A m, n \in Nat : m < n => <<m, n>> \in R
<1>1. IsWellFoundedOn(OpToRel(<, Nat), Nat)
  BY NatLessThanWellFounded
<1>2. \A m, n \in Nat : m < n => <<m, n>> \in OpToRel(<, Nat)
  BY DEF OpToRel
<1> QED BY <1>1, <1>2

(* A set of them has a member with none below it.                          *)
LEMMA MinOf ==
  ASSUME NEW R, IsWellFoundedOn(R, Nat), NEW T, T \subseteq Nat, T # {}
  PROVE  \E x \in T : \A y \in T : <<y, x>> \notin R
<1>1. \E x \in T : \A y \in T : ~ (<<y, x>> \in R)
  BY WFMin, Zenon
<1> QED BY <1>1

(* A set of natural numbers has a least one.                               *)
LEMMA Least ==
  ASSUME NEW T, T \subseteq Nat, T # {}
  PROVE  \E n \in T : \A m \in T : n <= m
<1>1. PICK R : /\ IsWellFoundedOn(R, Nat)
               /\ \A m, n \in Nat : m < n => <<m, n>> \in R
  BY LessNat
<1>2. PICK x \in T : \A y \in T : <<y, x>> \notin R
  BY <1>1, MinOf
<1>3. \A y \in T : ~ (y < x)
  BY <1>1, <1>2
<1>4. x \in Int /\ \A y \in T : y \in Int
  OBVIOUS
<1>5. \A y \in T : x <= y
  BY <1>3, <1>4
<1> QED BY <1>5

-----------------------------------------------------------------------------
(* The inductive invariant                                                 *)

(* The heights at which the pool has a block.                              *)
Won == {h \in Height : won[h] # "none"}

(* The heights of a range that a table has reached.                        *)
Span(url, seen) == {h \in 1..seen : h > url.height - url.range /\ h <= url.height}

(* Fits, with the height reached and the blocks won as parameters: an      *)
(* answer that fits now fits later, when more is recorded.                 *)
FitsAt(url, data, t, W) ==
    /\ url.route = "mugle/block" => \E h \in 1..t : data = {h}
    /\ url.route \in {"mugle/blocks", "mugle/stats", "pool/stats"} /\ url.height > 0 =>
          \E seen \in 0..t : data = Span(url, seen)
    /\ url.route = "pool/blocks" /\ url.height > 0 =>
          Cardinality(data) <= url.range /\ data \subseteq W \cap 1..url.height
    /\ url.route \in {"worker/stats", "worker/shares"} => data \subseteq Span(url, t)
    /\ url.route = "worker/rigs" => data \subseteq (url.height - url.range)..url.height
    /\ url.route \in {"mugle/block/:height", "mugle/stats/:height"} /\ url.height > 0 =>
          data \subseteq {url.height}
    /\ url.route = "estimate/:height" => \A r \in data : r.height = url.height
    /\ url.route = "estimate" => \A r \in data : r.height \in W

(* Rewards worked out from what the tables had reached by height t.        *)
Rewards(t) == [height : Int, pool : 0..t, user : 0..t]

(* An entry of the cache: the answer of a route fits the URL it is kept    *)
(* for, and what the handlers keep for each other fits its key, though it  *)
(* was read at different times.                                            *)
EntryAt(key, data, t, W) ==
    /\ key.height \in Int /\ key.height <= MaxTip /\ key.id \in Names \cup {Nobody}
    /\ FitsAt(key, data, t, W)
    /\ key.route = "max_network_block_height" => \E h \in 1..t : data = {h}
    /\ key.route = "user_shares_weights" => \E h \in 0..t : data = {h}
    /\ key.route \in {"estimate", "estimate/:height", "estimated_reward"} =>
          data \subseteq Rewards(t)
    /\ key.route = "estimated_reward" => \A r \in data : r.height = key.height

(* What is asked for.                                                      *)
Asks == {u \in URLs : /\ u.height <= MaxTip /\ u.token \in Tokens(u.route)
                      /\ u.route = "create" => u.id \in Names}

(* The routes that answer from one query.                                  *)
QueryRoutes ==
    {"mugle/block", "mugle/block/:height", "mugle/blocks", "mugle/stats",
     "mugle/stats/:height", "pool/block", "pool/blocks", "pool/stats", "worker/stats",
     "worker/rigs", "worker/stat", "worker/shares", "worker/utxo", "worker/payment",
     "worker/payments"}

(* The stages that the handler of a URL may still have before it.  The     *)
(* answers depend on this: what is put into the cache at a stage is for    *)
(* that route only.                                                        *)
StagesOf(url) ==
    {"lookup", "bearer", "auth", "sanitize", "latest", "maxHeight", "maxPool", "script",
     "findName", "notFound"}
    \cup (IF url.height < 1 THEN {"firstBlock"} ELSE {})
    \cup (IF url.route \in QueryRoutes THEN {"query"} ELSE {})
    \cup (IF url.route = "estimate/:height"
          THEN {"reward", "newBlock", "poolWeights", "poolShares", "userWeights",
                "userShares"} ELSE {})
    \cup (IF url.route = "estimate" THEN {"newBlocks", "poolRows", "userRows", "balance"}
          ELSE {})
    \cup (IF url.route = "login" THEN {"login", "verified"} ELSE {})
    \cup (IF url.route = "create" THEN {"insert"} ELSE {})
    \cup (IF url.route = "payment/http" THEN {"forward"} ELSE {})

(* All stages.                                                             *)
StageNames ==
    {"lookup", "bearer", "auth", "sanitize", "latest", "maxHeight", "maxPool", "script",
     "findName", "notFound", "firstBlock", "query", "reward", "newBlock", "poolWeights",
     "poolShares", "userWeights", "userShares", "newBlocks", "poolRows", "userRows",
     "balance", "login", "verified", "insert", "forward"}

(* What may be left for mugle/block: its query comes after the newest      *)
(* height is known.                                                        *)
BlockPlans ==
    {<<"lookup", "latest", "query">>, <<"latest", "query">>, <<"maxHeight", "query">>,
     <<"query">>}

(* The types of a request when the tables have reached height t.           *)
Request(t) ==
    [url : Asks \cup {NoUrl}, todo : Seq(StageNames), block : 0..t, height : 0..t,
     latest : 0..t, pool : 0..t, user : 0..t, mined : SUBSET (1..t), answers : 0..1]

(* A handler has a height of its own only where none was asked for; only   *)
(* the estimate of one block answers early; a balance is of blocks that    *)
(* were won.                                                               *)
Holds(r, W) ==
    /\ r.url.height >= 1 => r.height = 0 /\ r.block = 0
    /\ r.url.route # "estimate/:height" => r.answers = 0
    /\ r.mined \subseteq W

(* What is left to do belongs to the URL, and mugle/block asks for a row   *)
(* that is there.                                                          *)
Plan(url, todo, latest) ==
    todo # <<>> =>
        /\ url \in Asks /\ todo \in Seq(StagesOf(url))
        /\ url.route = "mugle/block" =>
              todo \in BlockPlans /\ (todo = <<"query">> => latest >= 1)

(* A request under way.                                                    *)
RequestAt(r, t, W) == r \in Request(t) /\ Holds(r, W) /\ Plan(r.url, r.todo, r.latest)

(* The end of a request.                                                   *)
EndAt(e, t, W) ==
    /\ e.answers <= 1 \/ e.url.route = "estimate/:height"
    /\ e.status = 200 /\ e.url.token \in {"own", "public"} => FitsAt(e.url, e.data, t, W)
    /\ e.url.route \in {"estimate", "estimate/:height"} => e.data \subseteq Rewards(t)

(* The tables, of which statistics and shares never pass the blocks.       *)
WorldInv ==
    /\ tip \in Height /\ calc \in 0..tip /\ work \in 0..tip
    /\ won \in [Height -> {"none", "new", "unlocked"}] /\ Won \subseteq 1..tip
    /\ family \in Families /\ failures \in 0..family.fails /\ accounts \subseteq Names

(* The cache, the requests and their ends.                                 *)
CacheInv == \A key \in DOMAIN cache : EntryAt(key, cache[key], tip, Won)
RequestsInv ==
    /\ req = [q \in Slots |-> req[q]]
    /\ \A q \in Slots : RequestAt(req[q], tip, Won)
EndsInv == \A e \in out : EndAt(e, tip, Won)

(* The inductive invariant: AnswersFit alone is not one, as an answer may  *)
(* come from the cache, and what is there from any request before.         *)
QueryInv == WorldInv /\ CacheInv /\ RequestsInv /\ EndsInv

(* The key of a URL keeps all that its answer depends on.                  *)
LEMMA KeyFits ==
  ASSUME NEW url, NEW data, NEW t, NEW W
  PROVE  /\ FitsAt(KeyOf(url), data, t, W) <=> FitsAt(url, data, t, W)
         /\ KeyOf(url).route = url.route /\ KeyOf(url).id = url.id
         /\ KeyOf(url).height = url.height
BY DEF KeyOf, FitsAt, Span

(* An answer that fits goes on to fit.                                     *)
LEMMA FitsLater ==
  ASSUME NEW url, NEW data, NEW t \in Nat, NEW W, NEW t2 \in Nat, NEW W2, t <= t2,
         W \subseteq W2, FitsAt(url, data, t, W)
  PROVE  FitsAt(url, data, t2, W2)
<1>1. 0..t \subseteq 0..t2 /\ 1..t \subseteq 1..t2 /\ Span(url, t) \subseteq Span(url, t2)
  BY DEF Span
<1> QED BY <1>1 DEF FitsAt

(* An entry goes on to fit.                                                *)
LEMMA EntryLater ==
  ASSUME NEW key, NEW data, NEW t \in Nat, NEW W, NEW t2 \in Nat, NEW W2, t <= t2,
         W \subseteq W2, EntryAt(key, data, t, W)
  PROVE  EntryAt(key, data, t2, W2)
<1>1. 0..t \subseteq 0..t2 /\ 1..t \subseteq 1..t2
  OBVIOUS
<1>2. FitsAt(key, data, t2, W2)
  BY FitsLater DEF EntryAt
<1>3. Rewards(t) \subseteq Rewards(t2)
  BY <1>1 DEF Rewards
<1> QED BY <1>1, <1>2, <1>3 DEF EntryAt

(* A request goes on to have its types.                                    *)
LEMMA RequestLater ==
  ASSUME NEW r, NEW t \in Nat, NEW W, NEW t2 \in Nat, NEW W2, t <= t2,
         W \subseteq W2, RequestAt(r, t, W)
  PROVE  RequestAt(r, t2, W2)
<1>1. 0..t \subseteq 0..t2 /\ SUBSET (1..t) \subseteq SUBSET (1..t2)
  OBVIOUS
<1>2. r \in Request(t2)
  BY <1>1 DEF RequestAt, Request
<1>3. Holds(r, W2)
  BY DEF RequestAt, Holds
<1> QED BY <1>2, <1>3 DEF RequestAt

(* A slot without a request is in order.                                   *)
LEMMA IdleFits ==
  ASSUME NEW t \in Nat, NEW W
  PROVE  RequestAt(Idle, t, W) /\ Idle.todo = <<>>
<1>1. Idle \in Request(t)
  BY DEF Idle, Asked, Request
<1>2. Holds(Idle, W) /\ Plan(Idle.url, Idle.todo, Idle.latest) /\ Idle.todo = <<>>
  BY DEF Idle, Asked, NoUrl, Holds, Plan
<1> QED BY <1>1, <1>2 DEF RequestAt

(* The stages of a URL are stages.                                         *)
LEMMA NamedStages ==
  ASSUME NEW url
  PROVE  StagesOf(url) \subseteq StageNames /\ Seq(StagesOf(url)) \subseteq Seq(StageNames)
<1>1. StagesOf(url) \subseteq StageNames
  BY DEF StagesOf, StageNames
<1> QED BY <1>1

(* Short sequences over a set.                                             *)
LEMMA SomeStages ==
  ASSUME NEW S, NEW a \in S, NEW b \in S, NEW c \in S, NEW d \in S, NEW e \in S
  PROVE  /\ <<>> \in Seq(S) /\ <<a>> \in Seq(S) /\ <<a, b>> \in Seq(S)
         /\ <<a, b, c>> \in Seq(S)
         /\ <<a, b, c, d>> \in Seq(S) /\ <<a, b, c, d, e>> \in Seq(S)
OBVIOUS

(* The handler of a route begins with stages of its own.                   *)
LEMMA StagesFit ==
  ASSUME NEW url \in Asks
  PROVE  /\ Stages(url.route) \in Seq(StagesOf(url))
         /\ url.route = "mugle/block" => Stages(url.route) = <<"lookup", "latest", "query">>
<1>1. url.route \in Routes
  BY DEF Asks, URLs
<1>2. CASE url.route = "mugle/block"
  <2>1. Stages(url.route) = <<"lookup", "latest", "query">>
    BY <1>2 DEF Stages
  <2>2. {"lookup", "latest", "query"} \subseteq StagesOf(url)
    BY <1>2 DEF StagesOf, QueryRoutes
  <2>3. <<"lookup", "latest", "query">> \in Seq(StagesOf(url))
    BY <2>2, SomeStages
  <2> QED BY <1>2, <2>1, <2>3
<1>3. CASE url.route \in {"mugle/block/:height", "mugle/blocks", "mugle/stats/:height",
                          "pool/blocks"}
  <2>1. Stages(url.route) = <<"lookup", "sanitize", "query">>
    BY <1>3 DEF Stages
  <2>2. {"lookup", "sanitize", "query"} \subseteq StagesOf(url)
    BY <1>3 DEF StagesOf, QueryRoutes
  <2>3. <<"lookup", "sanitize", "query">> \in Seq(StagesOf(url))
    BY <2>2, SomeStages
  <2> QED BY <1>3, <2>1, <2>3
<1>4. CASE url.route \in {"mugle/stats", "pool/stats"}
  <2>1. Stages(url.route) = <<"lookup", "sanitize", "latest", "query">>
    BY <1>4 DEF Stages
  <2>2. {"lookup", "sanitize", "latest", "query"} \subseteq StagesOf(url)
    BY <1>4 DEF StagesOf, QueryRoutes
  <2>3. <<"lookup", "sanitize", "latest", "query">> \in Seq(StagesOf(url))
    BY <2>2, SomeStages
  <2> QED BY <1>4, <2>1, <2>3
<1>5. CASE url.route = "pool/block"
  <2>1. Stages(url.route) = <<"lookup", "maxPool", "query">>
    BY <1>5 DEF Stages
  <2>2. {"lookup", "maxPool", "query"} \subseteq StagesOf(url)
    BY <1>5 DEF StagesOf, QueryRoutes
  <2>3. <<"lookup", "maxPool", "query">> \in Seq(StagesOf(url))
    BY <2>2, SomeStages
  <2> QED BY <1>5, <2>1, <2>3
<1>6. CASE url.route \in {"worker/stats", "worker/rigs"}
  <2>1. Stages(url.route) = <<"lookup", "bearer", "sanitize", "auth", "query">>
    BY <1>6 DEF Stages
  <2>2. {"lookup", "bearer", "sanitize", "auth", "query"} \subseteq StagesOf(url)
    BY <1>6 DEF StagesOf, QueryRoutes
  <2>3. <<"lookup", "bearer", "sanitize", "auth", "query">> \in Seq(StagesOf(url))
    BY <2>2, SomeStages
  <2> QED BY <1>6, <2>1, <2>3
<1>7. CASE url.route \in {"worker/stat", "worker/utxo", "worker/payment", "worker/payments"}
  <2>1. Stages(url.route) = <<"lookup", "bearer", "auth", "query">>
    BY <1>7 DEF Stages
  <2>2. {"lookup", "bearer", "auth", "query"} \subseteq StagesOf(url)
    BY <1>7 DEF StagesOf, QueryRoutes
  <2>3. <<"lookup", "bearer", "auth", "query">> \in Seq(StagesOf(url))
    BY <2>2, SomeStages
  <2> QED BY <1>7, <2>1, <2>3
<1>8. CASE url.route = "worker/shares"
  <2>1. Stages(url.route) = <<"lookup", "bearer", "auth", "sanitize", "query">>
    BY <1>8 DEF Stages
  <2>2. {"lookup", "bearer", "auth", "sanitize", "query"} \subseteq StagesOf(url)
    BY <1>8 DEF StagesOf, QueryRoutes
  <2>3. <<"lookup", "bearer", "auth", "sanitize", "query">> \in Seq(StagesOf(url))
    BY <2>2, SomeStages
  <2> QED BY <1>8, <2>1, <2>3
<1>9. CASE url.route = "estimate/:height"
  <2>1. Stages(url.route) = <<"lookup", "bearer", "auth", "sanitize", "reward">>
    BY <1>9 DEF Stages
  <2>2. {"lookup", "bearer", "auth", "sanitize", "reward"} \subseteq StagesOf(url)
    BY <1>9 DEF StagesOf, QueryRoutes
  <2>3. <<"lookup", "bearer", "auth", "sanitize", "reward">> \in Seq(StagesOf(url))
    BY <2>2, SomeStages
  <2> QED BY <1>9, <2>1, <2>3
<1>10. CASE url.route = "estimate"
  <2>1. Stages(url.route) = <<"lookup", "bearer", "auth", "newBlocks">>
    BY <1>10 DEF Stages
  <2>2. {"lookup", "bearer", "auth", "newBlocks"} \subseteq StagesOf(url)
    BY <1>10 DEF StagesOf, QueryRoutes
  <2>3. <<"lookup", "bearer", "auth", "newBlocks">> \in Seq(StagesOf(url))
    BY <2>2, SomeStages
  <2> QED BY <1>10, <2>1, <2>3
<1>11. CASE url.route = "login"
  <2>1. Stages(url.route) = <<"lookup", "login">>
    BY <1>11 DEF Stages
  <2>2. {"lookup", "login"} \subseteq StagesOf(url)
    BY <1>11 DEF StagesOf, QueryRoutes
  <2>3. <<"lookup", "login">> \in Seq(StagesOf(url))
    BY <2>2, SomeStages
  <2> QED BY <1>11, <2>1, <2>3
<1>12. CASE url.route = "create"
  <2>1. Stages(url.route) = <<"findName", "script", "insert">>
    BY <1>12 DEF Stages
  <2>2. {"findName", "script", "insert"} \subseteq StagesOf(url)
    BY <1>12 DEF StagesOf, QueryRoutes
  <2>3. <<"findName", "script", "insert">> \in Seq(StagesOf(url))
    BY <2>2, SomeStages
  <2> QED BY <1>12, <2>1, <2>3
<1>13. CASE url.route = "payment/http"
  <2>1. Stages(url.route) = <<"bearer", "auth", "forward">>
    BY <1>13 DEF Stages
  <2>2. {"bearer", "auth", "forward"} \subseteq StagesOf(url)
    BY <1>13 DEF StagesOf, QueryRoutes
  <2>3. <<"bearer", "auth", "forward">> \in Seq(StagesOf(url))
    BY <2>2, SomeStages
  <2> QED BY <1>13, <2>1, <2>3
<1>14. CASE url.route = "unknown"
  <2>1. Stages(url.route) = <<"lookup", "notFound">>
    BY <1>14 DEF Stages
  <2>2. {"lookup", "notFound"} \subseteq StagesOf(url)
    BY <1>14 DEF StagesOf, QueryRoutes
  <2>3. <<"lookup", "notFound">> \in Seq(StagesOf(url))
    BY <2>2, SomeStages
  <2> QED BY <1>14, <2>1, <2>3
<1> QED
  BY <1>1, <1>2, <1>3, <1>4, <1>5, <1>6, <1>7, <1>8, <1>9, <1>10, <1>11, <1>12, <1>13, <1>14
  DEF Routes, Own

(* What is known of a request at a stage.                                  *)
LEMMA AtFacts ==
  ASSUME RequestsInv, NEW q \in Slots, NEW stage, At(q, stage)
  PROVE  /\ RequestAt(req[q], tip, Won) /\ Url(q) = req[q].url /\ Url(q) \in Asks
         /\ req[q].todo \in Seq(StagesOf(Url(q))) /\ req[q].todo # <<>>
         /\ stage \in StagesOf(Url(q)) /\ Head(req[q].todo) = stage
         /\ Url(q).route = "mugle/block" => req[q].todo \in BlockPlans
<1>1. RequestAt(req[q], tip, Won) /\ req[q].todo # <<>> /\ Head(req[q].todo) = stage
  BY DEF RequestsInv, At, Pending
<1>2. Url(q) = req[q].url
  BY DEF Url
<1>3. /\ Url(q) \in Asks /\ req[q].todo \in Seq(StagesOf(Url(q)))
      /\ Url(q).route = "mugle/block" => req[q].todo \in BlockPlans
  BY <1>1, <1>2 DEF RequestAt, Plan
<1>4. Head(req[q].todo) \in StagesOf(Url(q))
  BY <1>1, <1>3
<1> QED BY <1>1, <1>2, <1>3, <1>4

-----------------------------------------------------------------------------
(* What a query answers                                                    *)

(* The smaller and the larger of two numbers.                              *)
LEMMA MinOfTwo ==
  ASSUME NEW a \in Int, NEW b \in Int
  PROVE  /\ Min({a, b}) \in {a, b} /\ Min({a, b}) <= a /\ Min({a, b}) <= b
         /\ Max({a, b}) \in {a, b} /\ Max({a, b}) >= a /\ Max({a, b}) >= b
<1>1. \E x \in {a, b} : \A y \in {a, b} : x <= y
  OBVIOUS
<1>2. \E x \in {a, b} : \A y \in {a, b} : x >= y
  OBVIOUS
<1>3. Min({a, b}) \in {a, b} /\ \A y \in {a, b} : Min({a, b}) <= y
  BY <1>1, Zenon DEF Min
<1>4. Max({a, b}) \in {a, b} /\ \A y \in {a, b} : Max({a, b}) >= y
  BY <1>2, Zenon DEF Max
<1> QED BY <1>3, <1>4

(* The largest of some heights is one of them.                             *)
LEMMA MaxOfSome ==
  ASSUME NEW t \in Nat, NEW S, S \subseteq 0..t, S # {}
  PROVE  Max(S) \in S
<1> DEFINE T == {t - x : x \in S}
<1>1. T \subseteq Nat /\ T # {}
  <2>1. \A x \in S : x \in 0..t
    OBVIOUS
  <2>2. \A x \in S : t - x \in Nat
    BY <2>1
  <2>3. T # {}
    OBVIOUS
  <2> QED BY <2>2, <2>3
<1>2. PICK n \in T : \A m \in T : n <= m
  BY <1>1, Least
<1>3. PICK x \in S : n = t - x
  BY <1>2
<1>4. \A y \in S : t - x <= t - y
  BY <1>2, <1>3
<1>5. \A y \in S : x >= y
  BY <1>4
<1>6. \E z \in S : \A y \in S : z >= y
  BY <1>5
<1> QED BY <1>6, Zenon DEF Max

(* The newest n are at most n.                                             *)
LEMMA NewestFew ==
  ASSUME NEW S, S \subseteq Nat, IsFiniteSet(S), NEW n \in Nat
  PROVE  Newest(n, S) \subseteq S /\ Cardinality(Newest(n, S)) <= n
<1> DEFINE N == Newest(n, S)
<1>1. N \subseteq S
  BY DEF Newest
<1>2. CASE N = {}
  BY <1>1, <1>2, FS_EmptySet
<1>3. CASE N # {}
  <2>1. PICK m \in N : \A x \in N : m <= x
    BY <1>1, <1>3, Least
  <2>a. m \in S /\ m \in Int /\ \A x \in S : x \in Int
    <3>1. m \in S
      BY <1>1, <2>1
    <3>2. \A x \in S : x \in Nat
      OBVIOUS
    <3> QED BY <3>1, <3>2
  <2> DEFINE Above == {x \in S : x > m}
  <2>2. Cardinality(Above) < n
    BY <2>1 DEF Newest
  <2>3. IsFiniteSet(Above) /\ Cardinality(Above) \in Nat
    BY FS_Subset, FS_CardinalityType
  <2>4. N \subseteq Above \cup {m}
    <3>1. m \in Int /\ \A x \in N : x \in Int /\ x \in S /\ m <= x
      BY <1>1, <2>1, <2>a
    <3>2. \A x \in N : x = m \/ x > m
      BY <3>1
    <3> QED BY <3>1, <3>2
  <2>5. IsFiniteSet(Above \cup {m}) /\ Cardinality(Above \cup {m}) = Cardinality(Above) + 1
    <3>1. m \notin Above
      BY <2>a
    <3> HIDE DEF Above
    <3> QED BY <2>3, <3>1, FS_AddElement
  <2>6. Cardinality(N) <= Cardinality(Above \cup {m}) /\ IsFiniteSet(N)
    BY <2>4, <2>5, FS_Subset
  <2>7. Cardinality(N) \in Nat
    BY <2>6, FS_CardinalityType
  <2> HIDE DEF N, Above
  <2>8. Cardinality(N) <= n
    BY <2>2, <2>3, <2>5, <2>6, <2>7
  <2> QED BY <1>1, <2>8 DEF N
<1> QED BY <1>2, <1>3

(* What a query finds of the blocks, the statistics and the pool's blocks. *)
LEMMA RowsFound ==
  ASSUME NEW seen \in Nat, NEW id
  PROVE  /\ HeightsIn(blocks(seen)) = 1..seen
         /\ mergeBlocks(gps(mugle_stats(seen))) = 1..seen
         /\ mergeBlocks(gps(pool_stats(seen))) = 1..seen
         /\ mergeBlocks(gps(Of(id, worker_stats(seen)))) \subseteq 1..seen
         /\ HeightsIn(Of(id, worker_shares(seen))) \subseteq 1..seen
<1>0. 29 \in Sizes
  BY DEF Sizes
<1>1. HeightsIn(blocks(seen)) = 1..seen
  <2>1. ASSUME NEW h \in 1..seen PROVE h \in HeightsIn(blocks(seen))
    <3> DEFINE b == [height |-> h]
    <3>1. b \in blocks(seen) /\ b.height = h
      BY DEF blocks
    <3> QED BY <3>1 DEF HeightsIn
  <2>2. \A b \in blocks(seen) : b.height \in 1..seen
    BY DEF blocks
  <2> QED BY <2>1, <2>2 DEF HeightsIn
<1>2. mergeBlocks(gps(mugle_stats(seen))) = 1..seen
  <2>1. ASSUME NEW h \in 1..seen PROVE h \in mergeBlocks(gps(mugle_stats(seen)))
    <3> DEFINE s == [height |-> h]
               g == [of |-> s, edge_bits |-> 29]
    <3>1. s \in mugle_stats(seen)
      BY DEF mugle_stats
    <3>2. g \in gps(mugle_stats(seen)) /\ g.of.height = h
      BY <1>0, <3>1 DEF gps
    <3> QED BY <3>2 DEF mergeBlocks
  <2>2. \A s \in mugle_stats(seen) : s.height \in 1..seen
    BY DEF mugle_stats
  <2>3. \A g \in gps(mugle_stats(seen)) : g.of.height \in 1..seen
    BY <2>2 DEF gps
  <2> QED BY <2>1, <2>3 DEF mergeBlocks
<1>3. mergeBlocks(gps(pool_stats(seen))) = 1..seen
  <2>1. ASSUME NEW h \in 1..seen PROVE h \in mergeBlocks(gps(pool_stats(seen)))
    <3> DEFINE s == [height |-> h]
               g == [of |-> s, edge_bits |-> 29]
    <3>1. s \in pool_stats(seen)
      BY DEF pool_stats
    <3>2. g \in gps(pool_stats(seen)) /\ g.of.height = h
      BY <1>0, <3>1 DEF gps
    <3> QED BY <3>2 DEF mergeBlocks
  <2>2. \A s \in pool_stats(seen) : s.height \in 1..seen
    BY DEF pool_stats
  <2>3. \A g \in gps(pool_stats(seen)) : g.of.height \in 1..seen
    BY <2>2 DEF gps
  <2> QED BY <2>1, <2>3 DEF mergeBlocks
<1>4. mergeBlocks(gps(Of(id, worker_stats(seen)))) \subseteq 1..seen
  <2>1. \A s \in worker_stats(seen) : s.height \in 1..seen
    BY DEF worker_stats
  <2>2. \A g \in gps(Of(id, worker_stats(seen))) : g.of.height \in 1..seen
    BY <2>1 DEF gps, Of
  <2> QED BY <2>2 DEF mergeBlocks
<1>5. HeightsIn(Of(id, worker_shares(seen))) \subseteq 1..seen
  <2>1. \A s \in worker_shares(seen) : s.height \in 1..seen
    BY DEF worker_shares
  <2> QED BY <2>1 DEF HeightsIn, Of
<1> QED BY <1>1, <1>2, <1>3, <1>4, <1>5

(* What a query finds of the pool's blocks.                                *)
LEMMA WonFound ==
  ASSUME WorldInv
  PROVE  /\ HeightsIn(pool_blocks) = Won
         /\ HeightsIn({b \in pool_blocks : b.state = "new"}) \subseteq Won
<1>1. \A b \in pool_blocks : b.height \in Won
  BY DEF pool_blocks, Won
<1>2. ASSUME NEW h \in Won PROVE h \in HeightsIn(pool_blocks)
  <2>1. [height |-> h, state |-> won[h]] \in pool_blocks
    BY DEF pool_blocks, Won
  <2> QED BY <2>1 DEF HeightsIn
<1> QED BY <1>1, <1>2 DEF HeightsIn

(* What a query answers is what its URL asks for.                          *)
LEMMA QueryFits ==
  ASSUME WorldInv, NEW r, RequestAt(r, tip, Won), r.url \in Asks, r.url.route \in QueryRoutes,
         r.url.route = "mugle/block" => r.latest >= 1
  PROVE  FitsAt(r.url, Rows(r), tip, Won)
<1> DEFINE url == r.url
           h == r.url.height
           n == r.url.range
<1>1. /\ tip \in Nat /\ calc \in 0..tip /\ work \in 0..tip /\ Won \subseteq 1..tip
      /\ calc \in Nat /\ work \in Nat
  BY BoundAssumption DEF WorldInv, Height
<1>2. /\ url.height \in Int /\ url.range \in Nat /\ limitRange(url) = n
      /\ r.latest \in 0..tip
  BY DEF Asks, URLs, limitRange, RequestAt, Request
<1>3. h >= 1 => HeightOf(r) = h /\ StatsHeight(r) = h
  BY DEF RequestAt, Holds, HeightOf, StatsHeight
<1>4. CASE url.route = "mugle/block"
  <2>1. Rows(r) = networkBlock(r)
    BY <1>4 DEF Rows
  <2>2. r.latest \in 1..tip
    BY <1>1, <1>2, <1>4
  <2>3. Rows(r) = {r.latest}
    BY <1>1, <2>1, <2>2, RowsFound DEF networkBlock
  <2> QED BY <1>4, <2>2, <2>3 DEF FitsAt
<1>5. CASE url.route = "mugle/blocks"
  <2>1. SUFFICES ASSUME h > 0 PROVE \E seen \in 0..tip : Rows(r) = Span(url, seen)
    BY <1>5, <1>2 DEF FitsAt
  <2>2. Rows(r) = networkBlocks(r)
    BY <1>5 DEF Rows
  <2>3. Rows(r) = {x \in 1..tip : x > h - n /\ x <= h}
    BY <1>1, <1>2, <1>3, <2>1, <2>2, RowsFound DEF networkBlocks, Window
  <2> QED BY <1>1, <2>3 DEF Span
<1>6. CASE url.route = "mugle/stats"
  <2>1. SUFFICES ASSUME h > 0 PROVE \E seen \in 0..tip : Rows(r) = Span(url, seen)
    BY <1>6, <1>2 DEF FitsAt
  <2> DEFINE m == Min({h, r.latest})
             k == Min({calc, r.latest})
  <2>2. Rows(r) = networkStats(r)
    BY <1>6 DEF Rows
  <2>3. Rows(r) = {x \in 1..calc : x > h - n /\ x <= m}
    <3>1. StatsHeight(r) = h /\ limitRange(r.url) = n
      BY <1>2, <1>3, <2>1
    <3>2. mergeBlocks(gps(mugle_stats(calc))) = 1..calc
      BY <1>1, RowsFound
    <3> QED BY <2>2, <3>1, <3>2 DEF networkStats, Window
  <2>4. /\ m \in {h, r.latest} /\ m <= h /\ m <= r.latest
        /\ k \in {calc, r.latest} /\ k <= calc /\ k <= r.latest
    <3>1. h \in Int /\ r.latest \in Int /\ calc \in Int
      BY <1>1, <1>2
    <3>2. m \in {h, r.latest} /\ m <= h /\ m <= r.latest
      BY <3>1, MinOfTwo
    <3>3. k \in {calc, r.latest} /\ k <= calc /\ k <= r.latest
      BY <3>1, MinOfTwo
    <3> QED BY <3>2, <3>3
  <2> HIDE DEF m, k
  <2>5. k \in 0..tip /\ Rows(r) = {x \in 1..k : x > h - n /\ x <= h}
    BY <1>1, <1>2, <2>3, <2>4
  <2> QED BY <2>5 DEF Span
<1>7. CASE url.route = "pool/stats"
  <2>1. SUFFICES ASSUME h > 0 PROVE \E seen \in 0..tip : Rows(r) = Span(url, seen)
    BY <1>7, <1>2 DEF FitsAt
  <2> DEFINE m == Min({h, r.latest})
             k == Min({calc, r.latest})
             p == Min({n, h})
  <2>2. Rows(r) = poolStats(r)
    BY <1>7 DEF Rows
  <2>3. PoolStatsHeight(r) = h /\ PoolStatsRange(r) = p
    <3>1. Max({1, h}) \in {1, h} /\ Max({1, h}) >= h /\ Max({1, h}) >= 1
      <4>1. 1 \in Int /\ h \in Int
        BY <1>2
      <4> HIDE DEF h
      <4> QED BY <4>1, MinOfTwo
    <3>2. Max({1, h}) = h
      BY <1>2, <2>1, <3>1
    <3> QED BY <1>2, <1>3, <2>1, <3>2 DEF PoolStatsHeight, PoolStatsRange
  <2>4. Rows(r) = {x \in 1..calc : x > h - p /\ x <= m}
    BY <1>1, <2>2, <2>3, RowsFound DEF poolStats, Window
  <2>5. /\ m \in {h, r.latest} /\ m <= h /\ m <= r.latest
        /\ k \in {calc, r.latest} /\ k <= calc /\ k <= r.latest
        /\ p \in {n, h} /\ p <= n /\ p <= h
    <3>1. h \in Int /\ n \in Int /\ r.latest \in Int /\ calc \in Int
      BY <1>1, <1>2
    <3>2. m \in {h, r.latest} /\ m <= h /\ m <= r.latest
      BY <3>1, MinOfTwo
    <3>3. k \in {calc, r.latest} /\ k <= calc /\ k <= r.latest
      BY <3>1, MinOfTwo
    <3>4. p \in {n, h} /\ p <= n /\ p <= h
      BY <3>1, MinOfTwo
    <3> QED BY <3>2, <3>3, <3>4
  <2> HIDE DEF m, k, p
  <2>6. k \in 0..tip /\ Rows(r) = {x \in 1..k : x > h - n /\ x <= h}
    BY <1>1, <1>2, <2>4, <2>5
  <2> QED BY <2>6 DEF Span
<1>8. CASE url.route = "pool/blocks"
  <2>1. SUFFICES ASSUME h > 0
                 PROVE  Cardinality(Rows(r)) <= n /\ Rows(r) \subseteq Won \cap 1..h
    BY <1>8, <1>2 DEF FitsAt
  <2> DEFINE S == {x \in Won : x <= h}
  <2>2. Rows(r) = Newest(n, S)
    BY <1>2, <1>3, <1>8, <2>1, WonFound DEF Rows, poolBlocks
  <2>3. S \subseteq Nat /\ S \subseteq 1..h /\ S \in SUBSET (1..tip)
    <3>1. \A x \in S : x \in 1..tip /\ x <= h
      BY <1>1
    <3>2. \A x \in S : x \in Nat /\ x \in 1..h
      BY <1>1, <1>2, <3>1
    <3> QED BY <3>1, <3>2
  <2>4. IsFiniteSet(S)
    BY <1>1, <2>3, FS_Interval, FS_Subset
  <2> QED BY <1>2, <2>2, <2>3, <2>4, NewestFew
<1>9. CASE url.route = "worker/stats"
  <2>1. Rows(r) \subseteq {x \in 1..calc : x > h - n /\ x <= h}
    BY <1>1, <1>2, <1>9, RowsFound DEF Rows, workerStats, Window
  <2>2. Rows(r) \subseteq Span(url, tip)
    BY <1>1, <2>1 DEF Span
  <2> QED BY <1>9, <2>2 DEF FitsAt
<1>10. CASE url.route = "worker/shares"
  <2>1. Rows(r) \subseteq {x \in 1..work : x > h - n /\ x <= h}
    BY <1>1, <1>2, <1>10, RowsFound DEF Rows, workerShares, Window
  <2>2. Rows(r) \subseteq Span(url, tip)
    BY <1>1, <2>1 DEF Span
  <2> QED BY <1>10, <2>2 DEF FitsAt
<1>11. CASE url.route = "worker/rigs"
  <2>1. Rows(r) \subseteq (h - n)..h
    BY <1>2, <1>11 DEF Rows, workerRigs
  <2> QED BY <1>11, <2>1 DEF FitsAt
<1>12. CASE url.route = "mugle/block/:height"
  <2>1. Rows(r) \subseteq {h}
    BY <1>12 DEF Rows, networkBlockAt
  <2> QED BY <1>12, <2>1 DEF FitsAt
<1>13. CASE url.route = "mugle/stats/:height"
  <2>1. h > 0 => Rows(r) \subseteq {h}
    BY <1>2, <1>3, <1>13 DEF Rows, networkStatsAt
  <2> QED BY <1>13, <2>1 DEF FitsAt
<1>14. CASE url.route \in {"pool/block", "worker/stat", "worker/utxo", "worker/payment",
                           "worker/payments"}
  BY <1>14 DEF FitsAt
<1> QED BY <1>4, <1>5, <1>6, <1>7, <1>8, <1>9, <1>10, <1>11, <1>12, <1>13, <1>14 DEF QueryRoutes

-----------------------------------------------------------------------------
(* What a step must see to                                                 *)

(* What a handler must see to, in the cache and of the requests.           *)
CacheAfter == \A key \in DOMAIN cache' : EntryAt(key, cache'[key], tip, Won)
RequestsAfter ==
    /\ req' = [p \in Slots |-> req'[p]]
    /\ \A p \in Slots : RequestAt(req'[p], tip, Won)
EndsAfter == \A e \in out' : EndAt(e, tip, Won)

(* It may leave the cache alone.                                           *)
LEMMA SameCache ==
  ASSUME CacheInv, UNCHANGED cache
  PROVE  CacheAfter
BY DEF CacheInv, CacheAfter

(* Or store entries that fit, whatever expires with it.                    *)
LEMMA StoreFits ==
  ASSUME CacheInv, NEW entries,
         \A i \in DOMAIN entries : EntryAt(entries[i].key, entries[i].value, tip, Won),
         Store(entries)
  PROVE  CacheAfter
<1> DEFINE new == {entries[i].key : i \in DOMAIN entries}
           all == new \cup DOMAIN cache
           from(k) == CHOOSE i \in DOMAIN entries : entries[i].key = k
<1>1. PICK keys \in kSubset(Min({MaxCached, Cardinality(all)}), all) :
         cache' = [k \in keys |-> IF k \in new THEN entries[from(k)].value ELSE cache[k]]
  BY DEF Store
<1>2. keys \subseteq all
  BY <1>1 DEF kSubset
<1>3. ASSUME NEW k \in new PROVE EntryAt(k, entries[from(k)].value, tip, Won)
  <2>1. \E i \in DOMAIN entries : entries[i].key = k
    OBVIOUS
  <2>2. from(k) \in DOMAIN entries /\ entries[from(k)].key = k
    BY <2>1
  <2> QED BY <2>2
<1>4. ASSUME NEW k \in keys, k \notin new PROVE EntryAt(k, cache[k], tip, Won)
  BY <1>2, <1>4 DEF CacheInv
<1>5. DOMAIN cache' = keys
  BY <1>1
<1>6. ASSUME NEW k \in keys PROVE EntryAt(k, cache'[k], tip, Won)
  <2>1. cache'[k] = IF k \in new THEN entries[from(k)].value ELSE cache[k]
    BY <1>1
  <2> HIDE DEF new, from
  <2>2. CASE k \in new
    BY <1>3, <2>1, <2>2
  <2>3. CASE k \notin new
    BY <1>4, <2>1, <2>3
  <2> QED BY <2>2, <2>3
<1> QED BY <1>5, <1>6 DEF CacheAfter

(* One entry that fits.                                                    *)
LEMMA StoreOne ==
  ASSUME CacheInv, NEW key, NEW value, EntryAt(key, value, tip, Won),
         Store(<<Entry(key, value)>>)
  PROVE  CacheAfter
<1> DEFINE entries == <<Entry(key, value)>>
<1>1. \A i \in DOMAIN entries : entries[i].key = key /\ entries[i].value = value
  BY DEF Entry
<1>2. \A i \in DOMAIN entries : EntryAt(entries[i].key, entries[i].value, tip, Won)
  BY <1>1
<1> HIDE DEF entries
<1>3. Store(entries)
  BY DEF entries
<1> QED BY <1>2, <1>3, StoreFits

(* What the handler of mugle/block relies on at a stage: nothing is put in *)
(* the place of its query, and the newest height is known before it.       *)
BlockStep(stage, stages, latest) ==
    /\ stage # "query"
    /\ stage = "lookup" => stages = <<>>
    /\ stage = "latest" => stages = <<"maxHeight">> \/ (stages = <<>> /\ latest >= 1)
    /\ stage = "maxHeight" => stages = <<>> /\ latest >= 1

(* Two stages.                                                             *)
LEMMA OneAndOne ==
  ASSUME NEW a, NEW b
  PROVE  <<a>> \o <<b>> = <<a, b>>
<1>1. <<a>> \in Seq({a, b}) /\ <<b>> \in Seq({a, b}) /\ <<a, b>> \in Seq({a, b})
  OBVIOUS
<1>2. Len(<<a>>) = 1 /\ Len(<<b>>) = 1 /\ Len(<<a, b>>) = 2
  OBVIOUS
<1>3. Len(<<a>> \o <<b>>) = 2 /\ (<<a>> \o <<b>>)[1] = a /\ (<<a>> \o <<b>>)[2] = b
  BY <1>1, <1>2
<1>4. <<a>> \o <<b>> \in Seq({a, b})
  BY <1>1
<1>5. \A i \in 1..Len(<<a>> \o <<b>>) : (<<a>> \o <<b>>)[i] = <<a, b>>[i]
  <2>1. \A i \in 1..2 : i = 1 \/ i = 2
    OBVIOUS
  <2> QED BY <1>3, <2>1
<1>6. Len(<<a>> \o <<b>>) = Len(<<a, b>>)
  BY <1>2, <1>3
<1> QED BY <1>1, <1>4, <1>5, <1>6, SeqEqual

(* Stages of a URL put in the place of the first one left.                 *)
LEMMA MoreStages ==
  ASSUME NEW S, NEW s \in Seq(S), NEW t \in Seq(S), t # <<>>
  PROVE  s \o Tail(t) \in Seq(S)
<1>1. Tail(t) \in Seq(S)
  OBVIOUS
<1> QED BY <1>1

(* The handler of mugle/block stays with its plan.                         *)
LEMMA BlockOn ==
  ASSUME NEW todo \in BlockPlans, NEW stages, NEW latest,
         BlockStep(Head(todo), stages, latest)
  PROVE  /\ stages \o Tail(todo) \in BlockPlans
         /\ stages \o Tail(todo) = <<"query">> => latest >= 1
<1>1. CASE todo = <<"lookup", "latest", "query">>
  <2>1. Head(todo) = "lookup" /\ stages = <<>> /\ Tail(todo) = <<"latest", "query">>
    BY <1>1 DEF BlockStep
  <2>2. stages \o Tail(todo) = <<"latest", "query">>
    BY <2>1
  <2>3. <<"latest", "query">> # <<"query">>
    OBVIOUS
  <2> QED BY <2>2, <2>3 DEF BlockPlans
<1>2. CASE todo = <<"latest", "query">>
  <2>1. /\ Tail(todo) = <<"query">>
        /\ stages = <<"maxHeight">> \/ (stages = <<>> /\ latest >= 1)
    BY <1>2 DEF BlockStep
  <2>2. stages = <<"maxHeight">> => stages \o Tail(todo) = <<"maxHeight", "query">>
    <3>1. <<"maxHeight">> \o <<"query">> = <<"maxHeight", "query">>
      BY OneAndOne
    <3> QED BY <2>1, <3>1
  <2>3. stages = <<>> => stages \o Tail(todo) = <<"query">>
    BY <2>1
  <2>4. <<"maxHeight", "query">> # <<"query">>
    OBVIOUS
  <2> QED BY <2>1, <2>2, <2>3, <2>4 DEF BlockPlans
<1>3. CASE todo = <<"maxHeight", "query">>
  <2>1. Tail(todo) = <<"query">> /\ stages = <<>> /\ latest >= 1
    BY <1>3 DEF BlockStep
  <2>2. stages \o Tail(todo) = <<"query">>
    BY <2>1
  <2> QED BY <2>1, <2>2 DEF BlockPlans
<1>4. CASE todo = <<"query">>
  BY <1>4 DEF BlockStep
<1> QED BY <1>1, <1>2, <1>3, <1>4 DEF BlockPlans

(* A handler that goes on, with what it has learned, is in order.          *)
LEMMA OnFits ==
  ASSUME WorldInv, RequestsInv, NEW q \in Slots, NEW stage, At(q, stage),
         NEW r \in Request(tip), r.url = req[q].url, r.todo = req[q].todo, Holds(r, Won),
         NEW stages \in Seq(StagesOf(Url(q))), BlockStep(stage, stages, r.latest),
         GoesOnTo(q, r, stages)
  PROVE  RequestsAfter /\ EndsAfter
<1>1. /\ Url(q) = req[q].url /\ Url(q) \in Asks /\ req[q].todo \in Seq(StagesOf(Url(q)))
      /\ req[q].todo # <<>> /\ Head(req[q].todo) = stage
      /\ Url(q).route = "mugle/block" => req[q].todo \in BlockPlans
  BY AtFacts
<1> DEFINE todo == stages \o Tail(req[q].todo)
           n == [r EXCEPT !.todo = todo]
<1>2. todo \in Seq(StagesOf(Url(q)))
  BY <1>1, MoreStages
<1>3. todo \in Seq(StageNames)
  BY <1>2, NamedStages
<1>4. n \in Request(tip)
  BY <1>3 DEF Request
<1>5. /\ n.url = Url(q) /\ n.todo = todo /\ n.latest = r.latest
      /\ Holds(n, Won)
  BY <1>1 DEF Request, Holds
<1>6. Url(q).route = "mugle/block" =>
         todo \in BlockPlans /\ (todo = <<"query">> => r.latest >= 1)
  BY <1>1, BlockOn
<1>7. Plan(n.url, n.todo, n.latest)
  <2> HIDE DEF todo, n
  <2> QED BY <1>1, <1>2, <1>5, <1>6 DEF Plan
<1>8. RequestAt(n, tip, Won)
  BY <1>4, <1>5, <1>7 DEF RequestAt
<1>9. req' = [req EXCEPT ![q] = n] /\ out' = {}
  BY DEF GoesOnTo
<1> HIDE DEF n
<1>10. RequestsAfter
  BY <1>8, <1>9 DEF RequestsInv, RequestsAfter
<1> QED BY <1>9, <1>10 DEF EndsAfter

(* It goes on as it is.                                                    *)
LEMMA SameFits ==
  ASSUME WorldInv, RequestsInv, NEW q \in Slots, NEW stage, At(q, stage),
         NEW stages \in Seq(StagesOf(Url(q))), BlockStep(stage, stages, req[q].latest),
         GoesOnTo(q, req[q], stages)
  PROVE  RequestsAfter /\ EndsAfter
<1>1. req[q] \in Request(tip) /\ Holds(req[q], Won)
  BY AtFacts DEF RequestAt
<1> QED BY <1>1, OnFits

(* Or goes on to its next stage.                                           *)
LEMMA NextFits ==
  ASSUME WorldInv, RequestsInv, NEW q \in Slots, NEW stage, At(q, stage),
         stage \notin {"query", "latest", "maxHeight"}, GoesOn(q, req[q])
  PROVE  RequestsAfter /\ EndsAfter
<1>1. <<>> \in Seq(StagesOf(Url(q)))
  OBVIOUS
<1>2. BlockStep(stage, <<>>, req[q].latest)
  BY DEF BlockStep
<1> QED BY <1>1, <1>2, SameFits DEF GoesOn

(* A request that ends with an answer that fits is in order.               *)
LEMMA EndsFit ==
  ASSUME WorldInv, RequestsInv, NEW q \in Slots, Pending(q), NEW status \in Int, NEW data,
         Ends(q, status, data),
         status = 200 /\ Url(q).token \in {"own", "public"} =>
            FitsAt(Url(q), data, tip, Won),
         Url(q).route \in {"estimate", "estimate/:height"} => data \subseteq Rewards(tip)
  PROVE  RequestsAfter /\ EndsAfter
<1>1. RequestAt(req[q], tip, Won) /\ Url(q) = req[q].url
  BY DEF RequestsInv, Url
<1>2. req' = [req EXCEPT ![q] = Idle] /\ out' = {Ended(q, status, data)}
  BY DEF Ends
<1>3. RequestsAfter
  <2>1. tip \in Nat
    BY BoundAssumption DEF WorldInv, Height
  <2>2. RequestAt(Idle, tip, Won)
    BY <2>1, IdleFits
  <2> QED BY <1>2, <2>2 DEF RequestsInv, RequestsAfter
<1>4. EndAt(Ended(q, status, data), tip, Won)
  <2> DEFINE e == Ended(q, status, data)
  <2>1. /\ e.url = Url(q) /\ e.status = status /\ e.data = data
        /\ e.answers = req[q].answers + (IF status > 0 THEN 1 ELSE 0)
    BY <1>1 DEF Ended
  <2>2. e.answers <= 1 \/ e.url.route = "estimate/:height"
    BY <1>1, <2>1 DEF RequestAt, Holds
  <2> HIDE DEF e
  <2> QED BY <2>1, <2>2 DEF EndAt, e
<1> QED BY <1>2, <1>3, <1>4 DEF EndsAfter

(* An answer without data.                                                 *)
LEMMA PlainFits ==
  ASSUME WorldInv, RequestsInv, NEW q \in Slots, Pending(q), NEW status \in Int,
         Ends(q, status, {}),
         status = 200 => \/ Url(q).token \notin {"own", "public"}
                         \/ Url(q).route \in {"login", "create", "payment/http", "estimate",
                                              "estimate/:height"}
  PROVE  RequestsAfter /\ EndsAfter
<1>1. Url(q).route \in {"login", "create", "payment/http", "estimate", "estimate/:height"} =>
         FitsAt(Url(q), {}, tip, Won)
  BY DEF FitsAt
<1>2. {} \subseteq Rewards(tip)
  OBVIOUS
<1> QED BY <1>1, <1>2, EndsFit

(* When the process dies, every request ends without an answer.            *)
LEMMA DiesFits ==
  ASSUME WorldInv, RequestsInv, Dies
  PROVE  RequestsAfter /\ EndsAfter
<1>1. /\ req' = [p \in Slots |-> Idle]
      /\ out' = {Ended(p, -1, {}) : p \in {x \in Slots : Pending(x)}}
  BY DEF Dies
<1>2. RequestsAfter
  <2>1. tip \in Nat
    BY BoundAssumption DEF WorldInv, Height
  <2> QED BY <1>1, <2>1, IdleFits DEF RequestsAfter
<1>3. ASSUME NEW p \in Slots PROVE EndAt(Ended(p, -1, {}), tip, Won)
  <2>1. RequestAt(req[p], tip, Won)
    BY DEF RequestsInv
  <2>2. req[p].answers \in 0..1
    BY <2>1 DEF RequestAt, Request
  <2> QED BY <2>2 DEF EndAt, Ended
<1> QED BY <1>1, <1>2, <1>3 DEF EndsAfter

(* An error that nobody catches leaves the rest in order.                  *)
LEMMA UncaughtFits ==
  ASSUME WorldInv, RequestsInv, NEW q \in Slots, Pending(q), Uncaught(q)
  PROVE  RequestsAfter /\ EndsAfter
<1>1. CASE Breaks(q)
  <2>1. -1 \in Int /\ -1 # 200
    OBVIOUS
  <2> QED BY <1>1, <2>1, PlainFits DEF Breaks
<1>2. CASE Dies
  BY <1>2, DiesFits
<1> QED BY <1>1, <1>2 DEF Uncaught

-----------------------------------------------------------------------------
(* The steps of the handlers                                               *)

(* What each step of a handler leaves behind.                              *)
Handled ==
    /\ CacheAfter /\ RequestsAfter /\ EndsAfter
    /\ UNCHANGED Env /\ failures' = failures /\ accounts' \subseteq Names

(* A step that stores nothing.                                             *)
LEMMA Unstored ==
  ASSUME QueryInv, RequestsAfter /\ EndsAfter, UNCHANGED <<Env, accounts, cache, failures>>
  PROVE  Handled
<1>1. CacheAfter
  BY SameCache DEF QueryInv
<1> QED BY <1>1 DEF Handled, QueryInv, WorldInv

(* A step that stores something.                                           *)
LEMMA Stored ==
  ASSUME QueryInv, RequestsAfter /\ EndsAfter, CacheAfter,
         UNCHANGED <<Env, accounts, failures>>
  PROVE  Handled
BY DEF Handled, QueryInv, WorldInv

(* What is cached fits its key.                                            *)
LEMMA CachedFits ==
  ASSUME QueryInv, NEW key \in DOMAIN cache
  PROVE  EntryAt(key, cache[key], tip, Won)
BY DEF QueryInv, CacheInv

(* CacheMiddleware answers with what is cached for the same key.           *)
LEMMA LookupKeeps ==
  ASSUME QueryInv, NEW q \in Slots, CacheMiddleware(q)
  PROVE  Handled
<1> DEFINE key == KeyOf(Url(q))
<1>1. /\ At(q, "lookup") /\ Pending(q) /\ WorldInv /\ RequestsInv
      /\ UNCHANGED <<Env, accounts, cache, failures>>
  BY DEF CacheMiddleware, At, QueryInv
<1>2. CASE GoesOn(q, req[q])
  <2>1. "lookup" \notin {"query", "latest", "maxHeight"}
    OBVIOUS
  <2>2. RequestsAfter /\ EndsAfter
    BY <1>1, <1>2, <2>1, NextFits
  <2> QED BY <1>1, <2>2, Unstored
<1>3. CASE key \in DOMAIN cache /\ Answers(q, 200, cache[key])
  <2>1. EntryAt(key, cache[key], tip, Won)
    BY <1>3, CachedFits
  <2>2. /\ FitsAt(Url(q), cache[key], tip, Won) /\ key.route = Url(q).route
    BY <2>1, KeyFits DEF EntryAt
  <2>3. Url(q).route \in {"estimate", "estimate/:height"} => cache[key] \subseteq Rewards(tip)
    BY <2>1, <2>2 DEF EntryAt
  <2>4. Ends(q, 200, cache[key]) /\ 200 \in Int
    BY <1>3 DEF Answers
  <2> HIDE DEF key
  <2>5. RequestsAfter /\ EndsAfter
    BY <1>1, <2>2, <2>3, <2>4, EndsFit
  <2> QED BY <1>1, <2>5, Unstored
<1>4. CASE Uncaught(q)
  BY <1>1, <1>4, UncaughtFits, Unstored
<1> QED BY <1>2, <1>3, <1>4 DEF CacheMiddleware

(* The checks of the token and the unknown route.                          *)
LEMMA TokenKeeps ==
  ASSUME QueryInv, NEW q \in Slots, BearerMiddleware(q) \/ checkAuth(q) \/ NotFound(q)
  PROVE  Handled
<1>1. WorldInv /\ RequestsInv /\ UNCHANGED <<Env, accounts, cache, failures>> /\ Pending(q)
  BY DEF QueryInv, BearerMiddleware, checkAuth, NotFound, At
<1>2. PICK stage \in {"bearer", "auth", "notFound"} : At(q, stage)
  BY DEF BearerMiddleware, checkAuth, NotFound
<1>3. CASE GoesOn(q, req[q])
  <2>1. stage \notin {"query", "latest", "maxHeight"}
    OBVIOUS
  <2>2. RequestsAfter /\ EndsAfter
    BY <1>1, <1>2, <1>3, <2>1, NextFits
  <2> QED BY <1>1, <2>2, Unstored
<1>4. CASE Url(q).token = "other" /\ Answers(q, 200, {})
  <2>1. /\ Ends(q, 200, {}) /\ 200 \in Int /\ Url(q).token \notin {"own", "public"}
    BY <1>4 DEF Answers
  <2>2. RequestsAfter /\ EndsAfter
    BY <1>1, <2>1, PlainFits
  <2> QED BY <1>1, <2>2, Unstored
<1>5. CASE \E status \in {401, 403, 404} : Answers(q, status, {})
  <2>1. PICK status \in {401, 403, 404} : Ends(q, status, {})
    BY <1>5 DEF Answers
  <2>2. status \in Int /\ status # 200
    OBVIOUS
  <2>3. RequestsAfter /\ EndsAfter
    BY <1>1, <2>1, <2>2, PlainFits
  <2> QED BY <1>1, <2>3, Unstored
<1>6. BearerMiddleware(q) => Answers(q, 403, {}) \/ GoesOn(q, req[q])
  BY DEF BearerMiddleware
<1>7. checkAuth(q) => \/ GoesOn(q, req[q]) \/ Answers(q, 401, {})
                      \/ (Url(q).token = "other" /\ Answers(q, 200, {}))
  BY DEF checkAuth
<1>8. NotFound(q) => Answers(q, 404, {})
  BY DEF NotFound
<1> QED BY <1>3, <1>4, <1>5, <1>6, <1>7, <1>8

(* sanitizeHeight takes the newest block from the cache, or asks.          *)
LEMMA SanitizeKeeps ==
  ASSUME QueryInv, NEW q \in Slots, sanitizeHeight(q)
  PROVE  Handled
<1> DEFINE r == req[q]
<1>1. /\ At(q, "sanitize") /\ Pending(q) /\ WorldInv /\ RequestsInv
      /\ UNCHANGED <<Env, accounts, cache, failures>>
  BY DEF sanitizeHeight, At, QueryInv
<1>2. /\ RequestAt(r, tip, Won) /\ Url(q) = r.url /\ Url(q) \in Asks
  BY <1>1, AtFacts
<1>3. CASE GoesOn(q, r)
  <2>1. "sanitize" \notin {"query", "latest", "maxHeight"}
    OBVIOUS
  <2>2. RequestsAfter /\ EndsAfter
    BY <1>1, <1>3, <2>1, NextFits
  <2> QED BY <1>1, <2>2, Unstored
<1>4. CASE Uncaught(q)
  BY <1>1, <1>4, UncaughtFits, Unstored
<1>5. CASE /\ Url(q).height < 1 /\ BlockKey \in DOMAIN cache
           /\ GoesOn(q, [r EXCEPT !.block = CHOOSE h \in cache[BlockKey] : TRUE])
  <2> DEFINE b == CHOOSE h \in cache[BlockKey] : TRUE
             n == [r EXCEPT !.block = b]
  <2>1. EntryAt(BlockKey, cache[BlockKey], tip, Won) /\ BlockKey.route = "mugle/block"
    BY <1>5, CachedFits DEF BlockKey, Key
  <2>2. PICK h \in 1..tip : cache[BlockKey] = {h}
    BY <2>1 DEF EntryAt, FitsAt
  <2>3. b \in 0..tip
    <3>0. \E x : x \in cache[BlockKey]
      BY <2>2
    <3>1. b \in cache[BlockKey]
      BY <3>0, Zenon
    <3> QED BY <2>2, <3>1, <1>1, BoundAssumption DEF WorldInv, Height
  <2> HIDE DEF b
  <2>4. r \in Request(tip) /\ Holds(r, Won) /\ Url(q).height \in Int
    BY <1>2 DEF RequestAt, Asks, URLs
  <2>5. n \in Request(tip)
    BY <2>3, <2>4 DEF Request
  <2>6. n.url = r.url /\ n.todo = r.todo /\ Holds(n, Won)
    BY <1>2, <1>5, <2>4 DEF Request, Holds
  <2>7. <<>> \in Seq(StagesOf(Url(q))) /\ BlockStep("sanitize", <<>>, n.latest)
    BY DEF BlockStep
  <2>8. GoesOnTo(q, n, <<>>)
    BY <1>5 DEF GoesOn, b
  <2> HIDE DEF n
  <2>9. RequestsAfter /\ EndsAfter
    BY <1>1, <2>5, <2>6, <2>7, <2>8, OnFits
  <2> QED BY <1>1, <2>9, Unstored
<1>6. CASE Url(q).height < 1 /\ GoesOnTo(q, r, <<"firstBlock">>)
  <2>1. "firstBlock" \in StagesOf(Url(q))
    BY <1>6 DEF StagesOf
  <2>2. /\ <<"firstBlock">> \in Seq(StagesOf(Url(q)))
        /\ BlockStep("sanitize", <<"firstBlock">>, r.latest)
    BY <2>1 DEF BlockStep
  <2>3. RequestsAfter /\ EndsAfter
    BY <1>1, <1>6, <2>2, SameFits
  <2> QED BY <1>1, <2>3, Unstored
<1>7. Url(q).height \in Int
  BY <1>2 DEF Asks, URLs
<1>8. \/ GoesOn(q, r) \/ Uncaught(q)
      \/ /\ Url(q).height < 1 /\ BlockKey \in DOMAIN cache
         /\ GoesOn(q, [r EXCEPT !.block = CHOOSE h \in cache[BlockKey] : TRUE])
      \/ Url(q).height < 1 /\ GoesOnTo(q, r, <<"firstBlock">>)
  <2>1. CASE Url(q).height >= 1
    BY <2>1, <1>7 DEF sanitizeHeight
  <2>2. CASE Url(q).height < 1 /\ BlockKey \in DOMAIN cache
    <3>1. ~(Url(q).height >= 1)
      BY <2>2, <1>7
    <3> QED BY <2>2, <3>1 DEF sanitizeHeight
  <2>3. CASE Url(q).height < 1 /\ BlockKey \notin DOMAIN cache
    <3>1. ~(Url(q).height >= 1)
      BY <2>3, <1>7
    <3> QED BY <2>3, <3>1 DEF sanitizeHeight
  <2> QED BY <1>7, <2>1, <2>2, <2>3
<1> HIDE DEF r
<1> QED BY <1>3, <1>4, <1>5, <1>6, <1>8

(* The first block, where nothing is cached.                               *)
LEMMA FirstKeeps ==
  ASSUME QueryInv, NEW q \in Slots, FirstBlock(q)
  PROVE  Handled
<1> DEFINE r == req[q]
<1>1. /\ At(q, "firstBlock") /\ WorldInv /\ RequestsInv
      /\ UNCHANGED <<Env, accounts, cache, failures>>
  BY DEF FirstBlock, QueryInv
<1>2. /\ RequestAt(r, tip, Won) /\ Url(q) = r.url /\ Url(q) \in Asks
      /\ "firstBlock" \in StagesOf(Url(q))
  BY <1>1, AtFacts
<1>3. PICK h \in 1..tip : GoesOn(q, [r EXCEPT !.height = h])
  BY DEF FirstBlock, blocks
<1> DEFINE n == [r EXCEPT !.height = h]
<1>4. h \in 0..tip
  BY <1>1, BoundAssumption DEF WorldInv, Height
<1>5. Url(q).height < 1 /\ Url(q).height \in Int
  BY <1>2 DEF StagesOf, QueryRoutes, Asks, URLs
<1>6. r \in Request(tip) /\ Holds(r, Won)
  BY <1>2 DEF RequestAt
<1>7. n \in Request(tip)
  BY <1>4, <1>6 DEF Request
<1>8. n.url = r.url /\ n.todo = r.todo /\ Holds(n, Won)
  BY <1>2, <1>5, <1>6 DEF Request, Holds
<1>9. <<>> \in Seq(StagesOf(Url(q))) /\ BlockStep("firstBlock", <<>>, n.latest)
  BY DEF BlockStep
<1>10. GoesOnTo(q, n, <<>>)
  BY <1>3 DEF GoesOn
<1> HIDE DEF n
<1>11. RequestsAfter /\ EndsAfter
  BY <1>1, <1>7, <1>8, <1>9, <1>10, OnFits
<1> QED BY <1>1, <1>11, Unstored

(* The cached height of the newest block is that of a block.               *)
LEMMA LatestKeeps ==
  ASSUME QueryInv, NEW q \in Slots, getLatestNetworkBlockHeight(q)
  PROVE  Handled
<1> DEFINE r == req[q]
<1>1. /\ At(q, "latest") /\ Pending(q) /\ WorldInv /\ RequestsInv
      /\ UNCHANGED <<Env, accounts, cache, failures>>
  BY DEF getLatestNetworkBlockHeight, At, QueryInv
<1>2. /\ RequestAt(r, tip, Won) /\ Url(q) = r.url /\ Url(q) \in Asks
  BY <1>1, AtFacts
<1>3. CASE /\ MaxHeightKey \in DOMAIN cache
           /\ GoesOn(q, [r EXCEPT !.latest = CHOOSE h \in cache[MaxHeightKey] : TRUE])
  <2> DEFINE b == CHOOSE h \in cache[MaxHeightKey] : TRUE
             n == [r EXCEPT !.latest = b]
  <2>1. /\ EntryAt(MaxHeightKey, cache[MaxHeightKey], tip, Won)
        /\ MaxHeightKey.route = "max_network_block_height"
    BY <1>3, CachedFits DEF MaxHeightKey, Key
  <2>2. PICK h \in 1..tip : cache[MaxHeightKey] = {h}
    BY <2>1 DEF EntryAt
  <2>3. b \in 0..tip /\ b >= 1
    <3>1. \E x : x \in cache[MaxHeightKey]
      BY <2>2
    <3>2. b \in cache[MaxHeightKey]
      BY <3>1, Zenon
    <3> QED BY <2>2, <3>2, <1>1, BoundAssumption DEF WorldInv, Height
  <2> HIDE DEF b
  <2>4. r \in Request(tip) /\ Holds(r, Won)
    BY <1>2 DEF RequestAt
  <2>5. n \in Request(tip)
    BY <2>3, <2>4 DEF Request
  <2>6. n.url = r.url /\ n.todo = r.todo /\ Holds(n, Won) /\ n.latest = b
    BY <2>4 DEF Request, Holds
  <2>7. <<>> \in Seq(StagesOf(Url(q))) /\ BlockStep("latest", <<>>, n.latest)
    BY <2>3, <2>6 DEF BlockStep
  <2>8. GoesOnTo(q, n, <<>>)
    BY <1>3 DEF GoesOn, b
  <2> HIDE DEF n
  <2>9. RequestsAfter /\ EndsAfter
    BY <1>1, <2>5, <2>6, <2>7, <2>8, OnFits
  <2> QED BY <1>1, <2>9, Unstored
<1>4. CASE GoesOnTo(q, r, <<"maxHeight">>)
  <2>1. "maxHeight" \in StagesOf(Url(q))
    BY DEF StagesOf
  <2>2. /\ <<"maxHeight">> \in Seq(StagesOf(Url(q)))
        /\ BlockStep("latest", <<"maxHeight">>, r.latest)
    BY <2>1 DEF BlockStep
  <2>3. RequestsAfter /\ EndsAfter
    BY <1>1, <1>4, <2>2, SameFits
  <2> QED BY <1>1, <2>3, Unstored
<1> QED BY <1>3, <1>4 DEF getLatestNetworkBlockHeight

(* The height of the newest block is cached.                               *)
LEMMA MaxHeightKeeps ==
  ASSUME QueryInv, NEW q \in Slots, MaxHeight(q)
  PROVE  Handled
<1> DEFINE n == [req[q] EXCEPT !.latest = tip]
<1>1. /\ At(q, "maxHeight") /\ WorldInv /\ RequestsInv /\ CacheInv
      /\ UNCHANGED <<Env, accounts, failures>>
      /\ GoesOnTo(q, n, <<>>) /\ Store(<<Entry(MaxHeightKey, {tip})>>)
  BY DEF MaxHeight, QueryInv, GoesOn
<1>2. req[q] \in Request(tip) /\ Holds(req[q], Won)
  BY <1>1, AtFacts DEF RequestAt
<1>3. tip \in 0..tip /\ tip \in 1..tip /\ tip >= 1
  BY <1>1, BoundAssumption DEF WorldInv, Height
<1>4. n \in Request(tip)
  BY <1>2, <1>3 DEF Request
<1>5. n.url = req[q].url /\ n.todo = req[q].todo /\ Holds(n, Won) /\ n.latest = tip
  BY <1>2 DEF Request, Holds
<1>6. <<>> \in Seq(StagesOf(Url(q))) /\ BlockStep("maxHeight", <<>>, n.latest)
  BY <1>3, <1>5 DEF BlockStep
<1> HIDE DEF n
<1>7. RequestsAfter /\ EndsAfter
  BY <1>1, <1>4, <1>5, <1>6, OnFits
<1>8. EntryAt(MaxHeightKey, {tip}, tip, Won)
  <2>1. /\ MaxHeightKey.route = "max_network_block_height" /\ MaxHeightKey.height = 0
        /\ MaxHeightKey.id = Nobody
    BY DEF MaxHeightKey, Key
  <2>2. FitsAt(MaxHeightKey, {tip}, tip, Won)
    BY <2>1 DEF FitsAt
  <2> QED BY <1>3, <2>1, <2>2, BoundAssumption DEF EntryAt
<1>9. CacheAfter
  BY <1>1, <1>8, StoreOne
<1> QED BY <1>1, <1>7, <1>9, Stored

(* The height of the pool's newest block.                                  *)
LEMMA MaxPoolKeeps ==
  ASSUME QueryInv, NEW q \in Slots, getLatestPoolBlockHeight(q)
  PROVE  Handled
<1> DEFINE m == Max({0} \cup {b.height : b \in pool_blocks})
           n == [req[q] EXCEPT !.latest = m]
<1>1. /\ At(q, "maxPool") /\ WorldInv /\ RequestsInv
      /\ UNCHANGED <<Env, accounts, cache, failures>> /\ GoesOnTo(q, n, <<>>)
  BY DEF getLatestPoolBlockHeight, QueryInv, GoesOn
<1>2. req[q] \in Request(tip) /\ Holds(req[q], Won)
  BY <1>1, AtFacts DEF RequestAt
<1>3. tip \in Nat /\ Won \subseteq 1..tip
  BY <1>1, BoundAssumption DEF WorldInv, Height
<1>4. m \in 0..tip
  <2> DEFINE S == {0} \cup {b.height : b \in pool_blocks}
  <2>1. {b.height : b \in pool_blocks} \subseteq Won
    BY <1>1, WonFound DEF HeightsIn
  <2>2. S \subseteq 0..tip /\ S # {}
    <3>1. 1..tip \subseteq 0..tip /\ 0 \in 0..tip
      BY <1>3
    <3> QED BY <1>3, <2>1, <3>1
  <2> HIDE DEF S
  <2>3. Max(S) \in S
    BY <1>3, <2>2, MaxOfSome
  <2> QED BY <2>2, <2>3 DEF S
<1> HIDE DEF m
<1>5. n \in Request(tip)
  BY <1>2, <1>4 DEF Request
<1>6. n.url = req[q].url /\ n.todo = req[q].todo /\ Holds(n, Won)
  BY <1>2 DEF Request, Holds
<1>7. <<>> \in Seq(StagesOf(Url(q))) /\ BlockStep("maxPool", <<>>, n.latest)
  BY DEF BlockStep
<1> HIDE DEF n
<1>8. RequestsAfter /\ EndsAfter
  BY <1>1, <1>5, <1>6, <1>7, OnFits
<1> QED BY <1>1, <1>8, Unstored

(* An answer may be kept for its URL.                                      *)
LEMMA UrlEntryFits ==
  ASSUME NEW url \in Asks, NEW data, FitsAt(url, data, tip, Won),
         url.route \in {"estimate", "estimate/:height"} => data \subseteq Rewards(tip)
  PROVE  EntryAt(KeyOf(url), data, tip, Won)
<1>1. /\ FitsAt(KeyOf(url), data, tip, Won)
      /\ KeyOf(url).route = url.route /\ KeyOf(url).id = url.id
      /\ KeyOf(url).height = url.height
  BY KeyFits
<1>2. /\ url.height \in Int /\ url.height <= MaxTip /\ url.id \in Names \cup {Nobody}
      /\ url.route \in Routes
  BY DEF Asks, URLs
<1>3. url.route \notin {"max_network_block_height", "user_shares_weights", "estimated_reward"}
  BY <1>2 DEF Routes, Own
<1> QED BY <1>1, <1>2, <1>3 DEF EntryAt

(* A query is answered and the answer cached.                              *)
LEMMA QueryKeeps ==
  ASSUME QueryInv, NEW q \in Slots, Query(q)
  PROVE  Handled
<1> DEFINE r == req[q]
<1>1. /\ At(q, "query") /\ Pending(q) /\ WorldInv /\ RequestsInv /\ CacheInv
      /\ UNCHANGED <<Env, accounts, failures>>
  BY DEF Query, At, QueryInv
<1>2. /\ RequestAt(r, tip, Won) /\ Url(q) = r.url /\ Url(q) \in Asks
      /\ "query" \in StagesOf(Url(q)) /\ r.todo # <<>> /\ Head(r.todo) = "query"
      /\ Url(q).route = "mugle/block" => r.todo \in BlockPlans
  BY <1>1, AtFacts
<1>3. r.url.route \in QueryRoutes
  BY <1>2 DEF StagesOf
<1>4. CASE Answers(q, 400, {}) /\ UNCHANGED cache
  <2>1. Ends(q, 400, {}) /\ 400 \in Int /\ 400 # 200
    BY <1>4 DEF Answers
  <2>2. RequestsAfter /\ EndsAfter
    BY <1>1, <2>1, PlainFits
  <2> QED BY <1>1, <1>4, <2>2, Unstored
<1>5. CASE /\ Answers(q, 200, Rows(r))
           /\ UNCHANGED cache \/ Store(<<Entry(KeyOf(r.url), Rows(r))>>)
  <2>1. r.url.route = "mugle/block" => r.latest >= 1
    <3>1. SUFFICES ASSUME r.url.route = "mugle/block" PROVE r.latest >= 1
      OBVIOUS
    <3>2. r.todo \in BlockPlans /\ Head(r.todo) = "query"
      BY <1>2, <3>1
    <3>3. r.todo = <<"query">>
      BY <3>2 DEF BlockPlans
    <3> QED BY <1>2, <3>1, <3>3 DEF RequestAt, Plan
  <2>2. FitsAt(r.url, Rows(r), tip, Won)
    <3> HIDE DEF r
    <3> QED BY <1>1, <1>2, <1>3, <2>1, QueryFits
  <2>3. r.url.route \notin {"estimate", "estimate/:height"}
    BY <1>3 DEF QueryRoutes
  <2> DEFINE data == Rows(r)
  <2>4. Ends(q, 200, data) /\ 200 \in Int
    BY <1>5 DEF Answers
  <2> HIDE DEF data
  <2>5. RequestsAfter /\ EndsAfter
    BY <1>1, <1>2, <2>2, <2>3, <2>4, EndsFit DEF data
  <2>6. EntryAt(KeyOf(r.url), data, tip, Won)
    BY <1>2, <2>2, <2>3, UrlEntryFits DEF data
  <2>7. CacheAfter
    <3>1. CASE UNCHANGED cache
      BY <1>1, <3>1, SameCache
    <3>2. CASE Store(<<Entry(KeyOf(r.url), data)>>)
      BY <1>1, <2>6, <3>2, StoreOne
    <3> QED BY <1>5, <3>1, <3>2 DEF data
  <2> QED BY <1>1, <2>5, <2>7, Stored
<1> QED BY <1>4, <1>5 DEF Query

-----------------------------------------------------------------------------
(* The estimate and the balance                                            *)

(* The route of the estimate of one block.                                 *)
OneBlock == "estimate/:height"

(* Its stages are of no other route.                                       *)
LEMMA OneBlockStages ==
  ASSUME QueryInv, NEW q \in Slots,
         NEW stage \in {"reward", "newBlock", "poolWeights", "poolShares", "userWeights",
                        "userShares"}, At(q, stage)
  PROVE  /\ Url(q).route = OneBlock /\ Url(q) \in Asks /\ Url(q) = req[q].url /\ Pending(q)
         /\ req[q] \in Request(tip) /\ Holds(req[q], Won)
         /\ \A next \in {"reward", "newBlock", "poolWeights", "poolShares", "userWeights",
                         "userShares"} : <<next>> \in Seq(StagesOf(Url(q)))
         /\ \A stages, n : BlockStep(stage, stages, n)
<1>1. /\ RequestAt(req[q], tip, Won) /\ Url(q) = req[q].url /\ Url(q) \in Asks
      /\ stage \in StagesOf(Url(q)) /\ Pending(q)
  BY AtFacts DEF QueryInv, At
<1>2. Url(q).route = OneBlock
  BY <1>1 DEF StagesOf, QueryRoutes, OneBlock
<1>3. {"reward", "newBlock", "poolWeights", "poolShares", "userWeights", "userShares"}
         \subseteq StagesOf(Url(q))
  BY <1>2 DEF StagesOf, OneBlock
<1>4. \A next \in {"reward", "newBlock", "poolWeights", "poolShares", "userWeights",
                   "userShares"} : <<next>> \in Seq(StagesOf(Url(q)))
  BY <1>3
<1>5. \A stages, n : BlockStep(stage, stages, n)
  BY DEF BlockStep
<1> QED BY <1>1, <1>2, <1>4, <1>5 DEF RequestAt

(* The stages of the balance are of no other route.                        *)
LEMMA BalanceStages ==
  ASSUME QueryInv, NEW q \in Slots,
         NEW stage \in {"newBlocks", "poolRows", "userRows", "balance"}, At(q, stage)
  PROVE  /\ Url(q).route = "estimate" /\ Url(q) \in Asks /\ Url(q) = req[q].url /\ Pending(q)
         /\ req[q] \in Request(tip) /\ Holds(req[q], Won)
         /\ {"newBlocks", "poolRows", "userRows", "balance"} \subseteq StagesOf(Url(q))
         /\ \A stages, n : BlockStep(stage, stages, n)
<1>1. /\ RequestAt(req[q], tip, Won) /\ Url(q) = req[q].url /\ Url(q) \in Asks
      /\ stage \in StagesOf(Url(q)) /\ Pending(q)
  BY AtFacts DEF QueryInv, At
<1>2. Url(q).route = "estimate"
  BY <1>1 DEF StagesOf, QueryRoutes
<1>3. {"newBlocks", "poolRows", "userRows", "balance"} \subseteq StagesOf(Url(q))
  BY <1>2 DEF StagesOf
<1>4. \A stages, n : BlockStep(stage, stages, n)
  BY DEF BlockStep
<1> QED BY <1>1, <1>2, <1>3, <1>4 DEF RequestAt

(* Entries that may be stored.                                             *)
Storable(S) == \A x \in S : EntryAt(x.key, x.value, tip, Won)

(* A promise resolves with a reward that fits, and stores entries with it. *)
LEMMA ResolvesFits ==
  ASSUME QueryInv, NEW q \in Slots, Pending(q), Url(q) \in Asks, NEW data,
         FitsAt(Url(q), data, tip, Won), data \subseteq Rewards(tip),
         NEW S, Storable(S), NEW entries \in Seq(S),
         Resolves(q, data, entries), UNCHANGED <<Env, accounts, failures>>
  PROVE  Handled
<1> DEFINE x == Entry(KeyOf(Url(q)), data)
           T == S \cup {x}
           all == <<x>> \o entries
<1>1. EntryAt(KeyOf(Url(q)), data, tip, Won)
  BY UrlEntryFits
<1>2. x.key = KeyOf(Url(q)) /\ x.value = data
  BY DEF Entry
<1>3. Storable(T)
  BY <1>1, <1>2 DEF Storable
<1>4. Store(all) /\ Ends(q, 200, data)
  BY DEF Resolves, Answers
<1> HIDE DEF x
<1>5. <<x>> \in Seq(T) /\ entries \in Seq(T)
  OBVIOUS
<1>6. all \in Seq(T)
  BY <1>5
<1> HIDE DEF T, all
<1>7. \A i \in DOMAIN all : all[i] \in T
  BY <1>6
<1>8. \A i \in DOMAIN all : EntryAt(all[i].key, all[i].value, tip, Won)
  BY <1>3, <1>7 DEF Storable
<1>9. WorldInv /\ RequestsInv /\ CacheInv /\ 200 \in Int
  BY DEF QueryInv
<1>10. CacheAfter
  BY <1>4, <1>8, <1>9, StoreFits
<1>11. RequestsAfter /\ EndsAfter
  BY <1>4, <1>9, EndsFit
<1> QED BY <1>10, <1>11, Stored

(* A cached reward is that of the height asked for.                        *)
LEMMA CachedRewardKeeps ==
  ASSUME QueryInv, NEW q \in Slots, CachedReward(q)
  PROVE  Handled
<1> DEFINE key == RewardKey(Url(q))
<1>1. At(q, "reward") /\ UNCHANGED <<Env, accounts, failures>> /\ WorldInv /\ RequestsInv
  BY DEF CachedReward, QueryInv
<1>2. /\ Url(q).route = OneBlock /\ Url(q) \in Asks /\ Pending(q)
      /\ <<"newBlock">> \in Seq(StagesOf(Url(q)))
      /\ BlockStep("reward", <<"newBlock">>, req[q].latest)
  BY <1>1, OneBlockStages
<1>3. CASE key \in DOMAIN cache /\ Resolves(q, cache[key], <<>>)
  <2>1. EntryAt(key, cache[key], tip, Won)
    BY <1>3, CachedFits
  <2>2. key.route = "estimated_reward" /\ key.height = Url(q).height
    BY DEF RewardKey, Key
  <2>3. cache[key] \subseteq Rewards(tip) /\ \A r \in cache[key] : r.height = Url(q).height
    BY <2>1, <2>2 DEF EntryAt
  <2>4. FitsAt(Url(q), cache[key], tip, Won)
    BY <1>2, <2>3 DEF FitsAt, OneBlock
  <2>5. Storable({}) /\ <<>> \in Seq({})
    BY DEF Storable
  <2> DEFINE data == cache[key]
  <2>6. Resolves(q, data, <<>>)
    BY <1>3
  <2> HIDE DEF data, key
  <2> QED BY <1>1, <1>2, <2>3, <2>4, <2>5, <2>6, ResolvesFits DEF data
<1>4. CASE GoesOnTo(q, req[q], <<"newBlock">>) /\ UNCHANGED cache
  <2>1. RequestsAfter /\ EndsAfter
    BY <1>1, <1>2, <1>4, SameFits
  <2> QED BY <1>1, <1>4, <2>1, Unstored
<1> QED BY <1>3, <1>4 DEF CachedReward

(* Without such a pool block, the answer 0 is made before the end.         *)
LEMMA NewBlockKeeps ==
  ASSUME QueryInv, NEW q \in Slots, NewBlock(q)
  PROVE  Handled
<1>1. /\ At(q, "newBlock") /\ WorldInv /\ RequestsInv
      /\ UNCHANGED <<Env, accounts, cache, failures>>
  BY DEF NewBlock, QueryInv
<1>2. /\ Url(q).route = OneBlock /\ Url(q) \in Asks /\ Url(q) = req[q].url
      /\ req[q] \in Request(tip) /\ Holds(req[q], Won)
      /\ <<"poolWeights">> \in Seq(StagesOf(Url(q)))
  BY <1>1, OneBlockStages
<1>3. PICK next \in {req[q], [req[q] EXCEPT !.answers = 1]} :
         req' = [req EXCEPT ![q] = [next EXCEPT !.todo = <<"poolWeights">>]]
  BY DEF NewBlock
<1> DEFINE n == [next EXCEPT !.todo = <<"poolWeights">>]
<1>4. <<"poolWeights">> \in Seq(StageNames)
  BY <1>2, NamedStages
<1>5. next \in Request(tip) /\ next.url = Url(q) /\ Holds(next, Won)
  BY <1>2 DEF Request, Holds, OneBlock
<1>6. n \in Request(tip)
  BY <1>4, <1>5 DEF Request
<1>7. n.url = Url(q) /\ n.todo = <<"poolWeights">> /\ Holds(n, Won)
  BY <1>5 DEF Request, Holds
<1>8. Plan(n.url, n.todo, n.latest)
  BY <1>2, <1>7 DEF Plan, OneBlock
<1>9. RequestAt(n, tip, Won)
  BY <1>6, <1>7, <1>8 DEF RequestAt
<1>10. RequestsAfter
  <2> HIDE DEF n
  <2>1. req' = [req EXCEPT ![q] = n]
    BY <1>3 DEF n
  <2> QED BY <1>1, <1>9, <2>1 DEF RequestsInv, RequestsAfter
<1>11. EndsAfter
  <2>1. out' \subseteq {Ended(q, 200, {})}
    BY DEF NewBlock
  <2>2. FitsAt(Url(q), {}, tip, Won)
    BY <1>2 DEF FitsAt, OneBlock
  <2>3. EndAt(Ended(q, 200, {}), tip, Won)
    BY <1>2, <2>2 DEF EndAt, Ended, OneBlock
  <2> QED BY <2>1, <2>3 DEF EndsAfter
<1> QED BY <1>1, <1>10, <1>11, Unstored

(* The pool's weights, cached or not.                                      *)
LEMMA PoolWeightsKeeps ==
  ASSUME QueryInv, NEW q \in Slots, PoolWeights(q)
  PROVE  Handled
<1>1. /\ At(q, "poolWeights") /\ WorldInv /\ RequestsInv
      /\ UNCHANGED <<Env, accounts, cache, failures>>
  BY DEF PoolWeights, QueryInv
<1>2. /\ Pending(q) /\ <<"poolShares">> \in Seq(StagesOf(Url(q)))
      /\ BlockStep("poolWeights", <<"poolShares">>, req[q].latest)
  BY <1>1, OneBlockStages
<1>3. CASE Hangs(q)
  <2>1. Ends(q, 0, {}) /\ 0 \in Int /\ 0 # 200
    BY <1>3 DEF Hangs
  <2>2. RequestsAfter /\ EndsAfter
    BY <1>1, <1>2, <2>1, PlainFits
  <2> QED BY <1>1, <2>2, Unstored
<1>4. CASE GoesOnTo(q, req[q], <<"poolShares">>)
  <2>1. RequestsAfter /\ EndsAfter
    BY <1>1, <1>2, <1>4, SameFits
  <2> QED BY <1>1, <2>1, Unstored
<1> QED BY <1>3, <1>4 DEF PoolWeights

(* The pool's weights are cached for all miners.                           *)
LEMMA PoolSharesKeeps ==
  ASSUME QueryInv, NEW q \in Slots, PoolSharesQuery(q)
  PROVE  Handled
<1> DEFINE n == [req[q] EXCEPT !.pool = calc]
           key == PoolWeightsKey(Url(q))
<1>1. /\ At(q, "poolShares") /\ WorldInv /\ RequestsInv /\ CacheInv
      /\ UNCHANGED <<Env, accounts, failures>>
      /\ GoesOnTo(q, n, <<"userWeights">>) /\ Store(<<Entry(key, {calc})>>)
  BY DEF PoolSharesQuery, QueryInv
<1>2. /\ Url(q) \in Asks /\ Url(q) = req[q].url /\ <<"userWeights">> \in Seq(StagesOf(Url(q)))
      /\ req[q] \in Request(tip) /\ Holds(req[q], Won)
      /\ BlockStep("poolShares", <<"userWeights">>, n.latest)
  BY <1>1, OneBlockStages
<1>3. calc \in 0..tip
  BY <1>1 DEF WorldInv
<1>4. n \in Request(tip)
  BY <1>2, <1>3 DEF Request
<1>5. n.url = req[q].url /\ n.todo = req[q].todo /\ Holds(n, Won)
  BY <1>2 DEF Request, Holds
<1> HIDE DEF n
<1>6. RequestsAfter /\ EndsAfter
  BY <1>1, <1>2, <1>4, <1>5, OnFits
<1>7. EntryAt(key, {calc}, tip, Won)
  <2>1. /\ key.route = "pool_shares_weights" /\ key.height = Url(q).height
        /\ key.id = Nobody
    BY DEF PoolWeightsKey, Key
  <2>2. FitsAt(key, {calc}, tip, Won)
    BY <2>1 DEF FitsAt
  <2>3. Url(q).height \in Int /\ Url(q).height <= MaxTip
    BY <1>2 DEF Asks, URLs
  <2> QED BY <2>1, <2>2, <2>3 DEF EntryAt
<1> HIDE DEF key
<1>8. CacheAfter
  BY <1>1, <1>7, StoreOne
<1> QED BY <1>1, <1>6, <1>8, Stored

(* The miner's weights, and a reward worked out from them, may be kept.    *)
LEMMA WeightsFit ==
  ASSUME NEW url \in Asks, NEW seen \in 0..tip
  PROVE  EntryAt(UserWeightsKey(url), {seen}, tip, Won)
<1>1. /\ UserWeightsKey(url).route = "user_shares_weights"
      /\ UserWeightsKey(url).height = url.height /\ UserWeightsKey(url).id = url.id
  BY DEF UserWeightsKey, Key
<1>2. FitsAt(UserWeightsKey(url), {seen}, tip, Won)
  BY <1>1 DEF FitsAt
<1>3. url.height \in Int /\ url.height <= MaxTip /\ url.id \in Names \cup {Nobody}
  BY DEF Asks, URLs
<1> QED BY <1>1, <1>2, <1>3 DEF EntryAt

(* The reward worked out from the pool's weights and the miner's.          *)
LEMMA ConcludesFits ==
  ASSUME QueryInv, NEW q \in Slots, NEW stage \in {"userWeights", "userShares"}, At(q, stage),
         NEW user \in 0..tip, NEW S, Storable(S), NEW entries \in Seq(S),
         Concludes(q, user, entries), UNCHANGED <<Env, accounts, failures>>
  PROVE  Handled
<1> DEFINE url == Url(q)
           reward == Reward(url.height, req[q].pool, user)
           x == Entry(RewardKey(url), {reward})
<1>1. /\ Url(q).route = OneBlock /\ Url(q) \in Asks /\ Url(q) = req[q].url /\ Pending(q)
      /\ req[q] \in Request(tip)
  BY OneBlockStages
<1>2. CASE Resolves(q, {}, entries)
  <2>1. FitsAt(Url(q), {}, tip, Won) /\ {} \subseteq Rewards(tip)
    BY <1>1 DEF FitsAt, OneBlock
  <2> QED BY <1>1, <1>2, <2>1, ResolvesFits
<1>3. CASE Resolves(q, {reward}, <<x>> \o entries)
  <2>1. url.height \in Int /\ url.height <= MaxTip /\ url.id \in Names \cup {Nobody}
    BY <1>1 DEF Asks, URLs
  <2>2. reward \in Rewards(tip) /\ reward.height = url.height
    BY <1>1, <2>1 DEF Reward, Rewards, Request
  <2> DEFINE key == RewardKey(url)
             data == {reward}
  <2>3. key.route = "estimated_reward" /\ key.height = url.height /\ key.id = url.id
    BY DEF RewardKey, Key
  <2>4. data \subseteq Rewards(tip) /\ \A r \in data : r.height = url.height
    BY <2>2
  <2>5. FitsAt(url, data, tip, Won)
    BY <1>1, <2>4 DEF FitsAt, OneBlock
  <2>6. FitsAt(key, data, tip, Won)
    BY <2>3 DEF FitsAt
  <2>7. EntryAt(key, data, tip, Won)
    BY <2>1, <2>3, <2>4, <2>6 DEF EntryAt
  <2>8. x.key = key /\ x.value = data
    BY DEF Entry
  <2> DEFINE T == S \cup {x}
             more == <<x>> \o entries
  <2> HIDE DEF key, data, x
  <2>9. Storable(T)
    BY <2>7, <2>8 DEF Storable
  <2>10. <<x>> \in Seq(T) /\ entries \in Seq(T)
    OBVIOUS
  <2>11. more \in Seq(T)
    BY <2>10
  <2>12. Resolves(q, data, more)
    BY <1>3 DEF data
  <2> HIDE DEF T, more, reward
  <2> QED BY <1>1, <2>4, <2>5, <2>9, <2>11, <2>12, ResolvesFits
<1> QED BY <1>2, <1>3 DEF Concludes

(* The miner's weights, cached or not.                                     *)
LEMMA UserWeightsKeeps ==
  ASSUME QueryInv, NEW q \in Slots, UserWeights(q)
  PROVE  Handled
<1> DEFINE key == UserWeightsKey(Url(q))
           seen == CHOOSE x \in cache[key] : TRUE
<1>1. At(q, "userWeights") /\ UNCHANGED <<Env, accounts, failures>> /\ WorldInv /\ RequestsInv
  BY DEF UserWeights, QueryInv
<1>2. /\ <<"userShares">> \in Seq(StagesOf(Url(q)))
      /\ BlockStep("userWeights", <<"userShares">>, req[q].latest)
  BY <1>1, OneBlockStages
<1>3. CASE key \in DOMAIN cache /\ Concludes(q, seen, <<>>)
  <2>1. EntryAt(key, cache[key], tip, Won)
    BY <1>3, CachedFits
  <2>2. key.route = "user_shares_weights"
    BY DEF UserWeightsKey, Key
  <2>3. PICK h \in 0..tip : cache[key] = {h}
    BY <2>1, <2>2 DEF EntryAt
  <2>4. \E x : x \in cache[key]
    BY <2>3
  <2>5. seen \in cache[key]
    BY <2>4, Zenon
  <2>6. seen \in 0..tip
    BY <2>3, <2>5
  <2>7. Storable({}) /\ <<>> \in Seq({})
    BY DEF Storable
  <2>8. Concludes(q, seen, <<>>)
    BY <1>3
  <2> HIDE DEF seen
  <2> QED BY <1>1, <2>6, <2>7, <2>8, ConcludesFits
<1>4. CASE GoesOnTo(q, req[q], <<"userShares">>) /\ UNCHANGED cache
  <2>1. RequestsAfter /\ EndsAfter
    BY <1>1, <1>2, <1>4, SameFits
  <2> QED BY <1>1, <1>4, <2>1, Unstored
<1> QED BY <1>3, <1>4 DEF UserWeights

(* The miner's weights are cached with the reward.                         *)
LEMMA UserSharesKeeps ==
  ASSUME QueryInv, NEW q \in Slots, UserSharesQuery(q)
  PROVE  Handled
<1> DEFINE x == Entry(UserWeightsKey(Url(q)), {work})
<1>1. /\ At(q, "userShares") /\ UNCHANGED <<Env, accounts, failures>>
      /\ Concludes(q, work, <<x>>) /\ work \in 0..tip
  BY DEF UserSharesQuery, QueryInv, WorldInv
<1>2. Url(q) \in Asks
  BY <1>1, OneBlockStages
<1>3. EntryAt(UserWeightsKey(Url(q)), {work}, tip, Won)
  BY <1>1, <1>2, WeightsFit
<1>4. Storable({x}) /\ <<x>> \in Seq({x})
  BY <1>3 DEF Storable, Entry
<1> HIDE DEF x
<1> QED BY <1>1, <1>4, ConcludesFits

(* The balance begins with the new blocks of the pool.                     *)
LEMMA NewBlocksKeeps ==
  ASSUME QueryInv, NEW q \in Slots, NewBlocks(q)
  PROVE  Handled
<1> DEFINE mined == HeightsIn({b \in pool_blocks : b.state = "new"})
           n == [req[q] EXCEPT !.mined = mined]
<1>1. /\ At(q, "newBlocks") /\ WorldInv /\ RequestsInv
      /\ UNCHANGED <<Env, accounts, cache, failures>>
  BY DEF NewBlocks, QueryInv
<1>2. /\ Url(q).route = "estimate" /\ Url(q) = req[q].url /\ Pending(q)
      /\ req[q] \in Request(tip) /\ Holds(req[q], Won)
      /\ {"newBlocks", "poolRows", "userRows", "balance"} \subseteq StagesOf(Url(q))
      /\ \A stages, k : BlockStep("newBlocks", stages, k)
  BY <1>1, BalanceStages
<1>3. CASE Answers(q, 200, {})
  <2>1. Ends(q, 200, {}) /\ 200 \in Int
    BY <1>3 DEF Answers
  <2>2. RequestsAfter /\ EndsAfter
    BY <1>1, <1>2, <2>1, PlainFits
  <2> QED BY <1>1, <2>2, Unstored
<1>4. CASE \E order \in {<<"poolRows", "userRows">>, <<"userRows", "poolRows">>} :
              GoesOnTo(q, n, order \o <<"balance">>)
  <2>1. PICK order \in {<<"poolRows", "userRows">>, <<"userRows", "poolRows">>} :
              GoesOnTo(q, n, order \o <<"balance">>)
    BY <1>4
  <2> DEFINE stages == order \o <<"balance">>
  <2>2. order \in Seq(StagesOf(Url(q))) /\ <<"balance">> \in Seq(StagesOf(Url(q)))
    <3>1. /\ "poolRows" \in StagesOf(Url(q)) /\ "userRows" \in StagesOf(Url(q))
          /\ "balance" \in StagesOf(Url(q))
      BY <1>2
    <3> QED BY <3>1, SomeStages
  <2>3. stages \in Seq(StagesOf(Url(q)))
    BY <2>2
  <2>4. mined \subseteq Won /\ mined \subseteq 1..tip
    BY <1>1, WonFound DEF WorldInv
  <2> HIDE DEF mined
  <2>5. n \in Request(tip)
    BY <1>2, <2>4 DEF Request
  <2>6. n.url = req[q].url /\ n.todo = req[q].todo /\ Holds(n, Won)
    BY <1>2, <2>4 DEF Request, Holds
  <2>7. BlockStep("newBlocks", stages, n.latest)
    BY <1>2
  <2> HIDE DEF n, stages
  <2>8. GoesOnTo(q, n, stages)
    BY <2>1 DEF stages
  <2>9. RequestsAfter /\ EndsAfter
    BY <1>1, <2>3, <2>5, <2>6, <2>7, <2>8, OnFits
  <2> QED BY <1>1, <2>9, Unstored
<1> QED BY <1>3, <1>4 DEF NewBlocks

(* Its two queries, in either order.                                       *)
LEMMA RowsKeep ==
  ASSUME QueryInv, NEW q \in Slots, PoolRows(q) \/ UserRows(q)
  PROVE  Handled
<1>1. WorldInv /\ RequestsInv /\ UNCHANGED <<Env, accounts, cache, failures>>
  BY DEF PoolRows, UserRows, QueryInv
<1>2. PICK stage \in {"poolRows", "userRows"},
           n \in {[req[q] EXCEPT !.pool = calc], [req[q] EXCEPT !.user = work]} :
         At(q, stage) /\ GoesOnTo(q, n, <<>>)
  BY DEF PoolRows, UserRows, GoesOn
<1>3. /\ req[q] \in Request(tip) /\ Holds(req[q], Won) /\ BlockStep(stage, <<>>, n.latest)
  BY <1>2, BalanceStages
<1>4. calc \in 0..tip /\ work \in 0..tip
  BY <1>1 DEF WorldInv
<1>5. n \in Request(tip)
  BY <1>3, <1>4 DEF Request
<1>6. n.url = req[q].url /\ n.todo = req[q].todo /\ Holds(n, Won)
  BY <1>3 DEF Request, Holds
<1>7. <<>> \in Seq(StagesOf(Url(q)))
  OBVIOUS
<1>8. RequestsAfter /\ EndsAfter
  BY <1>1, <1>2, <1>3, <1>5, <1>6, <1>7, OnFits
<1> QED BY <1>1, <1>8, Unstored

(* It is answered and cached.                                              *)
LEMMA BalanceKeeps ==
  ASSUME QueryInv, NEW q \in Slots, Balance(q)
  PROVE  Handled
<1> DEFINE data == {Reward(h, req[q].pool, req[q].user) : h \in req[q].mined}
<1>1. /\ At(q, "balance") /\ WorldInv /\ RequestsInv
      /\ UNCHANGED <<Env, accounts, failures>> /\ Resolves(q, data, <<>>)
  BY DEF Balance, QueryInv
<1>2. /\ Url(q).route = "estimate" /\ Url(q) \in Asks /\ Pending(q)
      /\ req[q] \in Request(tip) /\ Holds(req[q], Won)
  BY <1>1, BalanceStages
<1>3. \A h \in req[q].mined : h \in Won /\ h \in Int
  BY <1>2 DEF Request, Holds
<1>4. data \subseteq Rewards(tip) /\ \A r \in data : r.height \in Won
  BY <1>2, <1>3 DEF Reward, Rewards, Request
<1>5. FitsAt(Url(q), data, tip, Won)
  BY <1>2, <1>4 DEF FitsAt
<1>6. Storable({}) /\ <<>> \in Seq({})
  BY DEF Storable
<1> HIDE DEF data
<1> QED BY <1>1, <1>2, <1>4, <1>5, <1>6, ResolvesFits

-----------------------------------------------------------------------------
(* Accounts, requests and failures                                         *)

(* Answers without data, and a route that goes on as it is.                *)
LEMMA AccountKeeps ==
  ASSUME QueryInv, NEW q \in Slots,
         Login(q) \/ Verified(q) \/ FindName(q) \/ Script(q) \/ Forward(q)
  PROVE  Handled
<1>1. WorldInv /\ RequestsInv /\ UNCHANGED <<Env, accounts, cache, failures>>
  BY DEF QueryInv, Login, Verified, FindName, Script, Forward
<1>2. PICK stage \in {"login", "verified", "findName", "script", "forward"} :
         /\ At(q, stage)
         /\ \/ GoesOn(q, req[q])
            \/ \E status \in {401, 403, 409} : Answers(q, status, {})
            \/ stage \in {"login", "verified", "forward"} /\ Answers(q, 200, {})
            \/ stage = "login" /\ GoesOnTo(q, req[q], <<"script", "verified">>)
  BY DEF Login, Verified, FindName, Script, Forward
<1>3. /\ stage \in StagesOf(Url(q)) /\ Pending(q)
  BY <1>1, <1>2, AtFacts DEF At
<1>4. stage \notin {"query", "latest", "maxHeight"}
  OBVIOUS
<1>5. CASE GoesOn(q, req[q])
  <2>1. RequestsAfter /\ EndsAfter
    BY <1>1, <1>2, <1>4, <1>5, NextFits
  <2> QED BY <1>1, <2>1, Unstored
<1>6. CASE \E status \in {401, 403, 409} : Answers(q, status, {})
  <2>1. PICK status \in {401, 403, 409} : Ends(q, status, {})
    BY <1>6 DEF Answers
  <2>2. status \in Int /\ status # 200
    OBVIOUS
  <2>3. RequestsAfter /\ EndsAfter
    BY <1>1, <1>3, <2>1, <2>2, PlainFits
  <2> QED BY <1>1, <2>3, Unstored
<1>7. CASE stage \in {"login", "verified", "forward"} /\ Answers(q, 200, {})
  <2>1. Url(q).route \in {"login", "payment/http"}
    BY <1>3, <1>7 DEF StagesOf, QueryRoutes
  <2>2. Ends(q, 200, {}) /\ 200 \in Int
    BY <1>7 DEF Answers
  <2>3. RequestsAfter /\ EndsAfter
    BY <1>1, <1>3, <2>1, <2>2, PlainFits
  <2> QED BY <1>1, <2>3, Unstored
<1>8. CASE stage = "login" /\ GoesOnTo(q, req[q], <<"script", "verified">>)
  <2>1. "script" \in StagesOf(Url(q)) /\ "verified" \in StagesOf(Url(q))
    BY <1>3, <1>8 DEF StagesOf, QueryRoutes
  <2>2. <<"script", "verified">> \in Seq(StagesOf(Url(q)))
    BY <2>1, SomeStages
  <2>3. BlockStep(stage, <<"script", "verified">>, req[q].latest)
    BY <1>8 DEF BlockStep
  <2>4. RequestsAfter /\ EndsAfter
    BY <1>1, <1>2, <1>8, <2>2, <2>3, SameFits
  <2> QED BY <1>1, <2>4, Unstored
<1> QED BY <1>2, <1>5, <1>6, <1>7, <1>8

(* An account is inserted.                                                 *)
LEMMA InsertKeeps ==
  ASSUME QueryInv, NEW q \in Slots, Insert(q)
  PROVE  Handled
<1>1. /\ At(q, "insert") /\ Pending(q) /\ WorldInv /\ RequestsInv /\ CacheInv
      /\ UNCHANGED <<Env, cache, failures>> /\ accounts' = accounts \cup {Url(q).id}
  BY DEF Insert, At, QueryInv
<1>2. Url(q) \in Asks /\ "insert" \in StagesOf(Url(q))
  BY <1>1, AtFacts
<1>3. Url(q).route = "create" /\ Url(q).id \in Names
  BY <1>2 DEF StagesOf, QueryRoutes, Asks
<1>4. PICK status \in {200, 500} : Ends(q, status, {})
  BY DEF Insert, Answers
<1>5. status \in Int
  OBVIOUS
<1>6. RequestsAfter /\ EndsAfter
  BY <1>1, <1>3, <1>4, <1>5, PlainFits
<1>7. CacheAfter
  BY <1>1, SameCache
<1> QED BY <1>1, <1>3, <1>6, <1>7 DEF Handled, WorldInv

(* Every step of a handler.                                                *)
LEMMA HandleKeeps ==
  ASSUME QueryInv, NEW q \in Slots, Handle(q)
  PROVE  Handled
BY LookupKeeps, TokenKeeps, SanitizeKeeps, FirstKeeps, LatestKeeps, MaxHeightKeeps,
   MaxPoolKeeps, QueryKeeps, CachedRewardKeeps, NewBlockKeeps, PoolWeightsKeeps,
   PoolSharesKeeps, UserWeightsKeeps, UserSharesKeeps, NewBlocksKeeps, RowsKeep,
   BalanceKeeps, AccountKeeps, InsertKeeps DEF Handle

(* A request is received.                                                  *)
LEMMA ReceiveKeeps ==
  ASSUME QueryInv, NEW q \in Slots, Receive(q)
  PROVE  Handled
<1>1. WorldInv /\ RequestsInv /\ UNCHANGED <<Env, accounts, cache, failures>> /\ out' = {}
  BY DEF QueryInv, Receive
<1>2. PICK url \in family.urls : req' = [req EXCEPT ![q] = Asked(url, Stages(url.route))]
  BY DEF Receive
<1> DEFINE r == Asked(url, Stages(url.route))
<1>3. url \in Asks
  <2>1. family \in Families
    BY <1>1 DEF WorldInv
  <2>2. /\ url \in URLs /\ url.height <= MaxTip /\ url.token \in Tokens(url.route)
        /\ url.route = "create" => url.id \in Names
    <3>1. /\ family.urls \subseteq URLs
          /\ \A u \in family.urls : /\ u.height <= MaxTip /\ u.token \in Tokens(u.route)
                                    /\ u.route = "create" => u.id \in Names
      BY <2>1, FamiliesAssumption, Zenon
    <3>2. url \in family.urls
      BY <1>2
    <3> QED BY <3>1, <3>2, Zenon
  <2> QED BY <2>2 DEF Asks
<1>4. /\ Stages(url.route) \in Seq(StagesOf(url))
      /\ url.route = "mugle/block" => Stages(url.route) = <<"lookup", "latest", "query">>
  BY <1>3, StagesFit
<1>5. tip \in Nat
  BY <1>1, BoundAssumption DEF WorldInv, Height
<1>6. Stages(url.route) \in Seq(StageNames)
  BY <1>4, NamedStages
<1>7. r \in Request(tip) /\ Holds(r, Won)
  BY <1>3, <1>5, <1>6 DEF Asked, Request, Holds
<1>8. r.url = url /\ r.todo = Stages(url.route) /\ r.latest = 0
  BY DEF Asked
<1>9. <<"lookup", "latest", "query">> # <<"query">>
  OBVIOUS
<1>10. Plan(r.url, r.todo, r.latest)
  <2> HIDE DEF r
  <2> QED BY <1>3, <1>4, <1>8, <1>9 DEF Plan, BlockPlans
<1>11. RequestAt(r, tip, Won)
  BY <1>7, <1>10 DEF RequestAt
<1> HIDE DEF r
<1>12. RequestsAfter
  BY <1>1, <1>2, <1>11 DEF RequestsInv, RequestsAfter, r
<1>13. EndsAfter
  BY <1>1 DEF EndsAfter
<1> QED BY <1>1, <1>12, <1>13, Unstored

(* What a failed dependency leaves behind.                                 *)
Broken ==
    /\ CacheAfter /\ RequestsAfter /\ EndsAfter
    /\ UNCHANGED <<Env, accounts>> /\ failures' \in 0..family.fails

(* A dependency fails.                                                     *)
LEMMA FailsKeeps ==
  ASSUME QueryInv, NEW q \in Slots, Fails(q)
  PROVE  Broken
<1> DEFINE stage == Head(req[q].todo)
<1>1. /\ WorldInv /\ RequestsInv /\ CacheInv /\ UNCHANGED <<Env, accounts, cache>>
      /\ Pending(q) /\ At(q, stage)
      /\ failures < family.fails /\ failures' = failures + 1
  BY DEF QueryInv, Fails, At
<1>2. failures' \in 0..family.fails
  <2>1. family.fails \in Nat /\ failures \in 0..family.fails
    BY <1>1, FamiliesAssumption DEF WorldInv
  <2> QED BY <1>1, <2>1
<1>3. CacheAfter
  BY <1>1, SameCache
<1>4. RequestsAfter /\ EndsAfter
  <2>1. CASE Answers(q, 500, {})
    <3>1. Ends(q, 500, {}) /\ 500 \in Int /\ 500 # 200
      BY <2>1 DEF Answers
    <3> QED BY <1>1, <3>1, PlainFits
  <2>2. CASE Uncaught(q)
    BY <1>1, <2>2, UncaughtFits
  <2>3. CASE stage = "lookup" /\ GoesOn(q, req[q])
    <3>1. At(q, "lookup") /\ "lookup" \notin {"query", "latest", "maxHeight"}
      BY <1>1, <2>3
    <3> QED BY <1>1, <2>3, <3>1, NextFits
  <2>4. CASE stage = "latest" /\ GoesOnTo(q, req[q], <<"maxHeight">>)
    <3>1. At(q, "latest") /\ "maxHeight" \in StagesOf(Url(q))
      BY <1>1, <2>4 DEF StagesOf
    <3>2. <<"maxHeight">> \in Seq(StagesOf(Url(q)))
      BY <3>1, SomeStages
    <3>3. BlockStep("latest", <<"maxHeight">>, req[q].latest)
      BY DEF BlockStep
    <3> QED BY <1>1, <2>4, <3>1, <3>2, <3>3, SameFits
  <2>5. CASE stage = "reward" /\ GoesOnTo(q, req[q], <<"newBlock">>)
    <3>1. At(q, "reward")
      BY <1>1, <2>5
    <3>2. /\ <<"newBlock">> \in Seq(StagesOf(Url(q)))
          /\ BlockStep("reward", <<"newBlock">>, req[q].latest)
      BY <3>1, OneBlockStages
    <3> QED BY <1>1, <2>5, <3>1, <3>2, SameFits
  <2>6. \/ Answers(q, 500, {}) \/ Uncaught(q)
        \/ stage = "lookup" /\ GoesOn(q, req[q])
        \/ stage = "latest" /\ GoesOnTo(q, req[q], <<"maxHeight">>)
        \/ stage = "reward" /\ GoesOnTo(q, req[q], <<"newBlock">>)
    BY DEF Fails, Uncaught
  <2> HIDE DEF stage
  <2> QED BY <2>1, <2>2, <2>3, <2>4, <2>5, <2>6
<1> QED BY <1>1, <1>2, <1>3, <1>4 DEF Broken

-----------------------------------------------------------------------------
(* The invariant holds                                                     *)

(* What is kept when the tables only grow.                                 *)
LEMMA LaterInv ==
  ASSUME WorldInv, CacheInv, RequestsInv, WorldInv', out' = {},
         tip <= tip', Won \subseteq Won',
         DOMAIN cache' \subseteq DOMAIN cache, \A k \in DOMAIN cache' : cache'[k] = cache[k],
         req' = req
  PROVE  QueryInv'
<1>1. tip \in Nat /\ tip' \in Nat
  BY BoundAssumption DEF WorldInv, Height
<1>2. CacheInv'
  <2>1. ASSUME NEW k \in DOMAIN cache' PROVE EntryAt(k, cache'[k], tip', Won')
    <3>1. EntryAt(k, cache[k], tip, Won) /\ cache'[k] = cache[k]
      BY <2>1 DEF CacheInv
    <3> DEFINE W == Won
               W2 == Won'
               t == tip
               t2 == tip'
               data == cache[k]
    <3>2. t \in Nat /\ t2 \in Nat /\ t <= t2 /\ W \subseteq W2 /\ EntryAt(k, data, t, W)
      BY <1>1, <3>1
    <3> HIDE DEF W, W2, t, t2, data
    <3>3. EntryAt(k, data, t2, W2)
      BY <3>2, EntryLater
    <3> QED BY <3>1, <3>3 DEF t2, W2, data
  <2> QED BY <2>1 DEF CacheInv
<1>3. RequestsInv'
  <2>1. ASSUME NEW q \in Slots PROVE RequestAt(req[q], tip', Won')
    <3>1. RequestAt(req[q], tip, Won)
      BY DEF RequestsInv
    <3> DEFINE W == Won
               W2 == Won'
               t == tip
               t2 == tip'
               r == req[q]
    <3>2. t \in Nat /\ t2 \in Nat /\ t <= t2 /\ W \subseteq W2 /\ RequestAt(r, t, W)
      BY <1>1, <3>1
    <3> HIDE DEF W, W2, t, t2, r
    <3>3. RequestAt(r, t2, W2)
      BY <3>2, RequestLater
    <3> QED BY <3>3 DEF t2, W2, r
  <2>2. req' = [q \in Slots |-> req'[q]]
    BY DEF RequestsInv
  <2> QED BY <2>1, <2>2 DEF RequestsInv
<1>4. EndsInv'
  BY DEF EndsInv
<1> QED BY <1>2, <1>3, <1>4 DEF QueryInv

(* What a step leaves behind is the invariant.                             *)
LEMMA AfterInv ==
  ASSUME QueryInv, CacheAfter, RequestsAfter, EndsAfter, UNCHANGED Env,
         failures' \in 0..family.fails, accounts' \subseteq Names
  PROVE  QueryInv'
<1>1. Won' = Won /\ tip' = tip
  BY DEF Won, Env
<1>2. WorldInv'
  BY <1>1 DEF QueryInv, WorldInv, Env
<1>3. CacheInv' /\ RequestsInv' /\ EndsInv'
  BY <1>1 DEF CacheInv, RequestsInv, EndsInv, CacheAfter, RequestsAfter, EndsAfter
<1> QED BY <1>2, <1>3 DEF QueryInv

(* It holds in the beginning.                                              *)
LEMMA InitInv == Init => QueryInv
<1> SUFFICES ASSUME Init PROVE QueryInv
  OBVIOUS
<1>0. MaxTip \in Nat /\ MaxTip >= 1
  BY BoundAssumption
<1>1. WorldInv
  <2>1. tip \in Height /\ calc \in 0..tip /\ work \in 0..tip
    BY <1>0 DEF Init, Height
  <2>2. won \in [Height -> {"none", "new", "unlocked"}] /\ Won = {}
    BY DEF Init, Won
  <2>3. family \in Families /\ failures = 0
    BY DEF Init
  <2>4. family.fails \in Nat
    BY <2>3, FamiliesAssumption
  <2>5. accounts \subseteq Names
    BY NamesAssumption DEF Init
  <2> QED BY <2>1, <2>2, <2>3, <2>4, <2>5 DEF WorldInv
<1>2. CacheInv
  BY DEF Init, CacheInv
<1>3. RequestsInv
  <2>1. tip \in Nat
    BY <1>0, <1>1 DEF WorldInv, Height
  <2> QED BY <2>1, IdleFits DEF Init, RequestsInv
<1>4. EndsInv
  BY DEF Init, EndsInv
<1> QED BY <1>1, <1>2, <1>3, <1>4 DEF QueryInv

(* The tables grow.                                                        *)
LEMMA JobsKeep ==
  ASSUME QueryInv, Jobs
  PROVE  QueryInv'
<1>0. MaxTip \in Nat
  BY BoundAssumption
<1>1. /\ WorldInv /\ CacheInv /\ RequestsInv /\ out' = {}
      /\ UNCHANGED <<accounts, cache, req, failures, family>>
  BY DEF Jobs, QueryInv
<1>a. tip \in Nat /\ calc \in Nat /\ work \in Nat /\ tip <= MaxTip
  BY <1>0, <1>1 DEF WorldInv, Height
<1>2. CASE tip < MaxTip /\ tip' = tip + 1 /\ UNCHANGED <<work, calc, won>>
  <2>1. tip' \in Height /\ calc' \in 0..tip' /\ work' \in 0..tip' /\ tip <= tip'
    BY <1>0, <1>1, <1>2, <1>a DEF WorldInv, Height
  <2>2. Won' = Won /\ Won' \subseteq 1..tip'
    <3>1. Won' = Won
      BY <1>2 DEF Won
    <3> QED BY <1>1, <2>1, <1>a, <3>1 DEF WorldInv, Height
  <2>3. WorldInv'
    BY <1>1, <1>2, <2>1, <2>2 DEF WorldInv
  <2> QED BY <1>1, <2>1, <2>2, <2>3, LaterInv
<1>3. CASE work < tip /\ work' = work + 1 /\ UNCHANGED <<tip, calc, won>>
  <2>1. Won' = Won
    BY <1>3 DEF Won
  <2>2. WorldInv' /\ tip <= tip'
    BY <1>1, <1>3, <1>a, <2>1 DEF WorldInv
  <2> QED BY <1>1, <2>1, <2>2, LaterInv
<1>4. CASE calc < tip /\ calc' = calc + 1 /\ UNCHANGED <<tip, work, won>>
  <2>1. Won' = Won
    BY <1>4 DEF Won
  <2>2. WorldInv' /\ tip <= tip'
    BY <1>1, <1>4, <1>a, <2>1 DEF WorldInv
  <2> QED BY <1>1, <2>1, <2>2, LaterInv
<1>5. CASE /\ \E h \in family.wins \cap 1..tip, s \in {"new", "unlocked"} :
                  won' = [won EXCEPT ![h] = s]
           /\ UNCHANGED <<tip, work, calc>>
  <2>1. PICK h \in family.wins \cap 1..tip, s \in {"new", "unlocked"} :
           won' = [won EXCEPT ![h] = s]
    BY <1>5
  <2>2. h \in Height /\ won \in [Height -> {"none", "new", "unlocked"}]
    BY <1>0, <1>1, <1>a DEF WorldInv, Height
  <2>3. won' \in [Height -> {"none", "new", "unlocked"}]
    BY <2>1, <2>2
  <2>4. Won' = Won \cup {h}
    BY <2>1, <2>2 DEF Won
  <2>5. WorldInv' /\ tip <= tip'
    <3>1. /\ tip' = tip /\ calc' = calc /\ work' = work /\ family' = family
          /\ failures' = failures /\ accounts' = accounts
      BY <1>1, <1>5
    <3>2. Won' \subseteq 1..tip'
      BY <1>1, <2>1, <2>4, <3>1 DEF WorldInv
    <3> QED BY <1>1, <1>a, <2>3, <3>1, <3>2 DEF WorldInv
  <2> QED BY <1>1, <2>4, <2>5, LaterInv
<1> QED BY <1>2, <1>3, <1>4, <1>5 DEF Jobs

(* An entry expires.                                                       *)
LEMMA ExpireKeeps ==
  ASSUME QueryInv, Expire
  PROVE  QueryInv'
<1>1. /\ WorldInv /\ CacheInv /\ RequestsInv /\ out' = {} /\ req' = req
      /\ UNCHANGED <<Env, accounts, failures>>
  BY DEF Expire, QueryInv
<1>2. Won' = Won /\ tip' = tip
  BY <1>1 DEF Won, Env
<1>3. WorldInv' /\ tip <= tip'
  BY <1>1, <1>2, BoundAssumption DEF WorldInv, Env, Height
<1>4. DOMAIN cache' \subseteq DOMAIN cache /\ \A k \in DOMAIN cache' : cache'[k] = cache[k]
  <2>1. PICK key \in DOMAIN cache : cache' = [k \in DOMAIN cache \ {key} |-> cache[k]]
    BY DEF Expire
  <2> QED BY <2>1
<1> QED BY <1>1, <1>2, <1>3, <1>4, LaterInv

(* No step breaks the invariant.                                           *)
LEMMA StepKeeps == QueryInv /\ [Next]_vars => QueryInv'
<1> SUFFICES ASSUME QueryInv, [Next]_vars PROVE QueryInv'
  OBVIOUS
<1>1. ASSUME NEW q \in Slots, Receive(q) \/ Handle(q) PROVE QueryInv'
  <2>1. Handled
    BY <1>1, ReceiveKeeps, HandleKeeps
  <2> QED BY <2>1, AfterInv DEF Handled, QueryInv, WorldInv
<1>2. ASSUME NEW q \in Slots, Fails(q) PROVE QueryInv'
  <2>1. Broken
    BY <1>2, FailsKeeps
  <2> QED BY <2>1, AfterInv DEF Broken, QueryInv, WorldInv
<1>3. CASE UNCHANGED vars
  <2>1. Won' = Won
    BY <1>3 DEF vars, Won
  <2> QED BY <1>3, <2>1 DEF vars, QueryInv, WorldInv, CacheInv, RequestsInv, EndsInv
<1> QED BY <1>1, <1>2, <1>3, ExpireKeeps, JobsKeep DEF Next

(* QueryInv holds: the steps of index.ts, utils.ts and routes/*.ts never   *)
(* put an answer where it does not fit.                                    *)
THEOREM QueryInvariant == Spec => []QueryInv
BY InitInv, StepKeeps, PTL DEF Spec

-----------------------------------------------------------------------------
(* What follows from it                                                    *)

(* The rows of the tables have their types.                                *)
LEMMA TablesTyped ==
  ASSUME WorldInv, NEW seen \in 0..tip
  PROVE  /\ blocks(seen) \subseteq Block /\ mugle_stats(seen) \subseteq MugleStat
         /\ pool_stats(seen) \subseteq PoolStat /\ worker_stats(seen) \subseteq WorkerStat
         /\ worker_shares(seen) \subseteq WorkerShares /\ shares(seen) \subseteq Share
         /\ gps(mugle_stats(seen)) \subseteq Gps /\ gps(worker_stats(seen)) \subseteq Gps
<1>0. \A h \in 1..seen : h \in Height
  BY BoundAssumption DEF WorldInv, Height
<1>1. blocks(seen) \subseteq Block
  BY <1>0 DEF blocks, Block
<1>2. mugle_stats(seen) \subseteq MugleStat
  BY <1>0 DEF mugle_stats, MugleStat
<1>3. pool_stats(seen) \subseteq PoolStat
  BY <1>0 DEF pool_stats, PoolStat
<1>4. worker_stats(seen) \subseteq WorkerStat
  BY <1>0 DEF worker_stats, WorkerStat
<1>5. worker_shares(seen) \subseteq WorkerShares
  BY <1>0 DEF worker_shares, WorkerShares
<1>6. shares(seen) \subseteq Share
  BY <1>5 DEF shares, Share
<1>7. gps(mugle_stats(seen)) \subseteq Gps /\ gps(worker_stats(seen)) \subseteq Gps
  BY <1>2, <1>4 DEF gps, Gps
<1> QED BY <1>1, <1>2, <1>3, <1>4, <1>5, <1>6, <1>7

(* The types follow.                                                       *)
LEMMA TypeFollows == QueryInv => TypeOK
<1> SUFFICES ASSUME QueryInv PROVE TypeOK
  OBVIOUS
<1>1. WorldInv /\ CacheInv /\ RequestsInv
  BY DEF QueryInv
<1>2. tip \in Nat /\ tip \in 0..tip /\ calc \in 0..tip /\ work \in 0..tip
  BY <1>1, BoundAssumption DEF WorldInv, Height
<1>3. /\ blocks(tip) \subseteq Block /\ mugle_stats(calc) \subseteq MugleStat
      /\ pool_stats(calc) \subseteq PoolStat /\ worker_stats(calc) \subseteq WorkerStat
      /\ worker_shares(work) \subseteq WorkerShares /\ shares(work) \subseteq Share
      /\ gps(mugle_stats(calc)) \cup gps(worker_stats(calc)) \subseteq Gps
  BY <1>1, <1>2, TablesTyped
<1>4. pool_blocks \subseteq PoolBlock
  <2>1. \A h \in Height : won[h] # "none" => won[h] \in {"new", "unlocked"}
    BY <1>1 DEF WorldInv
  <2> QED BY <2>1 DEF pool_blocks, PoolBlock
<1>5. users \subseteq User /\ pool_utxo \subseteq PoolUtxo /\ pool_payment \subseteq PoolPayment
  BY <1>1 DEF WorldInv, users, User, pool_utxo, PoolUtxo, pool_payment, PoolPayment
<1>6. {calc, work} \subseteq 0..tip /\ tip \in Height /\ failures \in 0..family.fails
  BY <1>1 DEF WorldInv
<1>7. \A key \in DOMAIN cache : key.height <= MaxTip /\ key.id \in Names \cup {Nobody}
  BY <1>1 DEF CacheInv, EntryAt
<1>8. ASSUME NEW q \in Slots
      PROVE  /\ {req[q].block, req[q].height, req[q].latest, req[q].pool,
                 req[q].user} \subseteq 0..tip
             /\ req[q].mined \subseteq 1..tip
             /\ req[q].answers \in 0..1
  <2>1. req[q] \in Request(tip)
    BY <1>1 DEF RequestsInv, RequestAt
  <2> QED BY <2>1 DEF Request
<1> QED BY <1>3, <1>4, <1>5, <1>6, <1>7, <1>8 DEF TypeOK

(* An answer that fits at the height reached fits.                         *)
LEMMA FitsFollows ==
  ASSUME WorldInv, NEW url, NEW data, FitsAt(url, data, tip, Won)
  PROVE  Fits(url, data)
<1> DEFINE low == url.height - url.range
           upTo(seen) == {h \in 1..seen : h > low /\ h <= url.height}
<1>1. \A seen : Span(url, seen) = upTo(seen)
  BY DEF Span
<1>2. HeightsIn(pool_blocks) = Won
  BY WonFound
<1>3. CASE url.route = "mugle/block"
  BY <1>3 DEF FitsAt, Fits
<1>4. CASE url.route \in {"mugle/blocks", "mugle/stats", "pool/stats"}
  BY <1>1, <1>4 DEF FitsAt, Fits
<1>5. CASE url.route = "pool/blocks"
  BY <1>2, <1>5 DEF FitsAt, Fits
<1>6. CASE url.route \in {"worker/stats", "worker/shares"}
  BY <1>1, <1>6 DEF FitsAt, Fits
<1>7. CASE url.route = "worker/rigs"
  BY <1>7 DEF FitsAt, Fits
<1>8. CASE url.route \in {"mugle/block/:height", "mugle/stats/:height"}
  BY <1>8 DEF FitsAt, Fits
<1>9. CASE url.route = "estimate/:height"
  BY <1>9 DEF FitsAt, Fits
<1>10. CASE url.route = "estimate"
  BY <1>10 DEF FitsAt, Fits, Won
<1>11. CASE url.route \notin
              {"mugle/block", "mugle/blocks", "mugle/stats", "pool/stats", "pool/blocks",
               "worker/stats", "worker/shares", "worker/rigs", "mugle/block/:height",
               "mugle/stats/:height", "estimate/:height", "estimate"}
  BY <1>11 DEF Fits
<1> QED BY <1>3, <1>4, <1>5, <1>6, <1>7, <1>8, <1>9, <1>10, <1>11

(* The answers fit.                                                        *)
LEMMA AnswersFollow == QueryInv => AnswersFit
<1> SUFFICES ASSUME QueryInv, NEW e \in out
             PROVE  /\ e.answers <= 1 \/ e.url.route = "estimate/:height"
                    /\ e.status = 200 /\ e.url.token \in {"own", "public"} =>
                          Fits(e.url, e.data)
  BY DEF AnswersFit
<1>1. WorldInv /\ EndAt(e, tip, Won)
  BY DEF QueryInv, EndsInv
<1>2. /\ e.answers <= 1 \/ e.url.route = "estimate/:height"
      /\ e.status = 200 /\ e.url.token \in {"own", "public"} =>
            FitsAt(e.url, e.data, tip, Won)
  BY <1>1 DEF EndAt
<1> QED BY <1>1, <1>2, FitsFollows

(* The rows that the routes read, the cached values and the requests have  *)
(* their types (entity/*.ts, res.locals).                                  *)
THEOREM QueryType == Spec => []TypeOK
BY QueryInvariant, TypeFollows, PTL

(* A request is answered at most once, and with what its URL asks for,     *)
(* whichever request of the past put the answer into redis                 *)
(* (CacheMiddleware and the routes).                                       *)
THEOREM AnswersAsAsked == Spec => []AnswersFit
BY QueryInvariant, AnswersFollow, PTL
=============================================================================
