------------------------------ MODULE QueryApi ------------------------------
(***************************************************************************)
(* The JavaScript query API (src/mugle-js/api/code/src): an express server *)
(* that answers from MariaDB, with redis in front of it.  Every GET is     *)
(* looked up under its URL first; most routes put their answer there.      *)
(*                                                                         *)
(* A handler runs from one await or callback to the next in one step; what *)
(* is left of it is a list of stages.  A dependency may fail at any stage. *)
(* What that does depends on where it happens: inside a route's try block  *)
(* the error handler answers; inside the callback of a cache look-up       *)
(* nobody catches it.  Entries expire at any time.                         *)
(*                                                                         *)
(* Rows are reduced to the columns that the routes compare: what a row     *)
(* counts, and so what a reward comes to, is left out.  The pool's jobs,   *)
(* external to this module, fill the tables from below, and so the time a  *)
(* table was read at is the height it reached.                             *)
(***************************************************************************)
EXTENDS Integers, Sequences, FiniteSets, SequencesExt

CONSTANTS Slots,         \* requests that may be under way at once
          Families,      \* bound: what goes on in one behaviour, a set of
                         \* [urls, jobs, wins, fails]: what is asked for, which
                         \* jobs are not done yet, which blocks the pool may
                         \* win, how often a dependency may fail
          Names,         \* user names
          Miners,        \* the accounts with shares, a balance and payments
          Nobody,        \* the account of a public URL
          MaxTip,        \* bound: the highest block
          MaxCached,     \* bound: entries in redis; of more, any expire at once
          CreditRange    \* blocks whose shares a reward pays: 60

ASSUME BoundAssumption == {MaxTip, MaxCached, CreditRange} \subseteq Nat \ {0}
ASSUME NamesAssumption ==
    Miners \subseteq Names /\ Nobody \notin Names

VARIABLES tip,       \* the blocks 1..tip are recorded
          work,      \* shares are recorded up to this height
          calc,      \* statistics are calculated up to this height
          won,       \* [height -> state of its pool block, or "none"]
          accounts,  \* the names in the users table
          cache,     \* redis: the entries that have not expired
          req,       \* [slot -> the request there]
          failures,  \* how often a dependency failed
          out,       \* the requests that end in this step, and how
          family     \* what goes on

vars == <<tip, work, calc, won, accounts, cache, req, failures, out, family>>

Height == 1..MaxTip
Sizes == {29, 31}

-----------------------------------------------------------------------------
(* The tables (entity/): the type of a row, and the rows when the table    *)
(* has reached a height.                                                   *)
Block == [height : Height]
blocks(seen) == {[height |-> h] : h \in 1..seen}

WorkerShares == [height : Height, user_id : Miners]
worker_shares(seen) == {[height |-> h, user_id |-> u] : h \in 1..seen, u \in Miners}

Share == [parent : WorkerShares, edge_bits : Sizes]
shares(seen) == {[parent |-> p, edge_bits |-> e] : p \in worker_shares(seen), e \in Sizes}

PoolStat == [height : Height]
pool_stats(seen) == {[height |-> h] : h \in 1..seen}

MugleStat == [height : Height]
mugle_stats(seen) == {[height |-> h] : h \in 1..seen}

WorkerStat == [height : Height, user_id : Miners]
worker_stats(seen) == {[height |-> h, user_id |-> u] : h \in 1..seen, u \in Miners}

(* A rate for each graph size, of a row of one of the statistics.          *)
Gps == [of : MugleStat \cup PoolStat \cup WorkerStat, edge_bits : Sizes]
gps(stats) == {[of |-> s, edge_bits |-> e] : s \in stats, e \in Sizes}

PoolBlock == [height : Height, state : {"new", "unlocked"}]
pool_blocks == {[height |-> h, state |-> won[h]] : h \in {x \in Height : won[x] # "none"}}

User == [username : Names]
users == {[username |-> u] : u \in accounts}

PoolUtxo == [user_id : Miners]
pool_utxo == {[user_id |-> u] : u \in Miners}

PoolPayment == [user_id : Miners]
pool_payment == {[user_id |-> u] : u \in Miners}

-----------------------------------------------------------------------------
(* utils.ts                                                                *)

(* The rates of one height become the list of one row.                     *)
mergeBlocks(rows) == {r.of.height : r \in rows}

(* The range is taken as it is asked for; the reduced one is not used.     *)
limitRange(url) == url.range

(* The rows of pool_stats and of a miner's shares for the heights above    *)
(* from and up to to, each joined with blocks.                             *)
PoolShares(seen, from, to) ==
    {s \in pool_stats(seen) : s.height > from /\ s.height <= to}

UserShares(seen, id, from, to) ==
    {s \in shares(seen) : /\ s.parent.user_id = id
                          /\ s.parent.height > from /\ s.parent.height <= to}

(* A reward is kept as what it is worked out from: its height and what the *)
(* two tables had reached when they were read.                             *)
Reward(h, pool, user) == [height |-> h, pool |-> pool, user |-> user]

-----------------------------------------------------------------------------
(* A request: its URL, what is left of its handler, what the handler holds *)
(* in res.locals and in its variables, and the answers it has made.        *)
FaultyKeyOf(url) == [route |-> url.route, id |-> url.id, height |-> url.height, range |-> 0]

KeyOf(url) == [route |-> url.route, id |-> url.id, height |-> url.height, range |-> url.range]

Key(what, id, height) == [route |-> what, id |-> id, height |-> height, range |-> 0]

BlockKey == Key("mugle/block", Nobody, 0)
MaxHeightKey == Key("max_network_block_height", Nobody, 0)

Asked(url, todo) ==
    [url |-> url, todo |-> todo, block |-> 0, height |-> 0, latest |-> 0,
     pool |-> 0, user |-> 0, mined |-> {}, answers |-> 0]

NoUrl == [route |-> "none", id |-> Nobody, height |-> 0, range |-> 0, token |-> "none"]
Idle == Asked(NoUrl, <<>>)

Stages(route) ==
    CASE route = "mugle/block" -> <<"lookup", "latest", "query">>
      [] route \in {"mugle/block/:height", "mugle/blocks", "mugle/stats/:height",
                    "pool/blocks"} -> <<"lookup", "sanitize", "query">>
      [] route \in {"mugle/stats", "pool/stats"} -> <<"lookup", "sanitize", "latest", "query">>
      [] route = "pool/block" -> <<"lookup", "maxPool", "query">>
      [] route \in {"worker/stats", "worker/rigs"} ->
            <<"lookup", "bearer", "sanitize", "auth", "query">>
      [] route \in {"worker/stat", "worker/utxo", "worker/payment", "worker/payments"} ->
            <<"lookup", "bearer", "auth", "query">>
      [] route = "worker/shares" -> <<"lookup", "bearer", "auth", "sanitize", "query">>
      [] route = "estimate/:height" -> <<"lookup", "bearer", "auth", "sanitize", "reward">>
      [] route = "estimate" -> <<"lookup", "bearer", "auth", "newBlocks">>
      [] route = "login" -> <<"lookup", "login">>
      [] route = "create" -> <<"findName", "script", "insert">>
      [] route = "payment/http" -> <<"bearer", "auth", "forward">>
      [] route = "unknown" -> <<"lookup", "notFound">>

(* What may be asked for.  The routes of one miner ask for a token; the    *)
(* bound on the height is that of the blocks.                              *)
Own == {"worker/stats", "worker/rigs", "worker/stat", "worker/shares", "worker/utxo",
        "worker/payment", "worker/payments", "estimate", "estimate/:height", "payment/http"}
Routes == Own \cup
    {"mugle/block", "mugle/block/:height", "mugle/blocks", "mugle/stats",
     "mugle/stats/:height", "pool/block", "pool/blocks", "pool/stats", "login", "create",
     "unknown"}
Tokens(route) ==
    IF route \in Own THEN {"own", "other", "expired", "none"} ELSE {"public"}
URLs == [route : Routes, id : Names \cup {Nobody}, height : Int, range : Nat,
         token : UNION {Tokens(route) : route \in Routes}]

ASSUME FamiliesAssumption ==
    \A f \in Families :
        /\ f.urls \subseteq URLs /\ f.wins \subseteq Height /\ f.fails \in Nat
        /\ \A url \in f.urls : /\ url.height <= MaxTip /\ url.token \in Tokens(url.route)
                               /\ url.route = "create" => url.id \in Names

Pending(q) == req[q].todo # <<>>
At(q, stage) == Pending(q) /\ Head(req[q].todo) = stage
Url(q) == req[q].url

(* The handler goes on, with what it has learned.                          *)
GoesOnTo(q, r, stages) ==
    /\ req' = [req EXCEPT ![q] = [r EXCEPT !.todo = stages \o Tail(@)]]
    /\ out' = {}
GoesOn(q, r) == GoesOnTo(q, r, <<>>)

(* It ends, with an answer, a status and its data, or with none.       *)
Ended(q, status, data) ==
    [slot |-> q, url |-> req[q].url, status |-> status, data |-> data,
     answers |-> req[q].answers + (IF status > 0 THEN 1 ELSE 0)]

Ends(q, status, data) ==
    /\ req' = [req EXCEPT ![q] = Idle]
    /\ out' = {Ended(q, status, data)}
Answers(q, status, data) == Ends(q, status, data)

(* It ends because a dependency failed (-1), or waits for ever (0).        *)
Breaks(q) == Ends(q, -1, {})
Hangs(q) == Ends(q, 0, {})

(* Nobody catches an error: this request is never answered or, as node     *)
(* chooses to, the process ends and takes all others with it.              *)
Dies ==
    /\ req' = [q \in Slots |-> Idle]
    /\ out' = {Ended(q, -1, {}) : q \in {x \in Slots : Pending(x)}}
Uncaught(q) == Breaks(q) \/ Dies

(* Entries are stored in redis in the place of what it has for their keys. *)
Entry(key, value) == [key |-> key, value |-> value]

Store(entries) ==
    LET new == {entries[i].key : i \in DOMAIN entries}
        all == new \cup DOMAIN cache
        kept == Min({MaxCached, Cardinality(all)})
    IN \E keys \in kSubset(kept, all) :
         cache' = [k \in keys |->
                      IF k \in new
                      THEN entries[CHOOSE i \in DOMAIN entries : entries[i].key = k].value
                      ELSE cache[k]]

Env == <<tip, work, calc, won, family>>

-----------------------------------------------------------------------------
(* index.ts                                                                *)
Receive(q) ==
    /\ ~Pending(q)
    /\ \E url \in family.urls : req' = [req EXCEPT ![q] = Asked(url, Stages(url.route))]
    /\ out' = {}
    /\ UNCHANGED <<Env, accounts, cache, failures>>

(* The routes that answer with one row: where there is none, the answer is *)
(* empty and "undefined" is what they put into the cache.                  *)
OneRow == {"mugle/block", "mugle/block/:height", "mugle/stats/:height", "pool/block",
           "worker/stat", "worker/utxo"}

Undefined(key) == key.route \in OneRow /\ cache[key] = {}

CacheMiddleware(q) ==
    /\ At(q, "lookup")
    /\ LET key == KeyOf(Url(q)) IN
       \/ key \notin DOMAIN cache /\ GoesOn(q, req[q])
       \/ key \in DOMAIN cache /\ ~Undefined(key) /\ Answers(q, 200, cache[key])
       \/ key \in DOMAIN cache /\ Undefined(key) /\ Uncaught(q)
    /\ UNCHANGED <<Env, accounts, cache, failures>>

BearerMiddleware(q) ==
    /\ At(q, "bearer")
    /\ IF Url(q).token = "none" THEN Answers(q, 403, {}) ELSE GoesOn(q, req[q])
    /\ UNCHANGED <<Env, accounts, cache, failures>>

checkAuth(q) ==
    /\ At(q, "auth")
    /\ CASE Url(q).token = "own" -> GoesOn(q, req[q])
         [] Url(q).token = "other" -> Answers(q, 200, {})
         [] OTHER -> Answers(q, 401, {})  \* it has expired
    /\ UNCHANGED <<Env, accounts, cache, failures>>

NotFound(q) ==
    /\ At(q, "notFound") /\ Answers(q, 404, {})
    /\ UNCHANGED <<Env, accounts, cache, failures>>

-----------------------------------------------------------------------------
(* A height below one stands for the latest: of the cached answer to       *)
(* mugle/block if there is one, else of whichever row comes first.  (What  *)
(* is cached with it then has a key that nothing reads.)                   *)
sanitizeHeight(q) ==
    /\ At(q, "sanitize")
    /\ LET r == req[q] IN
       CASE Url(q).height >= 1 -> GoesOn(q, r)
         [] Url(q).height < 1 /\ BlockKey \in DOMAIN cache ->
               IF Undefined(BlockKey) THEN Uncaught(q)
               ELSE GoesOn(q, [r EXCEPT !.block = CHOOSE h \in cache[BlockKey] : TRUE])
         [] OTHER -> GoesOnTo(q, r, <<"firstBlock">>)
    /\ UNCHANGED <<Env, accounts, cache, failures>>

FirstBlock(q) ==
    /\ At(q, "firstBlock")
    /\ \E b \in blocks(tip) : GoesOn(q, [req[q] EXCEPT !.height = b.height])
    /\ UNCHANGED <<Env, accounts, cache, failures>>

getLatestNetworkBlockHeight(q) ==
    /\ At(q, "latest")
    /\ IF MaxHeightKey \in DOMAIN cache
       THEN GoesOn(q, [req[q] EXCEPT !.latest = CHOOSE h \in cache[MaxHeightKey] : TRUE])
       ELSE GoesOnTo(q, req[q], <<"maxHeight">>)
    /\ UNCHANGED <<Env, accounts, cache, failures>>

FaultyMaxHeight(q) ==
    /\ At(q, "maxHeight")
    /\ GoesOn(q, [req[q] EXCEPT !.latest = tip + 1])
    /\ Store(<<Entry(MaxHeightKey, {tip + 1})>>)
    /\ UNCHANGED <<Env, accounts, failures>>

MaxHeight(q) ==
    /\ At(q, "maxHeight")
    /\ GoesOn(q, [req[q] EXCEPT !.latest = tip])
    /\ Store(<<Entry(MaxHeightKey, {tip})>>)
    /\ UNCHANGED <<Env, accounts, failures>>

(* It looks under one key and stores under another, so it always asks.     *)
getLatestPoolBlockHeight(q) ==
    /\ At(q, "maxPool")
    /\ GoesOn(q, [req[q] EXCEPT !.latest = Max({0} \cup {b.height : b \in pool_blocks})])
    /\ UNCHANGED <<Env, accounts, cache, failures>>

-----------------------------------------------------------------------------
(* The routes that answer from one query.                                  *)

(* The height that was sanitized, or else the one that was asked for.      *)
HeightOf(r) == IF r.height # 0 THEN r.height ELSE r.url.height

StatsHeight(r) == IF r.block # 0 THEN r.block ELSE HeightOf(r)

(* The pool's statistics begin at the first block.                         *)
PoolStatsHeight(r) == Max({1, HeightOf(r)})
PoolStatsRange(r) == Min({limitRange(r.url), PoolStatsHeight(r)})

Newest(n, heights) == {h \in heights : Cardinality({x \in heights : x > h}) < n}
Window(heights, from, to) == {h \in heights : h > from /\ h <= to}
HeightsIn(rows) == {row.height : row \in rows}
Of(id, rows) == {row \in rows : row.user_id = id}

networkBlock(r) == HeightsIn(blocks(tip)) \cap {r.latest}
networkBlockAt(r) == HeightsIn(blocks(tip)) \cap {r.url.height}
networkBlocks(r) ==
    Window(HeightsIn(blocks(tip)), HeightOf(r) - limitRange(r.url), HeightOf(r))
networkStats(r) ==
    Window(mergeBlocks(gps(mugle_stats(calc))), StatsHeight(r) - limitRange(r.url),
           Min({StatsHeight(r), r.latest}))
networkStatsAt(r) == mergeBlocks(gps(mugle_stats(calc))) \cap {HeightOf(r)}

poolBlock(r) == HeightsIn(pool_blocks) \cap {r.latest}
poolBlocks(r) ==
    Newest(limitRange(r.url), {h \in HeightsIn(pool_blocks) : h <= HeightOf(r)})
poolStats(r) ==
    Window(mergeBlocks(gps(pool_stats(calc))), PoolStatsHeight(r) - PoolStatsRange(r),
           Min({PoolStatsHeight(r), r.latest}))

(* The routes of a miner take the height as it was asked for.  Twice the   *)
(* range is a limit that its rows, two for a height, never pass.  The rigs *)
(* are in redis, under one key for each height, as soon as there are any.  *)
workerStats(r) ==
    Window(mergeBlocks(gps(Of(r.url.id, worker_stats(calc)))),
           r.url.height - limitRange(r.url), r.url.height)
workerRigs(r) ==
    HeightsIn(Of(r.url.id, worker_shares(tip)))
        \cap (r.url.height - limitRange(r.url))..r.url.height
workerStat(r) == Newest(1, HeightsIn(Of(r.url.id, worker_stats(calc))))
workerShares(r) ==
    Window(HeightsIn(Of(r.url.id, worker_shares(work))),
           r.url.height - limitRange(r.url), r.url.height)
workerUtxo(r) == {0 : row \in Of(r.url.id, pool_utxo)}
workerPayment(r) == {0 : row \in Of(r.url.id, pool_payment)}
workerPayments(r) == {0 : row \in Of(r.url.id, pool_payment)}

Rows(r) ==
    CASE r.url.route = "mugle/block" -> networkBlock(r)
      [] r.url.route = "mugle/block/:height" -> networkBlockAt(r)
      [] r.url.route = "mugle/blocks" -> networkBlocks(r)
      [] r.url.route = "mugle/stats" -> networkStats(r)
      [] r.url.route = "mugle/stats/:height" -> networkStatsAt(r)
      [] r.url.route = "pool/block" -> poolBlock(r)
      [] r.url.route = "pool/blocks" -> poolBlocks(r)
      [] r.url.route = "pool/stats" -> poolStats(r)
      [] r.url.route = "worker/stats" -> workerStats(r)
      [] r.url.route = "worker/rigs" -> workerRigs(r)
      [] r.url.route = "worker/stat" -> workerStat(r)
      [] r.url.route = "worker/shares" -> workerShares(r)
      [] r.url.route = "worker/utxo" -> workerUtxo(r)
      [] r.url.route = "worker/payment" -> workerPayment(r)
      [] r.url.route = "worker/payments" -> workerPayments(r)

(* A range of no blocks is refused, or a height that is still zero.        *)
Refused(r) ==
    \/ r.url.route = "mugle/stats" /\ StatsHeight(r) = 0
    \/ r.url.route = "mugle/stats/:height" /\ HeightOf(r) = 0
    \/ r.url.route = "pool/stats" /\ PoolStatsRange(r) = 0

Query(q) ==
    LET r == req[q] IN
    /\ At(q, "query")
    /\ IF Refused(r) THEN Answers(q, 400, {}) /\ UNCHANGED cache
       ELSE \E data \in {Rows(r)} :
            /\ Answers(q, 200, data)
            /\ IF r.url.route = "worker/rigs" THEN UNCHANGED cache
               ELSE Store(<<Entry(KeyOf(r.url), data)>>)
    /\ UNCHANGED <<Env, accounts, failures>>

-----------------------------------------------------------------------------
(* The estimate of a miner's part of one block.                            *)
RewardKey(url) == Key("estimated_reward", url.id, url.height)
PoolWeightsKey(url) == Key("pool_shares_weights", Nobody, url.height)
UserWeightsKey(url) == Key("user_shares_weights", url.id, url.height)

(* The promise resolves: the reward is stored for its URL and answered.    *)
Resolves(q, reward, entries) ==
    /\ Store(<<Entry(KeyOf(Url(q)), reward)>> \o entries)
    /\ Answers(q, 200, reward)

CachedReward(q) ==
    /\ At(q, "reward")
    /\ LET key == RewardKey(Url(q)) IN
       IF key \in DOMAIN cache THEN Resolves(q, cache[key], <<>>)
       ELSE GoesOnTo(q, req[q], <<"newBlock">>) /\ UNCHANGED cache
    /\ UNCHANGED <<Env, accounts, failures>>

(* Without such a pool block the answer is 0, and the handler goes on.     *)
NewBlock(q) ==
    /\ At(q, "newBlock")
    /\ LET r == req[q]
           found == [height |-> r.url.height, state |-> "new"] \in pool_blocks
           next == IF found THEN r ELSE [r EXCEPT !.answers = 1]
       IN /\ req' = [req EXCEPT ![q] = [next EXCEPT !.todo = <<"poolWeights">>]]
          /\ out' = IF found THEN {} ELSE {Ended(q, 200, {})}
    /\ UNCHANGED <<Env, accounts, cache, failures>>

(* Where the pool's weights are cached the promise is never settled.       *)
PoolWeights(q) ==
    /\ At(q, "poolWeights")
    /\ IF PoolWeightsKey(Url(q)) \in DOMAIN cache
       THEN Hangs(q)
       ELSE GoesOnTo(q, req[q], <<"poolShares">>)
    /\ UNCHANGED <<Env, accounts, cache, failures>>

PoolSharesQuery(q) ==
    /\ At(q, "poolShares")
    /\ GoesOnTo(q, [req[q] EXCEPT !.pool = calc], <<"userWeights">>)
    /\ Store(<<Entry(PoolWeightsKey(Url(q)), {calc})>>)
    /\ UNCHANGED <<Env, accounts, failures>>

(* No reward is stored where one of the two has no credit, as it has none  *)
(* without rows and may have none with them.                               *)
Concludes(q, user, entries) ==
    LET url == Url(q)
        reward == Reward(url.height, req[q].pool, user)
        from == url.height - CreditRange
    IN \/ Resolves(q, {}, entries)
       \/ /\ PoolShares(reward.pool, from, url.height) # {}
          /\ UserShares(user, url.id, from, url.height) # {}
          /\ Resolves(q, {reward}, <<Entry(RewardKey(url), {reward})>> \o entries)

UserWeights(q) ==
    /\ At(q, "userWeights")
    /\ LET key == UserWeightsKey(Url(q)) IN
       IF key \in DOMAIN cache
       THEN Concludes(q, CHOOSE seen \in cache[key] : TRUE, <<>>)
       ELSE GoesOnTo(q, req[q], <<"userShares">>) /\ UNCHANGED cache
    /\ UNCHANGED <<Env, accounts, failures>>

UserSharesQuery(q) ==
    /\ At(q, "userShares")
    /\ Concludes(q, work, <<Entry(UserWeightsKey(Url(q)), {work})>>)
    /\ UNCHANGED <<Env, accounts, failures>>

-----------------------------------------------------------------------------
(* The immature balance: the rewards of all new pool blocks, from shares   *)
(* that two queries read side by side.                                     *)
NewBlocks(q) ==
    /\ At(q, "newBlocks")
    /\ LET mined == HeightsIn({b \in pool_blocks : b.state = "new"}) IN
       IF mined = {} THEN Answers(q, 200, {})
       ELSE \E order \in {<<"poolRows", "userRows">>, <<"userRows", "poolRows">>} :
               GoesOnTo(q, [req[q] EXCEPT !.mined = mined], order \o <<"balance">>)
    /\ UNCHANGED <<Env, accounts, cache, failures>>

PoolRows(q) ==
    /\ At(q, "poolRows") /\ GoesOn(q, [req[q] EXCEPT !.pool = calc])
    /\ UNCHANGED <<Env, accounts, cache, failures>>

UserRows(q) ==
    /\ At(q, "userRows") /\ GoesOn(q, [req[q] EXCEPT !.user = work])
    /\ UNCHANGED <<Env, accounts, cache, failures>>

Balance(q) ==
    /\ At(q, "balance")
    /\ Resolves(q, {Reward(h, req[q].pool, req[q].user) : h \in req[q].mined}, <<>>)
    /\ UNCHANGED <<Env, accounts, failures>>

-----------------------------------------------------------------------------
(* Accounts.  The password is right or wrong; an old account's is checked  *)
(* by a Python script, which also makes the hash of a new account.         *)
Login(q) ==
    /\ At(q, "login")
    /\ \/ [username |-> Url(q).id] \notin users /\ Answers(q, 401, {})
       \/ /\ [username |-> Url(q).id] \in users
          /\ \/ \E status \in {200, 403} : Answers(q, status, {})
             \/ Url(q).id \in Miners /\ GoesOnTo(q, req[q], <<"script", "verified">>)
    /\ UNCHANGED <<Env, accounts, cache, failures>>

Verified(q) ==
    /\ At(q, "verified")
    /\ \E status \in {200, 403} : Answers(q, status, {})
    /\ UNCHANGED <<Env, accounts, cache, failures>>

FaultyFindName(q) ==
    /\ At(q, "findName")
    /\ IF [username |-> Url(q).id] \in users THEN Hangs(q) ELSE GoesOn(q, req[q])
    /\ UNCHANGED <<Env, accounts, cache, failures>>

FindName(q) ==
    /\ At(q, "findName")
    /\ IF [username |-> Url(q).id] \in users THEN Answers(q, 409, {}) ELSE GoesOn(q, req[q])
    /\ UNCHANGED <<Env, accounts, cache, failures>>

Script(q) ==
    /\ At(q, "script") /\ GoesOn(q, req[q])
    /\ UNCHANGED <<Env, accounts, cache, failures>>

(* The name was free when it was looked up; the table has it once.         *)
Insert(q) ==
    /\ At(q, "insert")
    /\ Answers(q, IF Url(q).id \in accounts THEN 500 ELSE 200, {})
    /\ accounts' = accounts \cup {Url(q).id}
    /\ UNCHANGED <<Env, cache, failures>>

(* A payment is passed on to the other API.                                *)
Forward(q) ==
    /\ At(q, "forward") /\ Answers(q, 200, {})
    /\ UNCHANGED <<Env, accounts, cache, failures>>

-----------------------------------------------------------------------------
(* A dependency fails.                                                     *)

(* In the try block of a route: the error handler answers.                 *)
Guarded(r) ==
    \/ Head(r.todo) \in {"newBlock", "newBlocks", "poolRows", "userRows", "login",
                         "findName", "insert"}
    \/ Head(r.todo) = "query" /\ r.url.route # "worker/rigs"

(* Caught and only logged, or not even that.                               *)
Swallowed(r) ==
    <<Head(r.todo), r.url.route>> \in {<<"forward", "payment/http">>, <<"query", "worker/rigs">>}

(* In a callback of the cache: nobody catches it.                          *)
InCallback(r) ==
    \/ Head(r.todo) \in {"firstBlock", "maxHeight", "maxPool", "poolWeights", "poolShares",
                         "userWeights", "userShares"}
    \/ Head(r.todo) = "sanitize" /\ r.url.height < 1

Fails(q) ==
    /\ failures < family.fails /\ failures' = failures + 1
    /\ Pending(q)
    /\ LET r == req[q] IN
       \/ Guarded(r) /\ Answers(q, 500, {})
       \/ Swallowed(r) /\ Breaks(q)
       \/ InCallback(r) /\ Uncaught(q)
       \/ Head(r.todo) = "script" /\ Dies
       \* Redis fails, and the handler goes on as if nothing was cached.
       \/ Head(r.todo) = "lookup" /\ GoesOn(q, r)
       \/ Head(r.todo) = "latest" /\ GoesOnTo(q, r, <<"maxHeight">>)
       \/ Head(r.todo) = "reward" /\ GoesOnTo(q, r, <<"newBlock">>)
    /\ UNCHANGED <<Env, accounts, cache>>

-----------------------------------------------------------------------------
(* The world outside.                                                      *)
Expire ==
    /\ \E key \in DOMAIN cache : cache' = [k \in DOMAIN cache \ {key} |-> cache[k]]
    /\ out' = {} /\ UNCHANGED <<Env, accounts, req, failures>>

Job(what) == what \in family.jobs

Jobs ==
    /\ \/ Job("blocks") /\ tip < MaxTip /\ tip' = tip + 1 /\ UNCHANGED <<work, calc, won>>
       \/ Job("shares") /\ work < tip /\ work' = work + 1 /\ UNCHANGED <<tip, calc, won>>
       \/ Job("stats") /\ calc < tip /\ calc' = calc + 1 /\ UNCHANGED <<tip, work, won>>
       \/ /\ \E h \in family.wins \cap 1..tip :
                \/ won[h] = "none" /\ won' = [won EXCEPT ![h] = "new"]
                \/ won[h] = "new" /\ won' = [won EXCEPT ![h] = "unlocked"]
          /\ UNCHANGED <<tip, work, calc>>
    /\ out' = {} /\ UNCHANGED <<accounts, cache, req, failures, family>>

Init ==
    /\ family \in Families
    /\ tip = (IF Job("blocks") THEN 1 ELSE MaxTip)
    /\ work = (IF Job("shares") THEN 0 ELSE tip) /\ calc = (IF Job("stats") THEN 0 ELSE tip)
    /\ won = [h \in Height |-> "none"]
    /\ accounts = Miners
    /\ cache = <<>>
    /\ req = [q \in Slots |-> Idle] /\ out = {}
    /\ failures = 0

(* A step of the handler of q.                                             *)
Handle(q) ==
    \/ CacheMiddleware(q) \/ BearerMiddleware(q) \/ checkAuth(q) \/ NotFound(q)
    \/ sanitizeHeight(q) \/ FirstBlock(q)
    \/ getLatestNetworkBlockHeight(q) \/ MaxHeight(q) \/ getLatestPoolBlockHeight(q)
    \/ Query(q)
    \/ CachedReward(q) \/ NewBlock(q) \/ PoolWeights(q) \/ PoolSharesQuery(q)
    \/ UserWeights(q) \/ UserSharesQuery(q)
    \/ NewBlocks(q) \/ PoolRows(q) \/ UserRows(q) \/ Balance(q)
    \/ Login(q) \/ Verified(q) \/ FindName(q) \/ Script(q) \/ Insert(q) \/ Forward(q)

Next ==
    \/ \E q \in Slots : Receive(q) \/ Handle(q) \/ Fails(q)
    \/ Expire \/ Jobs

(* Node runs the callbacks that are due, whatever else arrives.            *)
Fairness == \A q \in Slots : WF_vars(Handle(q))

Spec == Init /\ [][Next]_vars
FairSpec == Spec /\ Fairness

-----------------------------------------------------------------------------
(* The rows of the tables, the cached values and the requests have their   *)
(* types.                                                                  *)
Answer == SUBSET (0..MaxTip) \cup SUBSET {Reward(h, p, u) : h \in 0..MaxTip,
                                          p \in 0..MaxTip, u \in 0..MaxTip}

TypeOK ==
    /\ blocks(tip) \subseteq Block /\ mugle_stats(calc) \subseteq MugleStat
    /\ pool_stats(calc) \subseteq PoolStat /\ worker_stats(calc) \subseteq WorkerStat
    /\ worker_shares(work) \subseteq WorkerShares /\ shares(work) \subseteq Share
    /\ gps(mugle_stats(calc)) \cup gps(worker_stats(calc)) \subseteq Gps
    /\ pool_blocks \subseteq PoolBlock /\ users \subseteq User
    /\ pool_utxo \subseteq PoolUtxo /\ pool_payment \subseteq PoolPayment
    /\ {calc, work} \subseteq 0..tip /\ tip \in Height
    /\ failures \in 0..family.fails
    /\ \A key \in DOMAIN cache : key.height <= MaxTip /\ key.id \in Names \cup {Nobody}
    /\ \A q \in Slots : /\ {req[q].block, req[q].height, req[q].latest, req[q].pool,
                            req[q].user} \subseteq 0..tip
                         /\ req[q].mined \subseteq 1..tip
                         /\ req[q].answers \in 0..1

(* An answer to url: what a page that asked for it relies on, whichever    *)
(* request the answer was worked out for, and when: WebUI takes it so.     *)
Fits(url, data) ==
    LET low == url.height - url.range
        upTo(seen) == {h \in 1..seen : h > low /\ h <= url.height}
    IN CASE url.route = "mugle/block" -> \E h \in 1..tip : data = {h}
         [] url.route \in {"mugle/blocks", "mugle/stats", "pool/stats"} /\ url.height > 0 ->
               \E seen \in 0..tip : data = upTo(seen)
         [] url.route = "pool/blocks" /\ url.height > 0 ->
               /\ Cardinality(data) <= url.range
               /\ data \subseteq HeightsIn(pool_blocks) \cap 1..url.height
         [] url.route \in {"worker/stats", "worker/shares"} -> data \subseteq upTo(tip)
         [] url.route = "worker/rigs" -> data \subseteq low..url.height
         [] url.route \in {"mugle/block/:height", "mugle/stats/:height"} /\ url.height > 0 ->
               data \subseteq {url.height}
         [] url.route = "estimate/:height" -> \A r \in data : r.height = url.height
         [] url.route = "estimate" -> \A r \in data : won[r.height] # "none"
         [] OTHER -> TRUE

(* A request is answered at most once, and what it is answered, from the   *)
(* cache or not, is what its URL asks for.  The exception is an estimate   *)
(* for a block that is not a new one of the pool (getUserEstimatedReward-  *)
(* ForBlock answers 0 and goes on).                                        *)
AnswersFit ==
    \A e \in out :
        /\ e.answers <= 1 \/ e.url.route = "estimate/:height"
        /\ e.status = 200 /\ e.url.token \in {"own", "public"} => Fits(e.url, e.data)

(* "All HTTP requests must have a response" (index.ts): they do, except    *)
(* where a dependency failed outside a try block, where "undefined" was    *)
(* cached for want of a row, and where the pool's weights were cached by   *)
(* another request for the estimate.                                       *)
Answered ==
    \A q \in Slots :
        Pending(q) ~> \E e \in out : /\ e.slot = q
                                    /\ e.status = 0 => e.url.route = "estimate/:height"
=============================================================================
