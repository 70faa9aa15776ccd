------------------------------- MODULE WebUI -------------------------------
(***************************************************************************)
(* The web UI (src/mugle-js/webui/src): the thunks that ask the API and    *)
(* dispatch what it answers, the components whose mounting and refreshing  *)
(* starts them, the pages, and the session that outlives a reload.         *)
(*                                                                         *)
(* A thunk runs to its first await in one step and takes the store as it   *)
(* is; what it read stays in its request, and the answer lands in a later  *)
(* step on whatever the store is by then.  Any number of requests are in   *)
(* flight, land in any order, and may fail; one that fails dispatches      *)
(* nothing unless its thunk says so.  The API is external to this module:  *)
(* it answers with the rows it has, up to any height it has seen, since    *)
(* its answers are cached and the statistics run behind the chain.         *)
(***************************************************************************)
EXTENDS WebStore, Bags

CONSTANTS MaxTip,       \* bound: the highest block of the network
          MaxCalls,     \* bound: requests in flight; one more is taken to fail
          Visits,       \* bound: what goes on in one behaviour, a set of
                        \* [thunks, pages, blocks]: the thunks whose requests
                        \* may be answered, the pages that are visited, the
                        \* highest block; without "login" among the pages,
                        \* nobody signs in but by a session left over
          BlockRange,   \* blocks in a history, BLOCK_RANGE: 1440
          RecentRange,  \* blocks in a table of recent blocks: 20
          RigPeriod,    \* blocks between the two ends of a rig's rate: 5
          Edge,         \* [height -> graph size of the block]
          PoolFound,    \* the heights of the blocks the pool found
          Worked        \* the heights at which the miners have shares

ASSUME BoundAssumption ==
  {MaxTip, MaxCalls, BlockRange, RecentRange, RigPeriod} \subseteq Nat \ {0}

VARIABLES store,        \* the redux store
          session,      \* the account kept in sessionStorage, or NoUser
          expired,      \* its expiration time has passed
          page,         \* the route that is shown
          calls,        \* the bag of requests in flight
          timers,       \* the setTimeouts that are running
          tip,          \* the height of the network
          left,         \* history: users whose data came back, or stayed, after
                        \* their time: a reply to them was late, or another
                        \* login replaced their account
          former,       \* history: these and all who signed out since the load
          unwaited,     \* history: users with a payout in flight for which no
                        \* spinner turns any more
          visit         \* what goes on

vars == <<store, session, expired, page, calls, timers, tip, left, former, unwaited, visit>>

Height == 1..MaxTip

Heights(rows) == {rows[i].height : i \in DOMAIN rows}
RowHeights(set) == {r.height : r \in set}
Owners(rows) == {rows[i].of : i \in DOMAIN rows}
RowOwners(set) == {r.of : r \in set}

Largest(S) == CHOOSE x \in S : \A y \in S : y <= x

Live == visit.thunks
Pages == visit.pages

WindowThunks == {"fetchNetworkData", "fetchMuglePoolData",
                 "fetchMuglePoolSharesSubmitted", "fetchMinerData"}

Scalars == {"fetchMinerTotalValidShares", "fetchMinerPaymentData",
            "fetchMinerImmatureBalance", "fetchMinerLatestBlockReward",
            "fetchMinerNextBlockReward", "fetchMinerPaymentTxSlate"}

Private == Scalars \cup {"fetchMinerData", "fetchRigData", "fetchMinerShareData",
                         "getLatestMinerPayments", "getLatestMinerPaymentRange",
                         "setPaymentMethodSetting"}

(* The private thunks whose answers are data of the miner.                 *)
Writers == Private \ {"getLatestMinerPayments"}

NeedsHeight == WindowThunks \cup
    {"fetchRigData", "fetchMinerShareData", "fetchNetworkRecentBlocks",
     "getMinedBlocksAlgos", "fetchMuglePoolRecentBlocks", "fetchMuglePoolBlocksMined"}

Routes == {"home", "pool", "miner", "rigs", "payment", "login"}

Thunks == Private \cup NeedsHeight \cup {"getLatestBlock", "fetchMuglePoolLastBlock"}

ASSUME VisitsAssumption ==
    \A v \in Visits : /\ v.thunks \subseteq Thunks
                      /\ v.pages \subseteq Routes /\ v.pages # {}
                      /\ v.blocks \in 1..MaxTip

-----------------------------------------------------------------------------
(* The start of a thunk: what it reads of the store before its await.      *)

(* `latestBlock.height || 0`: 0 until an answer has come.                  *)
Latest(s) == s.networkData.latestBlock

WindowOf(s, thunk) ==
    CASE thunk = "fetchNetworkData" -> s.networkData.historical
      [] thunk = "fetchMuglePoolData" -> s.muglePoolData.historical
      [] thunk = "fetchMuglePoolSharesSubmitted" -> s.muglePoolData.sharesSubmitted
      [] thunk = "fetchMinerData" -> s.minerData.historical

(* A private thunk reads the account's id and throws where there is none.  *)
Starts(s, thunk) ==
    /\ thunk \in Live
    /\ thunk \in Private => s.auth.account # NoUser
    /\ thunk \in NeedsHeight => Latest(s) # 0

(* What its request remembers until the answer comes.                      *)
Request(s, thunk) ==
    LET id == IF thunk \in Private THEN s.auth.account ELSE NoUser
        net == s.networkData
        pool == s.muglePoolData
    IN CASE thunk \in WindowThunks ->
                [thunk |-> thunk, id |-> id, latest |-> Latest(s), rows |-> WindowOf(s, thunk)]
         [] thunk = "fetchMinerShareData" ->
                [thunk |-> thunk, id |-> id, latest |-> Latest(s),
                 known |-> s.minerData.minerShareData]
         [] thunk = "fetchRigData" ->
                [thunk |-> thunk, id |-> id, latest |-> Latest(s),
                 workers |-> s.minerData.rigWorkers]
         [] thunk \in {"getMinedBlocksAlgos", "fetchMuglePoolRecentBlocks"} ->
                [thunk |-> thunk, id |-> id, latest |-> Latest(s), algos |-> net.minedBlockAlgos]
         [] thunk = "fetchMuglePoolBlocksMined" ->
                [thunk |-> thunk, id |-> id, latest |-> Latest(s),
                 algos |-> net.minedBlockAlgos, mined |-> pool.poolBlocksMined,
                 orphaned |-> pool.poolBlocksOrphaned]
         [] thunk = "fetchNetworkRecentBlocks" ->
                [thunk |-> thunk, id |-> id, latest |-> Latest(s)]
         [] OTHER -> [thunk |-> thunk, id |-> id]

(* The requests of a bag that are in C, one by one.                        *)
Copies(bag, C) == UNION {{c} \X (1..bag[c]) : c \in C}
InFlight(bag) == Cardinality(Copies(bag, DOMAIN bag))

(* The requests in flight once thunks have run: of those over the bound,   *)
(* any may be the ones that fail at once.                                  *)
Sent(s, thunks, S) ==
    [r \in {Request(s, thunks[i]) : i \in S} |->
        Cardinality({i \in S : Request(s, thunks[i]) = r})]

Started(s, inFlight, thunks) ==
    LET asked == {i \in DOMAIN thunks : Starts(s, thunks[i])}
        room == MaxCalls - InFlight(inFlight)
        number == IF Cardinality(asked) < room THEN Cardinality(asked) ELSE room
    IN {inFlight (+) Sent(s, thunks, S) : S \in kSubset(number, asked)}

-----------------------------------------------------------------------------
(* The end of a thunk: the stores an answer to request c can lead to, with *)
(* the thunks that are started by it.                                      *)
Done(s) == [store |-> s, next |-> <<>>]

(* The blocks above from, up to the height to, of an API that has seen the *)
(* network up to any height.                                               *)
Answers(from, to) ==
    {(from + 1)..seen \cap Height : seen \in {from} \cup (from + 1)..(IF to < tip THEN to ELSE tip)}

(* A set of heights as a sequence: at place i the one with i - 1 below it. *)
Ascending(heights) ==
    [i \in 1..Cardinality(heights) |->
        CHOOSE h \in heights : Cardinality({x \in heights : x < h}) = i - 1]

AsRows(of, heights) ==
    LET sorted == Ascending(heights)
    IN [i \in DOMAIN sorted |-> [of |-> of, height |-> sorted[i]]]

LastRows(rows) ==
    SubSeq(rows, IF Len(rows) > BlockRange THEN Len(rows) - BlockRange + 1 ELSE 1, Len(rows))

(* Faulty: the whole window is asked for again.                            *)
FaultyNewest(latest, heights) == latest - BlockRange

Newest(latest, heights) == Largest({latest - BlockRange} \cup heights)

(* The four histories grow the same way: the rows above the newest known   *)
(* one are asked for and appended, and the oldest are cut off.             *)
Extended(c, heights) == LastRows(c.rows \o AsRows(c.id, heights))

WindowAnswers(c) == Answers(Newest(c.latest, Heights(c.rows)), c.latest)

(* The statistics of the pool are refused for a range of no blocks.        *)
PoolAnswers(c) ==
    IF c.latest > Newest(c.latest, Heights(c.rows)) THEN WindowAnswers(c) ELSE {}

(* Faulty: the answer is joined to the rows of the moment.                 *)
FaultyFetchMinerData(s, c) ==
    {Done(Dispatch(s, "MINER_DATA",
                   LastRows(s.minerData.historical \o AsRows(c.id, heights \cap Worked)))) :
        heights \in WindowAnswers(c)}

fetchMinerData(s, c) ==
    {Done(Dispatch(s, "MINER_DATA", Extended(c, heights \cap Worked))) :
        heights \in WindowAnswers(c)}

fetchMuglePoolData(s, c) ==
    {Done(Dispatch(s, "MUGLE_POOL_DATA", Extended(c, heights))) :
        heights \in PoolAnswers(c)}

fetchMuglePoolSharesSubmitted(s, c) ==
    {Done(Dispatch(s, "MUGLE_POOL_SHARES_SUBMITTED", Extended(c, heights))) :
        heights \in PoolAnswers(c)}

(* blocksByHeight is one object, grown in place and never pruned: the      *)
(* loop that should drop old blocks runs over the keys, not the blocks.    *)
fetchNetworkData(s, c) ==
    {Done(Dispatch(s, "NETWORK_DATA",
                      [historical |-> Extended(c, heights),
                       blocksByHeight |-> s.networkData.blocksByHeight \cup heights])) :
        heights \in WindowAnswers(c)}

fetchMinerShareData(s, c) ==
    {Done(Dispatch(s, "MINER_SHARE_DATA",
                      c.known \cup {[of |-> c.id, height |-> h] : h \in heights \cap Worked})) :
        heights \in Answers(Newest(c.latest, RowHeights(c.known)), c.latest)}

(* The rigs of the whole range each time.  A block without the one of five *)
(* blocks before it is passed over; at a block the page does not know the  *)
(* loop throws, and what it wrote into rigShareData stays.                 *)
fetchRigData(s, c) ==
    LET known == s.networkData.blocksByHeight
        outcome(heights) ==
            LET based == {h \in heights : h - RigPeriod \in known}
                kept == {h \in based : \A h2 \in based : h2 <= h => h2 \in known}
                shares == {r \in s.minerData.rigShareData : r.height \notin kept}
                          \cup {[of |-> c.id, height |-> h] : h \in kept}
            IN IF kept # based
               THEN [store |-> [s EXCEPT !.minerData.rigShareData = shares], next |-> <<>>]
               ELSE Done(Dispatch(s, "RIG_DATA",
                       [rigGpsData |-> AsRows(c.id, kept), rigShareData |-> shares,
                        rigWorkers |-> c.workers \cup (IF kept = {} THEN {} ELSE {c.id})]))
    IN {outcome(heights \cap Worked) : heights \in Answers(c.latest - BlockRange - 1, c.latest)}

getLatestBlock(s, c) == {Done(Dispatch(s, "LATEST_BLOCK", h)) : h \in 1..tip}

fetchNetworkRecentBlocks(s, c) ==
    {Done(Dispatch(s, "NETWORK_RECENT_BLOCKS", heights)) :
        heights \in Answers(c.latest - RecentRange, c.latest)}

(* The lists of heights per algorithm: the blocks above the highest listed *)
(* one are appended, none is dropped, and the pool's blocks are asked for. *)
getMinedBlocksAlgos(s, c) ==
    LET listed == Range(c.algos.c29) \cup Range(c.algos.c31)
        of(bits, heights) == Ascending({h \in heights : Edge[h] = bits})
    IN {[store |-> Dispatch(s, "MINED_BLOCKS_ALGOS",
                        [c29 |-> c.algos.c29 \o of(29, heights),
                         c31 |-> c.algos.c31 \o of(31, heights)]),
         next |-> <<"fetchMuglePoolBlocksMined">>] :
           heights \in Answers(Newest(c.latest, listed), c.latest)}

fetchMuglePoolLastBlock(s, c) ==
    {Done(Dispatch(s, "MUGLE_POOL_LAST_BLOCK_MINED", h)) : h \in PoolFound \cap 1..tip}

(* The pool's newest blocks, of the graph size the page's lists say.       *)
fetchMuglePoolRecentBlocks(s, c) ==
    {Done(Dispatch(s, "MUGLE_POOL_RECENT_BLOCKS",
                      {[height |-> h,
                        edge_bits |-> IF h \in Range(c.algos.c31) THEN 31 ELSE 29] :
                          h \in heights \cap PoolFound})) :
        heights \in Answers(0, c.latest)}

(* As many of the pool's newest blocks as there are heights since the last *)
(* marked one, however old they are: heights already marked come again,    *)
(* and so the marks are kept here as the sets of their members.  Blocks in *)
(* neither state, the paid ones, are passed over.                          *)
fetchMuglePoolBlocksMined(s, c) ==
    LET last == Largest({0} \cup c.mined.c29 \cup c.mined.c31 \cup c.orphaned)
        number == IF last = 0 THEN BlockRange ELSE c.latest - last
        newest(seen) == {h \in PoolFound \cap 1..seen :
                            Cardinality({x \in PoolFound \cap 1..seen : x > h}) < number}
        sent == {newest(seen) : seen \in 0..(IF c.latest < tip THEN c.latest ELSE tip)}
        states == UNION {[blocks -> {"new", "orphan", "paid"}] : blocks \in sent}
        in(f, state) == {h \in DOMAIN f : f[h] = state}
    IN {Done(Dispatch(s, "POOL_BLOCKS_MINED",
                    [c29BlocksFound |-> c.mined.c29 \cup (in(f, "new") \cap Range(c.algos.c29)),
                     c31BlocksFound |-> c.mined.c31 \cup (in(f, "new") \cap Range(c.algos.c31)),
                     blocksOrphaned |-> c.orphaned \cup in(f, "orphan")])) : f \in states}

(* A single value of the miner, and the two lists of payments.             *)
fetchMinerTotalValidShares(s, c) == {Done(Dispatch(s, "MINER_TOTAL_VALID_SHARES", c.id))}
fetchMinerPaymentData(s, c) == {Done(Dispatch(s, "MINER_PAYMENT_DATA", c.id))}
fetchMinerImmatureBalance(s, c) == {Done(Dispatch(s, "MINER_IMMATURE_BALANCE", c.id))}
fetchMinerLatestBlockReward(s, c) ==
    {Done(Dispatch(s, "MINER_LATEST_BLOCK_MUGLE_EARNED", c.id))}
fetchMinerNextBlockReward(s, c) ==
    {Done(Dispatch(s, "MINER_NEXT_BLOCK_MUGLE_EARNED", c.id))}
getLatestMinerPayments(s, c) == {Done(s)}
getLatestMinerPaymentRange(s, c) == {Done(Dispatch(s, "LATEST_MINER_PAYMENTS", c.id))}

(* The slate: a refused request returns before the flag is lowered, one    *)
(* that throws lowers it.                                                  *)
fetchMinerPaymentTxSlate(s, c) ==
    {Done(Dispatch(Dispatch(s, "MINER_PAYMENT_TX_SLATE", c.id), "IS_TX_SLATE_LOADING", FALSE)),
     Done(Dispatch(s, "IS_TX_SLATE_LOADING", FALSE))}

(* A manual payout: accepted or not, refused with a message, or thrown.    *)
setPaymentMethodSetting(s, c) ==
    {Done(Dispatch(s, a[1], a[2])) : a \in {<<"MANUAL_PAYMENT_SUBMISSION", c.id>>,
                                            <<"MANUAL_PAYMENT_SUBMISSION", NoUser>>,
                                            <<"MANUAL_PAYMENT_FAILURE", NoUser>>,
                                            <<"IS_PAYMENT_SETTING_PROCESSING", FALSE>>}}

Landed(s, c) ==
    CASE c.thunk = "fetchMinerData" -> fetchMinerData(s, c)
      [] c.thunk = "fetchMuglePoolData" -> fetchMuglePoolData(s, c)
      [] c.thunk = "fetchMuglePoolSharesSubmitted" -> fetchMuglePoolSharesSubmitted(s, c)
      [] c.thunk = "fetchNetworkData" -> fetchNetworkData(s, c)
      [] c.thunk = "fetchMinerShareData" -> fetchMinerShareData(s, c)
      [] c.thunk = "fetchRigData" -> fetchRigData(s, c)
      [] c.thunk = "getLatestBlock" -> getLatestBlock(s, c)
      [] c.thunk = "fetchNetworkRecentBlocks" -> fetchNetworkRecentBlocks(s, c)
      [] c.thunk = "getMinedBlocksAlgos" -> getMinedBlocksAlgos(s, c)
      [] c.thunk = "fetchMuglePoolLastBlock" -> fetchMuglePoolLastBlock(s, c)
      [] c.thunk = "fetchMuglePoolRecentBlocks" -> fetchMuglePoolRecentBlocks(s, c)
      [] c.thunk = "fetchMuglePoolBlocksMined" -> fetchMuglePoolBlocksMined(s, c)
      [] c.thunk = "fetchMinerTotalValidShares" -> fetchMinerTotalValidShares(s, c)
      [] c.thunk = "fetchMinerPaymentData" -> fetchMinerPaymentData(s, c)
      [] c.thunk = "fetchMinerImmatureBalance" -> fetchMinerImmatureBalance(s, c)
      [] c.thunk = "fetchMinerLatestBlockReward" -> fetchMinerLatestBlockReward(s, c)
      [] c.thunk = "fetchMinerNextBlockReward" -> fetchMinerNextBlockReward(s, c)
      [] c.thunk = "getLatestMinerPayments" -> getLatestMinerPayments(s, c)
      [] c.thunk = "getLatestMinerPaymentRange" -> getLatestMinerPaymentRange(s, c)
      [] c.thunk = "fetchMinerPaymentTxSlate" -> fetchMinerPaymentTxSlate(s, c)
      [] c.thunk = "setPaymentMethodSetting" -> setPaymentMethodSetting(s, c)

-----------------------------------------------------------------------------
(* The components of each page, with the thunks they start when they are   *)
(* mounted and when the height they are given changes.                     *)
Component(mount, refresh) == [mount |-> mount, refresh |-> refresh]

MiningGraph == Component(<<"getMinedBlocksAlgos">>, <<"getMinedBlocksAlgos">>)

NetworkDataView ==
    Component(<<"fetchNetworkData">>,
              <<"fetchMuglePoolRecentBlocks", "fetchNetworkData">>)

MuglePoolDataView ==
    LET fetch == <<"fetchMuglePoolData", "fetchMuglePoolLastBlock">>
    IN Component(fetch, fetch)

BlockRangeOf(thunk) == Component(<<thunk>>, <<thunk>>)

SharesSubmittedView ==
    Component(<<"fetchMuglePoolSharesSubmitted">>, <<"fetchMuglePoolSharesSubmitted">>)

StatsTable == Component(<<"fetchNetworkData">>, <<"fetchNetworkData">>)

MinerUpdate ==
    <<"fetchMinerData", "fetchMinerPaymentData", "fetchMinerImmatureBalance",
      "getLatestMinerPaymentRange", "fetchMinerShareData", "fetchNetworkData",
      "fetchMuglePoolData", "fetchMuglePoolRecentBlocks">>

MinerDataView ==
    LET update == MinerUpdate \o <<"fetchMinerLatestBlockReward", "fetchMinerNextBlockReward">>
    IN Component(update, update)

RigUpdate == MinerUpdate \o <<"fetchRigData">>

(* RigData asks at once only if it knows a height; else a timer will.      *)
RigDataView(s) == Component(IF Latest(s) = 0 THEN <<>> ELSE RigUpdate, RigUpdate)

RigGraph == MiningGraph

MinerSharesView ==
    LET fetch == <<"fetchMinerData", "fetchMinerTotalValidShares">>
    IN Component(fetch, fetch)

BlockRewardsView ==
    LET fetch == <<"fetchNetworkRecentBlocks", "fetchNetworkData", "fetchMuglePoolData",
                   "fetchMinerShareData">>
    IN Component(<<"fetchNetworkRecentBlocks">> \o fetch, fetch)

MinerPaymentView == Component(<<"getLatestMinerPayments">>, <<>>)

PaymentDataView ==
    LET fetch == <<"fetchMinerPaymentData", "fetchMinerImmatureBalance">>
    IN Component(fetch, fetch)

(* Its height never changes: the connector gives it under another name.    *)
LatestMinerPaymentsView == Component(<<"getLatestMinerPaymentRange">>, <<>>)

(* Router.js and the four pages.                                           *)
Components(s, p) ==
    CASE p = "home" -> <<NetworkDataView, MiningGraph, MuglePoolDataView, MiningGraph,
                         BlockRangeOf("fetchNetworkRecentBlocks")>>
      [] p = "pool" -> <<MuglePoolDataView, MiningGraph, SharesSubmittedView, StatsTable,
                         BlockRangeOf("fetchMuglePoolRecentBlocks")>>
      [] p = "miner" -> <<MinerDataView, MiningGraph, MinerSharesView, BlockRewardsView>>
      [] p = "rigs" -> <<RigDataView(s), RigGraph, MinerSharesView, BlockRewardsView>>
      [] p = "payment" -> <<MinerPaymentView, PaymentDataView, LatestMinerPaymentsView>>
      [] p = "login" -> <<>>

PrivatePages == {"miner", "rigs", "payment"}

(* PrivateRoute: without an account its path leads to the login page.      *)
Shown(s, p) == IF p \in PrivatePages /\ s.auth.account = NoUser THEN "login" ELSE p

Mounts(s, p) == FlattenSeq([i \in DOMAIN Components(s, p) |-> Components(s, p)[i].mount])

Refreshes(old, s, p) ==
    IF Latest(old) = Latest(s) THEN <<>>
    ELSE FlattenSeq([i \in DOMAIN Components(s, p) |-> Components(s, p)[i].refresh])

-----------------------------------------------------------------------------
(* Steps.                                                                  *)
account == store.auth.account

Processing == store.minerData.isPaymentSettingProcessing

Room == InFlight(calls) < MaxCalls
Without(c) == calls (-) SetToBag({c})
Payers(bag) == {c.id : c \in {x \in DOMAIN bag : x.thunk = "setPaymentMethodSetting"}}
PayoutsOf(bag, u) ==
    Cardinality(Copies(bag, {c \in DOMAIN bag : c.thunk = "setPaymentMethodSetting" /\ c.id = u}))

(* The timers of a page: RigGraph asks for the rigs once more after three  *)
(* seconds, RigData for everything after two if it knew no height.  One of *)
(* a kind is kept, and none whose thunks are all left out.                 *)
TimerThunks(k) == IF k = "RigGraph" THEN <<"fetchRigData">> ELSE RigUpdate

MountTimers(s, p) ==
    {k \in {"RigGraph", "RigData"} :
        /\ p = "rigs" /\ Range(TimerThunks(k)) \cap Live # {}
        /\ k = "RigData" => Latest(s) = 0}

(* Show page p of store s: a page already shown stays mounted.             *)
Show(s, p, inFlight) ==
    /\ store' = s
    /\ page' = Shown(s, p)
    /\ IF page' = page
       THEN calls' = inFlight /\ timers' = timers
       ELSE /\ calls' \in Started(s, inFlight, Mounts(s, page'))
            /\ timers' = timers \cup MountTimers(s, page')

(* attemptAutoLoginFromCookies: an account in the session that has not     *)
(* expired is taken over, else the session is cleared.                     *)
Remembered == IF session # NoUser /\ ~expired THEN session ELSE NoUser

(* MainWrapper is constructed: the session is read, then the latest block  *)
(* is asked for, then the page at the address is mounted.                  *)
Begin(user, p) ==
    LET s == Dispatch(InitialStore, "ACCOUNT", user)
        shown == Shown(s, p)
    IN {[store |-> s, page |-> shown, calls |-> bag, timers |-> MountTimers(s, shown)] :
           bag \in Started(s, EmptyBag, <<"getLatestBlock">> \o Mounts(s, shown))}

(* A session may be left from an earlier visit.                            *)
Init ==
    /\ visit \in Visits
    /\ session \in Owner
    /\ \E p \in Pages : \E b \in Begin(session, p) :
          store = b.store /\ page = b.page /\ calls = b.calls /\ timers = b.timers
    /\ expired = FALSE
    /\ tip = 1
    /\ left = {} /\ former = {} /\ unwaited = {}

(* The browser loads the page again: the store, the timers and the         *)
(* requests are gone, the session is not.                                  *)
Reload ==
    /\ \E b \in Begin(Remembered, page) :
          store' = b.store /\ page' = b.page /\ calls' = b.calls /\ timers' = b.timers
    /\ session' = Remembered
    /\ expired' = FALSE
    /\ left' = {} /\ former' = {} /\ unwaited' = {}
    /\ UNCHANGED <<visit, tip>>

Navigate ==
    /\ \E p \in Pages : page # p /\ Show(store, p, calls)
    /\ UNCHANGED <<visit, session, expired, tip, left, former, unwaited>>

(* logout(): the store is told, then the session is cleared.  The page is  *)
(* left for the login page if it is private, or by the link that was used. *)
Logout(s) == Dispatch(s, "ACCOUNT", NoUser)

(* Whose data the requests in flight will bring besides their own: they    *)
(* hand in what they remembered of two slices.                             *)
Recalled(c) ==
    CASE c.thunk = "fetchMinerData" -> Owners(c.rows)
      [] c.thunk = "fetchMinerShareData" -> RowOwners(c.known)
      [] OTHER -> {}
Carried == UNION {Recalled(c) : c \in DOMAIN calls}

(* What a sign-out leaves behind: it clears the slices that know it, and   *)
(* the payouts in flight are cut off from their spinner.                   *)
Leaves ==
    /\ left' = left \cap Carried
    /\ former' = former \cup left \cup {account}
    /\ unwaited' = unwaited \cup (IF Processing THEN Payers(calls) ELSE {})

SignOut ==
    /\ account # NoUser
    /\ Show(Logout(store), "login", calls)
    /\ session' = NoUser /\ expired' = FALSE
    /\ Leaves
    /\ UNCHANGED <<visit, tip>>

(* Every thirty seconds: an expired account is signed out, and the latest  *)
(* block is asked for in any case.                                         *)
(* Faulty: the session outlives the expired account.                       *)
FaultyPoll ==
    LET out == account # NoUser /\ expired
        s == IF out THEN Logout(store) ELSE store
    IN /\ \E inFlight \in Started(s, calls, <<"getLatestBlock">>) : Show(s, page, inFlight)
       /\ UNCHANGED <<visit, session, expired, tip, left, former, unwaited>>

Poll ==
    LET out == account # NoUser /\ expired
        s == IF out THEN Logout(store) ELSE store
    IN /\ \E inFlight \in Started(s, calls, <<"getLatestBlock">>) : Show(s, page, inFlight)
       /\ IF out THEN session' = NoUser /\ expired' = FALSE /\ Leaves
          ELSE UNCHANGED <<session, expired, left, former, unwaited>>
       /\ UNCHANGED <<visit, tip>>

FireTimer ==
    /\ \E k \in timers :
          /\ timers' = timers \ {k}
          /\ calls' \in Started(store, calls, TimerThunks(k))
    /\ UNCHANGED <<visit, store, session, expired, page, tip, left, former, unwaited>>

(* A request that ends well.  The components see the new height in the     *)
(* same step.  A reply to a user who is no longer signed in is late.  The  *)
(* answer to a payout lowers the flag, whoever it was raised for.          *)
Land(thunk) ==
    /\ \E c \in {x \in DOMAIN calls : x.thunk = thunk} :
          /\ \E o \in Landed(store, c) :
                /\ store' = o.store
                /\ calls' \in Started(o.store, Without(c),
                                  o.next \o Refreshes(store, o.store, page))
          /\ left' = IF c.id = account \/ thunk \notin Writers THEN left
                     ELSE left \cup {c.id}
          /\ unwaited' = Payers(calls') \cap
                (unwaited \cup (IF thunk = "setPaymentMethodSetting" /\ Processing
                               THEN Payers(calls') \ {c.id} ELSE {}))
    /\ UNCHANGED <<visit, session, expired, page, timers, tip, former>>

(* A request that is refused or breaks: its thunk dispatches nothing.      *)
Fail(thunk) ==
    /\ thunk # "setPaymentMethodSetting"
    /\ \E c \in {x \in DOMAIN calls : x.thunk = thunk} : calls' = Without(c)
    /\ UNCHANGED <<visit, store, session, expired, page, timers, tip, left, former, unwaited>>

-----------------------------------------------------------------------------
(* The login page.  Its two buttons stay enabled while requests run.       *)
AtLogin == page = "login" /\ "login" \in Pages

SignIn ==
    /\ AtLogin /\ Room
    /\ \E u \in Users :
          /\ store' = Dispatch(store, "IS_LOGGING_IN", TRUE)
          /\ calls' = calls (+) SetToBag({[thunk |-> "login", id |-> u, legacy |-> FALSE]})
    /\ UNCHANGED <<visit, session, expired, page, timers, tip, left, former, unwaited>>

CreateAccount ==
    /\ AtLogin /\ Room
    /\ \E u \in Users :
          /\ store' = Dispatch(store, "IS_CREATING_ACCOUNT", TRUE)
          /\ calls' = calls (+) SetToBag({[thunk |-> "createUser", id |-> u]})
    /\ UNCHANGED <<visit, session, expired, page, timers, tip, left, former, unwaited>>

(* A user name with a period never leaves the page.                        *)
RejectName ==
    /\ AtLogin
    /\ store' = Dispatch(store, "AUTH_ERROR", TRUE)
    /\ UNCHANGED <<visit, session, expired, page, calls, timers, tip, left, former, unwaited>>

(* createUser goes on with a login that raises no flag of its own.         *)
Created ==
    /\ \E c \in DOMAIN calls :
          /\ c.thunk = "createUser"
          /\ calls' = Without(c) (+)
                SetToBag({[thunk |-> "login", id |-> c.id, legacy |-> FALSE]})
    /\ UNCHANGED <<visit, store, session, expired, page, timers, tip, left, former, unwaited>>

(* The first of the two APIs accepts the login, the second is asked.       *)
LoginAccepted ==
    /\ \E c \in DOMAIN calls :
          /\ c.thunk = "login" /\ ~c.legacy
          /\ calls' = Without(c) (+)
                SetToBag({[thunk |-> "login", id |-> c.id, legacy |-> TRUE]})
    /\ UNCHANGED <<visit, store, session, expired, page, timers, tip, left, former, unwaited>>

(* The second API answers; whether it accepted is not looked at.  The      *)
(* session is written, the account is set, and the rigs are shown.         *)
LoggedIn ==
    /\ \E c \in DOMAIN calls :
          /\ c.thunk = "login" /\ c.legacy
          /\ Show(Dispatch(store, "ACCOUNT", c.id), "rigs", Without(c))
          /\ session' = c.id
          /\ left' = left \cup ({account} \ {NoUser, c.id})
    /\ expired' = FALSE
    /\ UNCHANGED <<visit, tip, former, unwaited>>

(* Any of the requests is refused or breaks.                               *)
SigningInFailed ==
    /\ \E c \in DOMAIN calls :
          /\ c.thunk \in {"login", "createUser"}
          /\ calls' = Without(c)
    /\ store' = Dispatch(store, "AUTH_ERROR", TRUE)
    /\ UNCHANGED <<visit, session, expired, page, timers, tip, left, former, unwaited>>

-----------------------------------------------------------------------------
(* The payment page.                                                       *)
ChoosePaymentType ==
    /\ page = "payment"
    /\ store' = Dispatch(store, "PAYMENT_FORM_FEEDBACK", NoUser)
    /\ UNCHANGED <<visit, session, expired, page, calls, timers, tip, left, former, unwaited>>

ChooseTxSlate ==
    /\ page = "payment" /\ "fetchMinerPaymentTxSlate" \in Live /\ Room
    /\ store' = Dispatch(Dispatch(store, "PAYMENT_FORM_FEEDBACK", NoUser),
                         "IS_TX_SLATE_LOADING", TRUE)
    /\ calls' \in Started(store', calls, <<"fetchMinerPaymentTxSlate">>)
    /\ UNCHANGED <<visit, session, expired, page, timers, tip, left, former, unwaited>>

(* onSubmit: the button is disabled while a payout is processed; an empty  *)
(* recipient or a balance of zero is turned down on the page.              *)
(* Faulty: the button is not disabled.                                     *)
FaultySubmitPayout ==
    /\ page = "payment" /\ "setPaymentMethodSetting" \in Live /\ Room
    /\ store' = Dispatch(store, "IS_PAYMENT_SETTING_PROCESSING", TRUE)
    /\ calls' \in Started(store', calls, <<"setPaymentMethodSetting">>)
    /\ UNCHANGED <<visit, session, expired, page, timers, tip, left, former, unwaited>>

SubmitPayout ==
    /\ page = "payment" /\ "setPaymentMethodSetting" \in Live /\ Room
    /\ ~store.minerData.isPaymentSettingProcessing
    /\ \/ /\ store' = Dispatch(store, "PAYMENT_FORM_FEEDBACK", NoUser)
          /\ UNCHANGED calls
       \/ /\ store' = Dispatch(store, "IS_PAYMENT_SETTING_PROCESSING", TRUE)
          /\ calls' \in Started(store', calls, <<"setPaymentMethodSetting">>)
    /\ UNCHANGED <<visit, session, expired, page, timers, tip, left, former, unwaited>>

-----------------------------------------------------------------------------
(* The world outside: a block is mined, a day passes since the login.      *)
Mined ==
    /\ tip < visit.blocks
    /\ tip' = tip + 1
    /\ UNCHANGED <<visit, store, session, expired, page, calls, timers, left, former, unwaited>>

Expire ==
    /\ session # NoUser /\ ~expired
    /\ expired' = TRUE
    /\ UNCHANGED <<visit, store, session, page, calls, timers, tip, left, former, unwaited>>

Next ==
    \/ Reload \/ Navigate \/ SignOut \/ Poll \/ FireTimer
    \/ \E thunk \in Live : Land(thunk) \/ Fail(thunk)
    \/ SignIn \/ CreateAccount \/ RejectName \/ Created \/ LoginAccepted
    \/ LoggedIn \/ SigningInFailed
    \/ ChoosePaymentType \/ ChooseTxSlate \/ SubmitPayout
    \/ Mined \/ Expire

Spec == Init /\ [][Next]_vars

-----------------------------------------------------------------------------
(* The types of the store, the session, the timers and the requests: every *)
(* thunk leaves a store its reducers and views can work with.              *)
TypeOK ==
    /\ StoreType(store, Height)
    /\ session \in Owner /\ expired \in BOOLEAN
    /\ page \in Pages \cup {"rigs", "login"}
    /\ IsABag(calls)
    /\ \A c \in DOMAIN calls : c.id \in Owner /\ c.thunk \in Live \cup {"login", "createUser"}
    /\ timers \subseteq {"RigGraph", "RigData"}
    /\ tip \in 1..visit.blocks
    /\ left \subseteq Users /\ former \subseteq Users /\ unwaited \subseteq Users

(* The four histories are feeds as Feed states them: no block twice, none  *)
(* out of order and none missing without cause, although requests overlap  *)
(* and every answer rewrites the whole history (WindowThunks).             *)
HeightsOf(rows) == [i \in DOMAIN rows |-> rows[i].height]

Asked(thunk) == {[prev |-> HeightsOf(c.rows), latest |-> c.latest] :
                    c \in {x \in DOMAIN calls : x.thunk = thunk}}

Network == INSTANCE Feed WITH Window <- BlockRange, Dense <- TRUE, top <- tip,
    rows <- HeightsOf(store.networkData.historical), asked <- Asked("fetchNetworkData")
Pool == INSTANCE Feed WITH Window <- BlockRange, Dense <- TRUE, top <- tip,
    rows <- HeightsOf(store.muglePoolData.historical), asked <- Asked("fetchMuglePoolData")
Miner == INSTANCE Feed WITH Window <- BlockRange, Dense <- FALSE, top <- tip,
    rows <- HeightsOf(store.minerData.historical), asked <- Asked("fetchMinerData")

(* The refinement, for NetworkData.js and MuglePoolData.js.                *)
PublicFeeds == Network!Spec /\ Pool!Spec

(* And for MinerData.js, whose rows are cleared when their user signs out  *)
(* while requests for more of them are still in flight.                    *)
MinerFeed == Miner!Spec

(* The account of the store is the one a reload would find, whatever       *)
(* logins, sign-outs, expiries and reloads came in between, and a private  *)
(* page is shown to nobody else.                                           *)
SessionKept ==
    /\ account = session
    /\ page \in PrivatePages => account # NoUser

(* What signing out clears.                                                *)
ClearedOwners(s) ==
    LET m == s.minerData
    IN {m.totalSharesSubmitted, m.paymentData, m.minerImmatureBalance,
        m.latestBlockMugleEarned, m.nextBlockMugleEarned, m.minerPaymentTxSlate,
        m.paymentFormFeedback}
       \cup Owners(m.historical) \cup RowOwners(m.minerShareData)

(* What it leaves on the page: the rigs and the list of payments.          *)
KeptOwners(s) ==
    LET m == s.minerData
    IN {m.latestMinerPayments, m.totalPayoutsAmount}
       \cup Owners(m.rigGpsData) \cup RowOwners(m.rigShareData) \cup m.rigWorkers

(* Data of somebody else is on the page only in three ways: a reply came   *)
(* after its user had signed out, a login came over another account, or    *)
(* the data are of a slice that no sign-out clears.  The next sign-out     *)
(* ends the first two, unless a request in flight remembers the data.      *)
FormerUserData ==
    /\ ClearedOwners(store) \ {NoUser, account} \subseteq left
    /\ KeptOwners(store) \ {NoUser, account} \subseteq left \cup former

(* Two payouts of one user are in flight only if the page has stopped      *)
(* waiting for one of them: the user had signed out while the flag was up, *)
(* or the late answer to another payout, of before a sign-out, lowered the *)
(* flag that the user's own had raised.                                    *)
OnePayout ==
    \A u \in Users \ unwaited : PayoutsOf(calls, u) <= 1

(* A flag that disables a button or turns a spinner is lowered again: a    *)
(* request that will lower it is in flight.  (The slate's flag is not: see *)
(* fetchMinerPaymentTxSlate.)                                              *)
SpinnersEnd ==
    LET inFlight == {c.thunk : c \in DOMAIN calls}
    IN /\ store.auth.isLoggingIn => "login" \in inFlight
       /\ store.auth.isCreatingAccount => inFlight \cap {"login", "createUser"} # {}
       /\ store.minerData.isPaymentSettingProcessing
             => "setPaymentMethodSetting" \in inFlight
=============================================================================
