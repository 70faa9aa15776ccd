------------------------------ MODULE WebStore ------------------------------
(***************************************************************************)
(* The redux store of the web UI (src/mugle-js/webui/src/redux/reducers):  *)
(* its slices, its reducers, and the dispatch of actions to them.          *)
(*                                                                         *)
(* The data is abstracted to what the pages tell apart.  A row of a        *)
(* history is [of, height]: the account whose data it is (NoUser for the   *)
(* public ones) and the block it is about, since the content of a row is   *)
(* settled by the two.  A balance, a total or an estimate of a miner is    *)
(* the account it belongs to, NoUser standing for the initial value.       *)
(***************************************************************************)
EXTENDS Integers, Sequences, FiniteSets, SequencesExt

CONSTANTS Users,        \* the accounts that sign in from this browser
          NoUser        \* the null account, and "no data" in a private field

ASSUME NoUserAssumption == NoUser \notin Users

Owner == Users \cup {NoUser}

Rows(heights) == [of : Owner, height : heights]

(* A block as the API sends it, by what the pages read of it: its height   *)
(* and its graph size.                                                     *)
Blocks(heights) == [height : heights, edge_bits : {29, 31}]

Account == Owner

NetworkBlockData(heights) == Rows(heights)
MuglePoolBlockData(heights) == Rows(heights)
MinerBlockData(heights) == Rows(heights)
MinerShareData(heights) == SUBSET Rows(heights)
PoolSharesSubmitted(heights) == Rows(heights)

-----------------------------------------------------------------------------
(* Three shapes cover most reducers: the data of one action replaces the   *)
(* state; besides, signing out restores the initial value; one action      *)
(* raises a flag that others lower.                                        *)
Takes(state, action, type, data) == IF action.type = type THEN data ELSE state

SignsOut(action) == action.type = "ACCOUNT" /\ action.data = NoUser

TakesOrClears(state, action, type, data, initial) ==
    IF SignsOut(action) THEN initial ELSE Takes(state, action, type, data)

-----------------------------------------------------------------------------
(* networkDataReducer.js                                                   *)
NetworkHistorical(state, a) == Takes(state, a, "NETWORK_DATA", a.data.historical)
BlocksByHeight(state, a) == Takes(state, a, "NETWORK_DATA", a.data.blocksByHeight)
NetworkRecentBlocks(state, a) == Takes(state, a, "NETWORK_RECENT_BLOCKS", a.data)
MinedBlockAlgos(state, a) == Takes(state, a, "MINED_BLOCKS_ALGOS", a.data)
LatestBlock(state, a) == Takes(state, a, "LATEST_BLOCK", a.data)

(* The latest block is its height; 0 stands for the empty object the store *)
(* starts with, whose height is undefined.                                 *)
InitialNetworkData ==
    [historical |-> <<>>, blocksByHeight |-> {}, recentBlocks |-> {},
     minedBlockAlgos |-> [c29 |-> <<>>, c31 |-> <<>>], latestBlock |-> 0]

NetworkData(s, a) ==
    [historical |-> NetworkHistorical(s.historical, a),
     blocksByHeight |-> BlocksByHeight(s.blocksByHeight, a),
     recentBlocks |-> NetworkRecentBlocks(s.recentBlocks, a),
     minedBlockAlgos |-> MinedBlockAlgos(s.minedBlockAlgos, a),
     latestBlock |-> LatestBlock(s.latestBlock, a)]

-----------------------------------------------------------------------------
(* muglePoolDataReducer.js                                                 *)
PoolHistorical(state, a) == Takes(state, a, "MUGLE_POOL_DATA", a.data)
LastBlockMined(state, a) == Takes(state, a, "MUGLE_POOL_LAST_BLOCK_MINED", a.data)
PoolRecentBlocks(state, a) == Takes(state, a, "MUGLE_POOL_RECENT_BLOCKS", a.data)
PoolBlocksMined(state, a) ==
    Takes(state, a, "POOL_BLOCKS_MINED",
          [c29 |-> a.data.c29BlocksFound, c31 |-> a.data.c31BlocksFound])
PoolBlocksOrphaned(state, a) ==
    Takes(state, a, "POOL_BLOCKS_MINED", a.data.blocksOrphaned)
SharesSubmitted(state, a) == Takes(state, a, "MUGLE_POOL_SHARES_SUBMITTED", a.data)

InitialMuglePoolData ==
    [historical |-> <<>>, lastBlockMined |-> 0, recentBlocks |-> {},
     poolBlocksMined |-> [c29 |-> {}, c31 |-> {}],
     poolBlocksOrphaned |-> {}, sharesSubmitted |-> <<>>]

MuglePoolData(s, a) ==
    [historical |-> PoolHistorical(s.historical, a),
     lastBlockMined |-> LastBlockMined(s.lastBlockMined, a),
     recentBlocks |-> PoolRecentBlocks(s.recentBlocks, a),
     poolBlocksMined |-> PoolBlocksMined(s.poolBlocksMined, a),
     poolBlocksOrphaned |-> PoolBlocksOrphaned(s.poolBlocksOrphaned, a),
     sharesSubmitted |-> SharesSubmitted(s.sharesSubmitted, a)]

-----------------------------------------------------------------------------
(* Faulty: the history stays; the slate is told from its spinner's action. *)
FaultyMinerHistorical(state, a) == Takes(state, a, "MINER_DATA", a.data)
FaultyMinerPaymentTxSlate(state, a) ==
    TakesOrClears(state, a, "IS_TX_SLATE_LOADING", a.data, NoUser)

(* minerDataReducer.js: signing out clears a miner's data, except the      *)
(* three rig slices, which know no ACCOUNT action, and the two payout      *)
(* slices, which return before they look at an action without data.        *)
MinerHistorical(state, a) == TakesOrClears(state, a, "MINER_DATA", a.data, <<>>)
RigGpsData(state, a) == Takes(state, a, "RIG_DATA", a.data.rigGpsData)
RigShareData(state, a) == Takes(state, a, "RIG_DATA", a.data.rigShareData)
RigWorkers(state, a) == Takes(state, a, "RIG_DATA", a.data.rigWorkers)
TotalSharesSubmitted(state, a) ==
    TakesOrClears(state, a, "MINER_TOTAL_VALID_SHARES", a.data, NoUser)
MinerShareDataState(state, a) ==
    TakesOrClears(state, a, "MINER_SHARE_DATA", a.data, {})
PaymentData(state, a) == TakesOrClears(state, a, "MINER_PAYMENT_DATA", a.data, NoUser)
MinerImmatureBalance(state, a) ==
    TakesOrClears(state, a, "MINER_IMMATURE_BALANCE", a.data, NoUser)
LatestBlockMugleEarned(state, a) ==
    TakesOrClears(state, a, "MINER_LATEST_BLOCK_MUGLE_EARNED", a.data, NoUser)
NextBlockMugleEarned(state, a) ==
    TakesOrClears(state, a, "MINER_NEXT_BLOCK_MUGLE_EARNED", a.data, NoUser)
MinerPaymentTxSlate(state, a) ==
    TakesOrClears(state, a, "MINER_PAYMENT_TX_SLATE", a.data, NoUser)
IsTxSlateLoading(state, a) ==
    TakesOrClears(state, a, "IS_TX_SLATE_LOADING", a.data, FALSE)
LatestMinerPayments(state, a) == Takes(state, a, "LATEST_MINER_PAYMENTS", a.data)
TotalPayoutsAmount(state, a) == Takes(state, a, "LATEST_MINER_PAYMENTS", a.data)

IsPaymentSettingProcessing(state, a) ==
    IF \/ a.type \in {"MANUAL_PAYMENT_SUBMISSION", "MANUAL_PAYMENT_FAILURE"}
       \/ SignsOut(a)
    THEN FALSE
    ELSE Takes(state, a, "IS_PAYMENT_SETTING_PROCESSING", a.data)

(* The feedback line of the payment form, by the account whose payout it   *)
(* reports as made; that it reports a failure, or nothing, is NoUser.      *)
PaymentFormFeedback(state, a) ==
    CASE a.type \in {"PAYMENT_FORM_FEEDBACK", "MANUAL_PAYMENT_SUBMISSION"} -> a.data
      [] \/ a.type \in {"IS_PAYMENT_SETTING_PROCESSING", "MANUAL_PAYMENT_FAILURE"}
         \/ SignsOut(a) -> NoUser
      [] OTHER -> state

InitialMinerData ==
    [historical |-> <<>>, rigGpsData |-> <<>>, rigShareData |-> {}, rigWorkers |-> {},
     totalSharesSubmitted |-> NoUser, paymentData |-> NoUser, minerShareData |-> {},
     minerImmatureBalance |-> NoUser, latestBlockMugleEarned |-> NoUser,
     nextBlockMugleEarned |-> NoUser, latestMinerPayments |-> NoUser,
     totalPayoutsAmount |-> NoUser, minerPaymentTxSlate |-> NoUser,
     isPaymentSettingProcessing |-> FALSE, isTxSlateLoading |-> FALSE,
     paymentFormFeedback |-> NoUser]

MinerData(s, a) ==
    [historical |-> MinerHistorical(s.historical, a),
     rigGpsData |-> RigGpsData(s.rigGpsData, a),
     rigShareData |-> RigShareData(s.rigShareData, a),
     rigWorkers |-> RigWorkers(s.rigWorkers, a),
     totalSharesSubmitted |-> TotalSharesSubmitted(s.totalSharesSubmitted, a),
     paymentData |-> PaymentData(s.paymentData, a),
     minerShareData |-> MinerShareDataState(s.minerShareData, a),
     minerImmatureBalance |-> MinerImmatureBalance(s.minerImmatureBalance, a),
     latestBlockMugleEarned |-> LatestBlockMugleEarned(s.latestBlockMugleEarned, a),
     nextBlockMugleEarned |-> NextBlockMugleEarned(s.nextBlockMugleEarned, a),
     latestMinerPayments |-> LatestMinerPayments(s.latestMinerPayments, a),
     totalPayoutsAmount |-> TotalPayoutsAmount(s.totalPayoutsAmount, a),
     minerPaymentTxSlate |-> MinerPaymentTxSlate(s.minerPaymentTxSlate, a),
     isPaymentSettingProcessing |->
         IsPaymentSettingProcessing(s.isPaymentSettingProcessing, a),
     isTxSlateLoading |-> IsTxSlateLoading(s.isTxSlateLoading, a),
     paymentFormFeedback |-> PaymentFormFeedback(s.paymentFormFeedback, a)]

-----------------------------------------------------------------------------
(* authReducer.js; authError is whether there is an error to show.         *)
AccountState(state, a) == Takes(state, a, "ACCOUNT", a.data)

IsCreatingAccount(state, a) ==
    IF a.type \in {"ACCOUNT", "IS_LOGGING_IN", "AUTH_ERROR"} THEN FALSE
    ELSE Takes(state, a, "IS_CREATING_ACCOUNT", a.data)

(* Faulty: a login that fails leaves the flag.                             *)
FaultyIsLoggingIn(state, a) ==
    IF a.type = "ACCOUNT" THEN FALSE ELSE Takes(state, a, "IS_LOGGING_IN", a.data)

IsLoggingIn(state, a) ==
    IF a.type \in {"ACCOUNT", "AUTH_ERROR"} THEN FALSE
    ELSE Takes(state, a, "IS_LOGGING_IN", a.data)

AuthError(state, a) ==
    CASE a.type = "AUTH_ERROR" -> TRUE
      [] a.type \in {"IS_LOGGING_IN", "IS_CREATING_ACCOUNT"} /\ a.data -> FALSE
      [] OTHER -> state

InitialAuth == [account |-> NoUser, isCreatingAccount |-> FALSE,
                isLoggingIn |-> FALSE, authError |-> FALSE]

Auth(s, a) == [account |-> AccountState(s.account, a),
               isCreatingAccount |-> IsCreatingAccount(s.isCreatingAccount, a),
               isLoggingIn |-> IsLoggingIn(s.isLoggingIn, a),
               authError |-> AuthError(s.authError, a)]

-----------------------------------------------------------------------------
(* store.js: the root reducer, and the dispatch of an action to it.        *)
InitialStore == [networkData |-> InitialNetworkData,
                 muglePoolData |-> InitialMuglePoolData,
                 minerData |-> InitialMinerData, auth |-> InitialAuth]

Reducer(s, a) == [networkData |-> NetworkData(s.networkData, a),
                  muglePoolData |-> MuglePoolData(s.muglePoolData, a),
                  minerData |-> MinerData(s.minerData, a), auth |-> Auth(s.auth, a)]

Dispatch(s, type, data) == Reducer(s, [type |-> type, data |-> data])

(* The type of a store whose rows are about blocks of heights.             *)
StoreType(s, heights) ==
    LET net == s.networkData  pool == s.muglePoolData
        mine == s.minerData   auth == s.auth
    IN /\ net.historical \in Seq(NetworkBlockData(heights))
       /\ net.blocksByHeight \subseteq heights
       /\ net.recentBlocks \subseteq heights
       /\ net.minedBlockAlgos \in [c29 : Seq(heights), c31 : Seq(heights)]
       /\ net.latestBlock \in heights \cup {0}
       /\ pool.historical \in Seq(MuglePoolBlockData(heights))
       /\ pool.lastBlockMined \in heights \cup {0}
       /\ pool.recentBlocks \subseteq Blocks(heights)
       /\ pool.poolBlocksMined \in [c29 : SUBSET heights, c31 : SUBSET heights]
       /\ pool.poolBlocksOrphaned \subseteq heights
       /\ pool.sharesSubmitted \in Seq(PoolSharesSubmitted(heights))
       /\ mine.historical \in Seq(MinerBlockData(heights))
       /\ mine.rigGpsData \in Seq(MinerBlockData(heights))
       /\ mine.minerShareData \in MinerShareData(heights)
       /\ mine.rigShareData \in MinerShareData(heights)
       /\ mine.rigWorkers \subseteq Users
       /\ {mine.totalSharesSubmitted, mine.paymentData, mine.minerImmatureBalance,
           mine.latestBlockMugleEarned, mine.nextBlockMugleEarned,
           mine.latestMinerPayments, mine.totalPayoutsAmount,
           mine.minerPaymentTxSlate, mine.paymentFormFeedback} \subseteq Owner
       /\ {mine.isPaymentSettingProcessing, mine.isTxSlateLoading,
           auth.isCreatingAccount, auth.isLoggingIn, auth.authError} \subseteq BOOLEAN
       /\ auth.account \in Account
=============================================================================
