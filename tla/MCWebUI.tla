------------------------------ MODULE MCWebUI ------------------------------
(***************************************************************************)
(* Small instances of WebUI for TLC.                                       *)
(***************************************************************************)
EXTENDS WebUI

CONSTANTS u1, u2

TwoUsers == {u1, u2}
Symmetry == Permutations(TwoUsers)

Sizes == [h \in 0..9 |-> IF h % 2 = 0 THEN 31 ELSE 29]
Found == {1, 3, 4}
Shared == {1, 2, 4}

(* What has to do with one another is asked for in one behaviour.          *)
Visit(thunks, pages, height) == [thunks |-> thunks, pages |-> pages, blocks |-> height]

Histories == Visit({"getLatestBlock", "fetchNetworkData", "fetchMuglePoolData"}, {"home"}, 2)
NetworkHistory == Visit({"getLatestBlock", "fetchNetworkData"}, {"home"}, 3)
PoolHistory == Visit({"getLatestBlock", "fetchMuglePoolData"}, {"home"}, 4)
MinerHistory == Visit({"getLatestBlock", "fetchMinerData"}, {"miner"}, 4)

Paying == Visit({"setPaymentMethodSetting"}, {"payment", "login"}, 1)
Signing == Visit({"fetchMinerPaymentTxSlate"}, {"payment", "login"}, 1)
Following == Visit({"getLatestBlock", "fetchMinerData"}, {"payment", "login"}, 1)
Algos == Visit({"getLatestBlock", "getMinedBlocksAlgos", "fetchMuglePoolBlocksMined"},
               {"home"}, 1)
Tables == Visit({"getLatestBlock", "fetchMuglePoolSharesSubmitted", "fetchMuglePoolLastBlock",
                 "fetchMuglePoolRecentBlocks", "fetchNetworkRecentBlocks"}, {"home", "pool"}, 1)
Rigs == Visit({"getLatestBlock", "fetchNetworkData", "fetchRigData"}, {"rigs"}, 2)
Mining == Visit({"getLatestBlock", "fetchMinerData", "fetchMinerShareData"}, {"miner"}, 3)
Values == Visit({"fetchMinerTotalValidShares", "fetchMinerPaymentData",
                 "fetchMinerImmatureBalance", "fetchMinerLatestBlockReward",
                 "fetchMinerNextBlockReward", "getLatestMinerPayments",
                 "getLatestMinerPaymentRange"}, {"miner", "payment"}, 1)

AllVisits == {Histories, NetworkHistory, PoolHistory, MinerHistory, Paying, Signing,
              Following, Algos, Tables, Rigs, Mining, Values}
=============================================================================
