----------------------------- MODULE PoolBlocks -----------------------------
(***************************************************************************)
(* The life of a block the pool has found: the node logs it, shareAggr     *)
(* records it, poolblockUnlocker decides whether it stayed on the chain,   *)
(* and paymentMaker shares its reward among the miners                     *)
(* (services/shareAggr.py, services/blockWatcher.py,                       *)
(* services/poolblockUnlocker.py, services/paymentMaker.py).               *)
(*                                                                         *)
(* The node is external: a chain of blocks that may be reorganised near    *)
(* its tip.  The jobs run concurrently and may be killed at any step.      *)
(***************************************************************************)
EXTENDS Integers, FiniteSets

CONSTANTS
  MaxHeight,     \* bound: the chain stops there
  Winnable,      \* bound: heights at which the pool may find a block
  Ours,          \* the block the pool finds at a height
  Foreign,       \* blocks other miners find
  NoBlock,       \* no block
  LockTime,      \* block_locktime
  ExpireTime,    \* block_expiretime
  ReorgDepth,    \* deeper blocks of the chain are final
  Users,         \* miners with shares in the payout window
  Registered,    \* those whose account was given a pool_utxo row
  MaxCrashes     \* bound: killed or failed runs

Heights == 1 .. MaxHeight
Blocks == {Ours} \cup Foreign
NoHeight == 0

ASSUME ConstantsAssumption ==
  /\ MaxHeight \in Nat
  /\ Ours \notin Foreign /\ NoBlock \notin Blocks
  /\ LockTime \in Nat /\ ExpireTime \in Nat /\ ReorgDepth \in Nat
  /\ ReorgDepth <= LockTime /\ LockTime < ExpireTime
  /\ Registered \subseteq Users
  /\ MaxCrashes \in Nat

VARIABLES
  \* the node (external)
  tip,        \* height of its chain
  node,       \* [Heights -> block], NoBlock above the tip
  found,      \* heights at which it logged a solution of the pool's
  \* the database (committed)
  seen,       \* [Heights -> block]: Blocks, the watcher's record of the chain
  record,     \* [Heights -> [state, nonce]]: Pool_blocks
  credited,   \* [Heights -> [Users -> Nat]]: how often a share was credited
  mapped,     \* [Heights -> Nat]: Pool_credits records
  rows,       \* users with a pool_utxo row
  \* the jobs
  unlocker,   \* [pc, latest, todo, verdict]: poolblockUnlocker
  maker,      \* [pc, todo, cur, due]: paymentMaker
  pending,    \* paymentMaker's open transaction: [paid, mapped, users]
  crashes     \* runs killed or failed so far

nodeVars == <<tip, node, found>>
database == <<seen, record, credited, mapped, rows>>
makerVars == <<maker, pending>>
vars == <<nodeVars, database, unlocker, makerVars, crashes>>

States == {"none", "new", "unlocked", "orphan", "expired", "paid"}
Verdicts == {"new", "unlocked", "orphan", "expired"}

NoRecord == [state |-> "none", nonce |-> NoBlock]
NoVerdict == [h \in Heights |-> "new"]
UnlockerRests == [pc |-> "idle", latest |-> 0, todo |-> {}, verdict |-> NoVerdict]
MakerRests == [pc |-> "idle", todo |-> {}, cur |-> NoHeight, due |-> {}]
Nothing == [paid |-> FALSE, mapped |-> FALSE, users |-> {}]

Init ==
  /\ tip = 0 /\ node = [h \in Heights |-> NoBlock] /\ found = {}
  /\ seen = [h \in Heights |-> NoBlock]
  /\ record = [h \in Heights |-> NoRecord]
  /\ credited = [h \in Heights |-> [u \in Users |-> 0]]
  /\ mapped = [h \in Heights |-> 0]
  /\ rows = Registered
  /\ unlocker = UnlockerRests
  /\ maker = MakerRests /\ pending = Nothing
  /\ crashes = 0

-----------------------------------------------------------------------------
(* The node *)

MineBlock(b) ==
  /\ tip < MaxHeight
  /\ b = Ours => tip + 1 \in Winnable
  /\ tip' = tip + 1
  /\ node' = [node EXCEPT ![tip + 1] = b]
  /\ found' = IF b = Ours THEN found \cup {tip + 1} ELSE found
  /\ UNCHANGED <<database, unlocker, makerVars, crashes>>

(* Another branch takes over from height h up to the tip. *)
Reorg(h) ==
  /\ h <= tip /\ tip - h < ReorgDepth
  /\ \E branch \in [h .. tip -> Blocks] :
       /\ \A k \in h .. tip : branch[k] = Ours => k \in found
       /\ branch[h] # node[h]
       /\ node' = [k \in Heights |-> IF k \in h .. tip THEN branch[k] ELSE node[k]]
  /\ UNCHANGED <<tip, found, database, unlocker, makerVars, crashes>>

-----------------------------------------------------------------------------
(* Records *)

(* blockWatcher: the next block, as it is on the chain now. *)
WatchBlock(h) ==
  /\ h <= tip /\ seen[h] = NoBlock
  /\ \A k \in Heights : k < h => seen[k] # NoBlock
  /\ seen' = [seen EXCEPT ![h] = node[h]]
  /\ UNCHANGED <<nodeVars, record, credited, mapped, rows, unlocker, makerVars, crashes>>

(* Faulty: a redelivered message overwrites the record. *)
FaultyAddPoolBlock(h) ==
  /\ h \in found
  /\ seen[h] # NoBlock
  /\ record' = [record EXCEPT ![h] = [state |-> "new", nonce |-> seen[h]]]
  /\ UNCHANGED <<nodeVars, seen, credited, mapped, rows, unlocker, makerVars, crashes>>

(* addPoolBlock waits for the watcher's record of that height and takes    *)
(* the nonce from it; a redelivered message is a duplicate key.            *)
AddPoolBlock(h) ==
  /\ h \in found
  /\ seen[h] # NoBlock
  /\ record[h].state = "none"
  /\ record' = [record EXCEPT ![h] = [state |-> "new", nonce |-> seen[h]]]
  /\ UNCHANGED <<nodeVars, seen, credited, mapped, rows, unlocker, makerVars, crashes>>

-----------------------------------------------------------------------------
(* poolblockUnlocker: one transaction per run *)

(* Faulty: the height being mined is taken for the height of the chain. *)
FaultyUnlockStart ==
  /\ unlocker.pc = "idle"
  /\ LET new == {h \in Heights : record[h].state = "new"} IN
       /\ new # {}
       /\ unlocker' = [pc |-> "check", latest |-> tip + 1, todo |-> new,
                       verdict |-> NoVerdict]
  /\ UNCHANGED <<nodeVars, database, makerVars, crashes>>

UnlockStart ==
  /\ unlocker.pc = "idle"
  /\ LET new == {h \in Heights : record[h].state = "new"} IN
       /\ new # {}
       /\ unlocker' = [pc |-> "check", latest |-> tip, todo |-> new,
                       verdict |-> NoVerdict]
  /\ UNCHANGED <<nodeVars, database, makerVars, crashes>>

(* Faulty: a block is unlocked as soon as it is below the tip. *)
FaultyVerdict(h) ==
  IF h < unlocker.latest - ExpireTime THEN "expired"
  ELSE IF node[h] # record[h].nonce THEN "orphan"
  ELSE IF h < unlocker.latest THEN "unlocked"
  ELSE "new"

Verdict(h) ==
  IF h < unlocker.latest - ExpireTime THEN "expired"
  ELSE IF node[h] # record[h].nonce THEN "orphan"
  ELSE IF h < unlocker.latest - LockTime THEN "unlocked"
  ELSE "new"

UnlockCheck(h) ==
  /\ unlocker.pc = "check" /\ h \in unlocker.todo
  /\ unlocker' = [unlocker EXCEPT !.todo = @ \ {h}, !.verdict[h] = Verdict(h)]
  /\ UNCHANGED <<nodeVars, database, makerVars, crashes>>

(* The node does not answer: leave the block for the next run. *)
UnlockUnknown(h) ==
  /\ unlocker.pc = "check" /\ h \in unlocker.todo
  /\ h >= unlocker.latest - ExpireTime
  /\ unlocker' = [unlocker EXCEPT !.todo = @ \ {h}]
  /\ UNCHANGED <<nodeVars, database, makerVars, crashes>>

(* Faulty: the run ends without a commit. *)
FaultyUnlockCommit ==
  /\ unlocker.pc = "check" /\ unlocker.todo = {}
  /\ unlocker' = UnlockerRests
  /\ UNCHANGED <<nodeVars, database, makerVars, crashes>>

UnlockCommit ==
  /\ unlocker.pc = "check" /\ unlocker.todo = {}
  /\ record' = [h \in Heights |->
       IF unlocker.verdict[h] = "new" THEN record[h]
       ELSE [record[h] EXCEPT !.state = unlocker.verdict[h]]]
  /\ unlocker' = UnlockerRests
  /\ UNCHANGED <<nodeVars, seen, credited, mapped, rows, makerVars, crashes>>

UnlockCrash ==
  /\ unlocker.pc = "check" /\ crashes < MaxCrashes
  /\ crashes' = crashes + 1
  /\ unlocker' = UnlockerRests
  /\ UNCHANGED <<nodeVars, database, makerVars>>

-----------------------------------------------------------------------------
(* paymentMaker: one transaction per block, unless credit_worker commits   *)

MakerStart ==
  /\ maker.pc = "idle"
  /\ LET unlocked == {h \in Heights : record[h].state = "unlocked"} IN
       /\ unlocked # {}
       /\ maker' = [MakerRests EXCEPT !.pc = "next", !.todo = unlocked]
  /\ UNCHANGED <<nodeVars, database, unlocker, pending, crashes>>

(* calculate_block_payout_map looks at the state again; Pool_credits and   *)
(* state "paid" are put into the open transaction before any credit.       *)
MakePayoutMap(h) ==
  /\ maker.pc = "next" /\ h \in maker.todo
  /\ maker' = [pc |-> "credit", todo |-> maker.todo \ {h}, cur |-> h,
               due |-> IF record[h].state = "unlocked" THEN Users ELSE {}]
  /\ pending' = [paid |-> TRUE, mapped |-> TRUE, users |-> {}]
  /\ UNCHANGED <<nodeVars, database, unlocker, crashes>>

(* Faulty: the block is marked as paid after its last credit. *)
FaultyCommit ==
  LET h == maker.cur IN
  /\ record' = IF maker.due = {} THEN [record EXCEPT ![h].state = "paid"] ELSE record
  /\ mapped' = IF pending.mapped THEN [mapped EXCEPT ![h] = @ + 1] ELSE mapped
  /\ credited' = [credited EXCEPT ![h] =
       [u \in Users |-> @[u] + IF u \in pending.users THEN 1 ELSE 0]]

(* What a commit of paymentMaker writes. *)
Commit ==
  LET h == maker.cur IN
  /\ record' = IF pending.paid THEN [record EXCEPT ![h].state = "paid"] ELSE record
  /\ mapped' = IF pending.mapped THEN [mapped EXCEPT ![h] = @ + 1] ELSE mapped
  /\ credited' = [credited EXCEPT ![h] =
       [u \in Users |-> @[u] + IF u \in pending.users THEN 1 ELSE 0]]

CreditWorker(u) ==
  /\ maker.pc = "credit" /\ u \in maker.due /\ u \in rows
  /\ maker' = [maker EXCEPT !.due = @ \ {u}]
  /\ pending' = [pending EXCEPT !.users = @ \cup {u}]
  /\ UNCHANGED <<nodeVars, database, unlocker, crashes>>

(* The row is missing: createDataObj commits it, and with it everything    *)
(* the transaction holds so far.                                           *)
CreditNewWorker(u) ==
  /\ maker.pc = "credit" /\ u \in maker.due /\ u \notin rows
  /\ Commit
  /\ rows' = rows \cup {u}
  /\ maker' = [maker EXCEPT !.due = @ \ {u}]
  /\ pending' = [Nothing EXCEPT !.users = {u}]
  /\ UNCHANGED <<nodeVars, seen, unlocker, crashes>>

MakerCommit ==
  /\ maker.pc = "credit" /\ maker.due = {}
  /\ Commit
  /\ maker' = [maker EXCEPT !.pc = "next", !.cur = NoHeight]
  /\ pending' = Nothing
  /\ UNCHANGED <<nodeVars, seen, rows, unlocker, crashes>>

(* An exception (a lock wait, a lost connection): roll back, next block. *)
MakerFails ==
  /\ maker.pc = "credit" /\ crashes < MaxCrashes
  /\ crashes' = crashes + 1
  /\ maker' = [maker EXCEPT !.pc = "next", !.cur = NoHeight, !.due = {}]
  /\ pending' = Nothing
  /\ UNCHANGED <<nodeVars, database, unlocker>>

MakerEnd ==
  /\ maker.pc = "next" /\ maker.todo = {}
  /\ maker' = MakerRests
  /\ UNCHANGED <<nodeVars, database, unlocker, pending, crashes>>

MakerCrash ==
  /\ maker.pc # "idle" /\ crashes < MaxCrashes
  /\ crashes' = crashes + 1
  /\ maker' = MakerRests /\ pending' = Nothing
  /\ UNCHANGED <<nodeVars, database, unlocker>>

-----------------------------------------------------------------------------
UnlockerStep ==
  \/ UnlockStart \/ UnlockCommit
  \/ \E h \in Heights : UnlockCheck(h) \/ UnlockUnknown(h)

MakerStep ==
  \/ MakerStart \/ MakerCommit \/ MakerEnd
  \/ \E h \in Heights : MakePayoutMap(h)
  \/ \E u \in Users : CreditWorker(u) \/ CreditNewWorker(u)

Next ==
  \/ \E b \in Blocks : MineBlock(b)
  \/ \E h \in Heights : Reorg(h) \/ WatchBlock(h) \/ AddPoolBlock(h)
  \/ UnlockerStep \/ UnlockCrash
  \/ MakerStep \/ MakerFails \/ MakerCrash

Spec == Init /\ [][Next]_vars

(***************************************************************************)
(* Fairness: the watcher, the message handler and the jobs, which the      *)
(* cluster starts every hour, keep running (WF); the node answers a        *)
(* question that is asked again and again (SF).                            *)
(***************************************************************************)
Fairness ==
  /\ \A h \in Heights :
       WF_vars(WatchBlock(h)) /\ WF_vars(AddPoolBlock(h)) /\ SF_vars(UnlockCheck(h))
  /\ WF_vars(UnlockerStep) /\ WF_vars(MakerStep)

FairSpec == Spec /\ Fairness

-----------------------------------------------------------------------------
(* Properties *)

TypeOK ==
  /\ tip \in 0 .. MaxHeight
  /\ node \in [Heights -> Blocks \cup {NoBlock}]
  /\ found \subseteq Heights
  /\ seen \in [Heights -> Blocks \cup {NoBlock}]
  /\ record \in [Heights -> [state : States, nonce : Blocks \cup {NoBlock}]]
  /\ credited \in [Heights -> [Users -> Nat]]
  /\ mapped \in [Heights -> Nat]
  /\ rows \subseteq Users
  /\ unlocker \in [pc : {"idle", "check"}, latest : 0 .. MaxHeight,
                   todo : SUBSET Heights, verdict : [Heights -> Verdicts]]
  /\ maker \in [pc : {"idle", "next", "credit"}, todo : SUBSET Heights,
                cur : Heights \cup {NoHeight}, due : SUBSET Users]
  /\ pending \in [paid : BOOLEAN, mapped : BOOLEAN, users : SUBSET Users]
  /\ crashes \in 0 .. MaxCrashes

(* A block's reward is shared out once: a run that is killed or fails,     *)
(* even between the commits inside one block, is never repeated for a      *)
(* miner who has been credited.                                            *)
CreditedOnce == \A h \in Heights, u \in Users : credited[h][u] <= 1

(* No block is paid in part, as long as every miner has a pool_utxo row.   *)
PaidIsWhole ==
  \A h \in Heights :
    record[h].state = "paid" /\ maker.cur # h =>
      \A u \in Users : credited[h][u] = 1

(* Every credit can be traced: a block with credits has its Pool_credits   *)
(* record, exactly one, and is marked as paid.                             *)
CreditsOnRecord ==
  \A h \in Heights :
    /\ (\E u \in Users : credited[h][u] > 0) => record[h].state = "paid"
    /\ mapped[h] = IF record[h].state = "paid" THEN 1 ELSE 0

(* A reward is shared out only for a block that can no longer leave the    *)
(* chain, whatever reorganisations happen while the unlocker is checking.  *)
UnlockedIsFinal ==
  \A h \in Heights :
    record[h].state \in {"unlocked", "paid"} =>
      /\ node[h] = record[h].nonce
      /\ h <= tip - ReorgDepth

(***************************************************************************)
(* Why the properties above hold: what each job may rely on while others   *)
(* run.                                                                    *)
(***************************************************************************)

(* The unlocker's decisions are still about undecided records when they    *)
(* are committed, and "unlocked" is still right although its idea of the   *)
(* tip is older than its look at the block.                                *)
UnlockerFits ==
  /\ unlocker.latest <= tip
  /\ \A h \in Heights :
       /\ h \in unlocker.todo \/ unlocker.verdict[h] # "new" => record[h].state = "new"
       /\ unlocker.verdict[h] = "unlocked" =>
            node[h] = record[h].nonce /\ h <= tip - ReorgDepth

(* The blocks paymentMaker has listed are its own to pay, and a credit     *)
(* that is due or uncommitted has not been made before.                    *)
MakerFits ==
  LET h == maker.cur IN
  /\ maker.pc = "idle" => maker.todo = {}
  /\ \A k \in maker.todo : k # h /\ record[k].state = "unlocked"
  /\ maker.pc # "credit" => h = NoHeight /\ maker.due = {} /\ pending = Nothing
  /\ maker.pc = "credit" =>
       /\ h \in Heights /\ pending.mapped = pending.paid
       /\ record[h].state = IF pending.paid THEN "unlocked" ELSE "paid"
       /\ maker.due \cap pending.users = {}
       /\ \A u \in maker.due \cup pending.users : credited[h][u] = 0

(* A block that was recorded and is deep enough is eventually dealt with.  *)
EventuallyDecided ==
  \A h \in Heights :
    record[h].state = "new" /\ h < tip - LockTime ~>
      record[h].state \in {"paid", "orphan", "expired"}

(***************************************************************************)
(* Claims of comments in the source that the code does not keep            *)
(***************************************************************************)

(* poolblockUnlocker: unlocks blocks that "are not orphan blocks".  The    *)
(* nonce it compares is that of the watcher's record, which may be another *)
(* miner's block.                                                          *)
UnlocksOwnBlocks ==
  \A h \in Heights : record[h].state = "unlocked" => node[h] = Ours

=============================================================================
