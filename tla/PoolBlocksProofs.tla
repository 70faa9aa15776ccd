-------------------------- MODULE PoolBlocksProofs --------------------------
(***************************************************************************)
(* Theorems about PoolBlocks for any number of blocks and miners, any      *)
(* sequence of failed runs and any reorganisation that is not deeper than  *)
(* the lock time.                                                          *)
(***************************************************************************)
EXTENDS PoolBlocks, TLAPS

LEMMA NextCases ==
  ASSUME Next
  PROVE  \/ \E b \in Blocks : MineBlock(b)
         \/ \E h \in Heights : Reorg(h) \/ WatchBlock(h) \/ AddPoolBlock(h)
         \/ UnlockStart \/ UnlockCommit \/ UnlockCrash
         \/ \E h \in Heights : UnlockCheck(h) \/ UnlockUnknown(h)
         \/ MakerStart \/ MakerCommit \/ MakerEnd \/ MakerFails \/ MakerCrash
         \/ \E h \in Heights : MakePayoutMap(h)
         \/ \E u \in Users : CreditWorker(u) \/ CreditNewWorker(u)
  BY DEF Next, UnlockerStep, MakerStep

-----------------------------------------------------------------------------
(* Types *)

LEMMA TypeInit == Init => TypeOK
  BY ConstantsAssumption
  DEF Init, TypeOK, Heights, NoRecord, NoVerdict, UnlockerRests, MakerRests, Nothing,
      States, Verdicts, NoHeight

(* A decision of the unlocker is one of the states it may write. *)
LEMMA VerdictType == \A h \in Heights : Verdict(h) \in Verdicts
  BY DEF Verdict, Verdicts

LEMMA NothingType == Nothing \in [paid : BOOLEAN, mapped : BOOLEAN, users : SUBSET Users]
  BY DEF Nothing

(* What paymentMaker's commit writes is well-typed. *)
LEMMA CommitType ==
  ASSUME TypeOK, maker.pc = "credit", maker.cur \in Heights, Commit
  PROVE  /\ record' \in [Heights -> [state : States, nonce : Blocks \cup {NoBlock}]]
         /\ credited' \in [Heights -> [Users -> Nat]]
         /\ mapped' \in [Heights -> Nat]
  <1> DEFINE h == maker.cur
             c == [u \in Users |-> credited[h][u] + IF u \in pending.users THEN 1 ELSE 0]
  <1>1. record' \in [Heights -> [state : States, nonce : Blocks \cup {NoBlock}]]
    <2>1. record[h] \in [state : States, nonce : Blocks \cup {NoBlock}]
      BY DEF TypeOK
    <2>2. [record[h] EXCEPT !.state = "paid"]
            \in [state : States, nonce : Blocks \cup {NoBlock}]
      BY <2>1 DEF States
    <2>3. record' = record \/ record' = [record EXCEPT ![h] = [record[h] EXCEPT !.state = "paid"]]
      BY DEF Commit
    <2>4. QED
      BY <2>2, <2>3 DEF TypeOK
  <1>2. mapped' \in [Heights -> Nat]
    BY DEF TypeOK, Commit
  <1>3. credited' = [credited EXCEPT ![h] = c]
    BY DEF Commit
  <1>4. \A u \in Users : credited[h][u] \in Nat
    BY DEF TypeOK
  <1>5. c \in [Users -> Nat]
    BY <1>4
  <1>6. credited' \in [Heights -> [Users -> Nat]]
    BY <1>3, <1>5 DEF TypeOK
  <1>7. QED
    BY <1>1, <1>2, <1>6

LEMMA TypeStep == TypeOK /\ MakerFits /\ [Next]_vars => TypeOK'
  <1> SUFFICES ASSUME TypeOK, MakerFits, [Next]_vars PROVE TypeOK'
    OBVIOUS
  <1> USE DEF TypeOK, nodeVars, database, makerVars
  <1>1. ASSUME NEW b \in Blocks, MineBlock(b) PROVE TypeOK'
    BY <1>1, ConstantsAssumption DEF MineBlock, Heights
  <1>2. ASSUME NEW h \in Heights, Reorg(h) PROVE TypeOK'
    <2>1. node' \in [Heights -> Blocks \cup {NoBlock}]
      BY <1>2 DEF Reorg, Heights
    <2>2. QED
      BY <1>2, <2>1 DEF Reorg
  <1>3. ASSUME NEW h \in Heights, WatchBlock(h) \/ AddPoolBlock(h) PROVE TypeOK'
    <2>1. CASE WatchBlock(h)
      BY <2>1 DEF WatchBlock
    <2>2. CASE AddPoolBlock(h)
      <3>1. [state |-> "new", nonce |-> seen[h]]
              \in [state : States, nonce : Blocks \cup {NoBlock}]
        BY DEF States
      <3>2. QED
        BY <2>2, <3>1 DEF AddPoolBlock
    <2>3. QED
      BY <1>3, <2>1, <2>2
  <1>4. CASE UnlockStart
    BY <1>4 DEF UnlockStart, NoVerdict, Verdicts
  <1>5. CASE UnlockCommit \/ UnlockCrash
    <2>1. UnlockerRests \in [pc : {"idle", "check"}, latest : 0 .. MaxHeight,
                             todo : SUBSET Heights, verdict : [Heights -> Verdicts]]
      BY ConstantsAssumption DEF UnlockerRests, NoVerdict, Verdicts
    <2>2. CASE UnlockCommit
      <3>1. \A k \in Heights : unlocker.verdict[k] \in States
        BY DEF Verdicts, States
      <3>2. \A k \in Heights : [record[k] EXCEPT !.state = unlocker.verdict[k]]
                                \in [state : States, nonce : Blocks \cup {NoBlock}]
        <4> SUFFICES ASSUME NEW k \in Heights
                     PROVE  [record[k] EXCEPT !.state = unlocker.verdict[k]]
                              \in [state : States, nonce : Blocks \cup {NoBlock}]
          OBVIOUS
        <4>1. record[k] \in [state : States, nonce : Blocks \cup {NoBlock}]
          OBVIOUS
        <4>2. QED
          BY <3>1, <4>1
      <3>3. record' \in [Heights -> [state : States, nonce : Blocks \cup {NoBlock}]]
        BY <2>2, <3>2 DEF UnlockCommit
      <3>4. QED
        BY <2>1, <2>2, <3>3 DEF UnlockCommit
    <2>3. CASE UnlockCrash
      BY <2>1, <2>3, ConstantsAssumption DEF UnlockCrash
    <2>4. QED
      BY <1>5, <2>2, <2>3
  <1>6. ASSUME NEW h \in Heights, UnlockCheck(h) \/ UnlockUnknown(h) PROVE TypeOK'
    <2>1. Verdict(h) \in Verdicts
      BY VerdictType
    <2>2. unlocker' \in [pc : {"idle", "check"}, latest : 0 .. MaxHeight,
                         todo : SUBSET Heights, verdict : [Heights -> Verdicts]]
      <3>1. unlocker.todo \ {h} \subseteq Heights
        OBVIOUS
      <3>2. [unlocker.verdict EXCEPT ![h] = Verdict(h)] \in [Heights -> Verdicts]
        BY <2>1
      <3>3. \/ unlocker' = [unlocker EXCEPT !.todo = unlocker.todo \ {h}]
            \/ unlocker' = [unlocker EXCEPT !.todo = unlocker.todo \ {h},
                              !.verdict = [unlocker.verdict EXCEPT ![h] = Verdict(h)]]
        BY <1>6 DEF UnlockCheck, UnlockUnknown
      <3>4. QED
        BY <3>1, <3>2, <3>3
    <2>3. QED
      BY <1>6, <2>2 DEF UnlockCheck, UnlockUnknown
  <1>7. CASE MakerStart \/ MakerEnd
    <2>1. maker' \in [pc : {"idle", "next", "credit"}, todo : SUBSET Heights,
                      cur : Heights \cup {NoHeight}, due : SUBSET Users]
      <3>1. PICK t \in SUBSET Heights, c \in {"idle", "next"} :
              maker' = [pc |-> c, todo |-> t, cur |-> NoHeight, due |-> {}]
        BY <1>7 DEF MakerStart, MakerEnd, MakerRests
      <3>2. QED
        BY <3>1
    <2>2. QED
      BY <1>7, <2>1 DEF MakerStart, MakerEnd
  <1>8. CASE MakerCommit
    <2>1. maker.pc = "credit" /\ maker.cur \in Heights /\ Commit
      BY <1>8 DEF MakerCommit, MakerFits
    <2>2. QED
      BY <1>8, <2>1, CommitType DEF MakerCommit, Nothing
  <1>9. CASE MakerFails \/ MakerCrash
    <2>1. maker' \in [pc : {"idle", "next", "credit"}, todo : SUBSET Heights,
                      cur : Heights \cup {NoHeight}, due : SUBSET Users]
      <3>1. PICK t \in SUBSET Heights, c \in {"idle", "next"} :
              maker' = [pc |-> c, todo |-> t, cur |-> NoHeight, due |-> {}]
        BY <1>9 DEF MakerFails, MakerCrash, MakerRests
      <3>2. QED
        BY <3>1
    <2>2. pending' \in [paid : BOOLEAN, mapped : BOOLEAN, users : SUBSET Users]
      BY <1>9, NothingType DEF MakerFails, MakerCrash
    <2>3. QED
      BY <1>9, <2>1, <2>2, ConstantsAssumption DEF MakerFails, MakerCrash
  <1>10. ASSUME NEW h \in Heights, MakePayoutMap(h) PROVE TypeOK'
    BY <1>10 DEF MakePayoutMap
  <1>11. ASSUME NEW u \in Users, CreditWorker(u) PROVE TypeOK'
    BY <1>11 DEF CreditWorker
  <1>12. ASSUME NEW u \in Users, CreditNewWorker(u) PROVE TypeOK'
    <2>1. maker.pc = "credit" /\ maker.cur \in Heights /\ Commit
      BY <1>12 DEF CreditNewWorker, MakerFits
    <2>2. QED
      BY <1>12, <2>1, CommitType DEF CreditNewWorker, Nothing
  <1>13. CASE UNCHANGED vars
    BY <1>13 DEF vars
  <1>14. QED
    BY <1>1, <1>2, <1>3, <1>4, <1>5, <1>6, <1>7, <1>8, <1>9, <1>10, <1>11, <1>12, <1>13,
       NextCases

-----------------------------------------------------------------------------
(* The two jobs, the records and the chain *)

Jobs == TypeOK /\ UnlockerFits /\ MakerFits /\ CreditsOnRecord /\ UnlockedIsFinal
          /\ CreditedOnce

LEMMA JobsInit == Init => Jobs
  <1> SUFFICES ASSUME Init PROVE Jobs
    OBVIOUS
  <1>1. TypeOK
    BY TypeInit
  <1>2. UnlockerFits /\ MakerFits
    BY ConstantsAssumption
    DEF Init, UnlockerFits, MakerFits, UnlockerRests, NoVerdict, MakerRests, Nothing
  <1>3. CreditsOnRecord /\ UnlockedIsFinal /\ CreditedOnce
    BY DEF Init, CreditsOnRecord, UnlockedIsFinal, CreditedOnce, NoRecord
  <1>4. QED
    BY <1>1, <1>2, <1>3 DEF Jobs

(* What a commit of paymentMaker leaves: every listed credit made once,    *)
(* other blocks and other miners untouched.                                *)
LEMMA Commits ==
  ASSUME Jobs, maker.pc = "credit", Commit
  PROVE  LET h == maker.cur IN
         /\ h \in Heights
         /\ record'[h].state = "paid" /\ record'[h].nonce = record[h].nonce
         /\ \A k \in Heights : k # h => record'[k] = record[k]
         /\ mapped'[h] = 1 /\ \A k \in Heights : k # h => mapped'[k] = mapped[k]
         /\ \A u \in pending.users : credited'[h][u] = 1
         /\ \A u \in Users \ pending.users : credited'[h][u] = credited[h][u]
         /\ \A k \in Heights : k # h => credited'[k] = credited[k]
  <1> DEFINE h == maker.cur
  <1>1. /\ h \in Heights /\ pending.mapped = pending.paid
        /\ record[h].state = IF pending.paid THEN "unlocked" ELSE "paid"
        /\ mapped[h] = IF record[h].state = "paid" THEN 1 ELSE 0
        /\ \A u \in pending.users : credited[h][u] = 0
    BY DEF Jobs, MakerFits, CreditsOnRecord
  <1>2. /\ record'[h].state = "paid" /\ record'[h].nonce = record[h].nonce
        /\ \A k \in Heights : k # h => record'[k] = record[k]
    BY <1>1 DEF Jobs, TypeOK, Commit
  <1>3. mapped'[h] = 1 /\ \A k \in Heights : k # h => mapped'[k] = mapped[k]
    BY <1>1 DEF Jobs, TypeOK, Commit
  <1>4. /\ \A u \in Users :
             credited'[h][u] = credited[h][u] + IF u \in pending.users THEN 1 ELSE 0
        /\ \A k \in Heights : k # h => credited'[k] = credited[k]
    BY <1>1 DEF Jobs, TypeOK, Commit
  <1>5. pending.users \subseteq Users /\ \A u \in Users : credited[h][u] \in Nat
    BY <1>1 DEF Jobs, TypeOK
  <1>6. QED
    BY <1>1, <1>2, <1>3, <1>4, <1>5

LEMMA JobsStep == Jobs /\ [Next]_vars => Jobs'
  <1> SUFFICES ASSUME Jobs, [Next]_vars PROVE Jobs'
    OBVIOUS
  <1>0. TypeOK'
    BY TypeStep DEF Jobs
  <1> USE DEF Jobs, nodeVars, database, makerVars
  <1>1. ASSUME NEW b \in Blocks, MineBlock(b) PROVE Jobs'
    BY <1>0, <1>1, ConstantsAssumption
    DEF MineBlock, TypeOK, Heights, UnlockerFits, MakerFits, CreditsOnRecord,
        UnlockedIsFinal, CreditedOnce
  <1>2. ASSUME NEW h \in Heights, Reorg(h) PROVE Jobs'
    <2>1. \A k \in Heights : k <= tip - ReorgDepth => node'[k] = node[k]
      BY <1>2, ConstantsAssumption DEF Reorg, TypeOK, Heights
    <2>2. QED
      BY <1>0, <1>2, <2>1
      DEF Reorg, UnlockerFits, MakerFits, CreditsOnRecord, UnlockedIsFinal, CreditedOnce
  <1>3. ASSUME NEW h \in Heights, WatchBlock(h) PROVE Jobs'
    BY <1>0, <1>3
    DEF WatchBlock, UnlockerFits, MakerFits, CreditsOnRecord, UnlockedIsFinal, CreditedOnce
  <1>4. ASSUME NEW h \in Heights, AddPoolBlock(h) PROVE Jobs'
    BY <1>0, <1>4
    DEF AddPoolBlock, TypeOK, UnlockerFits, MakerFits, CreditsOnRecord, UnlockedIsFinal,
        CreditedOnce
  <1>5. CASE UnlockStart
    BY <1>0, <1>5
    DEF UnlockStart, NoVerdict, TypeOK, UnlockerFits, MakerFits, CreditsOnRecord,
        UnlockedIsFinal, CreditedOnce
  <1>6. ASSUME NEW h \in Heights, UnlockCheck(h) PROVE Jobs'
    <2>1. Verdict(h) = "unlocked" => node[h] = record[h].nonce /\ h <= tip - ReorgDepth
      BY ConstantsAssumption DEF Verdict, UnlockerFits, TypeOK, Heights
    <2>2. UnlockerFits'
      BY <1>6, <2>1 DEF UnlockCheck, UnlockerFits, TypeOK
    <2>3. QED
      BY <1>0, <1>6, <2>2
      DEF UnlockCheck, MakerFits, CreditsOnRecord, UnlockedIsFinal, CreditedOnce
  <1>7. ASSUME NEW h \in Heights, UnlockUnknown(h) PROVE Jobs'
    <2>1. UnlockerFits'
      BY <1>7 DEF UnlockUnknown, UnlockerFits, TypeOK
    <2>2. QED
      BY <1>0, <1>7, <2>1
      DEF UnlockUnknown, MakerFits, CreditsOnRecord, UnlockedIsFinal, CreditedOnce
  <1>8. CASE UnlockCommit
    <2>1. \A h \in Heights :
            /\ record'[h].nonce = record[h].nonce
            /\ IF unlocker.verdict[h] = "new" THEN record'[h] = record[h]
               ELSE record[h].state = "new" /\ record'[h].state = unlocker.verdict[h]
      BY <1>8 DEF UnlockCommit, TypeOK, UnlockerFits
    <2>2. \A h \in Heights : unlocker.verdict[h] # "paid"
      BY DEF TypeOK, Verdicts
    <2>3. UnlockerFits'
      BY <1>8, ConstantsAssumption
      DEF UnlockCommit, UnlockerRests, NoVerdict, UnlockerFits, TypeOK
    <2>4. CreditsOnRecord' /\ CreditedOnce'
      BY <1>8, <2>1, <2>2 DEF UnlockCommit, CreditsOnRecord, CreditedOnce
    <2>7. MakerFits'
      <3>1. \A k \in Heights : record[k].state # "new" => record'[k] = record[k]
        BY <2>1
      <3>2. maker.todo \subseteq Heights
        BY DEF TypeOK
      <3>3. QED
        BY <1>8, <3>1, <3>2 DEF UnlockCommit, MakerFits
    <2>5. UnlockedIsFinal'
      BY <1>8, <2>1, <2>2 DEF UnlockCommit, UnlockedIsFinal, UnlockerFits
    <2>6. QED
      BY <1>0, <2>3, <2>4, <2>5, <2>7
  <1>9. CASE UnlockCrash
    BY <1>0, <1>9, ConstantsAssumption
    DEF UnlockCrash, UnlockerRests, NoVerdict, TypeOK, UnlockerFits, MakerFits,
        CreditsOnRecord, UnlockedIsFinal, CreditedOnce
  <1>10. CASE MakerStart \/ MakerEnd
    <2>1. MakerFits'
      <3>1. CASE MakerStart
        BY <3>1 DEF MakerStart, MakerRests, NoHeight, Heights, MakerFits, TypeOK
      <3>2. CASE MakerEnd
        BY <3>2 DEF MakerEnd, MakerRests, MakerFits, TypeOK
      <3>3. QED
        BY <1>10, <3>1, <3>2
    <2>2. QED
      BY <1>0, <1>10, <2>1
      DEF MakerStart, MakerEnd, UnlockerFits, CreditsOnRecord, UnlockedIsFinal, CreditedOnce
  <1>11. ASSUME NEW h \in Heights, MakePayoutMap(h) PROVE Jobs'
    BY <1>0, <1>11
    DEF MakePayoutMap, TypeOK, UnlockerFits, MakerFits, CreditsOnRecord, UnlockedIsFinal,
        CreditedOnce
  <1>12. ASSUME NEW u \in Users, CreditWorker(u) PROVE Jobs'
    BY <1>0, <1>12
    DEF CreditWorker, TypeOK, UnlockerFits, MakerFits, CreditsOnRecord, UnlockedIsFinal,
        CreditedOnce
  <1>13. ASSUME Commit, maker.pc = "credit", UNCHANGED <<nodeVars, unlocker>>
         PROVE  UnlockerFits' /\ CreditsOnRecord' /\ UnlockedIsFinal' /\ CreditedOnce'
    <2>1. /\ maker.cur \in Heights
          /\ record[maker.cur].state \in {"unlocked", "paid"}
      BY <1>13 DEF MakerFits
    <2>2. UnlockerFits' /\ UnlockedIsFinal'
      BY <1>13, <2>1, Commits DEF UnlockerFits, UnlockedIsFinal
    <2>3. CreditsOnRecord'
      BY <1>13, <2>1, Commits DEF CreditsOnRecord
    <2>4. CreditedOnce'
      BY <1>13, <2>1, Commits DEF CreditedOnce
    <2>5. QED
      BY <2>2, <2>3, <2>4
  <1>14. ASSUME NEW u \in Users, CreditNewWorker(u) PROVE Jobs'
    <2>1. Commit /\ maker.pc = "credit" /\ UNCHANGED <<nodeVars, unlocker>>
      BY <1>14 DEF CreditNewWorker
    <2>2. MakerFits'
      BY <1>14, <2>1, Commits DEF CreditNewWorker, Nothing, MakerFits, TypeOK
    <2>3. QED
      BY <1>0, <1>13, <2>1, <2>2
  <1>15. CASE MakerCommit
    <2>1. Commit /\ maker.pc = "credit" /\ UNCHANGED <<nodeVars, unlocker>>
      BY <1>15 DEF MakerCommit
    <2>2. MakerFits'
      BY <1>15, <2>1, Commits DEF MakerCommit, Nothing, NoHeight, MakerFits, TypeOK, Heights
    <2>3. QED
      BY <1>0, <1>13, <2>1, <2>2
  <1>16. CASE MakerFails \/ MakerCrash
    <2>1. MakerFits'
      <3>1. CASE MakerFails
        BY <3>1 DEF MakerFails, NoHeight, Heights, MakerFits, TypeOK
      <3>2. CASE MakerCrash
        BY <3>2 DEF MakerCrash, MakerRests, MakerFits, TypeOK
      <3>3. QED
        BY <1>16, <3>1, <3>2
    <2>2. QED
      BY <1>0, <1>16, <2>1
      DEF MakerFails, MakerCrash, UnlockerFits, CreditsOnRecord, UnlockedIsFinal,
          CreditedOnce
  <1>17. CASE UNCHANGED vars
    BY <1>0, <1>17
    DEF vars, UnlockerFits, MakerFits, CreditsOnRecord, UnlockedIsFinal, CreditedOnce
  <1>18. QED
    BY <1>1, <1>2, <1>3, <1>4, <1>5, <1>6, <1>7, <1>8, <1>9, <1>10, <1>11, <1>12, <1>14,
       <1>15, <1>16, <1>17, NextCases

LEMMA JobsAlways == Spec => []Jobs
  <1>1. QED
    BY JobsInit, JobsStep, PTL DEF Spec

(* The variables keep their types. *)
THEOREM PoolBlocksType == Spec => []TypeOK
  <1>1. Jobs => TypeOK
    BY DEF Jobs
  <1>2. QED
    BY JobsAlways, <1>1, PTL

(* However often paymentMaker is killed or fails, and wherever it commits, *)
(* no miner is credited twice for a block.                                 *)
THEOREM RewardCreditedOnce == Spec => []CreditedOnce
  <1>1. Jobs => CreditedOnce
    BY DEF Jobs
  <1>2. QED
    BY JobsAlways, <1>1, PTL

(* Credits are never without a Pool_credits record and a "paid" block. *)
THEOREM RewardOnRecord == Spec => []CreditsOnRecord
  <1>1. Jobs => CreditsOnRecord
    BY DEF Jobs
  <1>2. QED
    BY JobsAlways, <1>1, PTL

(* A block that poolblockUnlocker has unlocked stays on the chain. *)
THEOREM UnlockedStaysOnChain == Spec => []UnlockedIsFinal
  <1>1. Jobs => UnlockedIsFinal
    BY DEF Jobs
  <1>2. QED
    BY JobsAlways, <1>1, PTL

-----------------------------------------------------------------------------
(* When every miner has a pool_utxo row, nothing is committed in between *)

Whole ==
  /\ rows = Users
  /\ maker.pc = "credit" => pending.paid /\ maker.due \cup pending.users = Users
  /\ \A h \in Heights :
       record[h].state = "paid" => \A u \in Users : credited[h][u] = 1

LEMMA WholeStep == Jobs /\ Whole /\ [Next]_vars => Whole'
  <1> SUFFICES ASSUME Jobs, Whole, [Next]_vars PROVE Whole'
    OBVIOUS
  <1> USE DEF nodeVars, database, makerVars
  <1>1. ASSUME NEW b \in Blocks, MineBlock(b) PROVE Whole'
    BY <1>1 DEF MineBlock, Whole
  <1>2. ASSUME NEW h \in Heights, Reorg(h) \/ WatchBlock(h) PROVE Whole'
    BY <1>2 DEF Reorg, WatchBlock, Whole
  <1>3. ASSUME NEW h \in Heights, AddPoolBlock(h) PROVE Whole'
    BY <1>3 DEF AddPoolBlock, Whole, Jobs, TypeOK
  <1>4. CASE UnlockStart \/ UnlockCrash
    BY <1>4 DEF UnlockStart, UnlockCrash, Whole
  <1>5. ASSUME NEW h \in Heights, UnlockCheck(h) \/ UnlockUnknown(h) PROVE Whole'
    BY <1>5 DEF UnlockCheck, UnlockUnknown, Whole
  <1>6. CASE UnlockCommit
    <2>1. \A h \in Heights : record'[h].state = "paid" => record[h].state = "paid"
      BY <1>6 DEF UnlockCommit, Jobs, TypeOK, Verdicts
    <2>2. QED
      BY <1>6, <2>1 DEF UnlockCommit, Whole
  <1>7. CASE MakerStart \/ MakerEnd
    <2>1. maker'.pc # "credit" /\ UNCHANGED database
      <3>1. CASE MakerStart
        BY <3>1 DEF MakerStart, MakerRests
      <3>2. CASE MakerEnd
        BY <3>2 DEF MakerEnd, MakerRests
      <3>3. QED
        BY <1>7, <3>1, <3>2
    <2>2. QED
      BY <2>1 DEF Whole
  <1>8. ASSUME NEW h \in Heights, MakePayoutMap(h) PROVE Whole'
    BY <1>8 DEF MakePayoutMap, Whole, Jobs, MakerFits
  <1>9. ASSUME NEW u \in Users, CreditWorker(u) PROVE Whole'
    BY <1>9 DEF CreditWorker, Whole, Jobs, TypeOK
  <1>10. ASSUME NEW u \in Users, CreditNewWorker(u) PROVE Whole'
    BY <1>10 DEF CreditNewWorker, Whole
  <1>11. CASE MakerCommit
    <2>1. /\ maker.pc = "credit" /\ Commit /\ maker.due = {} /\ rows' = rows
          /\ maker'.pc = "next"
      BY <1>11 DEF MakerCommit, Jobs, TypeOK
    <2>2. pending.users = Users
      BY <2>1 DEF Whole
    <2>3. QED
      BY <2>1, <2>2, Commits DEF Whole
  <1>12. CASE MakerFails \/ MakerCrash
    <2>1. maker'.pc # "credit" /\ UNCHANGED database
      <3>1. CASE MakerFails
        BY <3>1 DEF MakerFails, Jobs, TypeOK
      <3>2. CASE MakerCrash
        BY <3>2 DEF MakerCrash, MakerRests
      <3>3. QED
        BY <1>12, <3>1, <3>2
    <2>2. QED
      BY <2>1 DEF Whole
  <1>13. CASE UNCHANGED vars
    BY <1>13 DEF vars, Whole
  <1>14. QED
    BY <1>1, <1>2, <1>3, <1>4, <1>5, <1>6, <1>7, <1>8, <1>9, <1>10, <1>11, <1>12, <1>13,
       NextCases

(* With a row for every miner, no block is ever paid in part. *)
THEOREM PaidInFull == Registered = Users => (Spec => []PaidIsWhole)
  <1> SUFFICES ASSUME Registered = Users PROVE Spec => []PaidIsWhole
    OBVIOUS
  <1>1. Init => Whole
    BY DEF Init, Whole, MakerRests, NoRecord
  <1>2. Whole => PaidIsWhole
    BY DEF Whole, PaidIsWhole
  <1>3. QED
    BY JobsAlways, <1>1, <1>2, WholeStep, PTL DEF Spec

=============================================================================
