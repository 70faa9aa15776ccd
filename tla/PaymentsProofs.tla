--------------------------- MODULE PaymentsProofs ---------------------------
(***************************************************************************)
(* Theorems about Payments for every set of accounts, slates and request   *)
(* threads: its variables keep their types; a payout that reached the      *)
(* chain was charged, unless its slate came back while it was given up;    *)
(* and the payout code implements Ledger, hence makes and loses no money,  *)
(* provided refunds and returns of a slate exclude each other (Exclusive). *)
(***************************************************************************)
EXTENDS Payments, TLAPS

(* The steps of Next, one name each, as the proofs below split them.       *)
LEMMA NextCases ==
  ASSUME Next
  PROVE  \/ \E u \in Users, n \in Grants : Credit(u, n)
         \/ \E p \in Slates : Age(p) \/ Mine(p) \/ Drop(p)
         \/ \E i \in Workers, u \in Users : StartSlate(i, u) \/ StartSend(i, u)
         \/ \E i \in Procs, u \in Users, p \in Slates : StartSubmit(i, u, p)
         \/ \E i \in Procs, p \in Slates, f \in Fees :
              InitSendTx(i, p, f) \/ HttpSend(i, p, f) \/ HttpSendLost(i, p, f)
         \/ \E i \in Procs :
              \/ InitFails(i) \/ RecordSlate(i) \/ RecordSend(i) \/ RecordPost(i)
              \/ RecordFails(i) \/ LockOutputs(i) \/ LockOutputsFails(i)
              \/ Finalize(i) \/ FinalizeFails(i) \/ PostTx(i) \/ PostFails(i)
              \/ Deadlock(i) \/ Crash(i)
         \/ PayoutList \/ PayoutExit
         \/ \E u \in Users : PayoutSend(u) \/ PayoutTooSmall(u) \/ PayoutSkip(u)
         \/ TidyPart \/ TidyFlush \/ TidyRefund \/ TidyLockTimeout \/ TidyCrash
         \/ \E p \in Slates :
              TidySkip(p) \/ TidyConfirm(p) \/ TidyCancel(p) \/ TidyRepost(p)
  BY DEF Next, Request, JobStep, PayoutRun, TidyStep, StartSlate, StartSend

-----------------------------------------------------------------------------
(* Types *)

LEMMA TypeInit == Init => TypeOK
  BY ConstantsAssumption
  DEF Init, TypeOK, DatabaseType, WalletType, JobType, TidyType, WorldType, States,
      WalletStates, JobStates, TidyStates, NoTx, Idle, Resting, Procs

(* A process moves on, keeping what it works on. *)
LEMMA JobMoves ==
  ASSUME JobType, NEW i \in Procs, NEW c \in JobStates,
         job[i].slate \in Slates, job' = [job EXCEPT ![i].pc = c]
  PROVE  JobType'
  BY DEF JobType

LEMMA JobEnds ==
  ASSUME JobType, NEW i \in Procs, End(i)
  PROVE  JobType'
  BY DEF JobType, End, Idle, JobStates

LEMMA JobGetsSlate ==
  ASSUME JobType, NEW i \in Procs, NEW c \in JobStates, NEW p \in Slates,
         job' = [job EXCEPT ![i] = [job[i] EXCEPT !.pc = c, !.slate = p]]
  PROVE  JobType'
  <1> DEFINE Jobs == [pc : JobStates, user : Users \cup {Nobody},
                      slate : Slates \cup {NoSlate}, amount : Int]
  <1>1. job[i] \in Jobs
    BY DEF JobType
  <1>2. [job[i] EXCEPT !.pc = c, !.slate = p] \in Jobs
    BY <1>1
  <1>3. job' \in [Procs -> Jobs]
    BY <1>2 DEF JobType
  <1>4. QED
    BY <1>1, <1>3 DEF JobType

(* What an operation on one row or on one slate keeps typed. *)
LEMMA Unlocks ==
  ASSUME rowLock \in [Users -> Procs \cup {Nobody}], NEW i
  PROVE  Unlocked(i) \in [Users -> Procs \cup {Nobody}]
  BY DEF Unlocked

LEMMA TxTypes ==
  ASSUME WalletType, NEW p \in Slates
  PROVE  /\ tx[p].fee \in Int /\ -tx[p].fee \in Int
         /\ tx[p].amount \in Int
         /\ Cost(p) \in Int
  <1>1. tx[p] \in [user : Users \cup {Nobody}, amount : Int, fee : Fees \cup {0}]
    BY DEF WalletType
  <1>2. tx[p].amount \in Int /\ tx[p].fee \in Fees \cup {0}
    BY <1>1
  <1>3. Fees \cup {0} \subseteq Nat
    BY ConstantsAssumption
  <1>4. tx[p].fee \in Nat
    BY <1>2, <1>3
  <1>5. QED
    BY <1>2, <1>4 DEF Cost

LEMMA Records ==
  ASSUME DatabaseType, WalletType,
         NEW i \in Procs, NEW s \in States, Record(i, s), job[i].slate \in Slates
  PROVE  DatabaseType'
  <1> DEFINE p == job[i].slate
  <1>1. -tx[p].fee \in Int
    BY TxTypes
  <1>2. utxo' \in [Users -> Int]
    <2>1. utxo' = [utxo EXCEPT ![job[i].user] = -tx[p].fee]
      BY DEF Record
    <2>2. QED
      BY <1>1, <2>1 DEF DatabaseType
  <1>3. state' \in [Slates -> States]
    BY DEF DatabaseType, Record
  <1>4. rowLock' \in [Users -> Procs \cup {Nobody}]
    BY Unlocks DEF DatabaseType, Record
  <1>5. QED
    BY <1>2, <1>3, <1>4 DEF DatabaseType

LEMMA Abandons ==
  ASSUME DatabaseType, JobType, NEW i \in Procs, Abandon(i), UNCHANGED <<utxo, state>>
  PROVE  DatabaseType' /\ JobType'
  BY JobEnds, Unlocks DEF DatabaseType, Abandon

LEMMA Builds ==
  ASSUME WalletType, JobType, NEW i \in Procs, NEW p \in Slates, NEW f \in Fees,
         NEW ws \in WalletStates, Build(i, p, f, ws)
  PROVE  WalletType'
  <1>1. [user |-> job[i].user, amount |-> job[i].amount, fee |-> f]
          \in [user : Users \cup {Nobody}, amount : Int, fee : Fees \cup {0}]
    BY DEF JobType
  <1>2. QED
    BY <1>1 DEF WalletType, Build

LEMMA WalletMoves ==
  ASSUME WalletType, NEW p \in Slates, NEW ws \in WalletStates,
         wallet' = [wallet EXCEPT ![p] = ws], UNCHANGED <<tx, chain>>
  PROVE  WalletType'
  BY DEF WalletType

LEMMA Posts ==
  ASSUME WalletType, NEW p \in Slates, Post(p), UNCHANGED <<tx, wallet>>
  PROVE  WalletType'
  BY DEF WalletType, Post

LEMMA Begins ==
  ASSUME DatabaseType, JobType, NEW i \in Procs, NEW u \in Users,
         NEW c \in {"slate", "send"}, Begin(i, u, c)
  PROVE  DatabaseType' /\ JobType'
  <1>1. DatabaseType'
    BY DEF DatabaseType, Begin, LockFor
  <1>2. [pc |-> c, user |-> u, slate |-> NoSlate, amount |-> utxo[u]]
          \in [pc : JobStates, user : Users \cup {Nobody},
               slate : Slates \cup {NoSlate}, amount : Int]
    BY DEF DatabaseType, JobStates
  <1>3. JobType'
    BY <1>2 DEF JobType, Begin
  <1>4. QED
    BY <1>1, <1>3

LEMMA TypeStep == TypeOK /\ [Next]_vars => TypeOK'
  <1> SUFFICES ASSUME TypeOK, [Next]_vars PROVE TypeOK'
    OBVIOUS
  <1> USE DEF TypeOK, db, ext, tidyVars, world
  <1>1. ASSUME NEW u \in Users, NEW n \in Grants, Credit(u, n) PROVE TypeOK'
    <2>1. n \in Nat
      BY ConstantsAssumption
    <2>2. QED
      BY <1>1, <2>1 DEF Credit, DatabaseType, WalletType, JobType, TidyType, WorldType
  <1>2. ASSUME NEW p \in Slates, Age(p) PROVE TypeOK'
    BY <1>2 DEF Age, Meetings, DatabaseType, WalletType, JobType, TidyType, WorldType
  <1>3. ASSUME NEW p \in Slates, Mine(p) \/ Drop(p) PROVE TypeOK'
    BY <1>3 DEF Mine, Drop, DatabaseType, WalletType, JobType, TidyType, WorldType
  <1>4. ASSUME NEW i \in Workers, NEW u \in Users, StartSlate(i, u) \/ StartSend(i, u)
        PROVE TypeOK'
    <2>1. DatabaseType' /\ JobType'
      BY <1>4, Begins DEF StartSlate, StartSend, Procs
    <2>2. WalletType' /\ TidyType' /\ WorldType'
      BY <1>4 DEF StartSlate, StartSend, Begin, WalletType, TidyType, WorldType
    <2>3. QED
      BY <2>1, <2>2
  <1>5. ASSUME NEW i \in Procs, NEW u \in Users, NEW p \in Slates,
               StartSubmit(i, u, p)
        PROVE TypeOK'
    <2>1. DatabaseType'
      BY <1>5 DEF StartSubmit, LockFor, DatabaseType
    <2>2. [pc |-> "finalize", user |-> u, slate |-> p, amount |-> 0]
            \in [pc : JobStates, user : Users \cup {Nobody},
                 slate : Slates \cup {NoSlate}, amount : Int]
      BY DEF WalletType, JobStates
    <2>3. JobType'
      BY <1>5, <2>2 DEF StartSubmit, JobType
    <2>4. WalletType' /\ TidyType' /\ WorldType'
      BY <1>5 DEF StartSubmit, Meetings, WalletType, TidyType, WorldType
    <2>5. QED
      BY <2>1, <2>3, <2>4
  <1>6. ASSUME NEW i \in Procs, NEW p \in Slates, NEW f \in Fees,
               InitSendTx(i, p, f) \/ HttpSend(i, p, f) \/ HttpSendLost(i, p, f)
        PROVE TypeOK'
    <2>1. WalletType'
      BY <1>6, Builds DEF InitSendTx, HttpSend, HttpSendLost, WalletStates
    <2>2. DatabaseType' /\ JobType'
      <3>1. CASE HttpSendLost(i, p, f)
        BY <3>1, Abandons DEF HttpSendLost
      <3>2. CASE InitSendTx(i, p, f) \/ HttpSend(i, p, f)
        BY <3>2, JobGetsSlate DEF InitSendTx, HttpSend, DatabaseType, JobStates
      <3>3. QED
        BY <1>6, <3>1, <3>2
    <2>3. TidyType' /\ WorldType'
      BY <1>6 DEF InitSendTx, HttpSend, HttpSendLost, TidyType, WorldType
    <2>4. QED
      BY <2>1, <2>2, <2>3
  <1>7. ASSUME NEW i \in Procs, InitFails(i) PROVE TypeOK'
    BY <1>7, Abandons DEF InitFails, WalletType, TidyType, WorldType
  <1>8. ASSUME NEW i \in Procs, RecordFails(i) \/ Crash(i) PROVE TypeOK'
    <2>1. JobType' /\ DatabaseType'
      BY <1>8, JobEnds, Unlocks DEF RecordFails, Crash, DatabaseType
    <2>2. WalletType' /\ TidyType' /\ WorldType'
      BY <1>8, ConstantsAssumption DEF RecordFails, Crash, WalletType, TidyType,
         WorldType
    <2>3. QED
      BY <2>1, <2>2
  <1>9. ASSUME NEW i \in Procs, RecordSlate(i) \/ RecordSend(i) PROVE TypeOK'
    <2>1. job[i].slate \in Slates
      BY <1>9 DEF RecordSlate, RecordSend, JobType
    <2>2. DatabaseType'
      BY <1>9, <2>1, Records DEF RecordSlate, RecordSend, States
    <2>3. JobType'
      BY <1>9, <2>1, JobMoves DEF RecordSlate, RecordSend, JobStates
    <2>4. WalletType' /\ TidyType' /\ WorldType'
      BY <1>9 DEF RecordSlate, RecordSend, WalletType, TidyType, WorldType
    <2>5. QED
      BY <2>2, <2>3, <2>4
  <1>10. ASSUME NEW i \in Procs, RecordPost(i) PROVE TypeOK'
    <2>1. job[i].slate \in Slates
      BY <1>10 DEF RecordPost, JobType
    <2>2. DatabaseType'
      BY <1>10, <2>1, Unlocks DEF RecordPost, DatabaseType, States
    <2>3. JobType'
      BY <1>10, <2>1, JobMoves DEF RecordPost, JobStates
    <2>4. WalletType' /\ TidyType' /\ WorldType'
      BY <1>10 DEF RecordPost, WalletType, TidyType, WorldType
    <2>5. QED
      BY <2>2, <2>3, <2>4
  <1>11. ASSUME NEW i \in Procs, LockOutputs(i) \/ LockOutputsFails(i) PROVE TypeOK'
    <2>1. job[i].slate \in Slates
      BY <1>11 DEF LockOutputs, LockOutputsFails, JobType
    <2>2. WalletType'
      BY <1>11, <2>1 DEF LockOutputs, LockOutputsFails, WalletType, WalletStates
    <2>3. JobType'
      BY <1>11, JobEnds DEF LockOutputs, LockOutputsFails
    <2>4. DatabaseType' /\ TidyType' /\ WorldType'
      BY <1>11, <2>1
      DEF LockOutputs, LockOutputsFails, DatabaseType, TidyType, WorldType
    <2>5. QED
      BY <2>2, <2>3, <2>4
  <1>12. ASSUME NEW i \in Procs, Finalize(i) PROVE TypeOK'
    <2>1. job[i].slate \in Slates
      BY <1>12 DEF Finalize, JobType
    <2>2. WalletType' /\ JobType'
      BY <1>12, <2>1, WalletMoves, JobMoves DEF Finalize, WalletStates, JobStates
    <2>3. DatabaseType' /\ TidyType' /\ WorldType'
      BY <1>12 DEF Finalize, DatabaseType, TidyType, WorldType
    <2>4. QED
      BY <2>2, <2>3
  <1>13. ASSUME NEW i \in Procs, FinalizeFails(i) PROVE TypeOK'
    <2>1. job[i].slate \in Slates
      BY <1>13 DEF FinalizeFails, JobType
    <2>2. PICK ws \in {wallet[job[i].slate], "final"} :
            wallet' = [wallet EXCEPT ![job[i].slate] = ws]
      BY <1>13 DEF FinalizeFails
    <2>3. ws \in WalletStates
      BY <2>1, <2>2 DEF WalletType, WalletStates
    <2>4. WalletType'
      BY <1>13, <2>1, <2>2, <2>3, WalletMoves DEF FinalizeFails
    <2>5. DatabaseType' /\ JobType'
      BY <1>13, Abandons DEF FinalizeFails
    <2>6. TidyType' /\ WorldType'
      BY <1>13 DEF FinalizeFails, TidyType, WorldType
    <2>7. QED
      BY <2>4, <2>5, <2>6
  <1>14. ASSUME NEW i \in Procs, PostTx(i) \/ PostFails(i) PROVE TypeOK'
    <2>1. job[i].slate \in Slates
      BY <1>14 DEF PostTx, PostFails, JobType
    <2>2. WalletType'
      BY <1>14, <2>1, Posts DEF PostTx, PostFails, WalletType
    <2>3. JobType'
      BY <1>14, JobEnds DEF PostTx, PostFails
    <2>4. DatabaseType' /\ TidyType' /\ WorldType'
      BY <1>14 DEF PostTx, PostFails, DatabaseType, TidyType, WorldType
    <2>5. QED
      BY <2>2, <2>3, <2>4
  <1>15. ASSUME NEW i \in Procs, Deadlock(i) PROVE TypeOK'
    <2>1. CASE flushed' = {} /\ TidyGoto("expire", tidy.todo) /\ UNCHANGED <<job, rowLock>>
      BY <1>15, <2>1 DEF Deadlock, TidyGoto, TidyStates, DatabaseType, WalletType,
         JobType,
         TidyType, WorldType
    <2>2. CASE Abandon(i) /\ UNCHANGED tidyVars
      <3>1. DatabaseType' /\ JobType'
        BY <1>15, <2>2, Abandons DEF Deadlock
      <3>2. QED
        BY <1>15, <2>2, <3>1 DEF Deadlock, WalletType, TidyType, WorldType
    <2>3. QED
      BY <1>15, <2>1, <2>2 DEF Deadlock
  <1>16. CASE PayoutList \/ PayoutExit
    BY <1>16, Unlocks
    DEF PayoutList, PayoutExit, DatabaseType, WalletType, JobType, TidyType, WorldType
  <1>17. ASSUME NEW u \in Users, PayoutSend(u) PROVE TypeOK'
    <2>1. DatabaseType' /\ JobType'
      BY <1>17, Begins DEF PayoutSend, Procs
    <2>2. QED
      BY <1>17, <2>1 DEF PayoutSend, Begin, WalletType, TidyType, WorldType
  <1>18. ASSUME NEW u \in Users, PayoutTooSmall(u) \/ PayoutSkip(u) PROVE TypeOK'
    BY <1>18 DEF PayoutTooSmall, PayoutSkip, LockFor, Procs, DatabaseType, WalletType,
       JobType, TidyType, WorldType
  <1>19. CASE TidyPart
    BY <1>19 DEF TidyPart, TidyGoto, Meetings, TidyStates, DatabaseType, WalletType,
       JobType,
       TidyType, WorldType
  <1>20. CASE TidyFlush
    BY <1>20 DEF TidyFlush, TidyStates, DatabaseType, WalletType, JobType, TidyType,
       WorldType
  <1>21. CASE TidyRefund
    <2>1. tidy.cur \in Slates
      BY <1>21 DEF TidyRefund, TidyType
    <2>2. Cost(tidy.cur) \in Int
      BY <2>1, TxTypes
    <2>3. utxo' \in [Users -> Int]
      <3> DEFINE u == tx[tidy.cur].user
      <3>1. utxo' = [utxo EXCEPT ![u] = utxo[u] + Cost(tidy.cur)]
        BY <1>21 DEF TidyRefund
      <3>2. u \in Users => utxo[u] + Cost(tidy.cur) \in Int
        BY <2>2 DEF DatabaseType
      <3>3. QED
        BY <3>1, <3>2 DEF DatabaseType
    <2>4. state' \in [Slates -> States] /\ rowLock' = rowLock
      BY <1>21 DEF TidyRefund, DatabaseType, States
    <2>5. TidyType'
      BY <1>21 DEF TidyRefund, TidyGoto, TidyStates, TidyType
    <2>6. QED
      BY <1>21, <2>3, <2>4, <2>5
      DEF TidyRefund, DatabaseType, WalletType, JobType, WorldType
  <1>22. CASE TidyLockTimeout \/ TidyCrash
    BY <1>22, ConstantsAssumption DEF TidyLockTimeout, TidyCrash, TidyGoto, Resting,
       TidyStates, DatabaseType, WalletType, JobType, TidyType, WorldType
  <1>23. ASSUME NEW p \in Slates,
                TidySkip(p) \/ TidyConfirm(p) \/ TidyCancel(p) \/ TidyRepost(p)
         PROVE TypeOK'
    <2>1. TidyType'
      BY <1>23 DEF TidySkip, TidyConfirm, TidyCancel, TidyRepost, TidyNext, TidyGoto,
         TidyStates, TidyType
    <2>2. WalletType'
      BY <1>23, WalletMoves, Posts
      DEF TidySkip, TidyConfirm, TidyCancel, TidyRepost, WalletType, WalletStates
    <2>3. DatabaseType' /\ JobType' /\ WorldType'
      BY <1>23 DEF TidySkip, TidyConfirm, TidyCancel, TidyRepost, DatabaseType, States,
         JobType, WorldType
    <2>4. QED
      BY <2>1, <2>2, <2>3
  <1>24. CASE UNCHANGED vars
    BY <1>24 DEF vars, DatabaseType, WalletType, JobType, TidyType, WorldType
  <1>25. QED
    BY <1>1, <1>2, <1>3, <1>4, <1>5, <1>6, <1>7, <1>8, <1>9, <1>10, <1>11, <1>12, <1>13,
       <1>14, <1>15, <1>16, <1>17, <1>18, <1>19, <1>20, <1>21, <1>22, <1>23, <1>24,
       NextCases

(* The variables of the payout code keep their types, and a process that   *)
(* has got to work on a slate has one.                                     *)
THEOREM PaymentsType == Spec => []TypeOK
  <1>1. QED
    BY TypeInit, TypeStep, PTL DEF Spec

-----------------------------------------------------------------------------
(* Who handles a slate (HandedOver) *)

LEMMA HandedOverInit == Init => HandedOver
  BY ConstantsAssumption
  DEF Init, HandedOver, BuiltFirst, OneHandler, JobFits, LateKnown, GivenUp, Returned,
     TidyFits,
      ChainCharged, LockedIsRecorded, Idle, Resting, Procs

LEMMA Ends ==
  ASSUME JobType, NEW i \in Procs, End(i)
  PROVE  /\ \A j \in Procs : j # i => job'[j] = job[j]
         /\ job'[i].pc = "idle" /\ job'[i].slate \notin Slates
  BY ConstantsAssumption DEF JobType, End, Idle

LEMMA EndsAlone ==
  ASSUME JobType, WorldType, NEW i \in Procs, End(i), OneHandler, UNCHANGED issued
  PROVE  OneHandler'
  BY Ends DEF OneHandler

LEMMA Moves ==
  ASSUME JobType, NEW i \in Procs, NEW c \in JobStates, job' = [job EXCEPT ![i].pc = c]
  PROVE  /\ \A j \in Procs : j # i => job'[j] = job[j]
         /\ job'[i].pc = c /\ job'[i].slate = job[i].slate
         /\ job'[i].user = job[i].user /\ job'[i].amount = job[i].amount
  BY DEF JobType

LEMMA Picks ==
  ASSUME JobType, NEW i \in Procs, NEW c \in JobStates, NEW p \in Slates,
         job' = [job EXCEPT ![i] = [job[i] EXCEPT !.pc = c, !.slate = p]]
  PROVE  /\ \A j \in Procs : j # i => job'[j] = job[j]
         /\ job'[i].pc = c /\ job'[i].slate = p
         /\ job'[i].user = job[i].user /\ job'[i].amount = job[i].amount
  <1>1. job[i] \in [pc : JobStates, user : Users \cup {Nobody},
                    slate : Slates \cup {NoSlate}, amount : Int]
    BY DEF JobType
  <1>2. job'[i] = [job[i] EXCEPT !.pc = c, !.slate = p]
    BY DEF JobType
  <1>3. QED
    BY <1>1, <1>2 DEF JobType

LEMMA Begun ==
  ASSUME JobType, NEW i \in Procs, NEW u, NEW c \in {"slate", "send"}, Begin(i, u, c)
  PROVE  /\ \A j \in Procs : j # i => job'[j] = job[j]
         /\ job'[i].pc = c /\ job'[i].slate \notin Slates
         /\ UNCHANGED <<state, ext, tidyVars, world>>
  BY ConstantsAssumption DEF JobType, Begin

LEMMA MeetingsKnown ==
  ASSUME Meetings, LateKnown, old \subseteq old'
  PROVE  LateKnown' /\ late \subseteq late'
  BY DEF Meetings, LateKnown, GivenUp

LEMMA HandedOverStep ==
  ASSUME TypeOK, HandedOver, [Next]_vars
  PROVE  HandedOver'
  <1> USE ConstantsAssumption DEF TypeOK, HandedOver, db, ext, tidyVars, world, Procs
  <1>1. ASSUME NEW u \in Users, NEW n \in Grants, Credit(u, n) PROVE HandedOver'
    BY <1>1 DEF Credit, BuiltFirst, OneHandler, JobFits, LateKnown, GivenUp, Returned,
       TidyFits,
       ChainCharged, LockedIsRecorded
  <1>2. ASSUME NEW p \in Slates, Age(p) PROVE HandedOver'
    <2>1. /\ LateKnown' /\ late \subseteq late' /\ p \notin old /\ old' = old \cup {p}
          /\ state[p] \in {"sent", "posted"}
          /\ UNCHANGED <<db, ext, job, tidyVars, issued>>
      BY <1>2, MeetingsKnown DEF Age
    <2>2. BuiltFirst' /\ OneHandler' /\ ChainCharged' /\ LockedIsRecorded'
      BY <2>1 DEF BuiltFirst, OneHandler, ChainCharged, LockedIsRecorded
    <2>3. JobFits'
      <3>1. ASSUME NEW i \in Procs, NEW q \in Slates, job[i].slate = q,
                   job[i].pc = "lockOutputs", q \in late'
            PROVE  FALSE
        <4>1. /\ q \notin late /\ state[q] \in {"sent", "expired"}
              /\ \A j \in Procs : job[j].slate = q => j = i
          BY <3>1 DEF JobFits, OneHandler, JobType
        <4>2. GivenUp(q)' /\ Returned(q)'
          BY <1>2, <3>1, <4>1 DEF Age, Meetings
        <4>3. ~Returned(q)'
          BY <2>1, <3>1, <4>1 DEF Returned
        <4>4. QED
          BY <4>2, <4>3
      <3>2. QED
        BY <2>1, <3>1 DEF JobFits, JobType
    <2>4. TidyFits'
      BY <2>1 DEF TidyFits, TidyType, LateKnown, GivenUp, Returned
    <2>5. QED
      BY <2>1, <2>2, <2>3, <2>4
  <1>3. ASSUME NEW p \in Slates, Mine(p) \/ Drop(p) PROVE HandedOver'
    BY <1>3 DEF Mine, Drop, BuiltFirst, OneHandler, JobFits, LateKnown, GivenUp,
       Returned, TidyFits,
       ChainCharged, LockedIsRecorded, WalletType
  <1>4. ASSUME NEW i \in Workers, NEW u \in Users, StartSlate(i, u) \/ StartSend(i, u)
        PROVE HandedOver'
    <2>0. /\ \A j \in Procs : j # i => job'[j] = job[j]
          /\ job'[i].pc \in {"slate", "send"} /\ job'[i].slate \notin Slates
          /\ UNCHANGED <<state, ext, tidyVars, world>>
      BY <1>4, Begun DEF StartSlate, StartSend
    <2>1. BuiltFirst'
      BY <2>0, <1>4 DEF BuiltFirst, OneHandler, JobFits
    <2>2. OneHandler'
      BY <2>0, <1>4 DEF BuiltFirst, OneHandler, JobFits
    <2>3. JobFits'
      BY <2>0, <1>4 DEF BuiltFirst, JobFits, WorldType
    <2>4. LateKnown'
      BY <2>0, <1>4 DEF BuiltFirst, LateKnown, GivenUp, Returned, WorldType
    <2>5. TidyFits'
      BY <2>0, <1>4 DEF BuiltFirst, OneHandler, TidyFits
    <2>6. ChainCharged'
      BY <2>0, <1>4 DEF BuiltFirst, OneHandler, ChainCharged
    <2>7. LockedIsRecorded'
      BY <2>0, <1>4 DEF BuiltFirst, OneHandler, LockedIsRecorded
    <2>8. QED
      BY <2>1, <2>2, <2>3, <2>4, <2>5, <2>6, <2>7
  <1>5. ASSUME NEW i \in Procs, NEW u \in Users, NEW p \in Slates, StartSubmit(i, u, p)
        PROVE HandedOver'
    <2>1. /\ p \in issued /\ LateKnown' /\ late \subseteq late'
          /\ \A j \in Procs : j # i => job'[j] = job[j]
          /\ job'[i].pc = "finalize" /\ job'[i].slate = p
          /\ UNCHANGED <<state, ext, tidyVars, issued, old>>
      BY <1>5, MeetingsKnown DEF StartSubmit, JobType
    <2>2. BuiltFirst' /\ OneHandler'
      BY <2>1 DEF BuiltFirst, OneHandler
    <2>3. JobFits'
      <3>1. ASSUME NEW k \in Procs, NEW q \in Slates, job[k].slate = q,
                   job[k].pc = "lockOutputs", q \in late'
            PROVE  FALSE
        <4>1. /\ q \notin late \cup issued
              /\ state[q] \in {"sent", "expired"}
              /\ \A j \in Procs : job[j].slate = q => j = k
          BY <3>1 DEF JobFits, OneHandler, JobType
        <4>2. GivenUp(q)' /\ Returned(q)'
          BY <1>5, <3>1, <4>1 DEF StartSubmit, Meetings
        <4>3. \A j \in Procs : job'[j].slate = q => job'[j].pc = "lockOutputs"
          BY <2>1, <3>1, <4>1
        <4>4. ~Returned(q)'
          BY <2>1, <4>1, <4>3 DEF Returned
        <4>5. QED
          BY <4>2, <4>4
      <3>2. QED
        BY <2>1, <3>1 DEF JobFits, JobType, BuiltFirst
    <2>4. TidyFits'
      BY <2>1 DEF TidyFits
    <2>5. ChainCharged' /\ LockedIsRecorded'
      BY <2>1 DEF ChainCharged, LockedIsRecorded
    <2>6. QED
      BY <2>1, <2>2, <2>3, <2>4, <2>5
  <1>6. ASSUME NEW i \in Procs, NEW p \in Slates, NEW f \in Fees,
               InitSendTx(i, p, f) \/ HttpSend(i, p, f)
        PROVE HandedOver'
    <2>1. PICK c \in {"record", "recordSend"} :
            /\ job[i].pc = IF c = "record" THEN "slate" ELSE "send"
            /\ job' = [job EXCEPT ![i] = [job[i] EXCEPT !.pc = c, !.slate = p]]
            /\ wallet' = [wallet EXCEPT ![p] = IF c = "record" THEN "built" ELSE
               "final"]
      BY <1>6 DEF InitSendTx, HttpSend, Build
    <2>2. /\ wallet[p] = "none" /\ UNCHANGED <<state, chain, tidyVars, world>>
      BY <1>6 DEF InitSendTx, HttpSend, Build
    <2>3. /\ \A j \in Procs : j # i => job'[j] = job[j]
          /\ job'[i].pc = c /\ job'[i].slate = p
      BY <2>1, Picks DEF JobStates
    <2>4. /\ state[p] = "none" /\ p \notin issued \cup old
          /\ \A j \in Procs : job[j].slate # p
      BY <2>2 DEF BuiltFirst
    <2>5. /\ \A q \in Slates : q # p => wallet'[q] = wallet[q]
          /\ wallet'[p] = IF c = "record" THEN "built" ELSE "final"
      BY <2>1 DEF WalletType
    <2>6. BuiltFirst' /\ OneHandler'
      BY <2>2, <2>3, <2>4, <2>5 DEF BuiltFirst, OneHandler, WorldType
    <2>7. JobFits'
      BY <2>2, <2>3, <2>4, <2>5 DEF JobFits, JobType
    <2>8. LateKnown' /\ TidyFits' /\ ChainCharged'
      <3>1. LateKnown'
        BY <2>2, <2>3, <2>4 DEF LateKnown, GivenUp, Returned
      <3>2. TidyFits'
        BY <2>2 DEF TidyFits
      <3>3. ChainCharged'
        BY <2>2, <2>4, <2>5 DEF ChainCharged, LateKnown
      <3>4. QED
        BY <3>1, <3>2, <3>3
    <2>9. LockedIsRecorded'
      BY <2>2, <2>5 DEF LockedIsRecorded
    <2>10. QED
      BY <2>6, <2>7, <2>8, <2>9
  <1>7. ASSUME NEW i \in Procs, NEW p \in Slates, NEW f \in Fees, HttpSendLost(i, p, f)
        PROVE HandedOver'
    <2>1. BuiltFirst'
      BY <1>7, Ends DEF HttpSendLost, Build, Abandon, BuiltFirst
    <2>2. OneHandler'
      BY <1>7, Ends DEF HttpSendLost, Build, Abandon, OneHandler
    <2>3. JobFits'
      BY <1>7, Ends DEF HttpSendLost, Build, Abandon, JobFits
    <2>4. LateKnown'
      BY <1>7, Ends DEF HttpSendLost, Build, Abandon, LateKnown, GivenUp, Returned,
         JobType, WorldType
    <2>5. TidyFits'
      BY <1>7 DEF HttpSendLost, Build, Abandon, TidyFits
    <2>6. ChainCharged'
      BY <1>7 DEF HttpSendLost, Build, Abandon, ChainCharged
    <2>7. LockedIsRecorded'
      BY <1>7 DEF HttpSendLost, Build, Abandon, LockedIsRecorded
    <2>8. QED
      BY <2>1, <2>2, <2>3, <2>4, <2>5, <2>6, <2>7
  <1>8. ASSUME NEW i \in Procs, InitFails(i) PROVE HandedOver'
    BY <1>8, Ends DEF InitFails, Abandon, BuiltFirst, OneHandler, JobFits, LateKnown,
       GivenUp, Returned,
       TidyFits, ChainCharged, LockedIsRecorded, JobType, WorldType
  <1>9. ASSUME NEW i \in Procs, RecordFails(i) \/ Crash(i) PROVE HandedOver'
    <2>1. BuiltFirst'
      BY <1>9, Ends DEF RecordFails, Crash, BuiltFirst, TidyType
    <2>2. OneHandler'
      BY <1>9, EndsAlone DEF RecordFails, Crash
    <2>3. JobFits'
      BY <1>9, Ends DEF RecordFails, Crash, JobFits
    <2>4. LateKnown'
      BY <1>9, Ends DEF RecordFails, Crash, LateKnown, GivenUp, Returned, WorldType
    <2>5. TidyFits'
      BY <1>9, Ends DEF RecordFails, Crash, TidyFits
    <2>6. ChainCharged'
      BY <1>9, Ends DEF RecordFails, Crash, ChainCharged
    <2>7. LockedIsRecorded'
      BY <1>9, Ends DEF RecordFails, Crash, LockedIsRecorded
    <2>8. QED
      BY <2>1, <2>2, <2>3, <2>4, <2>5, <2>6, <2>7
  <1>10. ASSUME NEW i \in Procs, RecordSlate(i) \/ RecordSend(i) PROVE HandedOver'
    <2> DEFINE p == job[i].slate
    <2>1. /\ p \in Slates \ (issued \cup old) /\ state[p] = "none"
          /\ \A j \in Procs : j # i => job[j].slate # p
      BY <1>10 DEF RecordSlate, RecordSend, JobType, JobFits, BuiltFirst, OneHandler
    <2>2. PICK s \in {"sent", "posted"} :
            /\ state' = [state EXCEPT ![p] = s]
            /\ job[i].pc = IF s = "sent" THEN "record" ELSE "recordSend"
            /\ job' = [job EXCEPT ![i].pc = IF s = "sent" THEN "lockOutputs" ELSE
               "post"]
      BY <1>10 DEF RecordSlate, RecordSend, Record
    <2>3. UNCHANGED <<ext, tidyVars, world>>
      BY <1>10 DEF RecordSlate, RecordSend
    <2>4. /\ \A j \in Procs : j # i => job'[j] = job[j]
          /\ job'[i].pc = IF s = "sent" THEN "lockOutputs" ELSE "post"
          /\ job'[i].slate = p
      BY <2>2, Moves DEF JobStates
    <2>5. state'[p] = s /\ \A q \in Slates : q # p => state'[q] = state[q]
      BY <2>1, <2>2 DEF DatabaseType
    <2> HIDE DEF p
    <2>6. wallet[p] \notin {"none", "locked"} /\ chain[p] = "none" /\ p \notin late
      BY <2>1, <2>2 DEF p, BuiltFirst, JobFits, LateKnown, ChainCharged, WalletType
    <2>7. BuiltFirst'
      BY <2>1, <2>3, <2>4, <2>5, <2>6 DEF BuiltFirst, WorldType
    <2>8. OneHandler'
      BY <2>1, <2>2, <2>3, <2>4 DEF p, OneHandler
    <2>9. JobFits'
      BY <2>1, <2>3, <2>4, <2>5, <2>6 DEF JobFits, JobType
    <2>10. LateKnown'
      BY <2>1, <2>3, <2>4, <2>5 DEF LateKnown, GivenUp, Returned
    <2>11. TidyFits'
      BY <2>1, <2>3, <2>5 DEF TidyFits, TidyType, WorldType
    <2>12. ChainCharged' /\ LockedIsRecorded'
      BY <2>1, <2>3, <2>5, <2>6 DEF ChainCharged, LockedIsRecorded
    <2>13. QED
      BY <2>7, <2>8, <2>9, <2>10, <2>11, <2>12
  <1>11. ASSUME NEW i \in Procs, RecordPost(i) PROVE HandedOver'
    BY <1>11 DEF RecordPost, BuiltFirst, OneHandler, JobFits, LateKnown, GivenUp,
       Returned, TidyFits,
       ChainCharged, LockedIsRecorded, DatabaseType, JobType
  <1>12. ASSUME NEW i \in Procs, LockOutputs(i) \/ LockOutputsFails(i) PROVE HandedOver'
    <2>0. /\ job[i].slate \in Slates
          /\ \A j \in Procs : j # i => job[j].slate # job[i].slate
      BY <1>12 DEF LockOutputs, LockOutputsFails, JobType, OneHandler
    <2>1. BuiltFirst'
      BY <1>12, Ends DEF LockOutputs, LockOutputsFails, BuiltFirst, JobFits, WalletType,
         WorldType
    <2>2. OneHandler'
      BY <1>12, Ends DEF LockOutputs, LockOutputsFails, OneHandler, JobType, TidyType,
         WorldType, JobStates, WalletStates
    <2>3. JobFits'
      BY <1>12, Ends, <2>0 DEF LockOutputs, LockOutputsFails, OneHandler, JobFits,
         LateKnown, GivenUp, Returned, TidyFits, ChainCharged, WalletType, JobType,
         WorldType, JobStates,
         WalletStates
    <2>4. LateKnown'
      BY <1>12, Ends DEF LockOutputs, LockOutputsFails, LateKnown, GivenUp, Returned,
         WorldType
    <2>5. TidyFits'
      BY <1>12, Ends DEF LockOutputs, LockOutputsFails, TidyFits
    <2>6. ChainCharged'
      BY <1>12, <2>0, Ends DEF LockOutputs, LockOutputsFails, JobFits, ChainCharged,
         WalletType
    <2>7. LockedIsRecorded'
      BY <1>12 DEF LockOutputs, LockOutputsFails, JobFits, LockedIsRecorded, WalletType
    <2>8. QED
      BY <2>1, <2>2, <2>3, <2>4, <2>5, <2>6, <2>7
  <1>13. ASSUME NEW i \in Procs, Finalize(i) PROVE HandedOver'
    BY <1>13 DEF Finalize, BuiltFirst, OneHandler, JobFits, LateKnown, GivenUp,
       Returned, TidyFits,
       ChainCharged, LockedIsRecorded, WalletType, JobType
  <1>14. ASSUME NEW i \in Procs, FinalizeFails(i) PROVE HandedOver'
    BY <1>14, Ends DEF FinalizeFails, Abandon, BuiltFirst, OneHandler, JobFits,
       LateKnown, GivenUp, Returned, TidyFits, ChainCharged, LockedIsRecorded, WorldType
  <1>15. ASSUME NEW i \in Procs, PostTx(i) \/ PostFails(i) PROVE HandedOver'
    <2>1. BuiltFirst'
      BY <1>15, Ends DEF PostTx, PostFails, Post, BuiltFirst
    <2>2. OneHandler'
      BY <1>15, EndsAlone DEF PostTx, PostFails
    <2>3. JobFits'
      BY <1>15, Ends DEF PostTx, PostFails, Post, JobFits
    <2>4. LateKnown'
      BY <1>15, Ends DEF PostTx, PostFails, Post, LateKnown, GivenUp, Returned, WorldType
    <2>5. TidyFits'
      BY <1>15 DEF PostTx, PostFails, Post, TidyFits
    <2>6. ChainCharged'
      BY <1>15 DEF PostTx, PostFails, Post, JobFits, ChainCharged, WalletType
    <2>7. LockedIsRecorded'
      BY <1>15 DEF PostTx, PostFails, Post, LockedIsRecorded
    <2>8. QED
      BY <2>1, <2>2, <2>3, <2>4, <2>5, <2>6, <2>7
  <1>16. ASSUME NEW i \in Procs, Deadlock(i) PROVE HandedOver'
    <2>1. CASE flushed' = {} /\ TidyGoto("expire", tidy.todo) /\ UNCHANGED <<job, rowLock>>
      <3>1. BuiltFirst'
        BY <1>16, <2>1 DEF Deadlock, TidyGoto, BuiltFirst
      <3>2. OneHandler'
        BY <1>16, <2>1 DEF Deadlock, TidyGoto, OneHandler
      <3>3. JobFits'
        BY <1>16, <2>1 DEF Deadlock, TidyGoto, JobFits
      <3>4. LateKnown'
        BY <1>16, <2>1 DEF Deadlock, TidyGoto, LateKnown, GivenUp, Returned
      <3>5. TidyFits'
        BY <1>16, <2>1 DEF Deadlock, TidyGoto, TidyFits
      <3>6. ChainCharged'
        BY <1>16, <2>1 DEF Deadlock, TidyGoto, ChainCharged
      <3>7. LockedIsRecorded'
        BY <1>16, <2>1 DEF Deadlock, TidyGoto, LockedIsRecorded
      <3>8. QED
        BY <3>1, <3>2, <3>3, <3>4, <3>5, <3>6, <3>7
    <2>2. CASE Abandon(i) /\ UNCHANGED tidyVars
      <3>1. BuiltFirst'
        BY <1>16, <2>2, Ends DEF Deadlock, Abandon, BuiltFirst
      <3>2. OneHandler'
        BY <1>16, <2>2, Ends DEF Deadlock, Abandon, OneHandler, WorldType
      <3>3. JobFits'
        BY <1>16, <2>2, Ends DEF Deadlock, Abandon, JobFits, JobType
      <3>4. LateKnown'
        BY <1>16, <2>2, Ends DEF Deadlock, Abandon, LateKnown, GivenUp, Returned
      <3>5. TidyFits'
        BY <1>16, <2>2, Ends DEF Deadlock, Abandon, TidyFits
      <3>6. ChainCharged'
        BY <1>16, <2>2, Ends DEF Deadlock, Abandon, ChainCharged
      <3>7. LockedIsRecorded'
        BY <1>16, <2>2, Ends DEF Deadlock, Abandon, LockedIsRecorded
      <3>8. QED
        BY <3>1, <3>2, <3>3, <3>4, <3>5, <3>6, <3>7
    <2>3. QED
      BY <1>16, <2>1, <2>2 DEF Deadlock
  <1>17. ASSUME PayoutList \/ PayoutExit PROVE HandedOver'
    BY <1>17 DEF PayoutList, PayoutExit, BuiltFirst, OneHandler, JobFits, LateKnown,
       GivenUp, Returned,
       TidyFits, ChainCharged, LockedIsRecorded
  <1>18. ASSUME NEW u \in Users, PayoutSend(u) \/ PayoutTooSmall(u) \/ PayoutSkip(u)
         PROVE HandedOver'
    BY <1>18 DEF PayoutSend, PayoutTooSmall, PayoutSkip, Begin, BuiltFirst, OneHandler,
       JobFits, LateKnown, GivenUp, Returned, TidyFits, ChainCharged, LockedIsRecorded,
       JobType, WorldType
  <1>19. ASSUME TidyPart PROVE HandedOver'
    <2>1. /\ LateKnown' /\ late \subseteq late' /\ tidy.todo = {}
          /\ flushed' = IF tidy.pc = "repost" THEN {} ELSE flushed
          /\ UNCHANGED <<db, ext, job, issued, old>>
      BY <1>19, MeetingsKnown DEF TidyPart
    <2>2. BuiltFirst' /\ OneHandler' /\ ChainCharged' /\ LockedIsRecorded'
      BY <2>1 DEF BuiltFirst, OneHandler, ChainCharged, LockedIsRecorded
    <2>3. JobFits'
      <3>1. ASSUME NEW i \in Procs, NEW q \in Slates, job[i].slate = q,
                   job[i].pc = "lockOutputs", q \in late'
            PROVE  FALSE
        <4>1. /\ q \notin late /\ state[q] \in {"sent", "expired"}
              /\ \A j \in Procs : job[j].slate = q => j = i
          BY <3>1 DEF JobFits, OneHandler, JobType
        <4>2. GivenUp(q)' /\ Returned(q)'
          BY <1>19, <3>1, <4>1 DEF TidyPart, Meetings
        <4>3. ~Returned(q)'
          BY <2>1, <3>1, <4>1 DEF Returned
        <4>4. QED
          BY <4>2, <4>3
      <3>2. QED
        BY <2>1, <3>1 DEF JobFits, JobType
    <2>4. TidyFits'
      BY <1>19, <2>1 DEF TidyPart, TidyGoto, TidyFits
    <2>5. QED
      BY <2>1, <2>2, <2>3, <2>4
  <1>20. ASSUME TidyFlush PROVE HandedOver'
    BY <1>20 DEF TidyFlush, BuiltFirst, OneHandler, JobFits, LateKnown, GivenUp,
       Returned, TidyFits,
       ChainCharged, LockedIsRecorded
  <1>21. ASSUME TidyRefund PROVE HandedOver'
    <2>1. BuiltFirst'
      BY <1>21 DEF TidyRefund, TidyGoto, BuiltFirst, TidyFits, WorldType
    <2>2. OneHandler'
      BY <1>21 DEF TidyRefund, TidyGoto, BuiltFirst, OneHandler
    <2>3. JobFits'
      BY <1>21 DEF TidyRefund, TidyGoto, BuiltFirst, JobFits, TidyFits, DatabaseType,
         JobType
    <2>4. LateKnown'
      BY <1>21 DEF TidyRefund, TidyGoto, BuiltFirst, LateKnown, GivenUp, Returned
    <2>5. TidyFits'
      BY <1>21 DEF TidyRefund, TidyGoto, TidyFits, TidyType
    <2>6. ChainCharged'
      BY <1>21 DEF TidyRefund, TidyGoto, TidyFits, ChainCharged
    <2>7. LockedIsRecorded'
      BY <1>21 DEF TidyRefund, TidyGoto, BuiltFirst, LockedIsRecorded
    <2>8. QED
      BY <2>1, <2>2, <2>3, <2>4, <2>5, <2>6, <2>7
  <1>22. ASSUME TidyLockTimeout \/ TidyCrash PROVE HandedOver'
    BY <1>22 DEF TidyLockTimeout, TidyCrash, TidyGoto, Resting, BuiltFirst, OneHandler,
       JobFits, LateKnown, GivenUp, Returned, TidyFits, ChainCharged, LockedIsRecorded
  <1>23. ASSUME NEW p \in Slates, TidySkip(p) \/ TidyConfirm(p) PROVE HandedOver'
    <2>1. BuiltFirst'
      BY <1>23 DEF TidySkip, TidyConfirm, TidyNext, TidyGoto, TxSent, TxConfirmed,
         BuiltFirst, DatabaseType, WalletType, WorldType
    <2>2. OneHandler'
      BY <1>23 DEF TidySkip, TidyConfirm, TidyNext, TidyGoto, TxSent, TxConfirmed,
         OneHandler
    <2>3. JobFits'
      BY <1>23 DEF TidySkip, TidyConfirm, TidyNext, TidyGoto, TxSent, TxConfirmed,
         BuiltFirst, JobFits, LateKnown, ChainCharged, DatabaseType, WalletType, JobType,
         TidyType
    <2>4. LateKnown'
      <3>1. /\ UNCHANGED <<job, flushed, old, late>>
            /\ tidy'.pc = tidy.pc /\ tidy'.todo \subseteq tidy.todo
            /\ tidy'.cur \notin Slates
            /\ \A q \in Slates : state'[q] \in {state[q], "confirmed"}
        BY <1>23 DEF TidySkip, TidyConfirm, TidyNext, TidyGoto, DatabaseType
      <3>2. \A q \in Slates : GivenUp(q)' /\ Returned(q)' => GivenUp(q) /\ Returned(q)
        BY <3>1 DEF GivenUp, Returned
      <3>3. QED
        BY <3>1, <3>2 DEF LateKnown
    <2>5. TidyFits'
      BY <1>23 DEF TidySkip, TidyConfirm, TidyNext, TidyGoto, TxSent, TxConfirmed,
         TidyFits
    <2>6. ChainCharged'
      BY <1>23 DEF TidySkip, TidyConfirm, TidyNext, TidyGoto, ChainCharged, DatabaseType,
         WalletType
    <2>7. LockedIsRecorded'
      BY <1>23 DEF TidySkip, TidyConfirm, TidyNext, TidyGoto, TxSent, TxConfirmed,
         ChainCharged, LockedIsRecorded, DatabaseType, WalletType
    <2>8. QED
      BY <2>1, <2>2, <2>3, <2>4, <2>5, <2>6, <2>7
  <1>24. ASSUME NEW p \in Slates, TidyCancel(p) \/ TidyRepost(p) PROVE HandedOver'
    <2>1. BuiltFirst'
      BY <1>24 DEF TidyCancel, TidyRepost, TidyNext, TidyGoto, TxSent, TxConfirmed,
         Post, BuiltFirst, WalletType
    <2>2. OneHandler'
      BY <1>24 DEF TidyCancel, TidyRepost, TidyNext, TidyGoto, TxSent, TxConfirmed,
         Post, OneHandler
    <2>3. JobFits'
      BY <1>24 DEF TidyCancel, TidyRepost, TidyNext, TidyGoto, TxSent, TxConfirmed,
         Post, BuiltFirst, JobFits, WalletType, JobType, WalletStates
    <2>4. LateKnown'
      BY <1>24 DEF TidyCancel, TidyRepost, TidyNext, TidyGoto, TxSent, TxConfirmed,
         Post, LateKnown, GivenUp, Returned
    <2>5. TidyFits'
      BY <1>24 DEF TidyCancel, TidyRepost, TidyNext, TidyGoto, TxSent, TxConfirmed,
         Post, TidyFits
    <2>6. ChainCharged'
      BY <1>24 DEF TidyCancel, TidyRepost, TidyNext, TidyGoto, TxSent, TxConfirmed,
         Post, TidyFits, ChainCharged, LockedIsRecorded, WalletType
    <2>7. LockedIsRecorded'
      BY <1>24 DEF TidyCancel, TidyRepost, TidyNext, TidyGoto, TxSent, TxConfirmed,
         Post, LockedIsRecorded, WalletType
    <2>8. QED
      BY <2>1, <2>2, <2>3, <2>4, <2>5, <2>6, <2>7
  <1>25. ASSUME UNCHANGED vars PROVE HandedOver'
    BY <1>25 DEF vars, BuiltFirst, OneHandler, JobFits, LateKnown, GivenUp, Returned,
       TidyFits,
       ChainCharged, LockedIsRecorded
  <1>26. QED
    BY <1>1, <1>2, <1>3, <1>4, <1>5, <1>6, <1>7, <1>8, <1>9, <1>10, <1>11, <1>12, <1>13,
       <1>14, <1>15, <1>16, <1>17, <1>18, <1>19, <1>20, <1>21, <1>22, <1>23, <1>24,
       <1>25, NextCases

(* Each process finds the slate it works on as it left it: a slate is in   *)
(* the hands of one process until it is issued, and but for the slates     *)
(* that came back while they were being given up, tidyWallet's decisions   *)
(* are still right when it acts on them and only a transaction on record   *)
(* as posted is given to the node.                                         *)
THEOREM PayoutsHandedOver == Spec => []HandedOver
  <1>1. Init => TypeOK /\ HandedOver
    BY TypeInit, HandedOverInit
  <1>2. TypeOK /\ HandedOver /\ [Next]_vars => TypeOK' /\ HandedOver'
    BY TypeStep, HandedOverStep
  <1>3. QED
    BY <1>1, <1>2, PTL DEF Spec

(* A transaction that reached the chain was charged to its user, and was   *)
(* not given back, unless it came back while tidyWallet was giving it up:  *)
(* the pool does not pay twice.                                            *)
THEOREM MinedWasCharged == Spec => []MinedIsCharged
  <1>1. HandedOver => MinedIsCharged
    BY DEF HandedOver, ChainCharged, MinedIsCharged
  <1>2. QED
    BY <1>1, PayoutsHandedOver, PTL

(* The wallet's outputs are locked only for a payment on record, so that   *)
(* tidyWallet finds every slate that holds some.                           *)
THEOREM LockedWasRecorded == Spec => []LockedIsRecorded
  <1>1. HandedOver => LockedIsRecorded
    BY DEF HandedOver
  <1>2. QED
    BY <1>1, PayoutsHandedOver, PTL

-----------------------------------------------------------------------------
(* Who is charged and who is refunded (Accounted) *)

(* A process about to charge a user holds the user's row, with the balance *)
(* it has read, and the record of its slate is still to be written.        *)
Charging ==
  \A i \in Procs : job[i].pc \in {"slate", "record", "send", "recordSend"} =>
    LET u == job[i].user
        p == job[i].slate IN
    /\ u \in Users /\ rowLock[u] = i
    /\ job[i].amount = utxo[u] /\ utxo[u] >= MinPayout
    /\ job[i].pc \in {"record", "recordSend"} =>
         /\ tx[p].user = u /\ tx[p].amount = utxo[u] /\ tx[p].fee \in Fees
         /\ state[p] = "none" /\ wallet[p] # "locked"

(* tidyWallet commits one record at a time. *)
OneRefund == flushed = IF tidy.pc = "refund" THEN {tidy.cur} ELSE {}

(* The records tidyWallet listed are still open, posted in the meantime at *)
(* most; those it is refunding hold no outputs.                            *)
ListsFit ==
  /\ tidy.pc = "confirm" => \A p \in tidy.todo : state[p] = "posted"
  /\ tidy.pc \in {"expire", "flush", "refund"} =>
       \A p \in tidy.todo : state[p] \in {"sent", "posted"}
  /\ tidy.pc \in {"flush", "refund"} =>
       /\ tidy.cur \in old \ tidy.todo /\ state[tidy.cur] \in {"sent", "posted"}
       /\ SlowCreate \/ wallet[tidy.cur] # "locked"

(* Outputs are locked only for a record that waits for its slate. *)
OutputsFit ==
  /\ \A i \in Procs : job[i].pc = "lockOutputs" =>
       /\ state[job[i].slate] \in {"sent", "expired"}
       /\ SlowCreate \/ job[i].slate \notin old
  /\ \A p \in Slates : wallet[p] = "locked" =>
       state[p] = "sent" \/ (SlowCreate /\ state[p] = "expired")
  /\ \A p \in Slates : state[p] = "expired" => p \in old

(* A slate that is being returned was issued; unless it may come late, it  *)
(* is not old, and unless others may return it, its owner's row is locked. *)
(* Once the wallet has finalized it, its record is not touched.            *)
ReturnsFit ==
  \A i \in Procs : job[i].pc \in {"finalize", "recordPost"} =>
    LET p == job[i].slate IN
    /\ p \in issued /\ job[i].user \in Users
    /\ LateReturns \/ p \notin old
    /\ OthersReturn \/ (job[i].user = tx[p].user /\ rowLock[tx[p].user] = i)
    /\ job[i].pc = "recordPost" => state[p] = "sent" /\ wallet[p] # "locked"

(* The wallet finalizes a slate once. *)
OneReturn ==
  \A i, j \in Procs : i # j /\ job[i].pc = "recordPost" /\ job[j].pc = "recordPost" =>
    job[i].slate # job[j].slate

Accounted == /\ Charging /\ BuiltFirst /\ OneHandler /\ OneRefund
             /\ ListsFit /\ OutputsFit /\ ReturnsFit /\ OneReturn

(* When refunds and returns of a slate exclude each other: row locks are   *)
(* granted in time, and a slate is back before its return time or, if      *)
(* get_tx_slate is not slow, by the hand of the account it was made for,   *)
(* whose row the refund needs.                                             *)
Exclusive == ~LockTimeouts /\ (LateReturns => ~SlowCreate /\ ~OthersReturn)

LEMMA AccountedInit == Init => Accounted
  BY ConstantsAssumption
  DEF Init, Accounted, Charging, BuiltFirst, OneHandler, OneRefund, ListsFit, OutputsFit,
      ReturnsFit, OneReturn, Idle, Resting, Procs

(* The other processes keep the rows they hold. *)
LEMMA RowsKept ==
  ASSUME DatabaseType, NEW i \in Procs,
         rowLock' \in {rowLock, Unlocked(i)} \/ \E u \in Users : LockFor(i, u)
  PROVE  \A j \in Procs \ {i}, u \in Users : rowLock[u] = j => rowLock'[u] = j
  BY ConstantsAssumption DEF DatabaseType, Unlocked, LockFor, Procs

(* Step of a process i that starts no charge: the charges of the others go *)
(* on as before.                                                           *)
LEMMA ChargingKept ==
  ASSUME JobType, BuiltFirst, Charging, NEW i \in Procs,
         \A j \in Procs \ {i} : job'[j] = job[j],
         \A j \in Procs \ {i}, u \in Users :
           rowLock[u] = j => rowLock'[u] = j /\ utxo'[u] = utxo[u],
         job'[i].pc \notin {"slate", "record", "send", "recordSend"},
         \A p \in Slates : wallet[p] # "none" => tx'[p] = tx[p],
         \A j \in Procs \ {i} : job[j].pc \in {"record", "recordSend"} =>
           LET p == job[j].slate IN
           state'[p] = state[p] /\ (wallet'[p] = "locked" => wallet[p] = "locked")
  PROVE  Charging'
  BY DEF Charging, BuiltFirst, JobType

(* Step of a process i that returns no slate: the returns of the others go *)
(* on as before.                                                           *)
LEMMA ReturnsKept ==
  ASSUME JobType, ReturnsFit, NEW i \in Procs,
         \A j \in Procs \ {i} : job'[j] = job[j],
         \A j \in Procs \ {i}, u \in Users : rowLock[u] = j => rowLock'[u] = j,
         job'[i].pc \notin {"finalize", "recordPost"},
         issued \subseteq issued', old' = old,
         \A p \in issued :
           /\ tx'[p] = tx[p] /\ state'[p] = state[p]
           /\ wallet'[p] = "locked" => wallet[p] = "locked"
  PROVE  ReturnsFit'
  BY DEF ReturnsFit

LEMMA AccountedStep ==
  ASSUME Exclusive, TypeOK, Accounted, [Next]_vars
  PROVE  Accounted'
  <1> USE ConstantsAssumption DEF Exclusive, TypeOK, Accounted, db, ext, tidyVars,
  world, Procs
  <1>1. ASSUME NEW u \in Users, NEW n \in Grants, Credit(u, n) PROVE Accounted'
    BY <1>1 DEF Credit, Charging, BuiltFirst, OneHandler, OneRefund, ListsFit,
       OutputsFit, ReturnsFit, OneReturn, DatabaseType
  <1>2. ASSUME NEW p \in Slates, Age(p) PROVE Accounted'
    BY <1>2 DEF Age, Charging, BuiltFirst, OneHandler, OneRefund, ListsFit, OutputsFit,
       ReturnsFit, OneReturn, JobType, TidyType
  <1>3. ASSUME NEW p \in Slates, Mine(p) \/ Drop(p) PROVE Accounted'
    BY <1>3 DEF Mine, Drop, Charging, BuiltFirst, OneHandler, OneRefund, ListsFit,
       OutputsFit, ReturnsFit, OneReturn, WalletType
  <1>4. ASSUME NEW i \in Workers, NEW u \in Users, StartSlate(i, u) \/ StartSend(i, u)
        PROVE Accounted'
    <2>0. PICK c \in {"slate", "send"} : Begin(i, u, c)
      BY <1>4 DEF StartSlate, StartSend
    <2>1. Charging'
      BY <2>0, Begun DEF Begin, LockFor, Charging, DatabaseType,
         WalletType, JobType
    <2>2. BuiltFirst'
      BY <2>0, Begun DEF BuiltFirst
    <2>3. OneHandler'
      BY <2>0, Begun DEF Begin, LockFor, OneHandler, JobType,
         WorldType, BuiltFirst
    <2>4. OneRefund'
      BY <2>0, Begun DEF Begin, LockFor, OneRefund, TidyType
    <2>5. ListsFit'
      BY <2>0, Begun DEF Begin, LockFor, ListsFit, TidyType,
         DatabaseType, WalletType, BuiltFirst
    <2>6. OutputsFit'
      BY <2>0, Begun DEF Begin, LockFor, OutputsFit,
         DatabaseType, WalletType, JobType, WorldType
    <2>7. ReturnsFit'
      BY <2>0, Begun DEF Begin, LockFor, ReturnsFit,
         DatabaseType, WalletType, JobType, OneReturn
    <2>8. OneReturn'
      BY <2>0, Begun DEF Begin, LockFor, OneReturn, JobType,
         ReturnsFit
    <2>9. QED
      BY <2>1, <2>2, <2>3, <2>4, <2>5, <2>6, <2>7, <2>8
  <1>5. ASSUME NEW i \in Procs, NEW u \in Users, NEW p \in Slates, StartSubmit(i, u, p)
        PROVE Accounted'
    BY <1>5 DEF StartSubmit, LockFor, Charging, BuiltFirst, OneHandler, OneRefund,
       ListsFit, OutputsFit, ReturnsFit, OneReturn, DatabaseType, WalletType, JobType,
       TidyType, WorldType
  <1>6. ASSUME NEW i \in Procs, NEW p \in Slates, NEW f \in Fees,
                InitSendTx(i, p, f) \/ HttpSend(i, p, f)
        PROVE Accounted'
    <2>a. PICK c \in {"record", "recordSend"} :
            /\ job[i].pc = IF c = "record" THEN "slate" ELSE "send"
            /\ job' = [job EXCEPT ![i] = [job[i] EXCEPT !.pc = c, !.slate = p]]
            /\ wallet' = [wallet EXCEPT ![p] = IF c = "record" THEN "built" ELSE "final"]
      BY <1>6 DEF InitSendTx, HttpSend, Build
    <2>b. /\ wallet[p] = "none"
          /\ tx' = [tx EXCEPT ![p] = [user |-> job[i].user, amount |-> job[i].amount, fee |-> f]]
          /\ UNCHANGED <<db, chain, tidyVars, world>>
      BY <1>6 DEF InitSendTx, HttpSend, Build
    <2>c. /\ \A j \in Procs : j # i => job'[j] = job[j]
          /\ job'[i].pc = c /\ job'[i].slate = p
          /\ job'[i].user = job[i].user /\ job'[i].amount = job[i].amount
      BY <2>a, Picks DEF JobStates
    <2>d. /\ state[p] = "none" /\ p \notin issued \cup old
          /\ \A j \in Procs : job[j].slate # p
      BY <2>b DEF BuiltFirst
    <2>e. /\ \A q \in Slates : q # p => wallet'[q] = wallet[q] /\ tx'[q] = tx[q]
          /\ wallet'[p] \notin {"none", "locked"}
          /\ tx'[p].user = job[i].user /\ tx'[p].amount = job[i].amount /\ tx'[p].fee = f
      BY <2>a, <2>b DEF WalletType
    <2>1. Charging'
      BY <2>a, <2>b, <2>c, <2>d, <2>e DEF Charging, JobType
    <2>2. BuiltFirst'
      BY <2>a, <2>b, <2>c, <2>d, <2>e DEF BuiltFirst, WorldType
    <2>3. OneHandler'
      BY <2>a, <2>b, <2>c, <2>d, <2>e DEF OneHandler
    <2>4. OneRefund'
      BY <2>a, <2>b, <2>c, <2>d, <2>e DEF OneRefund
    <2>5. ListsFit'
      BY <2>a, <2>b, <2>c, <2>d, <2>e DEF ListsFit
    <2>6. OutputsFit'
      BY <2>a, <2>b, <2>c, <2>d, <2>e DEF OutputsFit, JobType
    <2>7. ReturnsFit'
      BY <2>a, <2>b, <2>c, <2>d, <2>e DEF ReturnsFit, WorldType
    <2>8. OneReturn'
      BY <2>a, <2>b, <2>c, <2>d, <2>e DEF OneReturn
    <2>9. QED
      BY <2>1, <2>2, <2>3, <2>4, <2>5, <2>6, <2>7, <2>8
  <1>7. ASSUME NEW i \in Procs, NEW p \in Slates, NEW f \in Fees, HttpSendLost(i, p, f)
        PROVE Accounted'
    <2>a. /\ \A j \in Procs \ {i}, v \in Users : rowLock[v] = j => rowLock'[v] = j
          /\ \A j \in Procs \ {i} : job'[j] = job[j]
          /\ job'[i].pc = "idle"
      BY <1>7, RowsKept, Ends DEF HttpSendLost, Abandon
    <2>b. /\ \A q \in Slates : wallet[q] # "none" => tx'[q] = tx[q]
          /\ \A q \in Slates : wallet'[q] = "locked" => wallet[q] = "locked"
          /\ UNCHANGED <<utxo, state, world>>
      BY <1>7 DEF HttpSendLost, Build, WalletType
    <2>1. Charging'
      BY <2>a, <2>b, ChargingKept DEF JobType
    <2>2. BuiltFirst'
      BY <1>7, Ends DEF HttpSendLost, Build, Abandon, Unlocked, BuiltFirst,
         DatabaseType, WalletType, JobType, WorldType
    <2>3. OneHandler'
      BY <1>7, Ends DEF HttpSendLost, Build, Abandon, Unlocked, OneHandler, JobType,
         WorldType, BuiltFirst
    <2>4. OneRefund'
      BY <1>7, Ends DEF HttpSendLost, Build, Abandon, Unlocked, OneRefund, TidyType
    <2>5. ListsFit'
      BY <1>7, Ends DEF HttpSendLost, Build, Abandon, Unlocked, ListsFit, TidyType,
         DatabaseType, WalletType, BuiltFirst
    <2>6. OutputsFit'
      BY <1>7, Ends DEF HttpSendLost, Build, Abandon, Unlocked, OutputsFit,
         DatabaseType, WalletType, JobType, WorldType
    <2>7. ReturnsFit'
      BY <2>a, <2>b, ReturnsKept DEF BuiltFirst, WorldType
    <2>8. OneReturn'
      BY <1>7, Ends DEF HttpSendLost, Build, Abandon, Unlocked, OneReturn, JobType,
         ReturnsFit
    <2>9. QED
      BY <2>1, <2>2, <2>3, <2>4, <2>5, <2>6, <2>7, <2>8
  <1>8. ASSUME NEW i \in Procs, InitFails(i) PROVE Accounted'
    BY <1>8, Ends DEF InitFails, Abandon, Unlocked, Charging, BuiltFirst, OneHandler,
       OneRefund, ListsFit, OutputsFit, ReturnsFit, OneReturn, DatabaseType, WalletType,
       JobType, TidyType, WorldType
  <1>9. ASSUME NEW i \in Procs, RecordFails(i) \/ Crash(i) PROVE Accounted'
    BY <1>9, Ends DEF RecordFails, Crash, Unlocked, Charging, BuiltFirst, OneHandler,
       OneRefund, ListsFit, OutputsFit, ReturnsFit, OneReturn, DatabaseType, WalletType,
       JobType, TidyType, WorldType
  <1>10. ASSUME NEW i \in Procs, RecordSlate(i) \/ RecordSend(i) PROVE Accounted'
    <2> DEFINE p == job[i].slate
               u == job[i].user
    <2>a. /\ p \in Slates \ (issued \cup old) /\ state[p] = "none" /\ wallet[p] # "none"
          /\ \A j \in Procs : j # i => job[j].slate # p
          /\ u \in Users /\ rowLock[u] = i
      BY <1>10 DEF RecordSlate, RecordSend, JobType, BuiltFirst, OneHandler, Charging
    <2>b. PICK s \in {"sent", "posted"} :
            /\ state' = [state EXCEPT ![p] = s]
            /\ s = "posted" => wallet[p] # "locked"
            /\ job' = [job EXCEPT ![i].pc = IF s = "sent" THEN "lockOutputs" ELSE "post"]
      BY <1>10 DEF RecordSlate, RecordSend, Record, Charging
    <2>c. /\ UNCHANGED <<ext, tidyVars, world>>
          /\ utxo' = [utxo EXCEPT ![u] = -tx[p].fee] /\ rowLock' = Unlocked(i)
      BY <1>10 DEF RecordSlate, RecordSend, Record
    <2>d. /\ \A j \in Procs : j # i => job'[j] = job[j]
          /\ job'[i].pc = IF s = "sent" THEN "lockOutputs" ELSE "post"
          /\ job'[i].slate = p
      BY <2>b, Moves DEF JobStates
    <2>e. state'[p] = s /\ \A q \in Slates : q # p => state'[q] = state[q]
      BY <2>a, <2>b DEF DatabaseType
    <2>f. \A j \in Procs \ {i}, v \in Users :
            rowLock[v] = j => rowLock'[v] = j /\ utxo'[v] = utxo[v]
      BY <2>a, <2>c, RowsKept DEF DatabaseType
    <2> HIDE DEF p, u
    <2>1. Charging'
      BY <2>a, <2>c, <2>d, <2>e, <2>f, ChargingKept DEF JobType
    <2>2. BuiltFirst'
      BY <2>a, <2>c, <2>d, <2>e DEF BuiltFirst, WorldType
    <2>3. OneHandler'
      BY <2>a, <2>b, <2>c, <2>d DEF p, OneHandler
    <2>4. OneRefund'
      BY <2>c DEF OneRefund
    <2>5. ListsFit'
      BY <2>a, <2>c, <2>e DEF ListsFit, TidyType
    <2>6. OutputsFit'
      BY <2>a, <2>b, <2>c, <2>d, <2>e DEF OutputsFit, JobType
    <2>7. ReturnsFit'
      BY <2>a, <2>b, <2>c, <2>d, <2>e, <2>f, ReturnsKept DEF WorldType
    <2>8. OneReturn'
      BY <2>b, <2>d DEF OneReturn
    <2>9. QED
      BY <2>1, <2>2, <2>3, <2>4, <2>5, <2>6, <2>7, <2>8
  <1>11. ASSUME NEW i \in Procs, RecordPost(i) PROVE Accounted'
    <2> DEFINE p == job[i].slate
    <2>a. /\ p \in issued /\ p \in Slates /\ state[p] = "sent" /\ wallet[p] # "locked"
          /\ \A j \in Procs : j # i /\ job[j].pc = "recordPost" => job[j].slate # p
      BY <1>11 DEF RecordPost, JobType, ReturnsFit, OneReturn
    <2>b. /\ state'[p] = "posted" /\ \A q \in Slates : q # p => state'[q] = state[q]
          /\ UNCHANGED <<utxo, ext, tidyVars, world>>
      BY <1>11, <2>a DEF RecordPost, DatabaseType
    <2>c. /\ \A j \in Procs : j # i => job'[j] = job[j]
          /\ job'[i].pc = "post" /\ job'[i].slate = p
      BY <1>11, Moves DEF RecordPost, JobStates
    <2>d. \A j \in Procs \ {i}, v \in Users : rowLock[v] = j => rowLock'[v] = j
      BY <1>11, RowsKept DEF RecordPost
    <2> HIDE DEF p
    <2>e. \A j \in Procs : job[j].pc \in {"record", "recordSend", "lockOutputs"} =>
            job[j].slate # p
      BY <2>a DEF OneHandler
    <2>1. Charging'
      BY <2>b, <2>c, <2>d, <2>e, ChargingKept DEF JobType
    <2>2. BuiltFirst'
      BY <2>a, <2>b, <2>c DEF BuiltFirst, WorldType
    <2>3. OneHandler'
      BY <2>b, <2>c DEF p, OneHandler
    <2>4. OneRefund'
      BY <2>b DEF OneRefund
    <2>5. ListsFit'
      BY <2>a, <2>b DEF ListsFit, TidyType
    <2>6. OutputsFit'
      BY <2>a, <2>b, <2>c, <2>e DEF OutputsFit, JobType
    <2>7. ReturnsFit'
      BY <2>a, <2>b, <2>c, <2>d DEF ReturnsFit, WorldType
    <2>8. OneReturn'
      BY <2>c DEF OneReturn
    <2>9. QED
      BY <2>1, <2>2, <2>3, <2>4, <2>5, <2>6, <2>7, <2>8
  <1>12. ASSUME NEW i \in Procs, LockOutputs(i) \/ LockOutputsFails(i) PROVE Accounted'
    <2> DEFINE p == job[i].slate
    <2>a. /\ p \in Slates \ issued /\ state[p] \in {"sent", "expired"}
          /\ SlowCreate \/ p \notin old
          /\ \A j \in Procs : j # i => job[j].slate # p
      BY <1>12 DEF LockOutputs, LockOutputsFails, OneHandler, OutputsFit, JobType
    <2>b. /\ \A q \in Slates : q # p => wallet'[q] = wallet[q]
          /\ wallet'[p] = wallet[p] \/ wallet'[p] = "locked"
          /\ issued' = issued \/ issued' = issued \cup {p}
          /\ UNCHANGED <<db, tx, chain, tidyVars, old>>
      BY <1>12, <2>a DEF LockOutputs, LockOutputsFails, WalletType
    <2>c. job'[i].pc = "idle" /\ job'[i].slate \notin Slates
          /\ \A j \in Procs \ {i} : job'[j] = job[j]
      BY <1>12, Ends DEF LockOutputs, LockOutputsFails
    <2> HIDE DEF p
    <2>1. Charging'
      BY <2>a, <2>b, <2>c, ChargingKept DEF JobType
    <2>2. BuiltFirst'
      BY <2>a, <2>b, <2>c DEF BuiltFirst, WorldType
    <2>3. OneHandler'
      BY <2>a, <2>b, <2>c DEF OneHandler, WorldType
    <2>4. OneRefund'
      BY <2>b DEF OneRefund
    <2>5. ListsFit'
      BY <2>a, <2>b DEF ListsFit, TidyType
    <2>6. OutputsFit'
      BY <2>a, <2>b, <2>c DEF OutputsFit, JobType
    <2>7. ReturnsFit'
      BY <2>a, <2>b, <2>c, ReturnsKept DEF WorldType
    <2>8. OneReturn'
      BY <2>c DEF OneReturn
    <2>9. QED
      BY <2>1, <2>2, <2>3, <2>4, <2>5, <2>6, <2>7, <2>8
  <1>13. ASSUME NEW i \in Procs, Finalize(i) PROVE Accounted'
    <2> DEFINE p == job[i].slate
    <2>a. /\ p \in Slates /\ wallet[p] = "locked"
          /\ p \in issued /\ (LateReturns \/ p \notin old) /\ state[p] = "sent"
          /\ \A j \in Procs : job[j].pc = "recordPost" => job[j].slate # p
      BY <1>13 DEF Finalize, JobType, ReturnsFit, OutputsFit
    <2>b. /\ wallet'[p] = "final" /\ \A q \in Slates : q # p => wallet'[q] = wallet[q]
          /\ UNCHANGED <<db, tx, chain, tidyVars, world>>
      BY <1>13, <2>a DEF Finalize, WalletType
    <2>c. /\ \A j \in Procs : j # i => job'[j] = job[j]
          /\ job'[i].pc = "recordPost" /\ job'[i].slate = p /\ job'[i].user = job[i].user
      BY <1>13, Moves DEF Finalize, JobStates
    <2>1. Charging'
      BY <1>13, Moves DEF Finalize, Charging, DatabaseType, WalletType, JobType
    <2>2. BuiltFirst'
      BY <1>13, Moves DEF Finalize, BuiltFirst, DatabaseType, WalletType, JobType,
         WorldType
    <2>3. OneHandler'
      BY <1>13, Moves DEF Finalize, OneHandler, JobType, WorldType, BuiltFirst
    <2>4. OneRefund'
      BY <1>13, Moves DEF Finalize, OneRefund, TidyType
    <2>5. ListsFit'
      BY <1>13, Moves DEF Finalize, ListsFit, TidyType, DatabaseType, WalletType,
         BuiltFirst
    <2>6. OutputsFit'
      BY <1>13, Moves DEF Finalize, OutputsFit, DatabaseType, WalletType, JobType,
         WorldType
    <2>7. ReturnsFit'
      BY <1>13, <2>a, <2>b, <2>c DEF Finalize, ReturnsFit, JobType
    <2>8. OneReturn'
      BY <2>a, <2>c DEF OneReturn
    <2>9. QED
      BY <2>1, <2>2, <2>3, <2>4, <2>5, <2>6, <2>7, <2>8
  <1>14. ASSUME NEW i \in Procs, FinalizeFails(i) PROVE Accounted'
    <2>1. Charging'
      BY <1>14, Ends DEF FinalizeFails, Abandon, Unlocked, Charging, DatabaseType,
         WalletType, JobType
    <2>2. BuiltFirst'
      BY <1>14, Ends DEF FinalizeFails, Abandon, Unlocked, BuiltFirst, DatabaseType,
         WalletType, JobType, WorldType
    <2>3. OneHandler'
      BY <1>14, Ends DEF FinalizeFails, Abandon, Unlocked, OneHandler, JobType,
         WorldType, BuiltFirst
    <2>4. OneRefund'
      BY <1>14, Ends DEF FinalizeFails, Abandon, Unlocked, OneRefund, TidyType
    <2>5. ListsFit'
      BY <1>14, Ends DEF FinalizeFails, Abandon, Unlocked, ListsFit, TidyType,
         DatabaseType, WalletType, BuiltFirst
    <2>6. OutputsFit'
      <3>1. /\ UNCHANGED <<state, old>>
            /\ \A q \in Slates : wallet'[q] = "locked" => wallet[q] = "locked"
        BY <1>14 DEF FinalizeFails, WalletType
      <3>2. \A j \in Procs : job'[j].pc = "lockOutputs" => job'[j] = job[j]
        BY <1>14, Ends DEF FinalizeFails, Abandon
      <3>3. QED
        BY <3>1, <3>2 DEF OutputsFit
    <2>7. ReturnsFit'
      BY <1>14, Ends DEF FinalizeFails, Abandon, Unlocked, ReturnsFit, DatabaseType,
         WalletType, JobType, OneReturn
    <2>8. OneReturn'
      BY <1>14, Ends DEF FinalizeFails, Abandon, Unlocked, OneReturn, JobType,
         ReturnsFit
    <2>9. QED
      BY <2>1, <2>2, <2>3, <2>4, <2>5, <2>6, <2>7, <2>8
  <1>15. ASSUME NEW i \in Procs, PostTx(i) \/ PostFails(i) PROVE Accounted'
    <2>1. Charging'
      BY <1>15, Ends DEF PostTx, PostFails, Post, Charging, DatabaseType, WalletType,
         JobType
    <2>2. BuiltFirst'
      BY <1>15, Ends DEF PostTx, PostFails, Post, BuiltFirst, DatabaseType, WalletType,
         JobType, WorldType
    <2>3. OneHandler'
      BY <1>15, Ends DEF PostTx, PostFails, Post, OneHandler, JobType, WorldType,
         BuiltFirst
    <2>4. OneRefund'
      BY <1>15, Ends DEF PostTx, PostFails, Post, OneRefund, TidyType
    <2>5. ListsFit'
      BY <1>15, Ends DEF PostTx, PostFails, Post, ListsFit, TidyType, DatabaseType,
         WalletType, BuiltFirst
    <2>6. OutputsFit'
      BY <1>15, Ends DEF PostTx, PostFails, Post, OutputsFit, DatabaseType, WalletType,
         JobType, WorldType
    <2>7. ReturnsFit'
      BY <1>15, Ends DEF PostTx, PostFails, Post, ReturnsFit, DatabaseType, WalletType,
         JobType, OneReturn
    <2>8. OneReturn'
      BY <1>15, Ends DEF PostTx, PostFails, Post, OneReturn, JobType, ReturnsFit
    <2>9. QED
      BY <2>1, <2>2, <2>3, <2>4, <2>5, <2>6, <2>7, <2>8
  <1>16. ASSUME NEW i \in Procs, Deadlock(i) PROVE Accounted'
    <2>1. Charging'
      BY <1>16, Ends DEF Deadlock, TidyGoto, Abandon, Unlocked, Charging, DatabaseType,
         WalletType, JobType
    <2>2. BuiltFirst'
      BY <1>16, Ends DEF Deadlock, TidyGoto, Abandon, Unlocked, BuiltFirst,
         DatabaseType, WalletType, JobType, WorldType
    <2>3. OneHandler'
      BY <1>16, Ends DEF Deadlock, TidyGoto, Abandon, Unlocked, OneHandler, JobType,
         WorldType, BuiltFirst
    <2>4. OneRefund'
      BY <1>16, Ends DEF Deadlock, TidyGoto, Abandon, Unlocked, OneRefund, TidyType
    <2>5. ListsFit'
      BY <1>16, Ends DEF Deadlock, TidyGoto, Abandon, Unlocked, ListsFit, TidyType,
         DatabaseType, WalletType, BuiltFirst
    <2>6. OutputsFit'
      BY <1>16, Ends DEF Deadlock, TidyGoto, Abandon, Unlocked, OutputsFit,
         DatabaseType, WalletType, JobType, WorldType
    <2>7. ReturnsFit'
      BY <1>16, Ends DEF Deadlock, TidyGoto, Abandon, Unlocked, ReturnsFit,
         DatabaseType, WalletType, JobType, OneReturn
    <2>8. OneReturn'
      BY <1>16, Ends DEF Deadlock, TidyGoto, Abandon, Unlocked, OneReturn, JobType,
         ReturnsFit
    <2>9. QED
      BY <2>1, <2>2, <2>3, <2>4, <2>5, <2>6, <2>7, <2>8
  <1>17. ASSUME PayoutList \/ PayoutExit PROVE Accounted'
    BY <1>17 DEF PayoutList, PayoutExit, Unlocked, Charging, BuiltFirst, OneHandler,
       OneRefund, ListsFit, OutputsFit, ReturnsFit, OneReturn, DatabaseType, WalletType,
       JobType, TidyType, WorldType
  <1>18. ASSUME NEW u \in Users, PayoutSend(u) PROVE Accounted'
    BY <1>18, Begun DEF PayoutSend, Begin, LockFor, Charging, BuiltFirst, OneHandler,
       OneRefund, ListsFit, OutputsFit, ReturnsFit, OneReturn, DatabaseType, WalletType,
       JobType, TidyType, WorldType
  <1>19. ASSUME NEW u \in Users, PayoutTooSmall(u) \/ PayoutSkip(u) PROVE Accounted'
    BY <1>19 DEF PayoutTooSmall, PayoutSkip, LockFor, Charging, BuiltFirst, OneHandler,
       OneRefund, ListsFit, OutputsFit, ReturnsFit, OneReturn, DatabaseType, WalletType,
       JobType, TidyType, WorldType
  <1>20. ASSUME TidyPart PROVE Accounted'
    BY <1>20 DEF TidyPart, TidyGoto, Charging, BuiltFirst, OneHandler, OneRefund,
       ListsFit, OutputsFit, ReturnsFit, OneReturn, DatabaseType, WalletType, JobType,
       TidyType, WorldType
  <1>21. ASSUME TidyFlush PROVE Accounted'
    BY <1>21 DEF TidyFlush, Charging, BuiltFirst, OneHandler, OneRefund, ListsFit,
       OutputsFit, ReturnsFit, OneReturn, DatabaseType, WalletType, JobType, TidyType,
       WorldType
  <1>22. ASSUME TidyRefund PROVE Accounted'
    <2> DEFINE p == tidy.cur
    <2>a. /\ p \in Slates /\ p \in old \ tidy.todo /\ state[p] \in {"sent", "posted"}
          /\ SlowCreate \/ wallet[p] # "locked"
          /\ flushed = {p} /\ rowLock[tx[p].user] = Nobody
      BY <1>22 DEF TidyRefund, TidyType, ListsFit, OneRefund
    <2>b. /\ state'[p] = "expired" /\ \A q \in Slates : q # p => state'[q] = state[q]
          /\ \A u \in Users : u # tx[p].user => utxo'[u] = utxo[u]
          /\ tidy' = [pc |-> "expire", todo |-> tidy.todo, cur |-> NoSlate]
          /\ flushed' = {} /\ UNCHANGED <<rowLock, ext, job, world>>
      BY <1>22, <2>a DEF TidyRefund, TidyGoto, DatabaseType
    <2>c. \A i \in Procs : job[i].pc = "recordPost" => job[i].slate # p
      BY <2>a DEF ReturnsFit
    <2> HIDE DEF p
    <2>1. Charging'
      BY <2>a, <2>b DEF Charging, JobType
    <2>2. BuiltFirst'
      BY <2>a, <2>b DEF BuiltFirst, WorldType
    <2>3. OneHandler'
      BY <2>b DEF OneHandler
    <2>4. OneRefund'
      BY <2>b DEF OneRefund
    <2>5. ListsFit'
      BY <1>22, <2>a, <2>b DEF TidyRefund, ListsFit, TidyType
    <2>6. OutputsFit'
      BY <2>a, <2>b DEF OutputsFit, JobType
    <2>7. ReturnsFit'
      BY <2>b, <2>c DEF ReturnsFit, JobType
    <2>8. OneReturn'
      BY <2>b DEF OneReturn
    <2>9. QED
      BY <2>1, <2>2, <2>3, <2>4, <2>5, <2>6, <2>7, <2>8
  <1>23. ASSUME TidyLockTimeout \/ TidyCrash PROVE Accounted'
    BY <1>23 DEF TidyLockTimeout, TidyCrash, TidyGoto, Resting, Charging, BuiltFirst,
       OneHandler, OneRefund, ListsFit, OutputsFit, ReturnsFit, OneReturn, DatabaseType,
       WalletType, JobType, TidyType, WorldType
  <1>24. ASSUME NEW p \in Slates, TidySkip(p) \/ TidyConfirm(p) PROVE Accounted'
    <2>a. /\ state[p] # state'[p] => state[p] = "posted" /\ state'[p] = "confirmed"
          /\ \A q \in Slates : q # p => state'[q] = state[q]
          /\ state' # state => tidy.pc = "confirm"
      BY <1>24 DEF TidySkip, TidyConfirm, ListsFit, DatabaseType
    <2>b. /\ \A q \in Slates : wallet'[q] = "locked" => wallet[q] = "locked"
          /\ \A q \in Slates : wallet'[q] = "none" => wallet[q] = "none"
      BY <1>24 DEF TidySkip, TidyConfirm, WalletType
    <2>c. /\ UNCHANGED <<utxo, rowLock, tx, job, flushed, world>>
          /\ tidy' = [pc |-> tidy.pc, todo |-> tidy.todo \ {p}, cur |-> NoSlate]
          /\ tidy.pc \in {"confirm", "expire", "repost"} /\ p \in tidy.todo
      BY <1>24 DEF TidySkip, TidyConfirm, TidyNext, TidyGoto
    <2>1. Charging'
      BY <2>a, <2>b, <2>c DEF Charging, JobType
    <2>2. BuiltFirst'
      BY <2>a, <2>b, <2>c DEF BuiltFirst, WorldType, JobType
    <2>3. OneHandler'
      BY <2>c DEF OneHandler
    <2>4. OneRefund'
      BY <2>c DEF OneRefund
    <2>5. ListsFit'
      BY <2>a, <2>c DEF ListsFit, TidyType
    <2>6. OutputsFit'
      BY <2>a, <2>b, <2>c DEF OutputsFit, JobType
    <2>7. ReturnsFit'
      BY <2>a, <2>b, <2>c DEF ReturnsFit, JobType
    <2>8. OneReturn'
      BY <2>c DEF OneReturn
    <2>9. QED
      BY <2>1, <2>2, <2>3, <2>4, <2>5, <2>6, <2>7, <2>8
  <1>25. ASSUME NEW p \in Slates, TidyCancel(p) \/ TidyRepost(p) PROVE Accounted'
    BY <1>25 DEF TidyCancel, TidyRepost, TidyNext, TidyGoto, TxSent, TxConfirmed, Post,
       Charging, BuiltFirst, OneHandler, OneRefund, ListsFit, OutputsFit, ReturnsFit,
       OneReturn, DatabaseType, WalletType, JobType, TidyType, WorldType
  <1>26. ASSUME UNCHANGED vars PROVE Accounted'
    BY <1>26 DEF vars, Charging, BuiltFirst, OneHandler, OneRefund, ListsFit,
       OutputsFit, ReturnsFit, OneReturn, DatabaseType, WalletType, JobType, TidyType,
       WorldType
  <1>27. QED
    BY <1>1, <1>2, <1>3, <1>4, <1>5, <1>6, <1>7, <1>8, <1>9, <1>10, <1>11, <1>12, <1>13,
       <1>14, <1>15, <1>16, <1>17, <1>18, <1>19, <1>20, <1>21, <1>22, <1>23, <1>24,
       <1>25, <1>26, NextCases


-----------------------------------------------------------------------------
(* The payout code implements the ledger *)

LEMMA Claims ==
  /\ ClaimOf["none"] = "none" /\ ClaimOf["sent"] = "open" /\ ClaimOf["posted"] = "open"
  /\ ClaimOf["confirmed"] = "settled" /\ ClaimOf["expired"] = "refunded"
  BY DEF ClaimOf

(* The record of p moves on, those of the others stay. *)
LEMMA ClaimMoves ==
  ASSUME DatabaseType, NEW p \in Slates, NEW s \in States, state' = [state EXCEPT ![p] = s]
  PROVE  Claim[p] = ClaimOf[state[p]] /\ Claim' = [Claim EXCEPT ![p] = ClaimOf[s]]
  BY DEF Claim, DatabaseType

LEMMA LedgerVars ==
  /\ L!vars = <<utxo, Claim, Charged, granted>>
  /\ L!vars' = <<utxo', Claim', Charged', granted'>>
  BY DEF L!vars

LEMMA LedgerStarts == Init => L!Init
  BY DEF Init, L!Init, L!NoCost, Claim, ClaimOf, Charged

(* Nothing the ledger sees happens while a slate is built. *)
LEMMA LedgerRests ==
  ASSUME UNCHANGED <<utxo, state, granted>>,
         \A p \in Slates : state[p] # "none" => tx'[p] = tx[p]
  PROVE  UNCHANGED L!vars
  <1>1. Claim' = Claim
    BY DEF Claim
  <1>2. Charged' = Charged
    BY DEF Charged, Cost
  <1>3. QED
    BY <1>1, <1>2, LedgerVars

LEMMA CreditIsCredit ==
  ASSUME NEW u \in Users, NEW n \in Grants, Credit(u, n)
  PROVE  L!Next
  <1>1. UNCHANGED <<state, tx>>
    BY DEF Credit, ext
  <1>2. L!Credit(u, n)
    BY <1>1 DEF Credit, L!Credit, Claim, Charged, Cost
  <1>3. QED
    BY <1>2 DEF L!Next

(* The commit of a payment record charges the user. *)
LEMMA RecordIsCharge ==
  ASSUME TypeOK, Accounted, NEW i \in Procs, RecordSlate(i) \/ RecordSend(i)
  PROVE  L!Next
  <1>1. PICK p \in Slates, u \in Users, f \in Fees :
          /\ p = job[i].slate /\ u = job[i].user /\ f = tx[p].fee
          /\ tx[p].user = u /\ tx[p].amount = utxo[u] /\ state[p] = "none"
          /\ utxo[u] >= MinPayout
    BY DEF RecordSlate, RecordSend, TypeOK, JobType, Accounted, Charging
  <1>2. PICK s \in {"sent", "posted"} : state' = [state EXCEPT ![p] = s]
    BY <1>1 DEF RecordSlate, RecordSend, Record
  <1>3. utxo' = [utxo EXCEPT ![u] = -f] /\ UNCHANGED <<tx, granted>>
    BY <1>1 DEF RecordSlate, RecordSend, Record, ext, world
  <1>4. state'[p] = s /\ \A q \in Slates : q # p => state'[q] = state[q]
    BY <1>1, <1>2 DEF TypeOK, DatabaseType
  <1>5. Claim[p] = "none" /\ Claim' = [Claim EXCEPT ![p] = "open"]
    <2>1. ClaimOf[s] = "open" /\ s \in States
      BY Claims DEF States
    <2>2. Claim[p] = ClaimOf[state[p]] /\ Claim' = [Claim EXCEPT ![p] = ClaimOf[s]]
      BY <1>1, <1>2, <2>1, ClaimMoves DEF TypeOK
    <2>3. QED
      BY <1>1, <2>1, <2>2, Claims
  <1>6. Charged' = [Charged EXCEPT ![p] = [user |-> u, total |-> utxo[u] + f]]
    <2>1. ASSUME NEW q \in Slates, q # p PROVE Charged'[q] = Charged[q]
      BY <1>3, <1>4, <2>1 DEF Charged, Cost
    <2>2. Charged'[p] = [user |-> u, total |-> utxo[u] + f]
      BY <1>1, <1>3, <1>4 DEF Charged, Cost
    <2>3. QED
      BY <1>1, <2>1, <2>2 DEF Charged
  <1>7. L!Charge(u, p, f)
    BY <1>1, <1>3, <1>5, <1>6 DEF L!Charge, Claim, Charged
  <1>8. QED
    BY <1>1, <1>7 DEF L!Next

(* The commit of a returned slate changes nothing the ledger sees. *)
LEMMA PostIsNothing ==
  ASSUME TypeOK, Accounted, NEW i \in Procs, RecordPost(i)
  PROVE  UNCHANGED L!vars
  <1> DEFINE p == job[i].slate
  <1>1. p \in Slates /\ state[p] = "sent"
    BY DEF RecordPost, TypeOK, JobType, Accounted, ReturnsFit
  <1>2. state' = [state EXCEPT ![p] = "posted"] /\ UNCHANGED <<utxo, tx, granted>>
    BY DEF RecordPost, ext, world
  <1> HIDE DEF p
  <1>3. Claim' = Claim
    BY <1>1, <1>2 DEF Claim, ClaimOf, TypeOK, DatabaseType
  <1>4. Charged' = Charged
    BY <1>1, <1>2 DEF Charged, Cost, TypeOK, DatabaseType
  <1>5. QED
    BY <1>2, <1>3, <1>4, LedgerVars

LEMMA ConfirmIsSettle ==
  ASSUME TypeOK, Accounted, NEW p \in Slates, TidyConfirm(p)
  PROVE  L!Next
  <1>1. /\ state[p] = "posted" /\ state' = [state EXCEPT ![p] = "confirmed"]
        /\ UNCHANGED <<utxo, tx, granted>>
    BY DEF TidyConfirm, Accounted, ListsFit, ext, world
  <1>2. Claim[p] = "open" /\ Claim' = [Claim EXCEPT ![p] = "settled"]
    BY <1>1, Claims, ClaimMoves DEF TypeOK, States
  <1>3. Charged' = Charged
    BY <1>1 DEF Charged, Cost, TypeOK, DatabaseType
  <1>4. L!Settle(p)
    BY <1>1, <1>2, <1>3 DEF L!Settle, Claim, Charged
  <1>5. QED
    BY <1>4 DEF L!Next

LEMMA TidyRefundIsRefund ==
  ASSUME TypeOK, Accounted, TidyRefund
  PROVE  L!Next
  <1>1. PICK p \in Slates :
          p = tidy.cur /\ state[p] \in {"sent", "posted"} /\ flushed = {p}
    BY DEF TidyRefund, TypeOK, TidyType, Accounted, ListsFit, OneRefund
  <1>2. /\ state' = [state EXCEPT ![p] = "expired"]
        /\ utxo' = [utxo EXCEPT ![tx[p].user] = @ + Cost(p)]
        /\ UNCHANGED <<tx, granted>>
    BY <1>1 DEF TidyRefund, ext, world, TypeOK, DatabaseType
  <1>3. Claim[p] = "open" /\ Claim' = [Claim EXCEPT ![p] = "refunded"]
    BY <1>1, <1>2, Claims, ClaimMoves DEF TypeOK, States
  <1>4. Charged' = Charged
    BY <1>1, <1>2 DEF Charged, Cost, TypeOK, DatabaseType
  <1>5. Charged[p].user = tx[p].user /\ Charged[p].total = Cost(p)
    BY <1>1 DEF Charged
  <1>6. L!Refund(p)
    BY <1>2, <1>3, <1>4, <1>5 DEF L!Refund, Claim, Charged
  <1>7. QED
    BY <1>1, <1>6 DEF L!Next

LEMMA LedgerStep ==
  ASSUME Exclusive, TypeOK, Accounted, [Next]_vars
  PROVE  [L!Next]_(L!vars)
  <1> DEFINE Follows == L!Next \/ UNCHANGED L!vars
             Rests == UNCHANGED <<utxo, state, tx, granted>>
  <1>0. Rests => Follows
    BY LedgerRests
  <1> USE DEF db, ext, tidyVars, world
  <1>1. ASSUME NEW u \in Users, NEW n \in Grants, Credit(u, n) PROVE Follows
    BY <1>1, CreditIsCredit
  <1>2. ASSUME NEW i \in Procs, RecordSlate(i) \/ RecordSend(i) PROVE Follows
    BY <1>2, RecordIsCharge
  <1>3. ASSUME NEW i \in Procs, RecordPost(i) PROVE Follows
    BY <1>3, PostIsNothing
  <1>4. ASSUME NEW p \in Slates, TidyConfirm(p) PROVE Follows
    BY <1>4, ConfirmIsSettle
  <1>5. ASSUME TidyRefund PROVE Follows
    BY <1>5, TidyRefundIsRefund
  <1>6. ASSUME NEW i \in Procs, NEW p \in Slates, NEW f \in Fees,
               InitSendTx(i, p, f) \/ HttpSend(i, p, f) \/ HttpSendLost(i, p, f)
        PROVE  Follows
    <2>1. UNCHANGED <<utxo, state, granted>>
      BY <1>6 DEF InitSendTx, HttpSend, HttpSendLost
    <2>2. \A q \in Slates : state[q] # "none" => tx'[q] = tx[q]
      BY <1>6 DEF InitSendTx, HttpSend, HttpSendLost, Build, Accounted, BuiltFirst,
         TypeOK,
         WalletType
    <2>3. QED
      BY <2>1, <2>2, LedgerRests
  <1>7. ASSUME NEW p \in Slates,
               Age(p) \/ Mine(p) \/ Drop(p) \/ TidySkip(p) \/ TidyCancel(p) \/ TidyRepost(p)
        PROVE  Rests
    BY <1>7 DEF Age, Mine, Drop, TidySkip, TidyCancel, TidyRepost
  <1>8. ASSUME NEW i \in Procs, NEW u \in Users,
               StartSlate(i, u) \/ StartSend(i, u) \/ \E p \in Slates : StartSubmit(i, u, p)
        PROVE  Rests
    BY <1>8 DEF StartSlate, StartSend, Begin, StartSubmit
  <1>9. ASSUME NEW i \in Procs,
                \/ InitFails(i) \/ RecordFails(i) \/ LockOutputs(i) \/ LockOutputsFails(i)
                \/ Finalize(i) \/ FinalizeFails(i) \/ PostTx(i) \/ PostFails(i)
                \/ Deadlock(i) \/ Crash(i)
         PROVE  Rests
    BY <1>9 DEF InitFails, RecordFails, LockOutputs, LockOutputsFails, Finalize,
       FinalizeFails, PostTx, PostFails, Deadlock, Crash
  <1>10. ASSUME NEW u \in Users, PayoutSend(u) \/ PayoutTooSmall(u) \/ PayoutSkip(u)
         PROVE  Rests
    BY <1>10 DEF PayoutSend, Begin, PayoutTooSmall, PayoutSkip
  <1>11. ASSUME \/ PayoutList \/ PayoutExit \/ TidyPart \/ TidyFlush \/ TidyLockTimeout
                \/ TidyCrash \/ UNCHANGED vars
         PROVE  Rests
    BY <1>11 DEF PayoutList, PayoutExit, TidyPart, TidyFlush, TidyLockTimeout,
       TidyCrash, vars
  <1>12. Workers \subseteq Procs
    BY DEF Procs
  <1>13. Follows \/ Rests
    <2> HIDE DEF Follows, Rests, db, ext, tidyVars, world
    <2>1. QED
      BY <1>1, <1>2, <1>3, <1>4, <1>5, <1>6, <1>7, <1>8, <1>9, <1>10, <1>11, <1>12,
         NextCases
  <1>14. QED
    BY <1>0, <1>13

(* The payout code implements the ledger: every commit of every process is *)
(* one of its steps or changes nothing it sees.  What is assumed is what   *)
(* the code leaves to time: that row locks are granted, and that a slate   *)
(* comes back while nobody refunds it, or by an account whose row the      *)
(* refund waits for.                                                       *)
THEOREM PayoutsImplementLedger ==
  ASSUME Exclusive
  PROVE  Spec => ImplementsLedger
  <1>1. Init => TypeOK /\ Accounted /\ L!Init
    BY TypeInit, AccountedInit, LedgerStarts
  <1>2. TypeOK /\ Accounted /\ [Next]_vars => TypeOK' /\ Accounted' /\ [L!Next]_(L!vars)
    BY TypeStep, AccountedStep, LedgerStep
  <1>3. QED
    BY <1>1, <1>2, PTL DEF Spec, ImplementsLedger, L!Spec

-----------------------------------------------------------------------------
(* No money is made or lost *)

LP == INSTANCE LedgerProofs WITH balance <- utxo, claim <- Claim, cost <- Charged

LEMMA SameLedger ==
  /\ L!Init => LP!Init
  /\ [L!Next]_(L!vars) => [LP!Next]_(LP!vars)
  /\ LP!Balanced => L!Balanced
  <1>1. L!Init => LP!Init
    BY DEF L!Init, LP!Init, L!NoCost, LP!NoCost
  <1>2. L!vars = LP!vars /\ L!vars' = LP!vars'
    BY DEF L!vars, LP!vars
  <1>3. L!Next => LP!Next
    BY DEF L!Next, LP!Next, L!Credit, LP!Credit, L!Charge, LP!Charge, L!Settle,
       LP!Settle,
       L!Refund, LP!Refund
  <1>4. \A u : L!Spent(u) = LP!Spent(u)
    BY DEF L!Spent, LP!Spent, L!MapThenSumSet, LP!MapThenSumSet, L!MapThenFoldSet,
       LP!MapThenFoldSet
  <1>5. LP!Balanced => L!Balanced
    BY <1>4 DEF L!Balanced, LP!Balanced
  <1>6. QED
    BY <1>1, <1>2, <1>3, <1>5

LEMMA BalancedInit == L!Init => LP!LedgerFits /\ LP!Balanced
  BY SameLedger, LP!LedgerInit

LEMMA BalancedStep ==
  ASSUME LP!LedgerFits, LP!Balanced, [L!Next]_(L!vars)
  PROVE  LP!LedgerFits' /\ LP!Balanced'
  <1>1. Fees \subseteq Int /\ Grants \subseteq Int
    BY ConstantsAssumption
  <1>2. QED
    BY <1>1, SameLedger, LP!LedgerFitsStep, LP!BalancedStep

(* No money is made or lost: for every user, what was credited is the      *)
(* balance plus the payouts charged and not refunded.                      *)
THEOREM BalancesKept ==
  ASSUME Exclusive
  PROVE  Spec => []LedgerBalanced
  <1>1. L!Init => LP!LedgerFits /\ LP!Balanced
    BY BalancedInit
  <1>2. LP!LedgerFits /\ LP!Balanced /\ [L!Next]_(L!vars) => LP!LedgerFits' /\ LP!Balanced'
    BY BalancedStep
  <1>3. LP!Balanced => LedgerBalanced
    BY SameLedger DEF LedgerBalanced
  <1>4. Spec => L!Spec
    BY PayoutsImplementLedger DEF ImplementsLedger
  <1>5. QED
    BY <1>1, <1>2, <1>3, <1>4, PTL DEF L!Spec

-----------------------------------------------------------------------------
(* The end of a record's life *)

(* Four commits write the state of a record; no other step does.           *)
LEMMA RecordWriters ==
  ASSUME [Next]_vars
  PROVE  \/ state' = state
         \/ \E i \in Procs : RecordSlate(i) \/ RecordSend(i) \/ RecordPost(i)
         \/ \E q \in Slates : TidyConfirm(q)
         \/ TidyRefund
  <1> USE DEF db
  <1>1. ASSUME NEW u \in Users, NEW n \in Grants, Credit(u, n) PROVE state' = state
    BY <1>1 DEF Credit
  <1>2. ASSUME NEW q \in Slates,
               Age(q) \/ Mine(q) \/ Drop(q) \/ TidySkip(q) \/ TidyCancel(q) \/ TidyRepost(q)
        PROVE  state' = state
    BY <1>2 DEF Age, Mine, Drop, TidySkip, TidyCancel, TidyRepost
  <1>3. ASSUME NEW i \in Procs, NEW u \in Users,
               StartSlate(i, u) \/ StartSend(i, u) \/ \E q \in Slates : StartSubmit(i, u, q)
        PROVE  state' = state
    BY <1>3 DEF StartSlate, StartSend, Begin, StartSubmit
  <1>4. ASSUME NEW i \in Procs,
               \/ \E q \in Slates, f \in Fees :
                    InitSendTx(i, q, f) \/ HttpSend(i, q, f) \/ HttpSendLost(i, q, f)
               \/ InitFails(i) \/ RecordFails(i) \/ LockOutputs(i) \/ LockOutputsFails(i)
               \/ Finalize(i) \/ FinalizeFails(i) \/ PostTx(i) \/ PostFails(i)
               \/ Deadlock(i) \/ Crash(i)
        PROVE  state' = state
    BY <1>4 DEF InitSendTx, HttpSend, HttpSendLost, InitFails, RecordFails, LockOutputs,
       LockOutputsFails, Finalize, FinalizeFails, PostTx, PostFails, Deadlock, Crash
  <1>5. ASSUME NEW u \in Users, PayoutSend(u) \/ PayoutTooSmall(u) \/ PayoutSkip(u)
        PROVE  state' = state
    BY <1>5 DEF PayoutSend, Begin, PayoutTooSmall, PayoutSkip
  <1>6. ASSUME \/ PayoutList \/ PayoutExit \/ TidyPart \/ TidyFlush \/ TidyLockTimeout
               \/ TidyCrash \/ UNCHANGED vars
        PROVE  state' = state
    BY <1>6 DEF PayoutList, PayoutExit, TidyPart, TidyFlush, TidyLockTimeout,
       TidyCrash, vars
  <1>7. Workers \subseteq Procs
    BY DEF Procs
  <1>8. QED
    <2> HIDE DEF db
    <2>1. QED
      BY <1>1, <1>2, <1>3, <1>4, <1>5, <1>6, <1>7, NextCases

LEMMA SettledStep ==
  ASSUME TypeOK, Accounted, [Next]_vars,
         NEW p \in Slates, state[p] \in {"confirmed", "expired"}
  PROVE  state'[p] = state[p]
  <1> USE DEF TypeOK, DatabaseType, Accounted
  <1>1. ASSUME NEW i \in Procs, RecordSlate(i) \/ RecordSend(i) PROVE state'[p] = state[p]
    BY <1>1 DEF RecordSlate, RecordSend, Record, Charging
  <1>2. ASSUME NEW i \in Procs, RecordPost(i) PROVE state'[p] = state[p]
    BY <1>2 DEF RecordPost, ReturnsFit
  <1>3. ASSUME NEW q \in Slates, TidyConfirm(q) PROVE state'[p] = state[p]
    BY <1>3 DEF TidyConfirm, ListsFit
  <1>4. ASSUME TidyRefund PROVE state'[p] = state[p]
    BY <1>4 DEF TidyRefund, ListsFit, OneRefund
  <1>5. QED
    <2> HIDE DEF TypeOK, DatabaseType, Accounted
    <2>1. QED
      BY <1>1, <1>2, <1>3, <1>4, RecordWriters

(* A confirmed or refunded record stays as it is: a slate returned twice,  *)
(* late, or while it is being refunded does not bring it back.             *)
THEOREM SettledForGood ==
  ASSUME Exclusive
  PROVE  Spec => SettledStays
  <1>1. Init => TypeOK /\ Accounted
    BY TypeInit, AccountedInit
  <1>2. TypeOK /\ Accounted /\ [Next]_vars => TypeOK' /\ Accounted'
    BY TypeStep, AccountedStep
  <1>3. TypeOK /\ Accounted /\ [Next]_vars =>
          [\A p \in Slates : state[p] \in {"confirmed", "expired"} => state'[p] = state[p]]_vars
    BY SettledStep
  <1>4. QED
    BY <1>1, <1>2, <1>3, PTL DEF Spec, SettledStays

(* Of the four commits only tidyWallet's refund expires records, those it  *)
(* flushed in this transaction; by TidyFits none of them was posted since. *)
LEMMA CancelStep ==
  ASSUME TypeOK, HandedOver, [Next]_vars, NEW p \in Slates \ late, state[p] = "posted"
  PROVE  state'[p] # "expired"
  <1> USE DEF TypeOK, DatabaseType
  <1>1. ASSUME NEW i \in Procs, RecordSlate(i) \/ RecordSend(i)
        PROVE  state'[p] # "expired"
    BY <1>1 DEF RecordSlate, RecordSend, Record
  <1>2. ASSUME NEW i \in Procs, RecordPost(i) PROVE state'[p] # "expired"
    BY <1>2 DEF RecordPost
  <1>3. ASSUME NEW q \in Slates, TidyConfirm(q) PROVE state'[p] # "expired"
    BY <1>3 DEF TidyConfirm
  <1>4. ASSUME TidyRefund PROVE state'[p] # "expired"
    BY <1>4 DEF TidyRefund, HandedOver, TidyFits
  <1>5. QED
    <2> HIDE DEF TypeOK, DatabaseType
    <2>1. QED
      BY <1>1, <1>2, <1>3, <1>4, RecordWriters

(* tidyWallet's list of the old unposted records is made before, without a *)
(* lock, and not looked at again (tidyWallet.py, cancel_tx_slate): a record *)
(* that is posted is expired only if its slate came back past its return   *)
(* time while it was on that list.                                         *)
THEOREM PostedIsNotCancelled == Spec => CancelsUnlessLate
  <1>1. Init => TypeOK /\ HandedOver
    BY TypeInit, HandedOverInit
  <1>2. TypeOK /\ HandedOver /\ [Next]_vars => TypeOK' /\ HandedOver'
    BY TypeStep, HandedOverStep
  <1>3. TypeOK /\ HandedOver /\ [Next]_vars =>
          [\A p \in Slates \ late : state[p] = "posted" => state'[p] # "expired"]_vars
    BY CancelStep
  <1>4. QED
    BY <1>1, <1>2, <1>3, PTL DEF Spec, CancelsUnlessLate

=============================================================================
