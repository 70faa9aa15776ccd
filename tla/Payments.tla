------------------------------ MODULE Payments ------------------------------
(***************************************************************************)
(* Paying miners: the payout code shared by the payment API, the scheduled *)
(* payout job and the wallet tidy job (muglelib/payments.py,               *)
(* api/payment_api.py, services/makePayouts.py, services/tidyWallet.py)    *)
(* with the two tables it writes, pool_utxo and pool_payment, and the      *)
(* external wallet and chain it drives.                                    *)
(*                                                                         *)
(* A step of a process is the code between two points at which another     *)
(* process can interfere: a call to the wallet, a wait for a row lock, a   *)
(* commit.  Balances are written as the value read under the row lock plus *)
(* the change, as the ORM does.                                            *)
(***************************************************************************)
EXTENDS Integers, FiniteSetsExt

CONSTANTS
  Users,         \* the pool's accounts
  Slates,        \* slates: the identities of the wallet's transactions
  Workers,       \* request threads of the payment API
  Payout,        \* the makePayouts process; the cluster runs one at a time
  Nobody,        \* neither a user nor a process
  NoSlate,       \* not a slate
  MinPayout,     \* smallest payout (1 mugle in the code)
  AutoMinimum,   \* minimum_payout of makePayouts
  Fees,          \* the fees the wallet may charge
  Grants,        \* the amounts paymentMaker may credit
  MaxGranted,    \* bound: credits per user
  MaxCrashes,    \* bound: crashes of processes
  SlowCreate,    \* may get_tx_slate take longer than tx_expire_seconds?
  LateReturns,   \* may a slate come back when its return time is passing, or later?
  OthersReturn,  \* may an account return a slate that was made for another one?
  LockTimeouts   \* may a row lock be held past innodb_lock_wait_timeout?

ASSUME ConstantsAssumption ==
  /\ Payout \notin Workers
  /\ Nobody \notin Users \cup Workers \cup {Payout}
  /\ NoSlate \notin Slates
  /\ MinPayout \in Nat \ {0} /\ AutoMinimum \in Nat
  /\ Fees \subseteq Nat /\ Grants \subseteq Nat \ {0}
  /\ MaxGranted \in Nat /\ MaxCrashes \in Nat
  /\ SlowCreate \in BOOLEAN /\ LateReturns \in BOOLEAN
  /\ OthersReturn \in BOOLEAN /\ LockTimeouts \in BOOLEAN

Procs == Workers \cup {Payout}

VARIABLES
  \* the database (committed)
  utxo,      \* [Users -> Int]: Pool_utxo.amount
  state,     \* [Slates -> States]: Pool_payment.state, "none" without a record
  rowLock,   \* [Users -> Procs or Nobody]: who holds the pool_utxo row
  \* the wallet and the chain (external)
  tx,        \* [Slates -> [user, amount, fee]]: what the wallet built
  wallet,    \* [Slates -> WalletStates]
  chain,     \* [Slates -> {"none", "pool", "mined"}]: the node's view
  \* the processes
  job,       \* [Procs -> [pc, user, slate, amount]]: what each works on
  payable,   \* makePayouts: users still to be paid in this run
  tidy,      \* tidyWallet: [pc, todo, cur]
  flushed,   \* tidyWallet: records set to "expired" in its open transaction
  \* the world
  issued,    \* slates handed to their users
  old,       \* slates whose record is older than tx_expire_seconds
  crashes,   \* crashes so far
  granted,   \* [Users -> Nat]: history of all credits
  late       \* history: slates that were coming back when they were given up

db == <<utxo, state, rowLock>>
ext == <<tx, wallet, chain>>
tidyVars == <<tidy, flushed>>
world == <<issued, old, crashes, granted, late>>
vars == <<db, ext, job, payable, tidyVars, world>>

States == {"none", "sent", "posted", "confirmed", "expired"}
WalletStates == {"none", "built", "locked", "final", "cancelled"}
JobStates == {"idle", "slate", "record", "lockOutputs", "send", "recordSend",
              "finalize", "recordPost", "post"}
TidyStates == {"idle", "confirm", "expire", "flush", "refund", "repost"}

NoTx == [user |-> Nobody, amount |-> 0, fee |-> 0]
Idle == [pc |-> "idle", user |-> Nobody, slate |-> NoSlate, amount |-> 0]
Resting == [pc |-> "idle", todo |-> {}, cur |-> NoSlate]

Init ==
  /\ utxo = [u \in Users |-> 0]
  /\ state = [p \in Slates |-> "none"]
  /\ rowLock = [u \in Users |-> Nobody]
  /\ tx = [p \in Slates |-> NoTx]
  /\ wallet = [p \in Slates |-> "none"]
  /\ chain = [p \in Slates |-> "none"]
  /\ job = [i \in Procs |-> Idle]
  /\ payable = {}
  /\ tidy = Resting
  /\ flushed = {}
  /\ issued = {} /\ old = {} /\ crashes = 0
  /\ granted = [u \in Users |-> 0]
  /\ late = {}

-----------------------------------------------------------------------------
(* Helpers *)

Cost(p) == tx[p].amount + tx[p].fee

(* The wallet shows the transaction as TxSent. *)
TxSent(p) == wallet[p] \in {"locked", "final"}
TxConfirmed(p) == TxSent(p) /\ chain[p] = "mined"

Unlocked(i) == [u \in Users |-> IF rowLock[u] = i THEN Nobody ELSE rowLock[u]]
Holds(i) == \E u \in Users : rowLock[u] = i
(* Faulty: the row is read without FOR UPDATE. *)
FaultyLockFor(i, u) == rowLock' = [rowLock EXCEPT ![u] = i]

LockFor(i, u) == /\ rowLock[u] \in {Nobody, i}
                 /\ rowLock' = [rowLock EXCEPT ![u] = i]

(* The request ends.  The API's session teardown rolls back; makePayouts   *)
(* goes on to its next user in the same open transaction.                  *)
End(i) == job' = [job EXCEPT ![i] = Idle]
Abandon(i) == /\ End(i)
              /\ rowLock' = IF i = Payout THEN rowLock ELSE Unlocked(i)

(* The post_tx call reaches the node. *)
Post(p) == chain' = [chain EXCEPT ![p] = IF @ = "none" THEN "pool" ELSE @]

-----------------------------------------------------------------------------
(***************************************************************************)
(* A slate may come back while tidyWallet gives it up: it lists the record *)
(* as "sent" and does not look at it again (tidyWallet.py:41, 47).  late   *)
(* keeps the slates that this ever happened to, and no others: the meeting *)
(* begins when the slate is returned, when its time passes, or when tidy   *)
(* makes its list.                                                         *)
(***************************************************************************)

(* Past its return time and on tidy's way to "expired", or there. *)
GivenUp(p) ==
  /\ p \in old
  /\ \/ state[p] = "expired" \/ p \in flushed
     \/ tidy.pc \in {"expire", "flush", "refund"} /\ p \in tidy.todo \cup {tidy.cur}

(* Posted, or about to be. *)
Returned(p) ==
  \/ state[p] = "posted"
  \/ \E i \in Procs : job[i].slate = p /\ job[i].pc \in {"finalize", "recordPost"}

Meetings == late' = late \cup {p \in Slates : GivenUp(p)' /\ Returned(p)'}

-----------------------------------------------------------------------------
(* Credits (paymentMaker) and the world outside *)

(* One credit of paymentMaker under the row lock; see module PoolBlocks.   *)
Credit(u, n) ==
  /\ rowLock[u] = Nobody
  /\ granted[u] + n <= MaxGranted
  /\ utxo' = [utxo EXCEPT ![u] = @ + n]
  /\ granted' = [granted EXCEPT ![u] = @ + n]
  /\ UNCHANGED <<state, rowLock, ext, job, payable, tidyVars, issued, old, crashes, late>>

(* tx_expire_seconds pass, perhaps while somebody is handling the slate.   *)
Age(p) ==
  /\ p \notin old /\ state[p] \in {"sent", "posted"}
  /\ \A i \in Procs : job[i].slate = p =>
       IF job[i].pc = "lockOutputs" THEN SlowCreate ELSE LateReturns
  /\ p \in tidy.todo => LateReturns
  /\ old' = old \cup {p}
  /\ UNCHANGED <<db, ext, job, payable, tidyVars, issued, crashes, granted>>
  /\ Meetings

Mine(p) ==
  /\ chain[p] = "pool"
  /\ chain' = [chain EXCEPT ![p] = "mined"]
  /\ UNCHANGED <<db, tx, wallet, job, payable, tidyVars, world>>

(* The node forgets an unmined transaction. *)
Drop(p) ==
  /\ chain[p] = "pool"
  /\ chain' = [chain EXCEPT ![p] = "none"]
  /\ UNCHANGED <<db, tx, wallet, job, payable, tidyVars, world>>

-----------------------------------------------------------------------------
(* Requests: lock the row, check the balance *)

Begin(i, u, pc) ==
  /\ job[i].pc = "idle"
  /\ LockFor(i, u)
  /\ utxo[u] >= MinPayout
  /\ job' = [job EXCEPT ![i] = [pc |-> pc, user |-> u, slate |-> NoSlate,
                                amount |-> utxo[u]]]
  /\ UNCHANGED <<utxo, state, ext, tidyVars, world>>

(* payment_api: function get_tx_slate, or http / https. *)
StartSlate(i, u) == i \in Workers /\ Begin(i, u, "slate") /\ UNCHANGED payable
StartSend(i, u) == i \in Workers /\ Begin(i, u, "send") /\ UNCHANGED payable

(* makePayouts: list the payable users without locking them ... *)
PayoutList ==
  /\ job[Payout].pc = "idle" /\ payable = {} /\ ~Holds(Payout)
  /\ payable' = {u \in Users : utxo[u] >= AutoMinimum}
  /\ payable' # {}
  /\ UNCHANGED <<db, ext, job, tidyVars, world>>

(* ... pay one ... *)
PayoutSend(u) ==
  /\ u \in payable
  /\ Begin(Payout, u, "send")
  /\ payable' = payable \ {u}

(* ... or find the balance too small, and keep the row locked ... *)
PayoutTooSmall(u) ==
  /\ u \in payable /\ job[Payout].pc = "idle"
  /\ utxo[u] < MinPayout
  /\ LockFor(Payout, u)
  /\ payable' = payable \ {u}
  /\ UNCHANGED <<utxo, state, ext, job, tidyVars, world>>

(* ... or skip it: back-off, unsupported method, unreachable listener.     *)
PayoutSkip(u) ==
  /\ u \in payable /\ job[Payout].pc = "idle"
  /\ payable' = payable \ {u}
  /\ UNCHANGED <<db, ext, job, tidyVars, world>>

(* The run ends, after its last user or at an unexpected exception, and    *)
(* with it its transaction.                                                *)
PayoutExit ==
  /\ job[Payout].pc = "idle"
  /\ payable # {} \/ Holds(Payout)
  /\ payable' = {}
  /\ rowLock' = Unlocked(Payout)
  /\ UNCHANGED <<utxo, state, ext, job, tidyVars, world>>

-----------------------------------------------------------------------------
(* get_tx_slate: record first, lock the wallet's outputs afterwards *)

(* Faulty: the fee is stored with the sign it has in the balance. *)
FaultyBuild(i, p, f, ws) ==
  /\ wallet[p] = "none"
  /\ wallet' = [wallet EXCEPT ![p] = ws]
  /\ tx' = [tx EXCEPT ![p] = [user |-> job[i].user, amount |-> job[i].amount,
                              fee |-> -f]]
  /\ UNCHANGED chain

Build(i, p, f, ws) ==
  /\ wallet[p] = "none"
  /\ wallet' = [wallet EXCEPT ![p] = ws]
  /\ tx' = [tx EXCEPT ![p] = [user |-> job[i].user, amount |-> job[i].amount,
                              fee |-> f]]
  /\ UNCHANGED chain

(* Faulty: the outputs are locked before the payment is on record. *)
FaultyInitSendTx(i, p, f) ==
  /\ job[i].pc = "slate"
  /\ Build(i, p, f, "locked")
  /\ job' = [job EXCEPT ![i] = [job[i] EXCEPT !.pc = "record", !.slate = p]]
  /\ UNCHANGED <<db, payable, tidyVars, world>>

InitSendTx(i, p, f) ==
  /\ job[i].pc = "slate"
  /\ Build(i, p, f, "built")
  /\ job' = [job EXCEPT ![i] = [job[i] EXCEPT !.pc = "record", !.slate = p]]
  /\ UNCHANGED <<db, payable, tidyVars, world>>

(* Faulty: the network fee is forgotten. *)
FaultyRecord(i, s) ==
  /\ state' = [state EXCEPT ![job[i].slate] = s]
  /\ utxo' = [utxo EXCEPT ![job[i].user] = 0]
  /\ rowLock' = Unlocked(i)

(* Insert the payment record, leave the fee as a debt, commit. *)
Record(i, s) ==
  LET p == job[i].slate IN
  /\ state' = [state EXCEPT ![p] = s]
  /\ utxo' = [utxo EXCEPT ![job[i].user] = -tx[p].fee]
  /\ rowLock' = Unlocked(i)

RecordSlate(i) ==
  /\ job[i].pc = "record"
  /\ Record(i, "sent")
  /\ job' = [job EXCEPT ![i].pc = "lockOutputs"]
  /\ UNCHANGED <<ext, payable, tidyVars, world>>

LockOutputs(i) ==
  LET p == job[i].slate IN
  /\ job[i].pc = "lockOutputs"
  /\ wallet' = [wallet EXCEPT ![p] = "locked"]
  /\ issued' = issued \cup {p}
  /\ End(i)
  /\ UNCHANGED <<db, tx, chain, payable, tidyVars, old, crashes, granted, late>>

(* tx_lock_outputs fails, or only its answer is lost: no slate is returned. *)
LockOutputsFails(i) ==
  /\ job[i].pc = "lockOutputs"
  /\ \E ws \in {wallet[job[i].slate], "locked"} :
       wallet' = [wallet EXCEPT ![job[i].slate] = ws]
  /\ End(i)
  /\ UNCHANGED <<db, tx, chain, payable, tidyVars, world>>

-----------------------------------------------------------------------------
(* atomic_send: the wallet builds, exchanges, locks and finalizes in one   *)
(* call; the record is written afterwards, already "posted"                *)

HttpSend(i, p, f) ==
  /\ job[i].pc = "send"
  /\ Build(i, p, f, "final")
  /\ job' = [job EXCEPT ![i] = [job[i] EXCEPT !.pc = "recordSend", !.slate = p]]
  /\ UNCHANGED <<db, payable, tidyVars, world>>

(* The wallet did it but the answer was lost. *)
HttpSendLost(i, p, f) ==
  /\ job[i].pc = "send"
  /\ Build(i, p, f, "final")
  /\ Abandon(i)
  /\ UNCHANGED <<utxo, state, payable, tidyVars, world>>

(* The wallet refuses (no funds, recipient not listening). *)
InitFails(i) ==
  /\ job[i].pc \in {"slate", "send"}
  /\ Abandon(i)
  /\ UNCHANGED <<utxo, state, ext, payable, tidyVars, world>>

RecordSend(i) ==
  /\ job[i].pc = "recordSend"
  /\ Record(i, "posted")
  /\ job' = [job EXCEPT ![i].pc = "post"]
  /\ UNCHANGED <<ext, payable, tidyVars, world>>

-----------------------------------------------------------------------------
(* submit_tx_slate: a user returns the signed slate, maybe repeatedly.     *)
(* Nothing compares the user with the one the slate was made for: the row  *)
(* locked is the submitting user's, not the one a refund would lock.       *)

StartSubmit(i, u, p) ==
  /\ i \in Workers /\ job[i].pc = "idle"
  /\ p \in issued
  /\ LateReturns \/ p \notin old \cup tidy.todo
  /\ OthersReturn \/ u = tx[p].user
  /\ LockFor(i, u)
  /\ job' = [job EXCEPT ![i] = [pc |-> "finalize", user |-> u, slate |-> p, amount |-> 0]]
  /\ UNCHANGED <<utxo, state, ext, payable, tidyVars, issued, old, crashes, granted>>
  /\ Meetings

(* Faulty: the wallet's refusal is ignored. *)
FaultyFinalize(i) ==
  /\ job[i].pc = "finalize"
  /\ job' = [job EXCEPT ![i].pc = "recordPost"]
  /\ UNCHANGED <<db, ext, payable, tidyVars, world>>

Finalize(i) ==
  LET p == job[i].slate IN
  /\ job[i].pc = "finalize"
  /\ wallet[p] = "locked"
  /\ wallet' = [wallet EXCEPT ![p] = "final"]
  /\ job' = [job EXCEPT ![i].pc = "recordPost"]
  /\ UNCHANGED <<db, tx, chain, payable, tidyVars, world>>

(* The wallet refuses (finalized before, cancelled) or its answer is lost. *)
FinalizeFails(i) ==
  LET p == job[i].slate IN
  /\ job[i].pc = "finalize"
  /\ \E ws \in {wallet[p]} \cup (IF wallet[p] = "locked" THEN {"final"} ELSE {}) :
       wallet' = [wallet EXCEPT ![p] = ws]
  /\ Abandon(i)
  /\ UNCHANGED <<utxo, state, tx, chain, payable, tidyVars, world>>

(* The commit writes the payment row: it waits for tidy's transaction. *)
RecordPost(i) ==
  LET p == job[i].slate IN
  /\ job[i].pc = "recordPost"
  /\ p \notin flushed
  /\ state' = [state EXCEPT ![p] = "posted"]
  /\ rowLock' = Unlocked(i)
  /\ job' = [job EXCEPT ![i].pc = "post"]
  /\ UNCHANGED <<utxo, ext, payable, tidyVars, world>>

(* post_tx, the last step of atomic_send and of submit_tx_slate. *)
PostTx(i) ==
  /\ job[i].pc = "post"
  /\ Post(job[i].slate)
  /\ End(i)
  /\ UNCHANGED <<db, tx, wallet, payable, tidyVars, world>>

PostFails(i) ==
  /\ job[i].pc = "post"
  /\ End(i)
  /\ UNCHANGED <<db, ext, payable, tidyVars, world>>

(* A commit fails, or waits too long for a row that tidy has written; the  *)
(* failed flush rolls back, in makePayouts too.                            *)
RecordFails(i) ==
  /\ job[i].pc \in {"record", "recordSend", "recordPost"}
  /\ job[i].slate \in flushed => LockTimeouts
  /\ End(i)
  /\ rowLock' = Unlocked(i)
  /\ UNCHANGED <<utxo, state, ext, payable, tidyVars, world>>

-----------------------------------------------------------------------------
(* tidyWallet: one run confirms, then cancels, then posts again *)

TidyGoto(pc, todo) == tidy' = [pc |-> pc, todo |-> todo, cur |-> NoSlate]
TidyNext(p) == TidyGoto(tidy.pc, tidy.todo \ {p})

(* Faulty: the age limit of the records to post again is inverted. *)
FaultyTidyPart ==
  /\ tidy.todo = {}
  /\ \/ tidy.pc = "idle" /\ TidyGoto("confirm", {p \in Slates : state[p] = "posted"})
     \/ tidy.pc = "confirm" /\ TidyGoto("expire", {p \in Slates : state[p] = "sent"})
     \/ /\ tidy.pc = "expire"
        /\ TidyGoto("repost", {p \in Slates \ old : state[p] = "posted"})
     \/ tidy.pc = "repost" /\ TidyGoto("idle", {})
  /\ flushed' = IF tidy.pc = "repost" THEN {} ELSE flushed
  /\ UNCHANGED <<db, ext, job, payable, issued, old, crashes, granted>>
  /\ Meetings

(* Each part begins with an unlocked list of records; the run ends with a  *)
(* rollback of whatever is still uncommitted.                              *)
TidyPart ==
  /\ tidy.todo = {}
  /\ \/ tidy.pc = "idle" /\ TidyGoto("confirm", {p \in Slates : state[p] = "posted"})
     \/ tidy.pc = "confirm" /\ TidyGoto("expire", {p \in Slates : state[p] = "sent"})
     \/ tidy.pc = "expire" /\ TidyGoto("repost", {p \in old : state[p] = "posted"})
     \/ tidy.pc = "repost" /\ TidyGoto("idle", {})
  /\ flushed' = IF tidy.pc = "repost" THEN {} ELSE flushed
  /\ UNCHANGED <<db, ext, job, payable, issued, old, crashes, granted>>
  /\ Meetings

(* Not confirmed yet, not old enough, or a call to the wallet failed; the  *)
(* wallet may have executed a cancel_tx whose answer was lost.             *)
TidySkip(p) ==
  /\ p \in tidy.todo /\ tidy.pc \in {"confirm", "expire", "repost"}
  /\ TidyNext(p)
  /\ \/ UNCHANGED wallet
     \/ /\ tidy.pc = "expire" /\ p \in old /\ TxSent(p) /\ ~TxConfirmed(p)
        /\ wallet' = [wallet EXCEPT ![p] = "cancelled"]
  /\ UNCHANGED <<db, tx, chain, job, payable, flushed, world>>

(* confirm_tx *)
TidyConfirm(p) ==
  /\ p \in tidy.todo /\ tidy.pc = "confirm"
  /\ TxConfirmed(p)
  /\ state' = [state EXCEPT ![p] = "confirmed"]
  /\ TidyNext(p)
  /\ UNCHANGED <<utxo, rowLock, ext, job, payable, flushed, world>>

(* Faulty: tx_expire_seconds is ignored. *)
FaultyTidyCancel(p) ==
  /\ p \in tidy.todo /\ tidy.pc = "expire"
  /\ ~TxConfirmed(p)
  /\ wallet' = [wallet EXCEPT ![p] = IF TxSent(p) THEN "cancelled" ELSE @]
  /\ tidy' = [pc |-> "flush", todo |-> tidy.todo \ {p}, cur |-> p]
  /\ UNCHANGED <<db, tx, chain, job, payable, flushed, world>>

(* cancel_tx_slate, the wallet's part.  The record's state was read for    *)
(* the list and is not looked at again.                                    *)
TidyCancel(p) ==
  /\ p \in tidy.todo /\ tidy.pc = "expire"
  /\ p \in old
  /\ ~TxConfirmed(p)
  /\ wallet' = [wallet EXCEPT ![p] = IF TxSent(p) THEN "cancelled" ELSE @]
  /\ tidy' = [pc |-> "flush", todo |-> tidy.todo \ {p}, cur |-> p]
  /\ UNCHANGED <<db, tx, chain, job, payable, flushed, world>>

(* The query for the row lock first flushes state := "expired". *)
TidyFlush ==
  /\ tidy.pc = "flush"
  /\ flushed' = flushed \cup {tidy.cur}
  /\ tidy' = [tidy EXCEPT !.pc = "refund"]
  /\ UNCHANGED <<db, ext, job, payable, world>>

(* Row lock, refund and the commit of everything flushed so far. *)
TidyRefund ==
  LET p == tidy.cur
      u == tx[p].user IN
  /\ tidy.pc = "refund"
  /\ rowLock[u] = Nobody
  /\ utxo' = [utxo EXCEPT ![u] = @ + Cost(p)]
  /\ state' = [q \in Slates |-> IF q \in flushed THEN "expired" ELSE state[q]]
  /\ flushed' = {}
  /\ TidyGoto("expire", tidy.todo)
  /\ UNCHANGED <<rowLock, ext, job, payable, world>>

(* The row lock is not granted in time: the exception is logged, nothing   *)
(* is rolled back and the flushed record rides along with the next commit. *)
TidyLockTimeout ==
  /\ LockTimeouts
  /\ tidy.pc = "refund"
  /\ rowLock[tx[tidy.cur].user] # Nobody
  /\ TidyGoto("expire", tidy.todo)
  /\ UNCHANGED <<db, ext, job, payable, flushed, world>>

(* Tidy waits for the utxo row of a request that waits for a payment row   *)
(* tidy has written: the database rolls one of the two back.               *)
Deadlock(i) ==
  /\ tidy.pc = "refund" /\ rowLock[tx[tidy.cur].user] = i
  /\ job[i].pc = "recordPost" /\ job[i].slate \in flushed
  /\ \/ /\ flushed' = {} /\ TidyGoto("expire", tidy.todo)
        /\ UNCHANGED <<job, rowLock>>
     \/ /\ Abandon(i)
        /\ UNCHANGED tidyVars
  /\ UNCHANGED <<utxo, state, ext, payable, world>>

(* repost_tx *)
TidyRepost(p) ==
  /\ p \in tidy.todo /\ tidy.pc = "repost"
  /\ TxSent(p) /\ ~TxConfirmed(p)
  /\ Post(p)
  /\ TidyNext(p)
  /\ UNCHANGED <<db, tx, wallet, job, payable, flushed, world>>

-----------------------------------------------------------------------------
(* Crashes and restarts: the database rolls back, the wallet does not *)

Crash(i) ==
  /\ job[i].pc # "idle" /\ crashes < MaxCrashes
  /\ crashes' = crashes + 1
  /\ End(i)
  /\ rowLock' = Unlocked(i)
  /\ payable' = IF i = Payout THEN {} ELSE payable
  /\ UNCHANGED <<utxo, state, ext, tidyVars, issued, old, granted, late>>

TidyCrash ==
  /\ tidy.pc # "idle" /\ crashes < MaxCrashes
  /\ crashes' = crashes + 1
  /\ tidy' = Resting /\ flushed' = {}
  /\ UNCHANGED <<db, ext, job, payable, issued, old, granted, late>>

-----------------------------------------------------------------------------
(* One step of a request that has begun. *)
JobStep(i) ==
  \/ \E p \in Slates, f \in Fees :
       InitSendTx(i, p, f) \/ HttpSend(i, p, f) \/ HttpSendLost(i, p, f)
  \/ InitFails(i)
  \/ RecordSlate(i) \/ RecordSend(i) \/ RecordPost(i) \/ RecordFails(i)
  \/ LockOutputs(i) \/ LockOutputsFails(i)
  \/ Finalize(i) \/ FinalizeFails(i)
  \/ PostTx(i) \/ PostFails(i)

Request(i) ==
  \E u \in Users :
    StartSlate(i, u) \/ StartSend(i, u) \/ \E p \in Slates : StartSubmit(i, u, p)

PayoutRun ==
  \/ PayoutList \/ PayoutExit
  \/ \E u \in Users : PayoutSend(u) \/ PayoutTooSmall(u) \/ PayoutSkip(u)

TidyStep ==
  \/ TidyPart \/ TidyFlush \/ TidyRefund \/ TidyLockTimeout
  \/ \E p \in Slates :
       TidySkip(p) \/ TidyConfirm(p) \/ TidyCancel(p) \/ TidyRepost(p)

Next ==
  \/ \E u \in Users, n \in Grants : Credit(u, n)
  \/ \E p \in Slates : Age(p) \/ Mine(p) \/ Drop(p)
  \/ \E i \in Procs : Request(i) \/ JobStep(i) \/ Deadlock(i) \/ Crash(i)
  \/ PayoutRun
  \/ TidyStep \/ TidyCrash

Spec == Init /\ [][Next]_vars

(***************************************************************************)
(* Fairness.  Requests and jobs keep running and the jobs are scheduled    *)
(* for ever (WF).  Calls to the wallet and the node fail now and then but  *)
(* not always, a posted transaction is not dropped for ever, and tidy,     *)
(* which waits in the database's lock queue, gets the row (SF).            *)
(***************************************************************************)
Fairness ==
  /\ \A i \in Procs : WF_vars(JobStep(i)) /\ WF_vars(Deadlock(i))
  /\ WF_vars(PayoutRun) /\ WF_vars(TidyStep)
  /\ SF_vars(TidyRefund)
  /\ \A p \in Slates :
       /\ SF_vars(Age(p))
       /\ SF_vars(Mine(p))
       /\ SF_vars(TidyConfirm(p)) /\ SF_vars(TidyCancel(p))
       /\ SF_vars(TidyRepost(p))

FairSpec == Spec /\ Fairness

-----------------------------------------------------------------------------
(* Properties *)

DatabaseType ==
  /\ utxo \in [Users -> Int]
  /\ state \in [Slates -> States]
  /\ rowLock \in [Users -> Procs \cup {Nobody}]

WalletType ==
  /\ tx \in [Slates -> [user : Users \cup {Nobody}, amount : Int, fee : Fees \cup {0}]]
  /\ wallet \in [Slates -> WalletStates]
  /\ chain \in [Slates -> {"none", "pool", "mined"}]

JobType ==
  /\ job \in [Procs -> [pc : JobStates, user : Users \cup {Nobody},
                        slate : Slates \cup {NoSlate}, amount : Int]]
  /\ \A i \in Procs :
       job[i].pc \notin {"idle", "slate", "send"} => job[i].slate \in Slates

TidyType ==
  /\ tidy \in [pc : TidyStates, todo : SUBSET Slates, cur : Slates \cup {NoSlate}]
  /\ tidy.pc \in {"flush", "refund"} => tidy.cur \in Slates
  /\ flushed \subseteq Slates

WorldType ==
  /\ payable \subseteq Users
  /\ issued \subseteq Slates /\ old \subseteq Slates
  /\ crashes \in 0 .. MaxCrashes
  /\ granted \in [Users -> Nat]
  /\ late \subseteq Slates

TypeOK == DatabaseType /\ WalletType /\ JobType /\ TidyType /\ WorldType

(***************************************************************************)
(* The ledger this module implements: a record in "sent" or "posted" is an *)
(* open claim, whatever the wallet thinks of its transaction.              *)
(***************************************************************************)
ClaimOf == [none |-> "none", sent |-> "open", posted |-> "open",
            confirmed |-> "settled", expired |-> "refunded"]

Claim == [p \in Slates |-> ClaimOf[state[p]]]
Charged == [p \in Slates |-> IF state[p] = "none"
                               THEN [user |-> Nobody, total |-> 0]
                               ELSE [user |-> tx[p].user, total |-> Cost(p)]]

L == INSTANCE Ledger WITH balance <- utxo, claim <- Claim, cost <- Charged

(* Every commit of every process is a step of the ledger: balances and     *)
(* payment records change together and by the right amount, although each  *)
(* process computed the new balance from one it read earlier.              *)
ImplementsLedger == L!Spec

(* Credits = balance + unrefunded payouts, for each user (Ledger).         *)
LedgerBalanced == L!Balanced

(* A transaction on the chain was charged to its user and is never one the *)
(* pool gave back: its record is "posted" or "confirmed".  The exception   *)
(* are the slates that came back while tidyWallet was giving them up: see  *)
(* CancelsOnlyUnposted.                                                    *)
MinedIsCharged ==
  \A p \in Slates \ late : chain[p] = "mined" => state[p] \in {"posted", "confirmed"}

(* get_tx_slate commits the record before the wallet locks outputs, so     *)
(* that no slate can hold outputs that tidyWallet does not know of.        *)
LockedIsRecorded ==
  \A p \in Slates : wallet[p] = "locked" => state[p] \in {"sent", "expired"}

(***************************************************************************)
(* Why these properties hold: what each process may assume of the slate it *)
(* works on.                                                               *)
(***************************************************************************)

(* The wallet builds a slate before anything else knows of it. *)
BuiltFirst ==
  /\ \A p \in Slates : state[p] # "none" => wallet[p] # "none"
  /\ \A p \in issued \cup old : state[p] # "none"
  /\ \A i \in Procs : job[i].slate \in Slates => wallet[job[i].slate] # "none"

(* Until it is issued a slate is in the hands of one process. *)
OneHandler ==
  /\ \A i, j \in Procs :
       i # j /\ job[i].slate = job[j].slate /\ job[i].slate \in Slates =>
         job[i].slate \in issued
  /\ \A i \in Procs :
       job[i].pc \in {"record", "recordSend", "lockOutputs"} => job[i].slate \notin issued

(* What the steps already taken for a slate have left behind. *)
JobFits ==
  \A i \in Procs :
    LET p == job[i].slate IN
    /\ job[i].pc = "record" => state[p] = "none" /\ wallet[p] = "built"
    /\ job[i].pc = "recordSend" => state[p] = "none" /\ wallet[p] # "locked"
    /\ job[i].pc = "lockOutputs" => p \notin late /\ state[p] \in {"sent", "expired"}
    /\ job[i].pc = "finalize" => state[p] # "none"
    /\ job[i].pc \in {"recordPost", "post"} => state[p] # "none" /\ wallet[p] # "locked"
    /\ job[i].pc = "post" => p \in late \/ state[p] \in {"posted", "confirmed"}

(* No slate is both given up and returned but those of late. *)
LateKnown == late \subseteq old /\ \A p \in Slates \ late : ~(GivenUp(p) /\ Returned(p))

(* The records tidy decided on are still in the state it listed them in. *)
TidyFits ==
  /\ tidy.pc \in {"expire", "flush", "refund"} =>
       \A p \in (tidy.todo \cap old) \ late : state[p] = "sent"
  /\ tidy.pc = "repost" => \A p \in tidy.todo : state[p] \in {"posted", "confirmed"}
  /\ tidy.pc \in {"flush", "refund"} =>
       /\ tidy.cur \in old \ tidy.todo
       /\ tidy.cur \in late \/ state[tidy.cur] = "sent"
  /\ tidy.pc \in {"idle", "confirm"} => flushed = {}
  /\ tidy.pc \in {"expire", "flush", "refund"} => flushed \cap tidy.todo = {}
  /\ flushed \subseteq old
  /\ \A p \in flushed \ late : state[p] = "sent"

(* Only a transaction on record as posted is given to the node. *)
ChainCharged ==
  \A p \in Slates : chain[p] # "none" =>
    /\ wallet[p] # "locked"
    /\ p \in late \/ state[p] \in {"posted", "confirmed"}

HandedOver == /\ BuiltFirst /\ OneHandler /\ JobFits /\ LateKnown
              /\ TidyFits /\ ChainCharged /\ LockedIsRecorded

(* A record that reached the end of its life stays there: a slate returned *)
(* twice, or after its refund, does not bring it back.                     *)
SettledStays ==
  [][\A p \in Slates : state[p] \in {"confirmed", "expired"} => state'[p] = state[p]]_vars

(* Every payout comes to an end: tidyWallet confirms it or refunds it,     *)
(* unless it came back while it was being given up.                        *)
EventuallySettled ==
  \A p \in Slates :
    state[p] \in {"sent", "posted"} ~> state[p] \in {"confirmed", "expired"} \/ p \in late

(* A payout on record as posted is given up and refunded only if its slate *)
(* came back past its return time while tidyWallet had it on its list.     *)
CancelsUnlessLate ==
  [][\A p \in Slates \ late : state[p] = "posted" => state'[p] # "expired"]_vars

(***************************************************************************)
(* Two claims that the code does not keep.                                 *)
(***************************************************************************)

(* tidyWallet: "Cancel an old UNPOSTED tx (users time to return it         *)
(* expired)" (line 35): the record was "sent" when the list was made; one  *)
(* that has been posted since is expired and refunded all the same.        *)
CancelsOnlyUnposted ==
  [][\A p \in Slates : state[p] = "posted" => state'[p] # "expired"]_vars

(* payments: "Cancel / Expire a tx and refund users coins": no coin of the *)
(* user's is missing from both the balance and the unrefunded payouts.     *)
ExpiredIsRefunded == \A u \in Users : granted[u] <= utxo[u] + L!Spent(u)

=============================================================================
