------------------------------ MODULE ShareAggr ------------------------------
(***************************************************************************)
(* Share aggregation (services/shareAggr.py): share messages are taken     *)
(* from the broker and added to counters in redis, one record per height;  *)
(* a scheduler thread moves the records of heights the chain has left      *)
(* behind to worker_shares in MariaDB, from which miners are paid.         *)
(*                                                                         *)
(* The broker delivers again what was not acknowledged.  The consumers and *)
(* the scheduler are threads of one process and share SHARES_MUTEX, redis  *)
(* and MariaDB outlive it.  A counter is written as the parts of messages  *)
(* it is the sum of, and how often each was added.                         *)
(***************************************************************************)
EXTENDS Integers

CONSTANTS
  Messages,    \* share messages
  Edges,       \* the graph sizes each has counts for (edge_bits)
  HeightOf,    \* [Messages -> Heights]
  UserOf,      \* [Messages -> Users or NoUser]
  Users,       \* accounts
  NoUser,      \* user id 0: the miner was not logged in
  PoolUser,    \* user id 1: the pool's own account
  Consumers,   \* consumer threads
  NoMessage,   \* not a message
  MaxHeight,   \* bound: the chain stops there
  Lag,         \* SHAREDATA_COMMIT_LAG
  MaxFaults,   \* bound: exceptions, lost connections, crashes and stalls
  DbFails,     \* may MariaDB be out of reach during a commit run?
  Stalls       \* may a record wait for its commit for an hour, the mutex being free?

Heights == 1 .. MaxHeight
NoHeight == 0
Parts == Messages \X Edges

ASSUME ConstantsAssumption ==
  /\ NoMessage \notin Messages
  /\ PoolUser \in Users /\ NoUser \notin Users
  /\ MaxHeight \in Nat /\ Lag \in Nat /\ MaxFaults \in Nat
  /\ HeightOf \in [Messages -> Heights]
  /\ UserOf \in [Messages -> Users \cup {NoUser}]
  /\ DbFails \in BOOLEAN /\ Stalls \in BOOLEAN

VARIABLES
  \* the chain (blockWatcher's record) and the broker
  tip,        \* height of the latest block
  published,  \* messages sent so far
  ready,      \* messages waiting for delivery
  acked,      \* messages the broker has forgotten
  \* the process
  work,       \* [Consumers -> [msg, todo, broken]]: the message in hand
  locked,     \* does the scheduler hold SHARES_MUTEX?
  commit,     \* the scheduler: [pc, limit, todo, cur, users]
  pending,    \* [Parts -> Nat]: added in its open transaction
  \* what outlives it
  redis,      \* [Parts -> Nat]: added to the sharedata records
  rows,       \* Heights \X Users: the rows of worker_shares
  shares,     \* [Parts -> Nat]: added to those rows, committed
  lapsed,     \* history: parts that were nowhere else when their record expired
  faults      \* so far

broker == <<published, ready, acked>>
process == <<work, locked, commit, pending>>
stores == <<redis, rows, shares, lapsed>>
vars == <<tip, broker, process, stores, faults>>

Zero == [q \in Parts |-> 0]
Free == [msg |-> NoMessage, todo |-> {}, broken |-> FALSE]
Asleep == [pc |-> "idle", limit |-> 0, todo |-> {}, cur |-> NoHeight, users |-> {}]

Height(q) == HeightOf[q[1]]
(* Faulty: nobody is left out. *)
FaultyWorker(q) == UserOf[q[1]]

(* User id 0 is counted for the pool. *)
Worker(q) == IF UserOf[q[1]] = NoUser THEN PoolUser ELSE UserOf[q[1]]

(* The records of redis, and the users in one of them. *)
Keys == {Height(q) : q \in {r \in Parts : redis[r] > 0}}
UsersIn(h) == {Worker(q) : q \in {r \in Parts : redis[r] > 0 /\ Height(r) = h}}

Init ==
  /\ tip = 0
  /\ published = {} /\ ready = {} /\ acked = {}
  /\ work = [c \in Consumers |-> Free]
  /\ locked = FALSE /\ commit = Asleep /\ pending = Zero
  /\ redis = Zero /\ rows = {} /\ shares = Zero /\ lapsed = {}
  /\ faults = 0

Plus(p, r) == [q \in Parts |-> p[q] + r[q]]
Without(h) == [q \in Parts |-> IF Height(q) = h THEN 0 ELSE redis[q]]

Fault == faults < MaxFaults /\ faults' = faults + 1

-----------------------------------------------------------------------------
(* The chain and the stratum proxy's log *)

NewBlock ==
  /\ tip < MaxHeight
  /\ tip' = tip + 1
  /\ UNCHANGED <<broker, process, stores, faults>>

(* Miners work on the block after the tip; the line may arrive much later. *)
Publish(m) ==
  /\ m \notin published
  /\ HeightOf[m] <= tip + 1
  /\ published' = published \cup {m} /\ ready' = ready \cup {m}
  /\ UNCHANGED <<tip, acked, process, stores, faults>>

-----------------------------------------------------------------------------
(* Consumers (share_handler, addWorkerShares) *)

Take(c, m) ==
  /\ work[c] = Free /\ m \in ready
  /\ work' = [work EXCEPT ![c] = [msg |-> m, todo |-> Edges, broken |-> FALSE]]
  /\ ready' = ready \ {m}
  /\ UNCHANGED <<tip, published, acked, locked, commit, pending, stores, faults>>

Added(c, e) == [redis EXCEPT ![<<work[c].msg, e>>] = @ + 1]

(* Faulty: the record is read and written without the mutex. *)
FaultyAddPart(c, e) ==
  /\ e \in work[c].todo
  /\ redis' = Added(c, e)
  /\ work' = [work EXCEPT ![c].todo = @ \ {e}]
  /\ UNCHANGED <<tip, broker, locked, commit, pending, rows, shares, lapsed, faults>>

(* One size's counts, read, added and written back under the mutex. *)
AddPart(c, e) ==
  /\ ~locked
  /\ e \in work[c].todo
  /\ redis' = Added(c, e)
  /\ work' = [work EXCEPT ![c].todo = @ \ {e}]
  /\ UNCHANGED <<tip, broker, locked, commit, pending, rows, shares, lapsed, faults>>

Ack(c) ==
  /\ work[c] # Free /\ work[c].todo = {} /\ ~work[c].broken
  /\ acked' = acked \cup {work[c].msg}
  /\ work' = [work EXCEPT ![c] = Free]
  /\ UNCHANGED <<tip, published, ready, locked, commit, pending, stores, faults>>

(* What the broker has not been told of goes back to its queue. *)
Returned(c) == IF work[c].broken THEN {} ELSE {work[c].msg}

(* redis fails, perhaps after the write (the rig's own counts are written  *)
(* next, under another mutex): the exception ends the handler, and the     *)
(* consumer connects anew.                                                 *)
Interrupted(c) ==
  /\ Fault
  /\ work[c] # Free
  /\ \/ UNCHANGED redis
     \/ (~locked /\ \E e \in work[c].todo : redis' = Added(c, e))
  /\ work' = [work EXCEPT ![c] = Free]
  /\ UNCHANGED <<tip, published, locked, commit, pending, rows, shares, lapsed>>

(* Faulty: the message is acknowledged whatever happens. *)
FaultyHandlerFails(c) ==
  Interrupted(c) /\ acked' = acked \cup {work[c].msg} /\ UNCHANGED ready

HandlerFails(c) ==
  Interrupted(c) /\ ready' = ready \cup Returned(c) /\ UNCHANGED acked

(* The broker gives the connection up while the handler goes on.           *)
ConnectionLost(c) ==
  /\ Fault
  /\ work[c] # Free /\ ~work[c].broken
  /\ ready' = ready \cup {work[c].msg}
  /\ work' = [work EXCEPT ![c].broken = TRUE]
  /\ UNCHANGED <<tip, published, acked, locked, commit, pending, stores>>

AckFails(c) ==
  /\ work[c] # Free /\ work[c].todo = {} /\ work[c].broken
  /\ work' = [work EXCEPT ![c] = Free]
  /\ UNCHANGED <<tip, broker, locked, commit, pending, stores, faults>>

-----------------------------------------------------------------------------
(* The scheduler (ShareCommitScheduler) *)

(* The mutex is taken and the records that are old enough are listed.      *)
CommitBegin ==
  /\ commit.pc = "idle" /\ ~locked /\ tip > 0
  /\ locked' = TRUE
  /\ commit' = [Asleep EXCEPT !.pc = "next", !.limit = tip - Lag,
                              !.todo = {h \in Keys : h < tip - Lag}]
  /\ UNCHANGED <<tip, broker, work, pending, stores, faults>>

(* The records are sorted as strings: in any order, as far as heights go.  *)
CommitKey(h) ==
  /\ commit.pc = "next" /\ h \in commit.todo \cap Keys
  /\ commit' = [commit EXCEPT !.pc = "user", !.todo = @ \ {h}, !.cur = h,
                              !.users = UsersIn(h)]
  /\ UNCHANGED <<tip, broker, work, locked, pending, stores, faults>>

(* The record has expired since it was listed: what redis returns is not   *)
(* decoded, and the finally clause ends the run.                           *)
KeyGone(h) ==
  /\ commit.pc = "next" /\ h \in commit.todo \ Keys
  /\ shares' = Plus(shares, pending) /\ pending' = Zero
  /\ locked' = FALSE /\ commit' = Asleep
  /\ UNCHANGED <<tip, broker, work, redis, rows, lapsed, faults>>

(* The counts of user u in the record at hand, on top of what p holds. *)
PlusUser(p, u) ==
  [q \in Parts |-> p[q] + IF Height(q) = commit.cur /\ Worker(q) = u THEN redis[q] ELSE 0]

AddToRow(u) ==
  /\ commit.pc = "user" /\ u \in commit.users
  /\ <<commit.cur, u>> \in rows
  /\ pending' = PlusUser(pending, u)
  /\ commit' = [commit EXCEPT !.users = @ \ {u}]
  /\ UNCHANGED <<tip, broker, work, locked, stores, faults>>

(* createDataObj commits the new row, and with it everything added before. *)
CreateRow(u) ==
  /\ commit.pc = "user" /\ u \in commit.users
  /\ <<commit.cur, u>> \notin rows
  /\ rows' = rows \cup {<<commit.cur, u>>}
  /\ shares' = Plus(shares, pending)
  /\ pending' = PlusUser(Zero, u)
  /\ commit' = [commit EXCEPT !.users = @ \ {u}]
  /\ UNCHANGED <<tip, broker, work, locked, redis, lapsed, faults>>

(* Faulty: the commit is left to the end of the run. *)
FaultyCommitRecord ==
  /\ commit.pc = "user" /\ commit.users = {}
  /\ commit' = [commit EXCEPT !.pc = "delete"]
  /\ UNCHANGED <<tip, broker, work, locked, stores, pending, faults>>

CommitRecord ==
  /\ commit.pc = "user" /\ commit.users = {}
  /\ shares' = Plus(shares, pending) /\ pending' = Zero
  /\ commit' = [commit EXCEPT !.pc = "delete"]
  /\ UNCHANGED <<tip, broker, work, locked, redis, rows, lapsed, faults>>


(* Faulty: the record stays in redis. *)
FaultyDeleteKey ==
  /\ commit.pc = "delete"
  /\ commit' = [commit EXCEPT !.pc = "next", !.cur = NoHeight]
  /\ UNCHANGED <<tip, broker, work, locked, pending, stores, faults>>

DeleteKey ==
  /\ commit.pc = "delete"
  /\ redis' = Without(commit.cur)
  /\ commit' = [commit EXCEPT !.pc = "next", !.cur = NoHeight]
  /\ UNCHANGED <<tip, broker, work, locked, pending, rows, shares, lapsed, faults>>

(* A height without shares, after the latest row.  With no row at all the  *)
(* count begins at the node's tip.                                         *)
NeedsFiller(h) ==
  /\ h < commit.limit
  /\ \A r \in rows : r[1] < h
  /\ \E r \in rows : r[1] = h - 1

Filler(h) ==
  /\ commit.pc = "next" /\ commit.todo = {}
  /\ NeedsFiller(h)
  /\ rows' = rows \cup {<<h, PoolUser>>}
  /\ UNCHANGED <<tip, broker, process, redis, shares, lapsed, faults>>

(* The run ends: commit, release the mutex, sleep. *)
CommitEnd ==
  /\ commit.pc = "next" /\ commit.todo = {}
  /\ \A h \in Heights : ~NeedsFiller(h)
  /\ locked' = FALSE /\ commit' = Asleep
  /\ UNCHANGED <<tip, broker, work, pending, stores, faults>>

(* redis fails, perhaps after the deletion: the finally clause commits and *)
(* releases the mutex.                                                     *)
RedisFails ==
  /\ Fault
  /\ commit.pc \in {"next", "delete"}
  /\ UNCHANGED redis \/ redis' = Without(commit.cur)
  /\ shares' = Plus(shares, pending) /\ pending' = Zero
  /\ locked' = FALSE /\ commit' = Asleep
  /\ UNCHANGED <<tip, broker, work, rows, lapsed>>

(* The rows createDataObj may be called for. *)
Creates(h, u) ==
  \/ commit.pc = "user" /\ u \in commit.users /\ h = commit.cur /\ <<h, u>> \notin rows
  \/ commit.pc = "next" /\ commit.todo = {} /\ NeedsFiller(h) /\ u = PoolUser

(* createDataObj fails, perhaps after its commit took effect: it rolls     *)
(* back, so that the finally clause can commit.                            *)
CreateFails(h, u) ==
  /\ DbFails /\ Fault
  /\ Creates(h, u)
  /\ \/ UNCHANGED <<rows, shares>>
     \/ (rows' = rows \cup {<<h, u>>} /\ shares' = Plus(shares, pending))
  /\ pending' = Zero
  /\ locked' = FALSE /\ commit' = Asleep
  /\ UNCHANGED <<tip, broker, work, redis, lapsed>>

(* A query or a commit fails, the latter perhaps after it took effect: the *)
(* commit of the finally clause raises too, and the mutex is not released. *)
DatabaseFails ==
  /\ DbFails /\ Fault
  /\ commit.pc = "user" \/ (commit.pc = "next" /\ commit.todo \cap Keys = {})
  /\ \/ UNCHANGED shares
     \/ (commit.users = {} /\ shares' = Plus(shares, pending))
  /\ pending' = Zero
  /\ commit' = Asleep
  /\ UNCHANGED <<tip, broker, work, locked, redis, rows, lapsed>>

-----------------------------------------------------------------------------
(* Redis forgets a record REDIS_SHAREDATA_EXPIRETIME, an hour, after it    *)
(* was written last: the mutex was left locked, or with Stalls the chain,  *)
(* a call to MariaDB or the whole process stood still as long.  The record *)
(* at hand has been read; it is deleted anyway.                            *)
Stuck == locked /\ commit.pc = "idle"

Expire(h) ==
  /\ IF Stuck THEN UNCHANGED faults ELSE Stalls /\ Fault
  /\ h \in Keys /\ h # commit.cur
  /\ redis' = Without(h)
  /\ lapsed' = lapsed \cup {q \in Parts : Height(q) = h /\ redis[q] > 0 /\ shares[q] = 0}
  /\ UNCHANGED <<tip, broker, process, rows, shares>>

-----------------------------------------------------------------------------
(* The process dies and is started again. *)
Crash ==
  /\ Fault
  /\ ready' = ready \cup UNION {Returned(c) : c \in {d \in Consumers : work[d] # Free}}
  /\ work' = [c \in Consumers |-> Free]
  /\ locked' = FALSE /\ commit' = Asleep /\ pending' = Zero
  /\ UNCHANGED <<tip, published, acked, stores>>

Consume(c) == \/ \E m \in Messages : Take(c, m)
              \/ Ack(c) \/ AckFails(c)

CommitStep ==
  \/ CommitBegin \/ CommitRecord \/ DeleteKey \/ CommitEnd
  \/ \E h \in Heights : CommitKey(h) \/ KeyGone(h) \/ Filler(h)
  \/ \E u \in Users : AddToRow(u) \/ CreateRow(u)

Next ==
  \/ NewBlock
  \/ \E m \in Messages : Publish(m)
  \/ \E c \in Consumers :
       \/ Consume(c) \/ HandlerFails(c) \/ ConnectionLost(c)
       \/ \E e \in Edges : AddPart(c, e)
  \/ CommitStep \/ RedisFails \/ DatabaseFails
  \/ \E h \in Heights, u \in Users : CreateFails(h, u)
  \/ \E h \in Heights : Expire(h)
  \/ Crash

Spec == Init /\ [][Next]_vars

(***************************************************************************)
(* Fairness: the chain grows, the threads run (WF), and a consumer that    *)
(* waits for the mutex gets it in one of the pauses of commit_interval     *)
(* seconds that the scheduler makes (SF).                                  *)
(***************************************************************************)
Fairness ==
  /\ WF_vars(NewBlock) /\ WF_vars(CommitStep)
  /\ \A c \in Consumers :
       WF_vars(Consume(c)) /\ SF_vars(\E e \in Edges : AddPart(c, e))

FairSpec == Spec /\ Fairness

-----------------------------------------------------------------------------
(* Properties *)

WorkType == [msg : Messages \cup {NoMessage}, todo : SUBSET Edges, broken : BOOLEAN]
CommitType == [pc : {"idle", "next", "user", "delete"}, limit : Int,
               todo : SUBSET Heights, cur : Heights \cup {NoHeight}, users : SUBSET Users]

TypeOK ==
  /\ tip \in 0 .. MaxHeight
  /\ published \subseteq Messages /\ ready \subseteq Messages /\ acked \subseteq Messages
  /\ work \in [Consumers -> WorkType]
  /\ \A c \in Consumers : work[c].msg = NoMessage => work[c] = Free
  /\ locked \in BOOLEAN /\ commit \in CommitType
  /\ commit.pc \in {"user", "delete"} => commit.cur \in Heights
  /\ pending \in [Parts -> Nat] /\ redis \in [Parts -> Nat] /\ shares \in [Parts -> Nat]
  /\ rows \subseteq Heights \X Users /\ lapsed \subseteq Parts
  /\ faults \in 0 .. MaxFaults

(* What was added is in redis or in MariaDB, or redis let it expire.       *)
Accounted(q) == redis[q] + shares[q] > 0 \/ q \in lapsed

(* No share is lost but by the hour: what was acknowledged is in redis or  *)
(* in MariaDB, whatever fails between the two, unless its record waited so *)
(* long that redis let it expire.                                          *)
AckedIsKept == \A m \in acked, e \in Edges : Accounted(<<m, e>>)

(* As long as nothing fails every share is counted once, also when its     *)
(* message comes after its height was committed.                           *)
CountedOnce ==
  faults = 0 =>
    \A q \in Parts :
      /\ shares[q] + pending[q] <= 1
      /\ commit.pc = "idle" => redis[q] + shares[q] <= 1

(***************************************************************************)
(* Why AckedIsKept holds: what has been added so far is kept, and a record *)
(* is deleted only when all of it is in MariaDB.                           *)
(***************************************************************************)
HandledIsKept ==
  \A c \in Consumers :
    work[c] # Free =>
      \A e \in Edges \ work[c].todo : Accounted(<<work[c].msg, e>>)

RecordFits ==
  /\ commit.pc # "idle" => locked
  /\ commit.pc = "user" =>
       \A q \in Parts :
         Height(q) = commit.cur /\ redis[q] > 0 /\ Worker(q) \notin commit.users =>
           shares[q] + pending[q] > 0
  /\ commit.pc = "delete" =>
       \A q \in Parts : Height(q) = commit.cur /\ redis[q] > 0 => shares[q] > 0
  /\ commit.pc \in {"idle", "next", "delete"} => pending = Zero
  /\ commit.pc = "next" => commit.cur = NoHeight

Kept == AckedIsKept /\ HandledIsKept /\ RecordFits

Recorded(m) == \A e \in Edges : shares[<<m, e>>] > 0
Expired(m) == \E e \in Edges : <<m, e>> \in lapsed

(* A share that was sent is on record in the end, unless the scheduler     *)
(* left the mutex locked or its record expired: a crash, a lost answer, a  *)
(* late message or a record that is gone when its turn comes only delay    *)
(* it.                                                                     *)
RecordedOrStuck ==
  \A m \in Messages : m \in published ~> Recorded(m) \/ Stuck \/ Expired(m)

(***************************************************************************)
(* Claims of comments in the source that the code does not keep            *)
(***************************************************************************)

(* shareAggr: "Watches the pool logs and adds the records for pool shares",*)
(* also after MariaDB was out of reach for a moment.                       *)
SharesRecorded == \A m \in Messages : m \in published ~> Recorded(m)

=============================================================================
