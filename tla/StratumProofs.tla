---------------------------- MODULE StratumProofs ----------------------------
(***************************************************************************)
(* Theorems about Stratum for every set of miners and solutions: its       *)
(* variables keep their types, every counted solution is printed once or   *)
(* known to be lost, under the right account and height, none is counted   *)
(* twice, miners have the newest job, the node gets its own job ids back,  *)
(* and a reply carries the id of its request.                              *)
(***************************************************************************)
EXTENDS Stratum, FiniteSetTheorems, SequenceTheorems, TLAPS

-----------------------------------------------------------------------------
(* The inductive invariants *)

(* The node's templates are numbered in the order it makes them. *)
NodeFits ==
  /\ node = issued[node.pre_pow]
  /\ node.height \in FirstHeight - node.pre_pow .. FirstHeight + node.pre_pow
  /\ node.job_id < node.pre_pow
  /\ \A x \in 1 .. node.pre_pow : issued[x] \in Templates /\ issued[x].pre_pow = x

(* What the proxy has of templates is what the node made, and in the same  *)
(* order: a template never comes back after a later one.                   *)
Made == {issued[x] : x \in 1 .. node.pre_pow}

JobsFit ==
  /\ \A i \in 1 .. Len(feed) :
       /\ feed[i] \in Made /\ serverJob.pre_pow <= feed[i].pre_pow
       /\ \A j \in i .. Len(feed) : feed[i].pre_pow <= feed[j].pre_pow
  /\ serverJob \in Made \cup {NoTemplate}
  /\ job \in Made \cup {NoTemplate}
  /\ job.pre_pow <= serverJob.pre_pow
  /\ \A k \in JobIds : versions[k] <= job.pre_pow

(* Solutions are of templates the node has made. *)
PowsFit ==
  /\ \A c \in Conns :
       /\ known[c] \subseteq 1 .. node.pre_pow
       /\ \A i \in 1 .. Len(mail[c]) : mail[c][i].pow.pre_pow <= node.pre_pow
  /\ \A c \in Live :
       /\ worker[c].share.pre_pow <= node.pre_pow
       /\ \A p \in worker[c].shares.accepted : p.pre_pow <= node.pre_pow
  /\ submitted \subseteq Made

Fits == TypeOK /\ NodeFits /\ JobsFit /\ PowsFit

(* Between the rounds over the workers, none is left to look at. *)
RoundFits == phase \in {"server", "job", "clean"} => todo = {}

(* A counted solution is on the list of those seen; once that list is      *)
(* emptied, its template is no longer one that shares are checked against. *)
CreditFits ==
  \A p \in Pows :
    credited[p] # 0 =>
      /\ credited[p] = 1
      /\ p.pre_pow <= job.pre_pow
      /\ p \in duplicates \/ \A k \in JobIds : versions[k] # p.pre_pow

(* Nobody is given a job before the login. *)
GivenFits ==
  \A c \in Live :
    /\ worker[c].has \in {NoTemplate, job}
    /\ ~worker[c].authenticated => worker[c].has = NoTemplate

(* Of miners that wait for their login, and of a node that never falls     *)
(* back: no share is of a template that the list of job ids has lost.      *)
VersionsKept ==
  /\ \A y \in 1 .. node.pre_pow : \A x \in 1 .. y : issued[x].height <= issued[y].height
  /\ job # NoTemplate => versions[JobId(job)] # 0
  /\ \A c \in Conns : \A x \in known[c] :
       /\ x <= job.pre_pow
       /\ issued[x].height = job.height => versions[JobId(issued[x])] # 0

RequestFits(c, r) ==
  /\ IF r.kind = "submit"
       THEN r = Submission(r.pow) /\ r.pow \in Pows /\ r.pow.pre_pow \in known[c]
       ELSE r = Request(r.kind)
  /\ c \in LoggedIn \/ r.kind = "login"

MailFits ==
  \A c \in Conns :
    /\ worker[c] = Gone => mail[c] = <<>>
    /\ \A i \in 1 .. Len(mail[c]) : RequestFits(c, mail[c][i])

(* What a worker waits for: nothing, a job, the judgement of its share, or *)
(* the end.                                                                *)
Quiet(w) == w.request_ids = <<>> /\ ~w.requested_job /\ w.share = NoPow
Waiting(w) ==
  /\ w.request_ids = <<Request("getjobtemplate")>> /\ w.requested_job
  /\ w.needs_job /\ w.authenticated /\ w.share = NoPow
Sharing(c, w) ==
  /\ w.request_ids = <<Submission(w.share)>> /\ ~w.requested_job
  /\ w.share \in Pows /\ w.share.pre_pow \in known[c]
Dying(w) == w.error /\ ~w.requested_job /\ w.share = NoPow

Settled(w) == Quiet(w) \/ Waiting(w) \/ Dying(w)

PaceFits ==
  \A c \in Live :
    LET w == worker[c] IN
    /\ ~w.crossed
    /\ phase \in {"server", "job"} => Quiet(w)
    /\ phase = "messages" => Quiet(w) \/ (c \notin todo /\ (Settled(w) \/ Sharing(c, w)))
    /\ phase = "shares" => IF c \in todo THEN Sharing(c, w) ELSE Settled(w)
    /\ phase = "clean" => Quiet(w) \/ Dying(w)

-----------------------------------------------------------------------------
(* The steps *)

LEMMA NextCases ==
  ASSUME Next
  PROVE  \/ NewTemplate \/ Restart
         \/ \E c \in Conns : Open(c) \/ HangUp(c) \/ Send(c)
         \/ Connect \/ ReadServer \/ SameJob \/ NewJob
         \/ \E c \in Conns : WorkerMessage(c)
         \/ \E c \in Conns, p \in Pows :
              \/ Duplicate(c, p) \/ Stale(c, p) \/ UnknownJob(c, p) \/ Mismatch(c, p)
              \/ Accept(c, p)
         \/ MessagesDone \/ SendJobs \/ CleanWorkers
  BY DEF Next, Run, WorkerShare

(* A worker that is gone is no worker. *)
LEMMA GoneIsNoWorker == Gone \notin WorkerType
  <1>1. \A w \in WorkerType : "user" \in DOMAIN w
    BY DEF WorkerType
  <1>2. "user" \notin DOMAIN Gone
    BY DEF Gone
  <1>3. QED
    BY <1>1, <1>2

LEMMA LiveWorkers ==
  ASSUME LoopType
  PROVE  \A c \in Conns : c \in Live <=> worker[c] \in WorkerType
  BY GoneIsNoWorker DEF LoopType, Live

(* A worker with other values of some fields is a worker. *)
LEMMA ReplyFields ==
  ASSUME NEW w \in WorkerType, NEW r
  PROVE  /\ Reply(w, r) \in WorkerType
         /\ Reply(w, r).user = w.user
         /\ Reply(w, r).authenticated = w.authenticated
         /\ Reply(w, r).needs_job = w.needs_job
         /\ Reply(w, r).requested_job = w.requested_job
         /\ Reply(w, r).error = w.error
         /\ Reply(w, r).share = w.share
         /\ Reply(w, r).has = w.has
         /\ Reply(w, r).shares = w.shares
         /\ \A q : w.request_ids = <<q>> => Reply(w, r).request_ids = <<>>
         /\ ~w.crossed /\ w.request_ids = <<r>> => ~Reply(w, r).crossed
  <1> DEFINE ids == IF w.request_ids = <<>> THEN <<>> ELSE Tail(w.request_ids)
             cross == w.crossed \/ w.request_ids = <<>> \/ Head(w.request_ids) # r
  <1>1. ids \in Seq([kind : Kinds, pow : Pows \cup {NoPow}])
    BY DEF WorkerType
  <1>2. cross \in BOOLEAN
    BY DEF WorkerType
  <1>3. Reply(w, r) = [w EXCEPT !.request_ids = ids, !.crossed = cross]
    BY DEF Reply
  <1>4. \A q : w.request_ids = <<q>> => ids = <<>> /\ Head(w.request_ids) = q
    OBVIOUS
  <1> HIDE DEF ids, cross
  <1>5. Reply(w, r) \in WorkerType
    BY <1>1, <1>2, <1>3 DEF WorkerType
  <1>6. Reply(w, r).request_ids = ids /\ Reply(w, r).crossed = cross
    BY <1>3 DEF WorkerType
  <1>7. /\ Reply(w, r).user = w.user
        /\ Reply(w, r).authenticated = w.authenticated
        /\ Reply(w, r).needs_job = w.needs_job
        /\ Reply(w, r).requested_job = w.requested_job
        /\ Reply(w, r).error = w.error
        /\ Reply(w, r).share = w.share
        /\ Reply(w, r).has = w.has
        /\ Reply(w, r).shares = w.shares
    BY <1>3 DEF WorkerType
  <1>8. ~w.crossed /\ w.request_ids = <<r>> => ~cross
    BY <1>4 DEF cross
  <1>9. QED
    BY <1>4, <1>5, <1>6, <1>7, <1>8

LEMMA ResetFields ==
  ASSUME NEW w \in WorkerType, NEW h \in Heights \cup {0}
  PROVE  /\ Reset(w, h) \in WorkerType
         /\ Reset(w, h).user = w.user
         /\ Reset(w, h).authenticated = w.authenticated
         /\ Reset(w, h).needs_job = w.needs_job
         /\ Reset(w, h).requested_job = w.requested_job
         /\ Reset(w, h).error = w.error
         /\ Reset(w, h).crossed = w.crossed
         /\ Reset(w, h).request_ids = w.request_ids
         /\ Reset(w, h).share = w.share
         /\ Reset(w, h).has = w.has
         /\ Reset(w, h).shares = [user |-> w.user, height |-> h, accepted |-> {}]
  BY DEF Reset, WorkerType

(* A job is sent: the worker keeps its account and its shares, and one     *)
(* that asked for the job gets its reply.                                  *)
LEMMA SendJobFields ==
  ASSUME NEW w \in WorkerType, NEW t \in Templates \cup {NoTemplate}
  PROVE  /\ SendJob(w, t) \in WorkerType
         /\ SendJob(w, t).user = w.user
         /\ SendJob(w, t).authenticated = w.authenticated
         /\ ~SendJob(w, t).needs_job
         /\ ~SendJob(w, t).requested_job
         /\ SendJob(w, t).error = w.error
         /\ SendJob(w, t).share = w.share
         /\ SendJob(w, t).has = t
         /\ SendJob(w, t).shares = w.shares
         /\ ~w.requested_job =>
              /\ SendJob(w, t).request_ids = w.request_ids
              /\ SendJob(w, t).crossed = w.crossed
         /\ w.requested_job /\ w.request_ids = <<Request("getjobtemplate")>> =>
              /\ SendJob(w, t).request_ids = <<>>
              /\ ~w.crossed => ~SendJob(w, t).crossed
  <1> DEFINE v == [w EXCEPT !.needs_job = FALSE, !.requested_job = FALSE, !.has = t]
  <1>1. /\ v \in WorkerType
        /\ v.user = w.user /\ v.authenticated = w.authenticated /\ ~v.needs_job
        /\ ~v.requested_job /\ v.error = w.error /\ v.share = w.share /\ v.has = t
        /\ v.shares = w.shares /\ v.request_ids = w.request_ids /\ v.crossed = w.crossed
    BY DEF WorkerType
  <1>2. SendJob(w, t) = IF w.requested_job THEN Reply(v, Request("getjobtemplate")) ELSE v
    BY DEF SendJob
  <1> HIDE DEF v
  <1>3. CASE w.requested_job
    <2>1. SendJob(w, t) = Reply(v, Request("getjobtemplate"))
      BY <1>2, <1>3
    <2>2. QED
      BY <1>1, <1>3, <2>1, ReplyFields
  <1>4. CASE ~w.requested_job
    BY <1>1, <1>2, <1>4
  <1>5. QED
    BY <1>3, <1>4

(* A share is on record before it is judged, and none is left afterwards.  *)
LEMMA OtherFields ==
  ASSUME NEW w \in WorkerType
  PROVE  /\ \A b \in BOOLEAN :
              LET v == [w EXCEPT !.error = @ \/ b] IN
              /\ v \in WorkerType
              /\ v.user = w.user /\ v.authenticated = w.authenticated
              /\ v.needs_job = w.needs_job /\ v.requested_job = w.requested_job
              /\ v.error = (w.error \/ b) /\ v.share = w.share /\ v.has = w.has
              /\ v.shares = w.shares /\ v.request_ids = w.request_ids
              /\ v.crossed = w.crossed
         /\ \A p \in Pows \cup {NoPow} :
              LET v == [w EXCEPT !.share = p] IN
              /\ v \in WorkerType
              /\ v.user = w.user /\ v.authenticated = w.authenticated
              /\ v.needs_job = w.needs_job /\ v.requested_job = w.requested_job
              /\ v.error = w.error /\ v.share = p /\ v.has = w.has
              /\ v.shares = w.shares /\ v.request_ids = w.request_ids
              /\ v.crossed = w.crossed
         /\ \A p \in Pows :
              LET v == [w EXCEPT !.shares.accepted = @ \cup {p}] IN
              /\ v \in WorkerType
              /\ v.user = w.user /\ v.authenticated = w.authenticated
              /\ v.needs_job = w.needs_job /\ v.requested_job = w.requested_job
              /\ v.error = w.error /\ v.share = w.share /\ v.has = w.has
              /\ v.shares.user = w.shares.user /\ v.shares.height = w.shares.height
              /\ v.shares.accepted = w.shares.accepted \cup {p}
              /\ v.request_ids = w.request_ids
              /\ v.crossed = w.crossed
  BY DEF WorkerType

LEMMA QueuedFields ==
  ASSUME TypeOK, NEW c \in Live, mail[c] # <<>>
  PROVE  /\ Head(mail[c]) \in [kind : Kinds, pow : Pows \cup {NoPow}]
         /\ Tail(mail[c]) \in Seq([kind : Kinds, pow : Pows \cup {NoPow}])
         /\ Queued(c) \in WorkerType
         /\ Queued(c).user = worker[c].user
         /\ Queued(c).authenticated = worker[c].authenticated
         /\ Queued(c).needs_job = worker[c].needs_job
         /\ Queued(c).requested_job = worker[c].requested_job
         /\ Queued(c).error = worker[c].error
         /\ Queued(c).crossed = worker[c].crossed
         /\ Queued(c).share = worker[c].share
         /\ Queued(c).has = worker[c].has
         /\ Queued(c).shares = worker[c].shares
         /\ Queued(c).request_ids = Append(worker[c].request_ids, Head(mail[c]))
  <1> DEFINE R == [kind : Kinds, pow : Pows \cup {NoPow}]
             ids == Append(worker[c].request_ids, Head(mail[c]))
  <1>1. worker[c] \in WorkerType
    BY LiveWorkers DEF TypeOK, Live
  <1>2. mail[c] \in Seq(R)
    BY DEF TypeOK, MinerType, Live
  <1> HIDE DEF R
  <1>3. Head(mail[c]) \in R /\ Tail(mail[c]) \in Seq(R)
    BY <1>2, HeadTailProperties
  <1>4. worker[c].request_ids \in Seq(R)
    BY <1>1 DEF WorkerType, R
  <1>5. ids \in Seq(R)
    BY <1>3, <1>4, AppendProperties
  <1>6. Queued(c) = [worker[c] EXCEPT !.request_ids = ids]
    BY DEF Queued
  <1> HIDE DEF ids
  <1>7. Queued(c) \in WorkerType /\ Queued(c).request_ids = ids
    BY <1>1, <1>5, <1>6 DEF WorkerType, R
  <1>8. /\ Queued(c).user = worker[c].user
        /\ Queued(c).authenticated = worker[c].authenticated
        /\ Queued(c).needs_job = worker[c].needs_job
        /\ Queued(c).requested_job = worker[c].requested_job
        /\ Queued(c).error = worker[c].error
        /\ Queued(c).crossed = worker[c].crossed
        /\ Queued(c).share = worker[c].share
        /\ Queued(c).has = worker[c].has
        /\ Queued(c).shares = worker[c].shares
    BY <1>1, <1>6 DEF WorkerType
  <1>9. QED
    BY <1>3, <1>7, <1>8 DEF ids, R

(* What a message of a miner can change: its worker, which keeps its job   *)
(* and, unless it is a login, its account and its counts.                  *)
LoginStep(c, w) ==
  /\ w.authenticated /\ w.shares = [user |-> w.user, height |-> job.height, accepted |-> {}]
  /\ lost' = Add(lost, {c})
OtherStep(c, w) ==
  /\ w.user = worker[c].user /\ w.authenticated = worker[c].authenticated
  /\ w.shares = worker[c].shares /\ lost' = lost
MessageStep(c, w) ==
  /\ worker' = [worker EXCEPT ![c] = w]
  /\ w.has = worker[c].has
  /\ LoginStep(c, w) \/ OtherStep(c, w)
  /\ \/ mail' = mail /\ w.share = worker[c].share
     \/ /\ mail[c] # <<>> /\ mail' = [mail EXCEPT ![c] = Tail(@)]
        /\ w.share \in {worker[c].share, Head(mail[c]).pow}

LEMMA MessageSteps ==
  ASSUME TypeOK, NEW c \in Conns, WorkerMessage(c)
  PROVE  /\ c \in todo /\ phase = "messages" /\ todo' = todo \ {c}
         /\ UNCHANGED <<nodeVars, link, feed, phase, poolVars, submitted, hangups, open, known,
                        credited, logged>>
         /\ \E w \in WorkerType : MessageStep(c, w)
  <1> USE DEF poolVars, nodeVars
  <1>1. CASE NoMessage(c)
    <2>1. c \in Live /\ worker[c] \in WorkerType
      BY <1>1, LiveWorkers DEF NoMessage, TypeOK, LoopType
    <2>2. worker[c].error \in BOOLEAN /\ (c \notin open) \in BOOLEAN
      BY <2>1 DEF WorkerType
    <2> DEFINE w == [worker[c] EXCEPT !.error = @ \/ c \notin open]
    <2>3. /\ w \in WorkerType /\ w.has = worker[c].has /\ w.user = worker[c].user
          /\ w.authenticated = worker[c].authenticated
          /\ w.shares = worker[c].shares /\ w.share = worker[c].share
      BY <2>1, <2>2, OtherFields
    <2>4. worker' = [worker EXCEPT ![c] = w]
      BY <1>1 DEF NoMessage, TypeOK, LoopType
    <2> HIDE DEF w
    <2>5. MessageStep(c, w)
      BY <1>1, <2>3, <2>4 DEF NoMessage, MessageStep, OtherStep, minerVars, books
    <2>6. QED
      BY <1>1, <2>3, <2>5 DEF NoMessage, minerVars, books
  <1>2. ASSUME NEW kind, Reads(c, kind)
        PROVE  c \in Live /\ worker[c] \in WorkerType /\ mail[c] # <<>>
    BY <1>2, LiveWorkers DEF Reads, TypeOK, LoopType
  <1>3. ASSUME NEW kind, Reads(c, kind), NEW w \in WorkerType, Handle(c, w),
               w.has = worker[c].has, LoginStep(c, w) \/ OtherStep(c, w),
               w.share \in {worker[c].share, Head(mail[c]).pow}
        PROVE  /\ c \in todo /\ phase = "messages" /\ todo' = todo \ {c}
               /\ UNCHANGED <<nodeVars, link, feed, phase, poolVars, submitted, hangups, open,
                              known, credited, logged>>
               /\ \E v \in WorkerType : MessageStep(c, v)
    <2>1. MessageStep(c, w)
      BY <1>2, <1>3 DEF Handle, MessageStep
    <2>2. QED
      BY <1>3, <2>1 DEF Handle, Reads
  <1>4. ASSUME NEW u \in Users, Login(c, u)
        PROVE  \E w \in WorkerType :
                 /\ Handle(c, w) /\ w.has = worker[c].has /\ LoginStep(c, w)
                 /\ w.share = worker[c].share
    <2>1. c \in Live /\ mail[c] # <<>>
      BY <1>2, <1>4 DEF Login
    <2> DEFINE v == [Queued(c) EXCEPT !.user = u, !.authenticated = TRUE, !.needs_job = FALSE]
               w == Reset(Reply(v, Request("login")), job.height)
    <2>2. /\ v \in WorkerType /\ v.user = u /\ v.authenticated
          /\ v.has = worker[c].has /\ v.share = worker[c].share
      BY <2>1, QueuedFields DEF WorkerType
    <2>3. job.height \in Heights \cup {0}
      BY DEF TypeOK, LoopType, Templates, NoTemplate
    <2>4. Handle(c, w) /\ lost' = Add(lost, {c})
      BY <1>4 DEF Login
    <2> HIDE DEF v
    <2>5. /\ Reply(v, Request("login")) \in WorkerType
          /\ Reply(v, Request("login")).user = u /\ Reply(v, Request("login")).authenticated
          /\ Reply(v, Request("login")).has = worker[c].has
          /\ Reply(v, Request("login")).share = worker[c].share
      BY <2>2, ReplyFields
    <2>6. /\ w \in WorkerType /\ w.user = u /\ w.authenticated /\ w.has = worker[c].has
          /\ w.share = worker[c].share
          /\ w.shares = [user |-> u, height |-> job.height, accepted |-> {}]
      BY <2>3, <2>5, ResetFields
    <2>7. QED
      BY <2>4, <2>6 DEF LoginStep
  <1>5. ASSUME LoginFails(c)
        PROVE  \E w \in WorkerType :
                 /\ Handle(c, w) /\ w.has = worker[c].has /\ OtherStep(c, w)
                 /\ w.share = worker[c].share
    <2>1. c \in Live /\ mail[c] # <<>>
      BY <1>2, <1>5 DEF LoginFails
    <2> DEFINE v == [Queued(c) EXCEPT !.error = TRUE]
    <2>2. /\ v \in WorkerType /\ v.user = worker[c].user
          /\ v.authenticated = worker[c].authenticated /\ v.has = worker[c].has
          /\ v.shares = worker[c].shares /\ v.share = worker[c].share
      BY <2>1, QueuedFields DEF WorkerType
    <2>3. Handle(c, Reply(v, Request("login"))) /\ lost' = lost
      BY <1>5 DEF LoginFails
    <2> HIDE DEF v
    <2>4. QED
      BY <2>2, <2>3, ReplyFields DEF OtherStep
  <1>6. ASSUME NEW r, Handle(c, Reply(Queued(c), r)), c \in Live, mail[c] # <<>>, lost' = lost
        PROVE  \E w \in WorkerType :
                 /\ Handle(c, w) /\ w.has = worker[c].has /\ OtherStep(c, w)
                 /\ w.share = worker[c].share
    BY <1>6, QueuedFields, ReplyFields DEF OtherStep
  <1>7. ASSUME GetJobTemplate(c)
        PROVE  \E w \in WorkerType :
                 /\ Handle(c, w) /\ w.has = worker[c].has /\ OtherStep(c, w)
                 /\ w.share = worker[c].share
    <2>1. c \in Live /\ mail[c] # <<>>
      BY <1>2, <1>7 DEF GetJobTemplate
    <2> DEFINE w == [Queued(c) EXCEPT !.needs_job = TRUE, !.requested_job = TRUE]
    <2>2. /\ w \in WorkerType /\ w.user = worker[c].user
          /\ w.authenticated = worker[c].authenticated /\ w.has = worker[c].has
          /\ w.shares = worker[c].shares /\ w.share = worker[c].share
      BY <2>1, QueuedFields DEF WorkerType
    <2>3. Handle(c, w) /\ lost' = lost
      BY <1>7 DEF GetJobTemplate
    <2>4. QED
      BY <2>2, <2>3 DEF OtherStep
  <1>8. ASSUME Submit(c)
        PROVE  \E w \in WorkerType :
                 /\ Handle(c, w) /\ w.has = worker[c].has /\ OtherStep(c, w)
                 /\ w.share = Head(mail[c]).pow
    <2>1. c \in Live /\ mail[c] # <<>>
      BY <1>2, <1>8 DEF Submit
    <2> DEFINE p == Head(mail[c]).pow
               w == [Queued(c) EXCEPT !.share = p]
    <2>2. p \in Pows \cup {NoPow}
      BY <2>1, QueuedFields
    <2>3. Handle(c, w) /\ lost' = lost
      BY <1>8 DEF Submit
    <2> HIDE DEF p
    <2>4. /\ w \in WorkerType /\ w.user = worker[c].user
          /\ w.authenticated = worker[c].authenticated /\ w.has = worker[c].has
          /\ w.shares = worker[c].shares /\ w.share = p
      BY <2>1, <2>2, QueuedFields DEF WorkerType
    <2>5. QED
      BY <2>3, <2>4 DEF OtherStep, p
  <1>9. ASSUME BadRequest(c)
        PROVE  \E w \in WorkerType :
                 /\ Handle(c, w) /\ w.has = worker[c].has /\ OtherStep(c, w)
                 /\ w.share = worker[c].share
    <2>1. c \in Live /\ mail[c] # <<>>
      BY <1>2, <1>9 DEF BadRequest
    <2> DEFINE w == [Queued(c) EXCEPT !.error = TRUE]
    <2>2. /\ w \in WorkerType /\ w.user = worker[c].user
          /\ w.authenticated = worker[c].authenticated /\ w.has = worker[c].has
          /\ w.shares = worker[c].shares /\ w.share = worker[c].share
      BY <2>1, QueuedFields DEF WorkerType
    <2>3. Handle(c, w) /\ lost' = lost
      BY <1>9 DEF BadRequest
    <2>4. QED
      BY <2>2, <2>3 DEF OtherStep
  <1>10. CASE \E u \in Users : Login(c, u)
    BY <1>3, <1>4, <1>10 DEF Login
  <1>11. CASE LoginFails(c)
    BY <1>3, <1>5, <1>11 DEF LoginFails
  <1>12. CASE LoginAgain(c)
    BY <1>2, <1>3, <1>6, <1>12 DEF LoginAgain
  <1>13. CASE GetJobTemplate(c)
    BY <1>3, <1>7, <1>13 DEF GetJobTemplate
  <1>14. CASE Submit(c)
    BY <1>3, <1>8, <1>14 DEF Submit
  <1>15. CASE KeepAlive(c)
    BY <1>2, <1>3, <1>6, <1>15 DEF KeepAlive
  <1>16. CASE BadRequest(c)
    BY <1>3, <1>9, <1>16 DEF BadRequest
  <1>17. QED
    BY <1>1, <1>10, <1>11, <1>12, <1>13, <1>14, <1>15, <1>16 DEF WorkerMessage

(* What a judged share can change. *)
CountStep(c, p, w) ==
  /\ p \notin duplicates /\ Template(p).height = job.height
  /\ versions[JobId(Template(p))] = p.pre_pow
  /\ w.shares.user = worker[c].shares.user /\ w.shares.height = worker[c].shares.height
  /\ w.shares.accepted = worker[c].shares.accepted \cup {p}
  /\ credited' = [credited EXCEPT ![p] = @ + 1]
  /\ submitted' \in {submitted, submitted \cup {Solution(p)}}
RefuseStep(c, w) == w.shares = worker[c].shares /\ UNCHANGED <<submitted, credited>>
ShareStep(c, p, w) ==
  /\ worker' = [worker EXCEPT ![c] = w]
  /\ w.has = worker[c].has /\ w.share = NoPow
  /\ w.user = worker[c].user /\ w.authenticated = worker[c].authenticated
  /\ CountStep(c, p, w) \/ RefuseStep(c, w)

LEMMA ShareSteps ==
  ASSUME TypeOK, NEW c \in Conns, NEW p \in Pows,
         \/ Duplicate(c, p) \/ Stale(c, p) \/ UnknownJob(c, p) \/ Mismatch(c, p)
         \/ Accept(c, p)
  PROVE  /\ c \in todo /\ phase = "shares" /\ worker[c].share = p /\ todo' = todo \ {c}
         /\ duplicates' = duplicates \cup {p}
         /\ UNCHANGED <<nodeVars, link, feed, phase, serverJob, job, versions, minerVars,
                        logged, lost>>
         /\ \E w \in WorkerType : ShareStep(c, p, w)
  <1>1. Judging(c, p)
    BY DEF Duplicate, Stale, UnknownJob, Mismatch, Accept
  <1>2. c \in Live /\ worker[c] \in WorkerType
    BY <1>1, LiveWorkers DEF Judging, TypeOK, LoopType
  <1>3. ASSUME NEW w \in WorkerType, Judge(c, p, w), w.has = worker[c].has,
               w.user = worker[c].user, w.authenticated = worker[c].authenticated,
               CountStep(c, p, w) \/ RefuseStep(c, w)
        PROVE  /\ c \in todo /\ phase = "shares" /\ worker[c].share = p
               /\ todo' = todo \ {c} /\ duplicates' = duplicates \cup {p}
               /\ UNCHANGED <<nodeVars, link, feed, phase, serverJob, job, versions,
                              minerVars, logged, lost>>
               /\ \E v \in WorkerType : ShareStep(c, p, v)
    <2> DEFINE v == [w EXCEPT !.share = NoPow]
    <2>1. /\ v \in WorkerType /\ v.user = w.user /\ v.authenticated = w.authenticated
          /\ v.share = NoPow /\ v.has = w.has /\ v.shares = w.shares
      BY <1>3, OtherFields
    <2>2. worker' = [worker EXCEPT ![c] = v]
      BY <1>3 DEF Judge
    <2> HIDE DEF v
    <2>3. ShareStep(c, p, v)
      BY <1>3, <2>1, <2>2 DEF ShareStep, CountStep, RefuseStep
    <2>4. QED
      BY <1>1, <1>3, <2>1, <2>3 DEF Judging, Judge
  <1>4. ASSUME Refused(c, p)
        PROVE  \E w \in WorkerType :
                 /\ Judge(c, p, w) /\ w.has = worker[c].has /\ w.user = worker[c].user
                 /\ w.authenticated = worker[c].authenticated /\ RefuseStep(c, w)
    BY <1>2, <1>4, ReplyFields DEF Refused, RefuseStep
  <1>5. CASE Duplicate(c, p)
    BY <1>3, <1>4, <1>5 DEF Duplicate
  <1>6. CASE Stale(c, p)
    BY <1>3, <1>4, <1>6 DEF Stale
  <1>7. CASE Mismatch(c, p)
    BY <1>3, <1>4, <1>7 DEF Mismatch
  <1>8. CASE UnknownJob(c, p)
    BY <1>2, <1>3, <1>8 DEF UnknownJob, RefuseStep
  <1>9. CASE Accept(c, p)
    <2> DEFINE v == [worker[c] EXCEPT !.shares.accepted = @ \cup {p}]
               w == Reply(v, Submission(p))
    <2>1. /\ v \in WorkerType /\ v.user = worker[c].user
          /\ v.authenticated = worker[c].authenticated /\ v.has = worker[c].has
          /\ v.shares.user = worker[c].shares.user
          /\ v.shares.height = worker[c].shares.height
          /\ v.shares.accepted = worker[c].shares.accepted \cup {p}
      BY <1>2 DEF WorkerType
    <2>2. Judge(c, p, w)
      BY <1>9 DEF Accept
    <2> HIDE DEF v
    <2>3. /\ w \in WorkerType /\ w.user = worker[c].user /\ w.has = worker[c].has
          /\ w.authenticated = worker[c].authenticated /\ w.shares = v.shares
      BY <2>1, ReplyFields
    <2> HIDE DEF w
    <2>4. CountStep(c, p, w)
      BY <1>9, <2>1, <2>3 DEF Accept, CountStep
    <2>5. QED
      BY <1>3, <2>2, <2>3, <2>4
  <1>10. QED
    BY <1>5, <1>6, <1>7, <1>8, <1>9

(* What serving some workers changes for each of them. *)
LEMMA ServeSteps ==
  ASSUME TypeOK, NEW S \in SUBSET Live, NEW t \in Templates \cup {NoTemplate}, Serve(S, t)
  PROVE  /\ worker' \in [Conns -> WorkerType \cup {Gone}]
         /\ Live' = Live
         /\ \A c \in Conns \ S : worker'[c] = worker[c] /\ known'[c] = known[c]
         /\ \A c \in S :
              /\ worker'[c].user = worker[c].user
              /\ worker'[c].authenticated = worker[c].authenticated
              /\ worker'[c].share = worker[c].share
              /\ worker'[c].shares
                   = [user |-> worker[c].user, height |-> t.height, accepted |-> {}]
              /\ known'[c] = known[c] \cup ({t.pre_pow} \ {0})
         /\ known' \in [Conns -> SUBSET PrePows]
         /\ logged' = Add(logged, S) /\ credited' = credited /\ lost' = lost
  <1>1. PICK failed \in SUBSET (S \ open) :
          worker' = [c \in Conns |->
                      IF c \in S
                        THEN [SendJob(Reset(worker[c], t.height), t) EXCEPT
                                !.error = @ \/ c \in failed]
                        ELSE worker[c]]
    BY DEF Serve
  <1> DEFINE v(c) == SendJob(Reset(worker[c], t.height), t)
             w(c) == [v(c) EXCEPT !.error = @ \/ c \in failed]
  <1>2. t.height \in Heights \cup {0}
    BY DEF Templates, NoTemplate
  <1>3. ASSUME NEW c \in S
        PROVE  /\ w(c) \in WorkerType
               /\ w(c).user = worker[c].user
               /\ w(c).authenticated = worker[c].authenticated
               /\ w(c).share = worker[c].share
               /\ w(c).shares
                    = [user |-> worker[c].user, height |-> t.height, accepted |-> {}]
    <2>1. worker[c] \in WorkerType
      BY LiveWorkers DEF TypeOK, Live
    <2> DEFINE r == Reset(worker[c], t.height)
    <2>2. /\ r \in WorkerType /\ r.user = worker[c].user
          /\ r.authenticated = worker[c].authenticated /\ r.share = worker[c].share
          /\ r.shares = [user |-> worker[c].user, height |-> t.height, accepted |-> {}]
      BY <1>2, <2>1, ResetFields
    <2> HIDE DEF r
    <2>3. /\ v(c) \in WorkerType /\ v(c).user = r.user
          /\ v(c).authenticated = r.authenticated /\ v(c).share = r.share
          /\ v(c).shares = r.shares
      BY <2>2, SendJobFields DEF r
    <2> HIDE DEF v
    <2> DEFINE b == c \in failed
    <2>4. w(c) = [v(c) EXCEPT !.error = @ \/ b] /\ b \in BOOLEAN
      OBVIOUS
    <2> HIDE DEF b, w
    <2>5. /\ w(c) \in WorkerType /\ w(c).user = v(c).user
          /\ w(c).authenticated = v(c).authenticated /\ w(c).share = v(c).share
          /\ w(c).shares = v(c).shares
      BY <2>3, <2>4, OtherFields
    <2>6. QED
      BY <2>2, <2>3, <2>5
  <1>4. worker' = [c \in Conns |-> IF c \in S THEN w(c) ELSE worker[c]]
    BY <1>1
  <1> HIDE DEF w
  <1>5. worker' \in [Conns -> WorkerType \cup {Gone}]
    BY <1>3, <1>4 DEF TypeOK, LoopType
  <1>6. /\ \A c \in Conns \ S : worker'[c] = worker[c]
        /\ \A c \in S : c \in Conns /\ worker'[c] = w(c)
    BY <1>4 DEF Live
  <1>7. Live' = Live
    <2>1. \A c \in S : worker'[c] # Gone /\ worker[c] # Gone
      BY <1>3, <1>6, GoneIsNoWorker DEF Live
    <2>2. \A c \in Conns : worker'[c] = Gone <=> worker[c] = Gone
      BY <1>6, <2>1
    <2>3. QED
      BY <2>2 DEF Live
  <1>8. /\ \A c \in Conns \ S : known'[c] = known[c]
        /\ \A c \in S : known'[c] = known[c] \cup ({t.pre_pow} \ {0})
    BY DEF Serve, Live
  <1>9. known' \in [Conns -> SUBSET PrePows]
    BY DEF Serve, TypeOK, MinerType, Templates, NoTemplate
  <1>10. QED
    BY <1>3, <1>5, <1>6, <1>7, <1>8, <1>9 DEF Serve

(* All workers that are served have the job. *)
LEMMA ServeGives ==
  ASSUME TypeOK, NEW S \in SUBSET Live, NEW t \in Templates \cup {NoTemplate}, Serve(S, t)
  PROVE  \A c \in S : worker'[c].has = t
  <1>1. PICK failed \in SUBSET (S \ open) :
          worker' = [c \in Conns |->
                      IF c \in S
                        THEN [SendJob(Reset(worker[c], t.height), t) EXCEPT
                                !.error = @ \/ c \in failed]
                        ELSE worker[c]]
    BY DEF Serve
  <1>2. SUFFICES ASSUME NEW c \in S
                 PROVE  worker'[c].has = t
    OBVIOUS
  <1> DEFINE r == Reset(worker[c], t.height)
             v == SendJob(r, t)
             b == c \in failed
  <1>3. c \in Conns /\ worker[c] \in WorkerType
    BY LiveWorkers DEF TypeOK, Live
  <1>4. t.height \in Heights \cup {0}
    BY DEF Templates, NoTemplate
  <1>5. r \in WorkerType
    BY <1>3, <1>4, ResetFields
  <1>6. worker'[c] = [v EXCEPT !.error = @ \/ b] /\ b \in BOOLEAN
    BY <1>1, <1>3
  <1> HIDE DEF r, b
  <1>7. v \in WorkerType /\ v.has = t
    BY <1>5, SendJobFields
  <1> HIDE DEF v
  <1>8. [v EXCEPT !.error = @ \/ b].has = v.has
    BY <1>6, <1>7, OtherFields
  <1>9. QED
    BY <1>6, <1>7, <1>8

-----------------------------------------------------------------------------
(* Types, and the order of templates *)

LEMMA FitsInit == Init => Fits
  <1> SUFFICES ASSUME Init PROVE Fits
    OBVIOUS
  <1> USE ConstantsAssumption
  <1>1. node \in Templates /\ NodeType
    BY DEF Init, NodeType, Templates, Heights, PrePows
  <1>2. LoopType
    BY DEF Init, LoopType, Phases, Live, NoVersions
  <1>3. MinerType /\ BookType
    BY DEF Init, MinerType, BookType, Nothing
  <1>4. NodeFits
    BY <1>1 DEF Init, NodeFits, PrePows
  <1>5. JobsFit
    BY DEF Init, JobsFit, NoTemplate, NoVersions
  <1>6. PowsFit
    BY DEF Init, PowsFit, Live
  <1>7. QED
    BY <1>1, <1>2, <1>3, <1>4, <1>5, <1>6 DEF Fits, TypeOK

LEMMA MadeFits ==
  ASSUME NodeType, NodeFits
  PROVE  /\ node \in Made
         /\ \A t \in Made :
              /\ t \in Templates /\ t.pre_pow \in 1 .. node.pre_pow
              /\ t = issued[t.pre_pow]
  BY DEF Made, NodeFits, NodeType, Templates, PrePows

(* The node's next template. *)
LEMMA Issues ==
  ASSUME NodeType, NodeFits, NEW t \in Templates, Issue(t),
         t.pre_pow = node.pre_pow + 1, t.job_id < t.pre_pow,
         t.height \in FirstHeight - t.pre_pow .. FirstHeight + t.pre_pow
  PROVE  /\ node' \in Templates /\ issued' \in [PrePows -> Templates \cup {NoTemplate}]
         /\ NodeFits'
         /\ node' = t /\ \A x \in 1 .. node.pre_pow : issued'[x] = issued[x]
  <1>1. t.pre_pow \in PrePows /\ node.pre_pow \in PrePows
    BY DEF Templates, NodeType
  <1>2. node' = t /\ issued' = [issued EXCEPT ![t.pre_pow] = t]
    BY DEF Issue
  <1>3. issued' \in [PrePows -> Templates \cup {NoTemplate}]
    BY <1>2 DEF NodeType
  <1>4. issued'[t.pre_pow] = t /\ \A x \in PrePows \ {t.pre_pow} : issued'[x] = issued[x]
    BY <1>1, <1>2 DEF NodeType
  <1>5. \A x \in 1 .. node.pre_pow : x \in PrePows \ {t.pre_pow}
    BY <1>1, ConstantsAssumption DEF PrePows
  <1>6. \A x \in 1 .. t.pre_pow : issued'[x] \in Templates /\ issued'[x].pre_pow = x
    BY <1>1, <1>4, <1>5 DEF NodeFits, PrePows
  <1>7. NodeFits'
    BY <1>2, <1>4, <1>6 DEF NodeFits
  <1>8. QED
    BY <1>2, <1>3, <1>4, <1>5, <1>7

LEMMA NodeSteps ==
  ASSUME NodeType, NodeFits, NewTemplate \/ Restart
  PROVE  /\ NodeType' /\ NodeFits' /\ Made \subseteq Made'
         /\ node'.pre_pow \in node.pre_pow .. MaxTemplates
         /\ \A x \in 1 .. node.pre_pow : issued'[x] = issued[x]
  <1> USE ConstantsAssumption
  <1> DEFINE Next1 == [node EXCEPT !.pre_pow = @ + 1, !.job_id = @ + 1]
             Later(h) == [height |-> h, job_id |-> 0, pre_pow |-> node.pre_pow + 1]
  <1>1. /\ node.pre_pow \in 1 .. MaxTemplates /\ node.height \in Int
        /\ node.job_id \in Nat /\ node.job_id < node.pre_pow
        /\ node.height \in FirstHeight - node.pre_pow .. FirstHeight + node.pre_pow
    BY DEF NodeType, Templates, PrePows, NodeFits, Heights
  <1>2. restarts' \in 0 .. MaxRestarts
    BY DEF NewTemplate, Restart, NodeType
  <1>3. ASSUME NEW t \in Templates, Issue(t), t.pre_pow = node.pre_pow + 1,
               t.job_id < t.pre_pow,
               t.height \in FirstHeight - t.pre_pow .. FirstHeight + t.pre_pow
        PROVE  /\ NodeType' /\ NodeFits' /\ Made \subseteq Made'
               /\ node'.pre_pow \in node.pre_pow .. MaxTemplates
               /\ \A x \in 1 .. node.pre_pow : issued'[x] = issued[x]
    <2>1. /\ node' \in Templates /\ issued' \in [PrePows -> Templates \cup {NoTemplate}]
          /\ NodeFits' /\ node' = t /\ \A x \in 1 .. node.pre_pow : issued'[x] = issued[x]
      BY <1>3, Issues
    <2>2. t.pre_pow \in PrePows
      BY DEF Templates
    <2>3. \A x \in 1 .. node.pre_pow : x \in 1 .. node'.pre_pow
      BY <1>1, <1>3, <2>1
    <2>4. Made \subseteq Made'
      BY <2>1, <2>3 DEF Made
    <2>5. QED
      BY <1>1, <1>2, <1>3, <2>1, <2>2, <2>4 DEF NodeType, PrePows
  <1>4. ASSUME node.pre_pow < MaxTemplates, Issue(Next1)
        PROVE  /\ NodeType' /\ NodeFits' /\ Made \subseteq Made'
               /\ node'.pre_pow \in node.pre_pow .. MaxTemplates
               /\ \A x \in 1 .. node.pre_pow : issued'[x] = issued[x]
    <2>0. node \in Templates
      BY DEF NodeType
    <2>1. node.pre_pow + 1 \in PrePows /\ node.job_id + 1 \in 0 .. MaxTemplates
      BY <1>1, <1>4 DEF PrePows
    <2>2. /\ Next1.pre_pow = node.pre_pow + 1 /\ Next1.job_id = node.job_id + 1
          /\ Next1.height = node.height /\ Next1 \in Templates
      BY <2>0, <2>1 DEF Templates
    <2> HIDE DEF Next1
    <2>3. QED
      BY <1>1, <1>3, <1>4, <2>2
  <1>5. ASSUME node.pre_pow < MaxTemplates,
               NEW h \in {node.height - 1, node.height, node.height + 1}, Issue(Later(h))
        PROVE  /\ NodeType' /\ NodeFits' /\ Made \subseteq Made'
               /\ node'.pre_pow \in node.pre_pow .. MaxTemplates
               /\ \A x \in 1 .. node.pre_pow : issued'[x] = issued[x]
    <2>1. /\ Later(h).pre_pow = node.pre_pow + 1 /\ Later(h).job_id = 0
          /\ Later(h).height = h /\ Later(h) \in Templates
      BY <1>1, <1>5 DEF NodeType, Templates, PrePows, Heights
    <2> HIDE DEF Later
    <2>2. QED
      BY <1>1, <1>3, <1>5, <2>1
  <1>6. CASE UNCHANGED <<node, issued>>
    BY <1>1, <1>2, <1>6 DEF NodeType, NodeFits, Made
  <1>7. CASE NewTemplate
    BY <1>4, <1>5, <1>7 DEF NewTemplate
  <1>8. CASE Restart
    BY <1>5, <1>6, <1>8 DEF Restart
  <1>9. QED
    BY <1>7, <1>8

LEMMA FitsNode ==
  ASSUME Fits, NewTemplate \/ Restart
  PROVE  Fits'
  <1> USE DEF Fits, TypeOK
  <1>1. /\ NodeType' /\ NodeFits' /\ Made \subseteq Made'
        /\ node'.pre_pow \in node.pre_pow .. MaxTemplates
    BY NodeSteps
  <1>2. /\ UNCHANGED <<phase, todo, poolVars, worker, submitted, minerVars, books>>
        /\ link' \in {"down", "up", "broken"} /\ Live' = Live
        /\ feed' = feed \/ feed' = Append(feed, node')
    BY DEF NewTemplate, Restart, LoopType, Live, poolVars, minerVars, books
  <1>3. node' \in Made' /\ node' \in Templates /\ node.pre_pow \in Nat
    BY <1>1, MadeFits DEF NodeType, Templates, PrePows, Made, NodeFits
  <1>4. feed \in Seq(Templates)
    BY DEF LoopType
  <1>5. feed' \in Seq(Templates)
    BY <1>2, <1>3, <1>4
  <1>6. LoopType'
    BY <1>2, <1>5 DEF LoopType, poolVars
  <1>7. MinerType' /\ BookType'
    BY <1>2 DEF MinerType, BookType, minerVars, books
  <1>8. \A t \in Made : t.pre_pow \in Nat /\ t.pre_pow <= node'.pre_pow
    BY <1>1, <1>3, MadeFits
  <1>9. serverJob.pre_pow \in Nat /\ serverJob.pre_pow <= node'.pre_pow
    BY <1>1, <1>3, <1>8 DEF JobsFit, NoTemplate
  <1>10. JobsFit'
    <2>1. \A i \in 1 .. Len(feed') :
            /\ feed'[i] \in Made' /\ serverJob'.pre_pow <= feed'[i].pre_pow
            /\ \A j \in i .. Len(feed') : feed'[i].pre_pow <= feed'[j].pre_pow
      <3>1. CASE feed' = feed
        BY <1>1, <1>2, <3>1 DEF JobsFit, poolVars
      <3>2. CASE feed' = Append(feed, node')
        <4>1. /\ Len(feed') = Len(feed) + 1 /\ feed'[Len(feed) + 1] = node'
              /\ \A i \in 1 .. Len(feed) : feed'[i] = feed[i]
              /\ Len(feed) \in Nat
          BY <1>3, <1>4, <3>2
        <4>2. \A i \in 1 .. Len(feed) :
                /\ feed[i] \in Made /\ serverJob.pre_pow <= feed[i].pre_pow
                /\ \A j \in i .. Len(feed) : feed[i].pre_pow <= feed[j].pre_pow
          BY DEF JobsFit
        <4>3. \A i \in 1 .. Len(feed') :
                feed'[i] \in Made' /\ serverJob.pre_pow <= feed'[i].pre_pow
          BY <1>1, <1>3, <1>9, <4>1, <4>2
        <4>4. \A i \in 1 .. Len(feed) : feed[i].pre_pow <= node'.pre_pow
          BY <1>8, <4>2
        <4>5. node'.pre_pow <= node'.pre_pow
          BY <1>3 DEF Templates, PrePows
        <4>6. \A i \in 1 .. Len(feed') : \A j \in i .. Len(feed') :
                feed'[i].pre_pow <= feed'[j].pre_pow
          BY <4>1, <4>2, <4>4, <4>5
        <4>7. QED
          BY <1>2, <4>3, <4>6 DEF poolVars
      <3>3. QED
        BY <1>2, <3>1, <3>2
    <2>2. QED
      BY <1>1, <1>2, <2>1 DEF JobsFit, poolVars
  <1>11. PowsFit'
    <2>1. \A x \in {0} \cup PrePows : x <= node.pre_pow => x <= node'.pre_pow
      BY <1>1, <1>3, ConstantsAssumption DEF PrePows
    <2>2. \A c \in Conns : \A i \in 1 .. Len(mail[c]) :
            mail[c][i].pow.pre_pow \in {0} \cup PrePows
      <3> DEFINE R == [kind : Kinds, pow : Pows \cup {NoPow}]
      <3>1. \A r \in R : r.pow.pre_pow \in {0} \cup PrePows
        BY DEF Pows, NoPow
      <3>2. \A c \in Conns : mail[c] \in Seq(R)
        BY DEF MinerType
      <3> HIDE DEF R
      <3>3. QED
        BY <3>1, <3>2, ElementOfSeq
    <2>3. \A c \in Live :
            /\ worker[c].share.pre_pow \in {0} \cup PrePows
            /\ worker[c].shares.accepted \subseteq Pows
      BY LiveWorkers DEF WorkerType, Pows, NoPow, Live
    <2>4. \A p \in Pows : p.pre_pow \in PrePows
      BY DEF Pows
    <2>5. \A c \in Conns : known[c] \subseteq 1 .. node'.pre_pow
      BY <1>1, <1>3 DEF PowsFit
    <2>6. \A c \in Conns : \A i \in 1 .. Len(mail[c]) :
            mail[c][i].pow.pre_pow <= node'.pre_pow
      BY <2>1, <2>2 DEF PowsFit
    <2>7. \A c \in Live :
            /\ worker[c].share.pre_pow <= node'.pre_pow
            /\ \A p \in worker[c].shares.accepted : p.pre_pow <= node'.pre_pow
      BY <2>1, <2>3, <2>4 DEF PowsFit
    <2>8. QED
      BY <1>1, <1>2, <2>5, <2>6, <2>7 DEF PowsFit, minerVars
  <1>12. QED
    BY <1>1, <1>6, <1>7, <1>10, <1>11

(* One live worker changes. *)
LEMMA OneWorker ==
  ASSUME LoopType, NEW c \in Conns, NEW w \in WorkerType, worker' = [worker EXCEPT ![c] = w]
  PROVE  /\ worker' \in [Conns -> WorkerType \cup {Gone}]
         /\ worker'[c] = w /\ \A d \in Conns \ {c} : worker'[d] = worker[d]
         /\ Live' = Live \cup {c}
  BY GoneIsNoWorker DEF LoopType, Live

LEMMA AddType ==
  ASSUME NEW book \in [Pows -> Nat], NEW S \in SUBSET Conns
  PROVE  Add(book, S) \in [Pows -> Nat]
  <1>1. \A p \in Pows : Cardinality({c \in S : p \in Counted(c)}) \in Nat
    <2>1. TAKE p \in Pows
    <2>2. IsFiniteSet({c \in S : p \in Counted(c)})
      BY ConstantsAssumption, FS_Subset
    <2>3. QED
      BY <2>2, FS_CardinalityType
  <1>2. QED
    BY <1>1 DEF Add

LEMMA FitsOpen ==
  ASSUME Fits, NEW c \in Conns, Open(c)
  PROVE  Fits'
  <1> USE DEF Fits, TypeOK
  <1>1. /\ UNCHANGED <<nodeVars, link, feed, phase, todo, poolVars, submitted, hangups, mail,
                       known, books>>
        /\ worker[c] = Gone /\ worker' = [worker EXCEPT ![c] = NewWorker]
        /\ open' = open \cup {c}
    BY DEF Open
  <1>2. /\ NewWorker \in WorkerType /\ NewWorker.share = NoPow
        /\ NewWorker.shares.accepted = {}
    BY DEF NewWorker, WorkerType
  <1>3. /\ worker' \in [Conns -> WorkerType \cup {Gone}]
        /\ worker'[c] = NewWorker /\ \A d \in Conns \ {c} : worker'[d] = worker[d]
        /\ Live' = Live \cup {c} /\ c \notin Live
    BY <1>1, <1>2, OneWorker DEF Live
  <1>4. NodeType' /\ NodeFits' /\ JobsFit' /\ BookType' /\ Made' = Made
    BY <1>1 DEF NodeType, NodeFits, JobsFit, BookType, Made, nodeVars, poolVars, books
  <1>5. LoopType'
    BY <1>1, <1>3 DEF LoopType, poolVars
  <1>6. MinerType'
    BY <1>1, <1>3 DEF MinerType
  <1>7. NoPow.pre_pow <= node.pre_pow
    BY DEF NoPow, NodeType, Templates, PrePows
  <1>8. \A d \in Live' :
          /\ worker'[d].share.pre_pow <= node.pre_pow
          /\ \A p \in worker'[d].shares.accepted : p.pre_pow <= node.pre_pow
    BY <1>2, <1>3, <1>7 DEF PowsFit, Live
  <1>9. PowsFit'
    BY <1>1, <1>4, <1>8 DEF PowsFit, nodeVars
  <1>10. QED
    BY <1>4, <1>5, <1>6, <1>9

LEMMA FitsMiner ==
  ASSUME Fits, NEW c \in Conns, HangUp(c) \/ Send(c)
  PROVE  Fits'
  <1> USE DEF Fits, TypeOK
  <1>1. /\ UNCHANGED <<nodeVars, link, feed, phase, todo, poolVars, worker, submitted, known,
                       books>>
        /\ open' \subseteq open /\ hangups' \in 0 .. MaxHangUps
    BY ConstantsAssumption DEF HangUp, Send, MinerType
  <1>2. \/ mail' = mail
        \/ \E r \in [kind : Kinds, pow : Pows \cup {NoPow}] :
             mail' = [mail EXCEPT ![c] = Append(@, r)] /\ r.pow.pre_pow <= node.pre_pow
    <2>1. CASE HangUp(c)
      BY <2>1 DEF HangUp
    <2>2. CASE Send(c)
      <3>1. PICK r \in {Request(k) : k \in Kinds \ {"submit"}}
                  \cup {Submission(p) : p \in {q \in Pows : q.pre_pow \in known[c]}} :
              r.kind \in Kinds /\ mail' = [mail EXCEPT ![c] = Append(@, r)]
        BY <2>2 DEF Send
      <3>2. r.pow \in Pows \cup {NoPow} /\ r = [kind |-> r.kind, pow |-> r.pow]
        BY DEF Request, Submission
      <3>3. r.pow = NoPow \/ r.pow.pre_pow \in known[c]
        BY DEF Request, Submission
      <3>4. r.pow.pre_pow <= node.pre_pow
        BY <3>3 DEF PowsFit, NoPow, NodeType, Templates, PrePows
      <3>5. r \in [kind : Kinds, pow : Pows \cup {NoPow}]
        BY <3>1, <3>2
      <3>6. QED
        BY <3>1, <3>4, <3>5
    <2>3. QED
      BY <2>1, <2>2
  <1>3. /\ mail' \in [Conns -> Seq([kind : Kinds, pow : Pows \cup {NoPow}])]
        /\ \A d \in Conns : \A i \in 1 .. Len(mail'[d]) :
             mail'[d][i].pow.pre_pow <= node.pre_pow
    <2> DEFINE R == [kind : Kinds, pow : Pows \cup {NoPow}]
    <2>1. CASE mail' = mail
      BY <2>1 DEF MinerType, PowsFit
    <2>2. ASSUME NEW r \in R, mail' = [mail EXCEPT ![c] = Append(@, r)],
                 r.pow.pre_pow <= node.pre_pow
          PROVE  /\ mail' \in [Conns -> Seq(R)]
                 /\ \A d \in Conns : \A i \in 1 .. Len(mail'[d]) :
                      mail'[d][i].pow.pre_pow <= node.pre_pow
      <3>1. mail \in [Conns -> Seq(R)]
        BY DEF MinerType
      <3> HIDE DEF R
      <3>2. mail'[c] = Append(mail[c], r) /\ \A d \in Conns \ {c} : mail'[d] = mail[d]
        BY <2>2, <3>1
      <3>3. /\ Append(mail[c], r) \in Seq(R) /\ Len(Append(mail[c], r)) = Len(mail[c]) + 1
            /\ \A i \in 1 .. Len(mail[c]) : Append(mail[c], r)[i] = mail[c][i]
            /\ Append(mail[c], r)[Len(mail[c]) + 1] = r /\ Len(mail[c]) \in Nat
        BY <3>1, AppendProperties
      <3>4. mail' \in [Conns -> Seq(R)]
        BY <2>2, <3>1, <3>3
      <3>5. \A d \in Conns : \A i \in 1 .. Len(mail[d]) :
              mail[d][i].pow.pre_pow <= node.pre_pow
        BY DEF PowsFit
      <3>6. \A i \in 1 .. Len(mail'[c]) : mail'[c][i].pow.pre_pow <= node.pre_pow
        BY <2>2, <3>2, <3>3, <3>5
      <3>7. QED
        BY <3>2, <3>4, <3>5, <3>6
    <2>3. QED
      BY <1>2, <2>1, <2>2
  <1>4. NodeType' /\ NodeFits' /\ JobsFit' /\ BookType' /\ Made' = Made /\ Live' = Live
    <2>1. Live' = Live
      BY <1>1 DEF Live
    <2>2. QED
      BY <1>1, <2>1 DEF NodeType, NodeFits, JobsFit, BookType, Made, nodeVars, poolVars, books
  <1>5. LoopType'
    BY <1>1, <1>4 DEF LoopType, poolVars
  <1>6. MinerType'
    BY <1>1, <1>3, <1>4 DEF MinerType
  <1>7. PowsFit'
    BY <1>1, <1>3, <1>4 DEF PowsFit, nodeVars
  <1>8. QED
    BY <1>4, <1>5, <1>6, <1>7

LEMMA FitsConnect ==
  ASSUME Fits, Connect \/ SameJob \/ MessagesDone
  PROVE  Fits'
  <1> USE DEF Fits, TypeOK
  <1>1. /\ UNCHANGED <<nodeVars, poolVars, worker, submitted, minerVars, books>>
        /\ link' \in {"down", "up", "broken"} /\ phase' \in Phases
        /\ feed' \in {feed, <<>>, <<node>>}
    BY DEF Connect, SameJob, MessagesDone, LoopType, Phases
  <1>2. Live' = Live /\ todo' \subseteq Live
    BY <1>1 DEF Live, Connect, SameJob, MessagesDone, LoopType
  <1>3. NodeType' /\ NodeFits' /\ MinerType' /\ BookType' /\ Made' = Made
    BY <1>1, <1>2 DEF NodeType, NodeFits, MinerType, BookType, Made, nodeVars, minerVars, books
  <1>4. node \in Made /\ node \in Templates /\ \A t \in Made : t.pre_pow <= node.pre_pow
    BY MadeFits
  <1>5. LoopType'
    <2>1. <<>> \in Seq(Templates) /\ <<node>> \in Seq(Templates) /\ feed \in Seq(Templates)
      BY <1>4 DEF LoopType
    <2>2. feed' \in Seq(Templates)
      BY <1>1, <2>1
    <2>3. QED
      BY <1>1, <1>2, <2>2 DEF LoopType, poolVars
  <1>6. PowsFit'
    BY <1>1, <1>2, <1>3 DEF PowsFit, nodeVars, minerVars
  <1>7. serverJob.pre_pow <= node.pre_pow /\ node.pre_pow <= node.pre_pow
    BY <1>4 DEF JobsFit, NoTemplate, Templates, PrePows
  <1>8. \A i \in 1 .. Len(feed') :
          /\ feed'[i] \in Made /\ serverJob.pre_pow <= feed'[i].pre_pow
          /\ \A j \in i .. Len(feed') : feed'[i].pre_pow <= feed'[j].pre_pow
    <2>1. CASE feed' = <<node>>
      BY <1>4, <1>7, <2>1
    <2>2. CASE feed' = <<>>
      BY <2>2
    <2>3. CASE feed' = feed
      BY <2>3 DEF JobsFit
    <2>4. QED
      BY <1>1, <2>1, <2>2, <2>3
  <1>9. JobsFit'
    BY <1>1, <1>3, <1>8 DEF JobsFit, poolVars
  <1>10. QED
    BY <1>3, <1>5, <1>6, <1>9

LEMMA FitsRead ==
  ASSUME Fits, ReadServer
  PROVE  Fits'
  <1> USE DEF Fits, TypeOK
  <1>1. /\ UNCHANGED <<nodeVars, todo, job, versions, duplicates, worker, submitted,
                       minerVars, books>>
        /\ link' \in {"down", "up", "broken"} /\ phase' \in Phases
    BY DEF ReadServer, LoopType, Phases
  <1>2. NodeType' /\ NodeFits' /\ Made' = Made /\ Live' = Live
    <2>1. Live' = Live
      BY <1>1 DEF Live
    <2>2. QED
      BY <1>1, <2>1 DEF NodeType, NodeFits, Made, nodeVars
  <1>3. MinerType' /\ BookType' /\ PowsFit'
    BY <1>1, <1>2 DEF MinerType, BookType, PowsFit, nodeVars, minerVars, books
  <1>4. CASE feed = <<>>
    <2>1. UNCHANGED <<feed, serverJob>>
      BY <1>4 DEF ReadServer
    <2>2. QED
      BY <1>1, <1>2, <1>3, <2>1 DEF LoopType, JobsFit
  <1>5. CASE feed # <<>>
    <2>1. serverJob' = Head(feed) /\ feed' = Tail(feed) /\ feed \in Seq(Templates)
      BY <1>5 DEF ReadServer, LoopType
    <2>2. /\ Head(feed) = feed[1] /\ Head(feed) \in Templates
          /\ Tail(feed) \in Seq(Templates) /\ Len(feed) \in Nat \ {0}
          /\ Len(Tail(feed)) = Len(feed) - 1
          /\ \A i \in 1 .. Len(Tail(feed)) : Tail(feed)[i] = feed[i + 1]
      BY <1>5, <2>1, HeadTailProperties
    <2>3. LoopType'
      BY <1>1, <1>2, <2>1, <2>2 DEF LoopType
    <2>4. \A i \in 1 .. Len(feed) :
            /\ feed[i] \in Made /\ serverJob.pre_pow <= feed[i].pre_pow
            /\ \A j \in i .. Len(feed) : feed[i].pre_pow <= feed[j].pre_pow
      BY DEF JobsFit
    <2>5. \A i \in 1 .. Len(feed') :
            /\ feed'[i] \in Made /\ serverJob'.pre_pow <= feed'[i].pre_pow
            /\ \A j \in i .. Len(feed') : feed'[i].pre_pow <= feed'[j].pre_pow
      <3>1. SUFFICES ASSUME NEW i \in 1 .. Len(feed')
                     PROVE  /\ feed'[i] \in Made /\ serverJob'.pre_pow <= feed'[i].pre_pow
                            /\ \A j \in i .. Len(feed') :
                                 feed'[i].pre_pow <= feed'[j].pre_pow
        OBVIOUS
      <3>2. i + 1 \in 1 .. Len(feed) /\ feed'[i] = feed[i + 1] /\ 1 \in 1 .. Len(feed)
        BY <2>1, <2>2
      <3>3. \A j \in i .. Len(feed') : j + 1 \in i + 1 .. Len(feed) /\ feed'[j] = feed[j + 1]
        BY <2>1, <2>2
      <3>4. feed[1].pre_pow <= feed[i + 1].pre_pow
        BY <2>2, <2>4, <3>2
      <3>5. QED
        BY <2>1, <2>2, <2>4, <3>2, <3>3, <3>4
    <2>6. /\ feed[1] \in Made /\ serverJob.pre_pow <= feed[1].pre_pow
      BY <2>2, <2>4
    <2>7. job.pre_pow <= serverJob'.pre_pow
      <3>1. /\ job.pre_pow \in Int /\ serverJob.pre_pow \in Int /\ feed[1].pre_pow \in Int
        BY <2>2 DEF LoopType, Templates, NoTemplate, PrePows
      <3>2. QED
        BY <2>1, <2>2, <2>6, <3>1 DEF JobsFit
    <2>8. JobsFit'
      BY <1>1, <1>2, <2>1, <2>2, <2>5, <2>6, <2>7 DEF JobsFit
    <2>9. QED
      BY <1>2, <1>3, <2>3, <2>8
  <1>6. QED
    BY <1>4, <1>5

(* Some workers are served, with the pool's job. *)
LEMMA FitsServe ==
  ASSUME Fits, NEW S \in SUBSET Live, NEW t \in Made \cup {NoTemplate}, Serve(S, t),
         UNCHANGED <<nodeVars, link, feed, serverJob, submitted, open, hangups, mail>>,
         job' = t, t.pre_pow <= serverJob.pre_pow,
         versions' \in [JobIds -> PrePows \cup {0}], \A k \in JobIds : versions'[k] <= t.pre_pow,
         duplicates' \subseteq Pows, phase' \in Phases, todo' \subseteq Live
  PROVE  Fits'
  <1> USE DEF Fits, TypeOK
  <1>1. t \in Templates \cup {NoTemplate} /\ t.pre_pow \in 0 .. node.pre_pow
    BY MadeFits DEF NoTemplate, NodeType, Templates, PrePows
  <1>2. /\ worker' \in [Conns -> WorkerType \cup {Gone}]
        /\ Live' = Live
        /\ \A c \in Conns \ S : worker'[c] = worker[c] /\ known'[c] = known[c]
        /\ \A c \in S :
             /\ worker'[c].share = worker[c].share
             /\ worker'[c].shares
                  = [user |-> worker[c].user, height |-> t.height, accepted |-> {}]
             /\ known'[c] = known[c] \cup ({t.pre_pow} \ {0})
        /\ known' \in [Conns -> SUBSET PrePows]
        /\ logged' = Add(logged, S) /\ credited' = credited /\ lost' = lost
    BY <1>1, ServeSteps
  <1>3. NodeType' /\ NodeFits' /\ Made' = Made
    BY DEF NodeType, NodeFits, Made, nodeVars
  <1>4. LoopType'
    BY <1>1, <1>2 DEF LoopType
  <1>5. MinerType'
    BY <1>2 DEF MinerType
  <1>6. BookType'
    <2>1. logged' \in [Pows -> Nat]
      BY <1>2, AddType DEF BookType, Live
    <2>2. QED
      BY <1>2, <2>1 DEF BookType
  <1>7. JobsFit'
    BY <1>3 DEF JobsFit
  <1>8. PowsFit'
    <2>1. \A c \in Conns : known'[c] \subseteq 1 .. node.pre_pow
      <3>1. {t.pre_pow} \ {0} \subseteq 1 .. node.pre_pow
        BY <1>1
      <3>2. QED
        BY <1>2, <3>1 DEF PowsFit
    <2>2. \A c \in Live :
            /\ worker'[c].share.pre_pow <= node.pre_pow
            /\ \A p \in worker'[c].shares.accepted : p.pre_pow <= node.pre_pow
      <3>1. SUFFICES ASSUME NEW c \in Live
                     PROVE  /\ worker'[c].share.pre_pow <= node.pre_pow
                            /\ \A p \in worker'[c].shares.accepted : p.pre_pow <= node.pre_pow
        OBVIOUS
      <3>2. CASE c \in S
        <4>1. worker'[c].shares
                = [user |-> worker[c].user, height |-> t.height, accepted |-> {}]
          BY <1>2, <3>2
        <4>2. QED
          BY <1>2, <3>2, <4>1 DEF PowsFit
      <3>3. CASE c \notin S
        BY <1>2, <3>3 DEF PowsFit, Live
      <3>4. QED
        BY <3>2, <3>3
    <2>3. QED
      BY <1>2, <1>3, <2>1, <2>2 DEF PowsFit, nodeVars
  <1>9. QED
    BY <1>3, <1>4, <1>5, <1>6, <1>7, <1>8

LEMMA FitsNewJob ==
  ASSUME Fits, NewJob
  PROVE  Fits'
  <1> USE DEF Fits, TypeOK
  <1>1. /\ job.pre_pow \in Int /\ serverJob.pre_pow \in PrePows \cup {0}
        /\ job.pre_pow <= serverJob.pre_pow
    BY DEF LoopType, Templates, NoTemplate, PrePows, JobsFit
  <1>2. /\ versions' \in [JobIds -> PrePows \cup {0}]
        /\ \A k \in JobIds : versions'[k] <= serverJob.pre_pow
    <2> DEFINE old == IF serverJob.height # job.height THEN NoVersions ELSE versions
    <2>1. old \in [JobIds -> PrePows \cup {0}] /\ \A k \in JobIds : old[k] <= serverJob.pre_pow
      <3>1. \A k \in JobIds : versions[k] \in Int /\ versions[k] <= job.pre_pow
        BY DEF LoopType, JobsFit, PrePows
      <3>2. QED
        BY <1>1, <3>1 DEF NoVersions, LoopType, PrePows
    <2>2. versions' = [old EXCEPT ![JobId(serverJob)] = serverJob.pre_pow]
      BY DEF NewJob
    <2> HIDE DEF old
    <2>3. serverJob.pre_pow <= serverJob.pre_pow
      BY <1>1 DEF PrePows
    <2>4. QED
      BY <1>1, <2>1, <2>2, <2>3
  <1>3. duplicates' \subseteq Pows
    BY DEF NewJob, LoopType
  <1>4. /\ Serve(LoggedIn, serverJob) /\ job' = serverJob /\ phase' \in Phases /\ todo' = Live
        /\ UNCHANGED <<nodeVars, link, feed, serverJob, submitted, open, hangups, mail>>
        /\ LoggedIn \subseteq Live
    BY DEF NewJob, Phases, LoggedIn
  <1>5. serverJob \in Made \cup {NoTemplate} /\ serverJob.pre_pow <= serverJob.pre_pow
    BY <1>1 DEF JobsFit, PrePows
  <1> HIDE DEF Fits, TypeOK
  <1>6. QED
    BY <1>2, <1>3, <1>4, <1>5, FitsServe

LEMMA FitsSendJobs ==
  ASSUME Fits, SendJobs
  PROVE  Fits'
  <1> DEFINE S == {c \in LoggedIn : worker[c].needs_job}
  <1>1. /\ Serve(S, job) /\ job' = job /\ phase' \in Phases /\ todo' = {}
        /\ UNCHANGED <<nodeVars, link, feed, serverJob, submitted, open, hangups, mail>>
        /\ S \subseteq Live /\ versions' = versions /\ duplicates' = duplicates
    BY DEF SendJobs, Phases, LoggedIn, poolVars
  <1>2. /\ job \in Made \cup {NoTemplate} /\ job.pre_pow <= serverJob.pre_pow
        /\ \A k \in JobIds : versions[k] <= job.pre_pow
        /\ versions \in [JobIds -> PrePows \cup {0}] /\ duplicates \subseteq Pows
    BY DEF Fits, TypeOK, LoopType, JobsFit
  <1> HIDE DEF S
  <1>3. QED
    BY <1>1, <1>2, FitsServe

LEMMA FitsMessage ==
  ASSUME Fits, NEW c \in Conns, WorkerMessage(c)
  PROVE  Fits'
  <1> DEFINE R == [kind : Kinds, pow : Pows \cup {NoPow}]
  <1> USE DEF Fits, TypeOK
  <1>1. /\ c \in todo /\ phase = "messages" /\ todo' = todo \ {c}
        /\ UNCHANGED <<nodeVars, link, feed, phase, poolVars, submitted, hangups, open, known,
                       credited, logged>>
        /\ \E w \in WorkerType : MessageStep(c, w)
    BY MessageSteps
  <1>2. PICK w \in WorkerType : MessageStep(c, w)
    BY <1>1
  <1>3. worker' = [worker EXCEPT ![c] = w] /\ (LoginStep(c, w) \/ OtherStep(c, w))
    BY <1>2 DEF MessageStep
  <1>4. /\ worker' \in [Conns -> WorkerType \cup {Gone}]
        /\ worker'[c] = w /\ \A d \in Conns \ {c} : worker'[d] = worker[d]
        /\ c \in Live /\ Live' = Live
    <2>1. /\ worker' \in [Conns -> WorkerType \cup {Gone}]
          /\ worker'[c] = w /\ \A d \in Conns \ {c} : worker'[d] = worker[d]
          /\ Live' = Live \cup {c}
      BY <1>2, OneWorker DEF MessageStep
    <2>2. c \in Live
      BY <1>1 DEF LoopType
    <2>3. QED
      BY <2>1, <2>2
  <1>5. NodeType' /\ NodeFits' /\ Made' = Made /\ JobsFit'
    BY <1>1 DEF NodeType, NodeFits, Made, JobsFit, nodeVars, poolVars
  <1>6. LoopType'
    BY <1>1, <1>4 DEF LoopType, poolVars
  <1>7. mail \in [Conns -> Seq(R)]
    BY DEF MinerType
  <1>8. /\ mail' \in [Conns -> Seq(R)]
        /\ \A d \in Conns : \A i \in 1 .. Len(mail'[d]) :
             mail'[d][i].pow.pre_pow <= node.pre_pow
    <2> HIDE DEF R
    <2>1. CASE mail' = mail
      BY <1>7, <2>1 DEF PowsFit
    <2>2. CASE mail[c] # <<>> /\ mail' = [mail EXCEPT ![c] = Tail(@)]
      <3>1. /\ Tail(mail[c]) \in Seq(R) /\ Len(Tail(mail[c])) = Len(mail[c]) - 1
            /\ \A i \in 1 .. Len(Tail(mail[c])) : Tail(mail[c])[i] = mail[c][i + 1]
            /\ Len(mail[c]) \in Nat
        BY <1>7, <2>2, HeadTailProperties, LenProperties
      <3>2. /\ mail' \in [Conns -> Seq(R)] /\ mail'[c] = Tail(mail[c])
            /\ \A d \in Conns \ {c} : mail'[d] = mail[d]
        BY <1>7, <2>2, <3>1
      <3>3. \A d \in Conns : \A i \in 1 .. Len(mail[d]) :
              mail[d][i].pow.pre_pow <= node.pre_pow
        BY DEF PowsFit
      <3>4. \A i \in 1 .. Len(mail'[c]) : mail'[c][i].pow.pre_pow <= node.pre_pow
        BY <3>1, <3>2, <3>3
      <3>5. QED
        BY <3>2, <3>3, <3>4
    <2>3. QED
      BY <1>2, <2>1, <2>2 DEF MessageStep
  <1>9. MinerType'
    BY <1>1, <1>4, <1>8 DEF MinerType
  <1>10. BookType'
    <2>1. Add(lost, {c}) \in [Pows -> Nat]
      BY AddType DEF BookType
    <2>2. lost' \in [Pows -> Nat]
      BY <1>3, <2>1 DEF LoginStep, OtherStep, BookType
    <2>3. QED
      BY <1>1, <2>2 DEF BookType
  <1>11. w.share.pre_pow <= node.pre_pow
    <2>1. worker[c].share.pre_pow <= node.pre_pow
      BY <1>4 DEF PowsFit
    <2>2. ASSUME mail[c] # <<>>
          PROVE  Head(mail[c]).pow.pre_pow <= node.pre_pow
      <3>1. 1 \in 1 .. Len(mail[c]) /\ Head(mail[c]) = mail[c][1]
        BY <1>7, <2>2, EmptySeq
      <3>2. QED
        BY <3>1 DEF PowsFit
    <2>3. QED
      BY <1>2, <2>1, <2>2 DEF MessageStep
  <1>12. \A p \in w.shares.accepted : p.pre_pow <= node.pre_pow
    <2>1. w.shares.accepted = {} \/ w.shares = worker[c].shares
      BY <1>3 DEF LoginStep, OtherStep
    <2>2. QED
      BY <1>4, <2>1 DEF PowsFit
  <1>13. \A d \in Live :
           /\ worker'[d].share.pre_pow <= node.pre_pow
           /\ \A p \in worker'[d].shares.accepted : p.pre_pow <= node.pre_pow
    BY <1>4, <1>11, <1>12 DEF PowsFit, Live
  <1>14. PowsFit'
    BY <1>1, <1>4, <1>5, <1>8, <1>13 DEF PowsFit, nodeVars
  <1>15. QED
    BY <1>5, <1>6, <1>9, <1>10, <1>14

(* The node gets its own job id back, for any template it has made.        *)
LEMMA PrefixRemoved == \A h, j \in Nat : j < h => (h * 1000 + j) % h = j
  OBVIOUS

LEMMA SolutionIsMade ==
  ASSUME Fits, NEW p \in Pows, p.pre_pow <= node.pre_pow
  PROVE  Solution(p) = Template(p) /\ Template(p) \in Made
  <1> DEFINE t == Template(p)
  <1>1. p.pre_pow \in 1 .. node.pre_pow
    BY DEF Pows, PrePows
  <1>2. t \in Made /\ t \in Templates /\ t.pre_pow = p.pre_pow
    BY <1>1 DEF Template, Fits, NodeFits, Made
  <1>3. /\ t.height \in Nat /\ t.job_id \in Nat /\ t.job_id < t.height
        /\ t = [height |-> t.height, job_id |-> t.job_id, pre_pow |-> t.pre_pow]
    <2>1. t.height \in Heights /\ t.job_id \in 0 .. MaxTemplates
      BY <1>2 DEF Templates
    <2>2. /\ t.height \in Nat /\ t.job_id \in Nat /\ t.job_id < t.height
      BY <2>1, ConstantsAssumption DEF Heights
    <2>3. QED
      BY <1>2, <2>2 DEF Templates
  <1>4. JobId(t) % t.height = t.job_id
    BY <1>3, PrefixRemoved DEF JobId
  <1>5. QED
    BY <1>2, <1>3, <1>4 DEF Solution

LEMMA FitsShare ==
  ASSUME Fits, NEW c \in Conns, NEW p \in Pows,
         \/ Duplicate(c, p) \/ Stale(c, p) \/ UnknownJob(c, p) \/ Mismatch(c, p)
         \/ Accept(c, p)
  PROVE  Fits'
  <1> USE DEF Fits, TypeOK
  <1>1. /\ c \in todo /\ phase = "shares" /\ worker[c].share = p /\ todo' = todo \ {c}
        /\ duplicates' = duplicates \cup {p}
        /\ UNCHANGED <<nodeVars, link, feed, phase, serverJob, job, versions, minerVars,
                       logged, lost>>
        /\ \E w \in WorkerType : ShareStep(c, p, w)
    BY ShareSteps
  <1>2. PICK w \in WorkerType : ShareStep(c, p, w)
    BY <1>1
  <1>3. c \in Live
    BY <1>1 DEF LoopType
  <1>4. /\ worker' \in [Conns -> WorkerType \cup {Gone}]
        /\ worker'[c] = w /\ \A d \in Conns \ {c} : worker'[d] = worker[d]
        /\ Live' = Live
    <2>1. /\ worker' \in [Conns -> WorkerType \cup {Gone}]
          /\ worker'[c] = w /\ \A d \in Conns \ {c} : worker'[d] = worker[d]
          /\ Live' = Live \cup {c}
      BY <1>2, OneWorker DEF ShareStep
    <2>2. QED
      BY <1>3, <2>1
  <1>5. NodeType' /\ NodeFits' /\ Made' = Made
    BY <1>1 DEF NodeType, NodeFits, Made, nodeVars
  <1>6. JobsFit'
    BY <1>1, <1>5 DEF JobsFit
  <1>7. p.pre_pow <= node.pre_pow
    BY <1>1, <1>3 DEF PowsFit
  <1>8. \A t \in Made : t \in Templates
    BY MadeFits
  <1>9. submitted' \subseteq Made
    BY <1>2, <1>7, SolutionIsMade DEF ShareStep, CountStep, RefuseStep, PowsFit
  <1>10. LoopType'
    BY <1>1, <1>4, <1>8, <1>9 DEF LoopType
  <1>11. MinerType'
    BY <1>1, <1>4 DEF MinerType, minerVars
  <1>12. BookType'
    <2>1. credited' \in [Pows -> Nat]
      <3>1. [credited EXCEPT ![p] = @ + 1] \in [Pows -> Nat]
        BY DEF BookType
      <3>2. QED
        BY <1>2, <3>1 DEF ShareStep, CountStep, RefuseStep, BookType
    <2>2. QED
      BY <1>1, <2>1 DEF BookType
  <1>13. /\ w.share.pre_pow <= node.pre_pow
         /\ \A q \in w.shares.accepted : q.pre_pow <= node.pre_pow
    <2>1. w.share = NoPow /\ w.shares.accepted \subseteq worker[c].shares.accepted \cup {p}
      BY <1>2 DEF ShareStep, CountStep, RefuseStep
    <2>2. NoPow.pre_pow <= node.pre_pow
      BY DEF NoPow, NodeType, Templates, PrePows
    <2>3. QED
      BY <1>3, <1>7, <2>1, <2>2 DEF PowsFit
  <1>14. \A d \in Live :
           /\ worker'[d].share.pre_pow <= node.pre_pow
           /\ \A q \in worker'[d].shares.accepted : q.pre_pow <= node.pre_pow
    BY <1>4, <1>13 DEF PowsFit, Live
  <1>15. PowsFit'
    BY <1>1, <1>4, <1>5, <1>9, <1>14 DEF PowsFit, nodeVars, minerVars
  <1>16. QED
    BY <1>5, <1>6, <1>10, <1>11, <1>12, <1>15

LEMMA FitsClean ==
  ASSUME Fits, todo = {}, CleanWorkers
  PROVE  Fits'
  <1> DEFINE dead == {c \in Live : worker[c].error}
  <1> USE DEF Fits, TypeOK
  <1>1. /\ worker' = [c \in Conns |-> IF c \in dead THEN Gone ELSE worker[c]]
        /\ mail' = [c \in Conns |-> IF c \in dead THEN <<>> ELSE mail[c]]
        /\ open' = open \ dead /\ lost' = Add(lost, dead)
        /\ phase = "clean" /\ phase' = "server" /\ dead \subseteq Live
        /\ UNCHANGED <<nodeVars, link, feed, todo, poolVars, submitted, hangups, known,
                       credited, logged>>
    BY DEF CleanWorkers
  <1> HIDE DEF dead
  <1>2. Live' = Live \ dead
    BY <1>1 DEF Live
  <1>3. \A c \in Live' : worker'[c] = worker[c] /\ c \in Live
    BY <1>1, <1>2 DEF Live
  <1>4. NodeType' /\ NodeFits' /\ Made' = Made /\ JobsFit'
    BY <1>1 DEF NodeType, NodeFits, Made, JobsFit, nodeVars, poolVars
  <1>5. worker' \in [Conns -> WorkerType \cup {Gone}]
    BY <1>1 DEF LoopType
  <1>6. MinerType'
    <2>1. open' \subseteq Live'
      BY <1>1, <1>2 DEF MinerType
    <2> DEFINE R == [kind : Kinds, pow : Pows \cup {NoPow}]
    <2>2. mail' \in [Conns -> Seq(R)]
      <3>1. mail \in [Conns -> Seq(R)]
        BY DEF MinerType
      <3> HIDE DEF R
      <3>2. <<>> \in Seq(R)
        BY EmptySeq
      <3>3. QED
        BY <1>1, <3>1, <3>2
    <2>3. QED
      BY <1>1, <2>1, <2>2 DEF MinerType
  <1>7. BookType'
    <2>1. Add(lost, dead) \in [Pows -> Nat]
      BY <1>1, AddType DEF BookType, Live
    <2>2. QED
      BY <1>1, <2>1 DEF BookType
  <1>8. PowsFit'
    <2>1. \A c \in Conns : \A i \in 1 .. Len(mail'[c]) :
            mail'[c][i].pow.pre_pow <= node.pre_pow
      BY <1>1 DEF PowsFit
    <2>2. QED
      BY <1>1, <1>3, <1>4, <2>1 DEF PowsFit, nodeVars
  <1>9. LoopType'
    BY <1>1, <1>2, <1>5 DEF LoopType, Phases, poolVars
  <1>10. QED
    BY <1>4, <1>6, <1>7, <1>8, <1>9

LEMMA RoundInit == Init => RoundFits
  BY DEF Init, RoundFits

LEMMA RoundNext ==
  ASSUME RoundFits, [Next]_vars
  PROVE  RoundFits'
  <1>1. CASE Next
    <2>1. CASE NewTemplate \/ Restart
      BY <2>1 DEF RoundFits, NewTemplate, Restart
    <2>2. CASE \E c \in Conns : Open(c) \/ HangUp(c) \/ Send(c)
      BY <2>2 DEF RoundFits, Open, HangUp, Send
    <2>3. CASE Connect \/ ReadServer \/ SameJob \/ NewJob
      BY <2>3 DEF RoundFits, Connect, ReadServer, SameJob, NewJob
    <2>4. CASE \E c \in Conns : WorkerMessage(c)
      BY <2>4 DEF RoundFits, WorkerMessage, NoMessage, Login, LoginFails, LoginAgain,
                  GetJobTemplate, Submit, KeepAlive, BadRequest, Reads, Handle
    <2>5. CASE \E c \in Conns, p \in Pows :
                 \/ Duplicate(c, p) \/ Stale(c, p) \/ UnknownJob(c, p) \/ Mismatch(c, p)
                 \/ Accept(c, p)
      BY <2>5 DEF RoundFits, Duplicate, Stale, UnknownJob, Mismatch, Accept, Refused,
                  Judging, Judge
    <2>6. CASE MessagesDone \/ SendJobs \/ CleanWorkers
      BY <2>6 DEF RoundFits, MessagesDone, SendJobs, CleanWorkers
    <2>7. QED
      BY <1>1, <2>1, <2>2, <2>3, <2>4, <2>5, <2>6, NextCases
  <1>2. CASE UNCHANGED vars
    BY <1>2 DEF vars, RoundFits
  <1>3. QED
    BY <1>1, <1>2

LEMMA FitsNext ==
  ASSUME Fits, RoundFits, [Next]_vars
  PROVE  Fits'
  <1>1. CASE Next
    <2>1. CASE NewTemplate \/ Restart
      BY <2>1, FitsNode
    <2>2. CASE \E c \in Conns : Open(c) \/ HangUp(c) \/ Send(c)
      BY <2>2, FitsOpen, FitsMiner
    <2>3. CASE Connect \/ SameJob \/ MessagesDone
      BY <2>3, FitsConnect
    <2>4. CASE ReadServer
      BY <2>4, FitsRead
    <2>5. CASE NewJob
      BY <2>5, FitsNewJob
    <2>6. CASE \E c \in Conns : WorkerMessage(c)
      BY <2>6, FitsMessage
    <2>7. CASE \E c \in Conns, p \in Pows :
                 \/ Duplicate(c, p) \/ Stale(c, p) \/ UnknownJob(c, p) \/ Mismatch(c, p)
                 \/ Accept(c, p)
      BY <2>7, FitsShare
    <2>8. CASE SendJobs
      BY <2>8, FitsSendJobs
    <2>9. CASE CleanWorkers
      BY <2>9, FitsClean DEF CleanWorkers, RoundFits
    <2>10. QED
      BY <1>1, <2>1, <2>2, <2>3, <2>4, <2>5, <2>6, <2>7, <2>8, <2>9, NextCases
  <1>2. CASE UNCHANGED vars
    <2>1. /\ UNCHANGED <<nodeVars, link, feed, phase, todo, poolVars, worker, submitted,
                         minerVars, books>>
          /\ Live' = Live /\ Made' = Made
      BY <1>2 DEF vars, nodeVars, Live, Made
    <2>2. TypeOK'
      BY <2>1 DEF nodeVars, poolVars, minerVars, books, Fits, TypeOK, NodeType, LoopType,
                  MinerType, BookType
    <2>3. NodeFits' /\ JobsFit' /\ PowsFit'
      BY <2>1 DEF nodeVars, poolVars, minerVars, Fits, NodeFits, JobsFit, PowsFit
    <2>4. QED
      BY <2>2, <2>3 DEF Fits
  <1>3. QED
    BY <1>1, <1>2

LEMMA AlwaysFits == Spec => [](Fits /\ RoundFits)
  <1>1. Init => Fits /\ RoundFits
    BY FitsInit, RoundInit
  <1>2. Fits /\ RoundFits /\ [Next]_vars => (Fits /\ RoundFits)'
    BY FitsNext, RoundNext
  <1>3. QED
    BY <1>1, <1>2, PTL DEF Spec

(* The proxy's variables keep their types, whatever the miners send and    *)
(* however often the node restarts: in particular no template, share or    *)
(* count is ever out of the range the code computes with.                  *)
THEOREM StratumType == Spec => []TypeOK
  <1>1. Fits => TypeOK
    BY DEF Fits
  <1>2. QED
    BY <1>1, AlwaysFits, PTL

(* The node gets every solution under the height and the job id it gave    *)
(* the template itself (process_shares removes the prefix that             *)
(* accept_new_job put before the id).                                      *)
THEOREM SolutionsAsIssued == Spec => []SubmittedAsIssued
  <1>1. Fits => SubmittedAsIssued
    BY MadeFits DEF Fits, TypeOK, PowsFit, SubmittedAsIssued
  <1>2. QED
    BY <1>1, AlwaysFits, PTL

-----------------------------------------------------------------------------
(* The jobs miners have, and the solutions that are counted *)

LEMMA GivenNext ==
  ASSUME Fits, GivenFits, [Next]_vars
  PROVE  GivenFits'
  <1> USE DEF Fits, TypeOK
  <1>1. ASSUME UNCHANGED <<job, worker>>
        PROVE  GivenFits'
    <2>1. Live' = Live
      BY <1>1 DEF Live
    <2>2. QED
      BY <1>1, <2>1 DEF GivenFits
  <1>2. ASSUME NEW c \in Conns, NEW w \in WorkerType, job' = job, c \in Live,
               worker' = [worker EXCEPT ![c] = w], w.has = worker[c].has,
               worker[c].authenticated => w.authenticated
        PROVE  GivenFits'
    <2>1. /\ worker'[c] = w /\ \A d \in Conns \ {c} : worker'[d] = worker[d]
          /\ Live' = Live \cup {c}
      BY <1>2, OneWorker
    <2>2. QED
      BY <1>2, <2>1 DEF GivenFits, Live
  <1>3. ASSUME NEW S \in SUBSET LoggedIn, NEW t \in Templates \cup {NoTemplate},
               Serve(S, t), job' = t, \A c \in LoggedIn \ S : job' = job
        PROVE  GivenFits'
    <2>1. S \in SUBSET Live /\ Serve(S, t)
      BY <1>3 DEF LoggedIn
    <2>2. \A c \in S : worker'[c].has = t
      BY <2>1, ServeGives
    <2>3. /\ Live' = Live
          /\ \A c \in Conns \ S : worker'[c] = worker[c]
          /\ \A c \in S : worker'[c].authenticated = worker[c].authenticated
      BY <2>1, ServeSteps
    <2>4. SUFFICES ASSUME NEW c \in Live
                   PROVE  /\ worker'[c].has \in {NoTemplate, job'}
                          /\ ~worker'[c].authenticated => worker'[c].has = NoTemplate
      BY <2>3 DEF GivenFits
    <2>5. CASE c \in S
      BY <1>3, <2>2, <2>3, <2>5 DEF LoggedIn
    <2>6. CASE c \in LoggedIn \ S
      BY <1>3, <2>3, <2>6 DEF GivenFits, LoggedIn, Live
    <2>7. CASE c \notin LoggedIn /\ c \notin S
      BY <2>3, <2>7 DEF GivenFits, LoggedIn, Live
    <2>8. QED
      BY <2>5, <2>6, <2>7
  <1>4. CASE Next
    <2>1. CASE NewTemplate \/ Restart \/ Connect \/ ReadServer \/ SameJob \/ MessagesDone
      BY <1>1, <2>1 DEF NewTemplate, Restart, Connect, ReadServer, SameJob, MessagesDone,
                        poolVars
    <2>2. ASSUME NEW c \in Conns, HangUp(c) \/ Send(c)
          PROVE  GivenFits'
      BY <1>1, <2>2 DEF HangUp, Send, poolVars
    <2>3. ASSUME NEW c \in Conns, Open(c)
          PROVE  GivenFits'
      <3>1. /\ NewWorker \in WorkerType /\ NewWorker.has = NoTemplate
        BY DEF NewWorker, WorkerType
      <3>2. worker' = [worker EXCEPT ![c] = NewWorker] /\ job' = job
        BY <2>3 DEF Open, poolVars
      <3>3. /\ worker'[c] = NewWorker /\ \A d \in Conns \ {c} : worker'[d] = worker[d]
            /\ Live' = Live \cup {c}
        BY <3>1, <3>2, OneWorker
      <3>4. QED
        BY <3>1, <3>2, <3>3 DEF GivenFits, Live
    <2>4. ASSUME NEW c \in Conns, WorkerMessage(c)
          PROVE  GivenFits'
      <3>1. c \in Live /\ job' = job /\ \E w \in WorkerType : MessageStep(c, w)
        BY <2>4, MessageSteps DEF LoopType, poolVars
      <3>2. PICK w \in WorkerType : MessageStep(c, w)
        BY <3>1
      <3>3. QED
        BY <1>2, <3>1, <3>2 DEF MessageStep, LoginStep, OtherStep
    <2>5. ASSUME NEW c \in Conns, NEW p \in Pows,
                 \/ Duplicate(c, p) \/ Stale(c, p) \/ UnknownJob(c, p) \/ Mismatch(c, p)
                 \/ Accept(c, p)
          PROVE  GivenFits'
      <3>1. c \in Live /\ job' = job /\ \E w \in WorkerType : ShareStep(c, p, w)
        BY <2>5, ShareSteps DEF LoopType
      <3>2. PICK w \in WorkerType : ShareStep(c, p, w)
        BY <3>1
      <3>3. QED
        BY <1>2, <3>1, <3>2 DEF ShareStep
    <2>6. CASE NewJob
      BY <1>3, <2>6 DEF NewJob, LoopType
    <2>7. CASE SendJobs
      <3>1. Serve({c \in LoggedIn : worker[c].needs_job}, job) /\ job' = job
        BY <2>7 DEF SendJobs, poolVars
      <3>2. QED
        BY <1>3, <3>1 DEF LoopType
    <2>8. CASE CleanWorkers
      <3>1. /\ job' = job /\ \A c \in Live' : c \in Live /\ worker'[c] = worker[c]
        BY <2>8 DEF CleanWorkers, Live, poolVars
      <3>2. QED
        BY <3>1 DEF GivenFits
    <2>9. QED
      BY <1>4, <2>1, <2>2, <2>3, <2>4, <2>5, <2>6, <2>7, <2>8, NextCases
  <1>5. CASE UNCHANGED vars
    BY <1>1, <1>5 DEF vars, poolVars
  <1>6. QED
    BY <1>4, <1>5

(* A miner that was given a job has the pool's newest one: the loop hands  *)
(* a new job to every worker that is logged in, and to no other.           *)
THEOREM NewestJobGiven == Spec => []FreshJob
  <1>1. Init => GivenFits
    BY DEF Init, GivenFits, Live
  <1>2. Fits /\ GivenFits /\ [Next]_vars => GivenFits'
    BY GivenNext
  <1>3. GivenFits => FreshJob
    BY DEF GivenFits, FreshJob, LoggedIn
  <1>4. QED
    BY <1>1, <1>2, <1>3, AlwaysFits, PTL DEF Spec

LEMMA TemplateJobId ==
  ASSUME NEW t \in Templates
  PROVE  JobId(t) \in JobIds
  <1> DEFINE id == [height |-> t.height, job_id |-> t.job_id]
  <1>1. id \in [height : Heights, job_id : 0 .. MaxTemplates]
    BY DEF Templates
  <1>2. JobId(id) = JobId(t)
    BY DEF JobId
  <1> HIDE DEF id
  <1>3. QED
    BY <1>1, <1>2 DEF JobIds

(* A solution that is counted was not counted before. *)
LEMMA CreditNext ==
  ASSUME Fits, CreditFits, [Next]_vars
  PROVE  CreditFits'
  <1> USE DEF Fits, TypeOK
  <1>1. ASSUME UNCHANGED <<job, versions, credited>>, duplicates \subseteq duplicates'
        PROVE  CreditFits'
    BY <1>1 DEF CreditFits
  <1>2. CASE Next
    <2>1. CASE \/ NewTemplate \/ Restart \/ Connect \/ ReadServer \/ SameJob \/ MessagesDone
               \/ CleanWorkers
      BY <1>1, <2>1 DEF NewTemplate, Restart, Connect, ReadServer, SameJob, MessagesDone,
                        CleanWorkers, poolVars, books
    <2>2. ASSUME NEW c \in Conns, Open(c) \/ HangUp(c) \/ Send(c)
          PROVE  CreditFits'
      BY <1>1, <2>2 DEF Open, HangUp, Send, poolVars, books
    <2>3. ASSUME NEW c \in Conns, WorkerMessage(c)
          PROVE  CreditFits'
      <3>1. UNCHANGED <<poolVars, credited>>
        BY <2>3, MessageSteps
      <3>2. QED
        BY <1>1, <3>1 DEF poolVars
    <2>4. ASSUME NEW c \in Conns, NEW p \in Pows,
                 \/ Duplicate(c, p) \/ Stale(c, p) \/ UnknownJob(c, p) \/ Mismatch(c, p)
                 \/ Accept(c, p)
          PROVE  CreditFits'
      <3>1. /\ duplicates' = duplicates \cup {p} /\ UNCHANGED <<job, versions>>
            /\ \E w \in WorkerType : ShareStep(c, p, w)
        BY <2>4, ShareSteps
      <3>2. PICK w \in WorkerType : ShareStep(c, p, w)
        BY <3>1
      <3>3. CASE RefuseStep(c, w)
        BY <1>1, <3>1, <3>3 DEF RefuseStep
      <3>4. CASE CountStep(c, p, w)
        <4>1. /\ p \notin duplicates /\ versions[JobId(Template(p))] = p.pre_pow
              /\ credited' = [credited EXCEPT ![p] = @ + 1]
          BY <3>4 DEF CountStep
        <4>2. JobId(Template(p)) \in JobIds
          <5>1. p.pre_pow <= node.pre_pow /\ p.pre_pow \in 1 .. node.pre_pow
            <6>1. c \in Live /\ worker[c].share = p
              BY <2>4, ShareSteps DEF LoopType
            <6>2. QED
              BY <6>1 DEF PowsFit, Pows, PrePows
          <5>2. Template(p) \in Templates
            BY <5>1 DEF NodeFits, Template
          <5>3. QED
            BY <5>2, TemplateJobId
        <4>3. credited[p] = 0
          BY <4>1, <4>2 DEF CreditFits
        <4>4. p.pre_pow <= job.pre_pow
          BY <4>1, <4>2 DEF JobsFit
        <4>5. credited'[p] = 1 /\ \A q \in Pows \ {p} : credited'[q] = credited[q]
          BY <4>1, <4>3 DEF BookType
        <4>6. QED
          BY <3>1, <4>4, <4>5 DEF CreditFits
      <3>5. QED
        BY <3>2, <3>3, <3>4 DEF ShareStep
    <2>5. CASE SendJobs
      BY <1>1, <2>5 DEF SendJobs, Serve, poolVars
    <2>6. CASE NewJob
      <3>1. /\ credited' = credited /\ job' = serverJob /\ job.pre_pow # serverJob.pre_pow
            /\ duplicates' = IF serverJob.height # job.height THEN {} ELSE duplicates
            /\ versions' = [IF serverJob.height # job.height THEN NoVersions ELSE versions
                              EXCEPT ![JobId(serverJob)] = serverJob.pre_pow]
        BY <2>6 DEF NewJob, Serve
      <3>2. /\ job.pre_pow \in 0 .. MaxTemplates /\ serverJob.pre_pow \in 0 .. MaxTemplates
            /\ job.pre_pow < serverJob.pre_pow
        BY <3>1, ConstantsAssumption DEF LoopType, Templates, NoTemplate, PrePows, JobsFit
      <3>3. SUFFICES ASSUME NEW p \in Pows, credited[p] # 0
                     PROVE  /\ credited[p] = 1 /\ p.pre_pow <= serverJob.pre_pow
                            /\ \/ p \in duplicates'
                               \/ \A k \in JobIds : versions'[k] # p.pre_pow
        BY <3>1 DEF CreditFits
      <3>4. p.pre_pow \in 1 .. MaxTemplates /\ p.pre_pow <= job.pre_pow /\ credited[p] = 1
        BY <3>3 DEF CreditFits, Pows, PrePows
      <3>5. CASE serverJob.height # job.height
        <4>1. versions' = [NoVersions EXCEPT ![JobId(serverJob)] = serverJob.pre_pow]
          BY <3>1, <3>5
        <4>2. \A k \in JobIds : versions'[k] \in {0, serverJob.pre_pow}
          BY <4>1 DEF NoVersions
        <4>3. QED
          BY <3>2, <3>4, <4>2
      <3>6. CASE serverJob.height = job.height
        <4>1. /\ duplicates' = duplicates
              /\ versions' = [versions EXCEPT ![JobId(serverJob)] = serverJob.pre_pow]
          BY <3>1, <3>6
        <4>2. \A k \in JobIds : versions'[k] \in {versions[k], serverJob.pre_pow}
          BY <4>1 DEF LoopType
        <4>3. p \in duplicates \/ \A k \in JobIds : versions[k] # p.pre_pow
          BY <3>3 DEF CreditFits
        <4>4. QED
          BY <3>2, <3>4, <4>1, <4>2, <4>3
      <3>7. QED
        BY <3>5, <3>6
    <2>7. QED
      BY <1>2, <2>1, <2>2, <2>3, <2>4, <2>5, <2>6, NextCases
  <1>3. CASE UNCHANGED vars
    BY <1>1, <1>3 DEF vars, poolVars, books
  <1>4. QED
    BY <1>2, <1>3

LEMMA AlwaysCreditFits == Spec => []CreditFits
  <1>1. Init => CreditFits
    BY DEF Init, CreditFits, Nothing
  <1>2. Fits /\ CreditFits /\ [Next]_vars => CreditFits'
    BY CreditNext
  <1>3. QED
    BY <1>1, <1>2, AlwaysFits, PTL DEF Spec

(* A solution is counted at most once, whoever sends it and however often: *)
(* process_shares remembers what it has judged at this height, and when    *)
(* the node falls back and the list is emptied, accept_new_job has         *)
(* forgotten the templates of the solutions that were on it.               *)
THEOREM SolutionCountedOnce == Spec => []CreditedOnce
  <1>1. CreditFits => CreditedOnce
    <2>1. SUFFICES ASSUME CreditFits, NEW p \in Pows
                   PROVE  credited[p] <= 1
      BY DEF CreditedOnce
    <2>2. CASE credited[p] = 0
      BY <2>2
    <2>3. CASE credited[p] # 0
      BY <2>1, <2>3 DEF CreditFits
    <2>4. QED
      BY <2>2, <2>3
  <1>2. QED
    BY <1>1, AlwaysCreditFits, PTL

(* The counts of a miner that is logged in belong to it. *)
LEMMA CountsFitNext ==
  ASSUME Fits, CountsFit, [Next]_vars
  PROVE  CountsFit'
  <1> DEFINE Fit(c, w, j) == /\ w.shares.user = w.user /\ w.shares.height = j.height
                             /\ \A p \in w.shares.accepted : Template(p).height = w.shares.height
  <1> USE DEF Fits, TypeOK
  <1>1. \A c \in LoggedIn : Fit(c, worker[c], job)
    BY DEF CountsFit
  <1>2. \A c \in Live : worker[c] \in WorkerType /\ c \in Conns
    BY LiveWorkers DEF Live
  <1>3. \A c \in LoggedIn : c \in Live /\ worker[c].authenticated
    BY DEF LoggedIn
  <1>4. ASSUME issued' = issued,
               \A c \in LoggedIn' : Fit(c, worker'[c], job')
        PROVE  CountsFit'
    BY <1>4 DEF CountsFit, Template
  <1>5. ASSUME issued' = issued, job' = job,
               \A c \in LoggedIn' : c \in LoggedIn /\ worker'[c] = worker[c]
        PROVE  CountsFit'
    BY <1>1, <1>4, <1>5
  <1>6. ASSUME UNCHANGED <<issued, job, worker>>
        PROVE  CountsFit'
    BY <1>5, <1>6 DEF LoggedIn, Live
  <1>7. ASSUME NEW c \in Conns, NEW w \in WorkerType, UNCHANGED <<issued, job>>,
               worker' = [worker EXCEPT ![c] = w], w.authenticated => Fit(c, w, job)
        PROVE  CountsFit'
    <2>1. worker'[c] = w /\ \A d \in Conns \ {c} : worker'[d] = worker[d]
      BY <1>7, OneWorker
    <2>2. \A d \in LoggedIn' : d \in Conns /\ worker'[d] # Gone /\ worker'[d].authenticated
      BY DEF LoggedIn, Live
    <2>3. \A d \in LoggedIn' \ {c} : d \in LoggedIn /\ worker'[d] = worker[d]
      BY <2>1, <2>2 DEF LoggedIn, Live
    <2>4. \A d \in LoggedIn' : Fit(d, worker'[d], job')
      BY <1>1, <1>7, <2>1, <2>2, <2>3
    <2>5. QED
      BY <1>4, <1>7, <2>4
  <1>8. ASSUME NEW S \in SUBSET LoggedIn, NEW t \in Templates \cup {NoTemplate},
               Serve(S, t), issued' = issued, job' = t, \A c \in LoggedIn \ S : job' = job
        PROVE  CountsFit'
    <2>1. S \in SUBSET Live /\ Serve(S, t)
      BY <1>8 DEF LoggedIn
    <2>2. /\ Live' = Live
          /\ \A c \in Conns \ S : worker'[c] = worker[c]
          /\ \A c \in S :
               /\ worker'[c].user = worker[c].user
               /\ worker'[c].authenticated = worker[c].authenticated
               /\ worker'[c].shares
                    = [user |-> worker[c].user, height |-> t.height, accepted |-> {}]
      BY <2>1, ServeSteps
    <2>3. SUFFICES ASSUME NEW c \in LoggedIn'
                   PROVE  Fit(c, worker'[c], job')
      BY <1>4, <1>8
    <2>4. c \in Live /\ c \in Conns /\ worker'[c].authenticated
      BY <2>2 DEF LoggedIn, Live
    <2>5. CASE c \in S
      <3>1. /\ worker'[c].user = worker[c].user
            /\ worker'[c].shares
                 = [user |-> worker[c].user, height |-> t.height, accepted |-> {}]
        BY <2>2, <2>5
      <3>2. /\ worker'[c].shares.user = worker[c].user
            /\ worker'[c].shares.height = t.height /\ worker'[c].shares.accepted = {}
        BY <3>1
      <3>3. job'.height = t.height
        BY <1>8
      <3>4. QED
        BY <3>1, <3>2, <3>3
    <2>6. CASE c \notin S
      <3>1. worker'[c] = worker[c] /\ c \in LoggedIn
        BY <2>2, <2>4, <2>6 DEF LoggedIn
      <3>2. job' = job
        BY <1>8, <2>6, <3>1
      <3>3. QED
        BY <1>1, <3>1, <3>2
    <2>7. QED
      BY <2>5, <2>6
  <1>9. CASE Next
    <2>1. CASE NewTemplate \/ Restart
      <3>1. UNCHANGED <<job, worker>> /\ \A x \in 1 .. node.pre_pow : issued'[x] = issued[x]
        BY <2>1, NodeSteps DEF NewTemplate, Restart, poolVars
      <3>2. LoggedIn' = LoggedIn
        BY <3>1 DEF LoggedIn, Live
      <3>3. \A c \in LoggedIn : \A p \in worker[c].shares.accepted :
              p.pre_pow \in 1 .. node.pre_pow
        BY <1>2, <1>3 DEF PowsFit, WorkerType, Pows, PrePows
      <3>4. QED
        BY <3>1, <3>2, <3>3 DEF CountsFit, Template
    <2>2. CASE Connect \/ ReadServer \/ SameJob \/ MessagesDone
      BY <1>6, <2>2 DEF Connect, ReadServer, SameJob, MessagesDone, nodeVars, poolVars
    <2>3. ASSUME NEW c \in Conns, HangUp(c) \/ Send(c)
          PROVE  CountsFit'
      BY <1>6, <2>3 DEF HangUp, Send, nodeVars, poolVars
    <2>4. ASSUME NEW c \in Conns, Open(c)
          PROVE  CountsFit'
      <3>1. NewWorker \in WorkerType /\ ~NewWorker.authenticated
        BY DEF NewWorker, WorkerType
      <3>2. worker' = [worker EXCEPT ![c] = NewWorker] /\ UNCHANGED <<issued, job>>
        BY <2>4 DEF Open, nodeVars, poolVars
      <3>3. QED
        BY <1>7, <3>1, <3>2
    <2>5. ASSUME NEW c \in Conns, WorkerMessage(c)
          PROVE  CountsFit'
      <3>1. /\ c \in Live /\ UNCHANGED <<issued, job>>
            /\ \E w \in WorkerType : MessageStep(c, w)
        BY <2>5, MessageSteps DEF LoopType, nodeVars, poolVars
      <3>2. PICK w \in WorkerType : MessageStep(c, w)
        BY <3>1
      <3>3. CASE LoginStep(c, w)
        <4>1. Fit(c, w, job)
          BY <3>3 DEF LoginStep
        <4>2. QED
          BY <1>7, <3>1, <3>2, <4>1 DEF MessageStep
      <3>4. CASE OtherStep(c, w)
        <4>1. w.authenticated => Fit(c, w, job)
          BY <1>1, <3>1, <3>4 DEF OtherStep, LoggedIn
        <4>2. QED
          BY <1>7, <3>1, <3>2, <4>1 DEF MessageStep
      <3>5. QED
        BY <3>2, <3>3, <3>4 DEF MessageStep
    <2>6. ASSUME NEW c \in Conns, NEW p \in Pows,
                 \/ Duplicate(c, p) \/ Stale(c, p) \/ UnknownJob(c, p) \/ Mismatch(c, p)
                 \/ Accept(c, p)
          PROVE  CountsFit'
      <3>1. /\ c \in Live /\ UNCHANGED <<issued, job>>
            /\ \E w \in WorkerType : ShareStep(c, p, w)
        BY <2>6, ShareSteps DEF LoopType, nodeVars
      <3>2. PICK w \in WorkerType : ShareStep(c, p, w)
        BY <3>1
      <3>3. w.authenticated => Fit(c, worker[c], job)
        BY <1>1, <3>1, <3>2 DEF ShareStep, LoggedIn
      <3>4. w.authenticated => Fit(c, w, job)
        BY <3>2, <3>3 DEF ShareStep, CountStep, RefuseStep
      <3>5. QED
        BY <1>7, <3>1, <3>2, <3>4 DEF ShareStep
    <2>7. CASE NewJob
      BY <1>8, <2>7 DEF NewJob, LoopType, nodeVars
    <2>8. CASE SendJobs
      <3>1. /\ Serve({c \in LoggedIn : worker[c].needs_job}, job)
            /\ UNCHANGED <<issued, job>>
        BY <2>8 DEF SendJobs, poolVars, nodeVars
      <3>2. QED
        BY <1>8, <3>1 DEF LoopType
    <2>9. CASE CleanWorkers
      BY <1>5, <2>9 DEF CleanWorkers, LoggedIn, Live, poolVars, nodeVars
    <2>10. QED
      BY <1>9, <2>1, <2>2, <2>3, <2>4, <2>5, <2>6, <2>7, <2>8, <2>9, NextCases
  <1>10. CASE UNCHANGED vars
    BY <1>6, <1>10 DEF vars, poolVars, nodeVars
  <1>11. QED
    BY <1>9, <1>10

(* The counts that will be printed for a miner are under the account it    *)
(* logged in to and under the height its shares are for: a login and every *)
(* new job (reset_worker_shares) start the counts anew.                    *)
THEOREM CountsBelong == Spec => []CountsFit
  <1>1. Init => CountsFit
    BY DEF Init, CountsFit, LoggedIn, Live
  <1>2. Fits /\ CountsFit /\ [Next]_vars => CountsFit'
    BY CountsFitNext
  <1>3. QED
    BY <1>1, <1>2, AlwaysFits, PTL DEF Spec

(* The workers that have yet to print p. *)
Holding(p) == {c \in Live : p \in Counted(c)}

LEMMA HoldingParts ==
  ASSUME NEW p \in Pows, NEW S \in SUBSET Live
  PROVE  /\ Cardinality(Holding(p)) \in Nat /\ IsFiniteSet(Holding(p))
         /\ Cardinality(Holding(p))
              = Cardinality({c \in S : p \in Counted(c)}) + Cardinality(Holding(p) \ S)
         /\ Cardinality({c \in S : p \in Counted(c)}) \in Nat
         /\ Cardinality(Holding(p) \ S) \in Nat
  <1> DEFINE T == {c \in S : p \in Counted(c)}
  <1>1. IsFiniteSet(Holding(p)) /\ Cardinality(Holding(p)) \in Nat
    BY ConstantsAssumption, FS_Subset, FS_CardinalityType DEF Holding, Live
  <1>2. Holding(p) \cap S = T
    BY DEF Holding
  <1>3. IsFiniteSet(T) /\ Cardinality(T) \in Nat
    <2>1. T \in SUBSET Holding(p)
      BY <1>2
    <2>2. QED
      BY <1>1, <2>1, FS_Subset, FS_CardinalityType
  <1>4. /\ IsFiniteSet(Holding(p) \ S)
        /\ Cardinality(Holding(p) \ S) = Cardinality(Holding(p)) - Cardinality(T)
    BY <1>1, <1>2, FS_Difference
  <1>5. Cardinality(Holding(p) \ S) \in Nat
    BY <1>4, FS_CardinalityType
  <1>6. QED
    BY <1>1, <1>3, <1>4, <1>5

(* The counts of some workers go to one of the books. *)
LEMMA CountsMove ==
  ASSUME BookType, CountsConserved, NEW S \in SUBSET Live, credited' = credited,
         \/ logged' = Add(logged, S) /\ lost' = lost
         \/ lost' = Add(lost, S) /\ logged' = logged,
         \A p \in Pows : Holding(p)' = Holding(p) \ S
  PROVE  CountsConserved'
  <1>1. SUFFICES ASSUME NEW p \in Pows
                 PROVE  credited'[p] = logged'[p] + lost'[p] + Cardinality(Holding(p)')
    BY DEF CountsConserved, Holding
  <1>2. credited[p] = logged[p] + lost[p] + Cardinality(Holding(p))
    BY DEF CountsConserved, Holding
  <1>3. logged[p] \in Nat /\ lost[p] \in Nat
    BY DEF BookType
  <1>4. \A book \in [Pows -> Nat] :
          Add(book, S)[p] = book[p] + Cardinality({c \in S : p \in Counted(c)})
    BY DEF Add
  <1>5. /\ Cardinality(Holding(p))
             = Cardinality({c \in S : p \in Counted(c)}) + Cardinality(Holding(p)')
        /\ Cardinality({c \in S : p \in Counted(c)}) \in Nat
        /\ Cardinality(Holding(p)') \in Nat
    BY HoldingParts
  <1>6. \/ /\ logged'[p] = logged[p] + Cardinality({c \in S : p \in Counted(c)})
           /\ lost'[p] = lost[p]
        \/ /\ lost'[p] = lost[p] + Cardinality({c \in S : p \in Counted(c)})
           /\ logged'[p] = logged[p]
    BY <1>4 DEF BookType
  <1>7. credited'[p] = credited[p]
    OBVIOUS
  <1>8. QED
    BY <1>2, <1>3, <1>5, <1>6, <1>7

LEMMA CountsKept ==
  ASSUME CountsConserved, UNCHANGED <<credited, logged, lost>>,
         \A p \in Pows : Holding(p)' = Holding(p)
  PROVE  CountsConserved'
  BY DEF CountsConserved, Holding

LEMMA CountsConservedNext ==
  ASSUME Fits, CreditFits, CountsConserved, [Next]_vars
  PROVE  CountsConserved'
  <1> USE DEF Fits, TypeOK
  <1>1. ASSUME UNCHANGED <<worker, books>>
        PROVE  CountsConserved'
    <2>1. \A p \in Pows : Holding(p)' = Holding(p)
      BY <1>1 DEF Holding, Live, Counted
    <2>2. QED
      BY <1>1, <2>1, CountsKept DEF books
  <1>2. ASSUME NEW S \in SUBSET Live, NEW t \in Templates \cup {NoTemplate}, Serve(S, t)
        PROVE  CountsConserved'
    <2>1. /\ Live' = Live
          /\ \A c \in Conns \ S : worker'[c] = worker[c]
          /\ \A c \in S :
               worker'[c].shares
                 = [user |-> worker[c].user, height |-> t.height, accepted |-> {}]
          /\ logged' = Add(logged, S) /\ credited' = credited /\ lost' = lost
      BY <1>2, ServeSteps
    <2>2. \A c \in S : Counted(c)' = {}
      <3>1. TAKE c \in S
      <3>2. worker'[c].shares
              = [user |-> worker[c].user, height |-> t.height, accepted |-> {}]
        BY <2>1
      <3>3. worker'[c].shares.accepted = {}
        BY <3>2
      <3>4. QED
        BY <3>3 DEF Counted
    <2>3. \A c \in Conns \ S : Counted(c)' = Counted(c)
      BY <2>1 DEF Counted
    <2>4. \A p \in Pows : Holding(p)' = Holding(p) \ S
      BY <2>1, <2>2, <2>3 DEF Holding, Live
    <2>5. QED
      BY <1>2, <2>1, <2>4, CountsMove
  <1>3. CASE Next
    <2>1. CASE NewTemplate \/ Restart \/ Connect \/ ReadServer \/ SameJob \/ MessagesDone
      BY <1>1, <2>1 DEF NewTemplate, Restart, Connect, ReadServer, SameJob, MessagesDone
    <2>2. ASSUME NEW c \in Conns, HangUp(c) \/ Send(c)
          PROVE  CountsConserved'
      BY <1>1, <2>2 DEF HangUp, Send
    <2>3. ASSUME NEW c \in Conns, Open(c)
          PROVE  CountsConserved'
      <3>1. NewWorker \in WorkerType /\ NewWorker.shares.accepted = {}
        BY DEF NewWorker, WorkerType
      <3>2. worker' = [worker EXCEPT ![c] = NewWorker] /\ UNCHANGED books
        BY <2>3 DEF Open
      <3>3. /\ worker'[c] = NewWorker /\ \A d \in Conns \ {c} : worker'[d] = worker[d]
            /\ Live' = Live \cup {c} /\ c \notin Live
        BY <2>3, <3>1, <3>2, OneWorker DEF Open, Live
      <3>4. Counted(c)' = {} /\ \A d \in Conns \ {c} : Counted(d)' = Counted(d)
        BY <3>1, <3>3 DEF Counted
      <3>5. \A p \in Pows : Holding(p)' = Holding(p)
        BY <3>3, <3>4 DEF Holding, Live
      <3>6. QED
        BY <3>2, <3>5, CountsKept DEF books
    <2>4. ASSUME NEW c \in Conns, WorkerMessage(c)
          PROVE  CountsConserved'
      <3>1. /\ c \in Live /\ UNCHANGED <<credited, logged>>
            /\ \E w \in WorkerType : MessageStep(c, w)
        BY <2>4, MessageSteps DEF LoopType
      <3>2. PICK w \in WorkerType : MessageStep(c, w)
        BY <3>1
      <3>3. /\ worker'[c] = w /\ \A d \in Conns \ {c} : worker'[d] = worker[d]
            /\ Live' = Live
        <4>1. /\ worker'[c] = w /\ \A d \in Conns \ {c} : worker'[d] = worker[d]
              /\ Live' = Live \cup {c}
          BY <3>2, OneWorker DEF MessageStep
        <4>2. QED
          BY <3>1, <4>1
      <3>4. Counted(c)' = w.shares.accepted /\ \A d \in Conns \ {c} : Counted(d)' = Counted(d)
        BY <3>3, GoneIsNoWorker DEF Counted
      <3>5. CASE LoginStep(c, w)
        <4>1. w.shares.accepted = {}
          BY <3>5 DEF LoginStep
        <4>2. \A p \in Pows : Holding(p)' = Holding(p) \ {c}
          BY <3>3, <3>4, <4>1 DEF Holding, Live
        <4>3. {c} \in SUBSET Live /\ lost' = Add(lost, {c})
          BY <3>1, <3>5 DEF LoginStep
        <4>4. QED
          BY <3>1, <4>2, <4>3, CountsMove
      <3>6. CASE OtherStep(c, w)
        <4>1. Counted(c)' = Counted(c)
          BY <3>1, <3>4, <3>6 DEF OtherStep, Counted, Live
        <4>2. \A p \in Pows : Holding(p)' = Holding(p)
          BY <3>3, <3>4, <4>1 DEF Holding, Live
        <4>3. QED
          BY <3>1, <3>6, <4>2, CountsKept DEF OtherStep
      <3>7. QED
        BY <3>2, <3>5, <3>6 DEF MessageStep
    <2>5. ASSUME NEW c \in Conns, NEW p \in Pows,
                 \/ Duplicate(c, p) \/ Stale(c, p) \/ UnknownJob(c, p) \/ Mismatch(c, p)
                 \/ Accept(c, p)
          PROVE  CountsConserved'
      <3>1. /\ c \in Live /\ worker[c].share = p /\ UNCHANGED <<logged, lost>>
            /\ \E w \in WorkerType : ShareStep(c, p, w)
        BY <2>5, ShareSteps DEF LoopType
      <3>2. PICK w \in WorkerType : ShareStep(c, p, w)
        BY <3>1
      <3>3. /\ worker'[c] = w /\ \A d \in Conns \ {c} : worker'[d] = worker[d]
            /\ Live' = Live
        <4>1. /\ worker'[c] = w /\ \A d \in Conns \ {c} : worker'[d] = worker[d]
              /\ Live' = Live \cup {c}
          BY <3>2, OneWorker DEF ShareStep
        <4>2. QED
          BY <3>1, <4>1
      <3>4. Counted(c)' = w.shares.accepted /\ \A d \in Conns \ {c} : Counted(d)' = Counted(d)
        BY <3>3, GoneIsNoWorker DEF Counted
      <3>5. Counted(c) = worker[c].shares.accepted
        BY <3>1 DEF Counted, Live
      <3>6. CASE RefuseStep(c, w)
        <4>1. \A q \in Pows : Holding(q)' = Holding(q)
          BY <3>3, <3>4, <3>5, <3>6 DEF Holding, Live, RefuseStep
        <4>2. QED
          BY <3>1, <3>6, <4>1, CountsKept DEF RefuseStep
      <3>7. CASE CountStep(c, p, w)
        <4>1. credited[p] = 0
          <5>1. p \notin duplicates /\ versions[JobId(Template(p))] = p.pre_pow
            BY <3>7 DEF CountStep
          <5>2. p.pre_pow \in 1 .. node.pre_pow
            BY <3>1 DEF PowsFit, Pows, PrePows
          <5>3. JobId(Template(p)) \in JobIds
            BY <5>2, TemplateJobId DEF NodeFits, Template
          <5>4. QED
            BY <5>1, <5>3 DEF CreditFits
        <4>2. /\ \A q \in Pows \ {p} : credited'[q] = credited[q] /\ Holding(q)' = Holding(q)
              /\ credited'[p] = credited[p] + 1 /\ Holding(p)' = Holding(p) \cup {c}
          <5>1. /\ \A q \in Pows \ {p} : credited'[q] = credited[q]
                /\ credited'[p] = credited[p] + 1
            BY <3>7 DEF CountStep, BookType
          <5>2. Counted(c)' = Counted(c) \cup {p}
            BY <3>4, <3>5, <3>7 DEF CountStep
          <5>3. Holding(p)' = Holding(p) \cup {c}
            BY <3>1, <3>3, <3>4, <5>2 DEF Holding, Live
          <5>4. \A q \in Pows \ {p} : Holding(q)' = Holding(q)
            BY <3>3, <3>4, <5>2 DEF Holding, Live
          <5>5. QED
            BY <5>1, <5>3, <5>4
        <4>3. /\ credited[p] = logged[p] + lost[p] + Cardinality(Holding(p))
              /\ logged[p] \in Nat /\ lost[p] \in Nat
              /\ Cardinality(Holding(p)) \in Nat /\ IsFiniteSet(Holding(p))
          BY HoldingParts DEF CountsConserved, Holding, BookType
        <4>4. Cardinality(Holding(p)) = 0 /\ logged[p] = 0 /\ lost[p] = 0
          BY <4>1, <4>3
        <4>5. Holding(p)' = {c}
          BY <4>2, <4>3, <4>4, FS_EmptySet
        <4>6. Cardinality(Holding(p)') = 1
          BY <4>5, FS_Singleton
        <4>7. credited'[p] = logged'[p] + lost'[p] + Cardinality(Holding(p)')
          BY <3>1, <4>1, <4>2, <4>4, <4>6
        <4>8. \A q \in Pows : credited'[q] = logged'[q] + lost'[q] + Cardinality(Holding(q)')
          BY <3>1, <4>2, <4>7 DEF CountsConserved, Holding
        <4>9. QED
          BY <4>8 DEF CountsConserved, Holding
      <3>8. QED
        BY <3>2, <3>6, <3>7 DEF ShareStep
    <2>6. CASE NewJob
      BY <1>2, <2>6 DEF NewJob, LoopType, LoggedIn
    <2>7. CASE SendJobs
      <3>1. Serve({c \in LoggedIn : worker[c].needs_job}, job)
        BY <2>7 DEF SendJobs
      <3>2. QED
        BY <1>2, <3>1 DEF LoopType, LoggedIn
    <2>8. CASE CleanWorkers
      <3> DEFINE dead == {c \in Live : worker[c].error}
      <3>1. /\ worker' = [c \in Conns |-> IF c \in dead THEN Gone ELSE worker[c]]
            /\ lost' = Add(lost, dead) /\ UNCHANGED <<credited, logged>>
            /\ dead \in SUBSET Live
        BY <2>8 DEF CleanWorkers
      <3> HIDE DEF dead
      <3>2. \A p \in Pows : Holding(p)' = Holding(p) \ dead
        BY <3>1 DEF Holding, Live, Counted
      <3>3. QED
        BY <3>1, <3>2, CountsMove
    <2>9. QED
      BY <1>3, <2>1, <2>2, <2>3, <2>4, <2>5, <2>6, <2>7, <2>8, NextCases
  <1>4. CASE UNCHANGED vars
    BY <1>1, <1>4 DEF vars
  <1>5. QED
    BY <1>3, <1>4

(* A solution the proxy has counted is printed exactly once, or is still   *)
(* to be printed by exactly one worker, or was dropped with a worker that  *)
(* left or logged in: no count is printed twice, and none disappears       *)
(* anywhere else.                                                          *)
THEOREM CountsPrinted == Spec => []CountsConserved
  <1>1. Init => CountsConserved
    <2>1. SUFFICES ASSUME Init, NEW p \in Pows
                   PROVE  credited[p] = logged[p] + lost[p] + Cardinality(Holding(p))
      BY DEF CountsConserved, Holding
    <2>2. Live = {}
      BY <2>1 DEF Init, Live
    <2>3. Cardinality(Holding(p)) = 0
      BY <2>2, FS_EmptySet DEF Holding
    <2>4. credited[p] = 0 /\ logged[p] = 0 /\ lost[p] = 0
      BY <2>1 DEF Init, Nothing
    <2>5. QED
      BY <2>3, <2>4
  <1>2. Fits /\ CreditFits /\ CountsConserved /\ [Next]_vars => CountsConserved'
    BY CountsConservedNext
  <1>3. QED
    BY <1>1, <1>2, AlwaysFits, AlwaysCreditFits, PTL DEF Spec

-----------------------------------------------------------------------------
(* Replies *)

LEMMA NoPowIsNone == NoPow \notin Pows
  BY DEF NoPow, Pows, PrePows

(* The node's heights rise, and no template that a miner was sent for the  *)
(* current height is forgotten.                                            *)
LEMMA VersionsNext ==
  ASSUME ~Falling, Fits, VersionsKept, [Next]_vars
  PROVE  VersionsKept'
  <1> USE DEF Fits, TypeOK
  <1>1. ASSUME UNCHANGED <<node, issued, job, versions, known>>
        PROVE  VersionsKept'
    BY <1>1 DEF VersionsKept
  <1>2. /\ \A c \in Conns : known[c] \subseteq 1 .. node.pre_pow
        /\ node.pre_pow \in 1 .. MaxTemplates /\ node.height \in Int
        /\ node = issued[node.pre_pow]
        /\ \A x \in 1 .. node.pre_pow :
             issued[x] \in Templates /\ issued[x].height \in Int /\ issued[x].pre_pow = x
    BY DEF PowsFit, NodeType, NodeFits, Templates, PrePows, Heights
  <1>3. \A t \in Made : t \in Templates /\ t.pre_pow \in 1 .. node.pre_pow
                        /\ t = issued[t.pre_pow]
    BY MadeFits
  <1>4. CASE Next
    <2>1. CASE NewTemplate \/ Restart
      <3>1. /\ NodeType' /\ NodeFits' /\ UNCHANGED <<job, versions, known>>
            /\ node'.pre_pow \in node.pre_pow .. MaxTemplates
            /\ \A x \in 1 .. node.pre_pow : issued'[x] = issued[x]
        BY <2>1, NodeSteps DEF NewTemplate, Restart, poolVars, minerVars
      <3>2. \/ UNCHANGED <<node, issued>>
            \/ /\ node'.pre_pow = node.pre_pow + 1
               /\ node'.height \in {node.height, node.height + 1}
        <4>1. CASE NewTemplate
          <5>1. ASSUME Issue([node EXCEPT !.pre_pow = @ + 1, !.job_id = @ + 1])
                PROVE  node'.pre_pow = node.pre_pow + 1 /\ node'.height = node.height
            <6>1. node \in [height : Heights, job_id : 0 .. MaxTemplates, pre_pow : PrePows]
              BY DEF NodeType, Templates
            <6>2. node' = [node EXCEPT !.pre_pow = @ + 1, !.job_id = @ + 1]
              BY <5>1 DEF Issue
            <6>3. QED
              BY <6>1, <6>2
          <5>2. QED
            BY <4>1, <5>1 DEF NewTemplate, Issue
        <4>2. CASE Restart
          <5>1. ASSUME Issue([height |-> node.height, job_id |-> 0,
                              pre_pow |-> node.pre_pow + 1])
                PROVE  node'.pre_pow = node.pre_pow + 1 /\ node'.height = node.height
            BY <5>1 DEF Issue
          <5>2. QED
            BY <4>2, <5>1 DEF Restart
        <4>3. QED
          BY <2>1, <4>1, <4>2
      <3>3. CASE UNCHANGED <<node, issued>>
        BY <1>1, <3>1, <3>3
      <3>4. CASE node'.pre_pow = node.pre_pow + 1
                 /\ node'.height \in {node.height, node.height + 1}
        <4>1. issued'[node'.pre_pow] = node'
          BY <3>1 DEF NodeFits
        <4>2. \A y \in 1 .. node.pre_pow : \A x \in 1 .. y :
                issued'[x].height <= issued'[y].height
          BY <1>2, <3>1 DEF VersionsKept
        <4>3. \A x \in 1 .. node.pre_pow : issued'[x].height <= issued'[node'.pre_pow].height
          BY <1>2, <3>1, <3>4, <4>1 DEF VersionsKept
        <4>4. issued'[node'.pre_pow].height <= issued'[node'.pre_pow].height
          BY <1>2, <3>4, <4>1
        <4>5. \A y \in 1 .. node'.pre_pow : \A x \in 1 .. y :
                issued'[x].height <= issued'[y].height
          <5>1. TAKE y \in 1 .. node'.pre_pow
          <5>2. TAKE x \in 1 .. y
          <5>3. CASE y \in 1 .. node.pre_pow
            BY <4>2, <5>3
          <5>4. CASE y = node'.pre_pow
            BY <1>2, <3>4, <4>3, <4>4, <5>4
          <5>5. QED
            BY <1>2, <3>4, <5>3, <5>4
        <4>6. \A c \in Conns : \A x \in known[c] : issued'[x] = issued[x]
          BY <1>2, <3>1
        <4>7. QED
          BY <3>1, <4>5, <4>6 DEF VersionsKept
      <3>5. QED
        BY <3>2, <3>3, <3>4
    <2>2. CASE Connect \/ ReadServer \/ SameJob \/ MessagesDone \/ CleanWorkers
      BY <1>1, <2>2 DEF Connect, ReadServer, SameJob, MessagesDone, CleanWorkers, nodeVars,
                        poolVars, minerVars
    <2>3. ASSUME NEW c \in Conns, Open(c) \/ HangUp(c) \/ Send(c)
          PROVE  VersionsKept'
      BY <1>1, <2>3 DEF Open, HangUp, Send, nodeVars, poolVars
    <2>4. ASSUME NEW c \in Conns, WorkerMessage(c)
          PROVE  VersionsKept'
      <3>1. UNCHANGED <<nodeVars, poolVars, known>>
        BY <2>4, MessageSteps
      <3>2. QED
        BY <1>1, <3>1 DEF nodeVars, poolVars
    <2>5. ASSUME NEW c \in Conns, NEW p \in Pows,
                 \/ Duplicate(c, p) \/ Stale(c, p) \/ UnknownJob(c, p) \/ Mismatch(c, p)
                 \/ Accept(c, p)
          PROVE  VersionsKept'
      <3>1. UNCHANGED <<nodeVars, job, versions, minerVars>>
        BY <2>5, ShareSteps
      <3>2. QED
        BY <1>1, <3>1 DEF nodeVars, minerVars
    <2>6. CASE SendJobs
      <3>1. UNCHANGED <<node, issued, job, versions>>
        BY <2>6 DEF SendJobs, nodeVars, poolVars
      <3>2. \A c \in Conns : known'[c] \subseteq known[c] \cup ({job.pre_pow} \ {0})
        BY <2>6 DEF SendJobs, Serve
      <3>3. job.pre_pow # 0 => /\ job \in Made /\ versions[JobId(job)] # 0
                               /\ issued[job.pre_pow] = job
        BY <1>3 DEF VersionsKept, JobsFit, NoTemplate
      <3>4. job.pre_pow <= job.pre_pow
        BY DEF LoopType, Templates, NoTemplate, PrePows
      <3>5. \A c \in Conns : \A x \in known'[c] :
              /\ x <= job.pre_pow
              /\ issued[x].height = job.height => versions[JobId(issued[x])] # 0
        BY <3>2, <3>3, <3>4 DEF VersionsKept
      <3>6. QED
        BY <3>1, <3>5 DEF VersionsKept
    <2>7. CASE NewJob
      <3>1. /\ UNCHANGED <<node, issued>> /\ job' = serverJob
            /\ job.pre_pow # serverJob.pre_pow
            /\ versions' = [IF serverJob.height # job.height THEN NoVersions ELSE versions
                              EXCEPT ![JobId(serverJob)] = serverJob.pre_pow]
            /\ \A c \in Conns : known'[c] \subseteq known[c] \cup ({serverJob.pre_pow} \ {0})
        BY <2>7 DEF NewJob, Serve, nodeVars
      <3>2. /\ job.pre_pow \in 0 .. MaxTemplates /\ serverJob.pre_pow \in 1 .. MaxTemplates
            /\ job.pre_pow < serverJob.pre_pow
        BY <3>1, ConstantsAssumption DEF LoopType, Templates, NoTemplate, PrePows, JobsFit
      <3>3. /\ serverJob \in Made /\ serverJob \in Templates
            /\ serverJob.pre_pow \in 1 .. node.pre_pow
            /\ serverJob = issued[serverJob.pre_pow]
        BY <1>3, <3>2 DEF JobsFit, NoTemplate
      <3>4. JobId(serverJob) \in JobIds
        BY <3>3, TemplateJobId
      <3> DEFINE old == IF serverJob.height # job.height THEN NoVersions ELSE versions
      <3>5. old \in [JobIds -> PrePows \cup {0}]
        BY DEF NoVersions, LoopType
      <3>6. versions' = [old EXCEPT ![JobId(serverJob)] = serverJob.pre_pow]
        BY <3>1
      <3> HIDE DEF old
      <3>7. /\ versions'[JobId(serverJob)] # 0
            /\ \A k \in JobIds : versions'[k] = old[k] \/ versions'[k] # 0
        BY <3>2, <3>4, <3>5, <3>6
      <3>8. \A c \in Conns : \A x \in known[c] :
              /\ x <= serverJob.pre_pow
              /\ issued[x].height = serverJob.height => versions'[JobId(issued[x])] # 0
        <4>1. SUFFICES ASSUME NEW c \in Conns, NEW x \in known[c]
                       PROVE  /\ x <= serverJob.pre_pow
                              /\ issued[x].height = serverJob.height =>
                                   versions'[JobId(issued[x])] # 0
          OBVIOUS
        <4>2. /\ x \in 1 .. node.pre_pow /\ x <= job.pre_pow
              /\ issued[x].height = job.height => versions[JobId(issued[x])] # 0
          BY <1>2 DEF VersionsKept
        <4>3. JobId(issued[x]) \in JobIds
          BY <1>2, <4>2, TemplateJobId
        <4>4. CASE serverJob.height = job.height
          BY <3>2, <3>7, <4>2, <4>3, <4>4 DEF old
        <4>5. CASE serverJob.height # job.height
          <5>1. job.pre_pow \in 1 .. node.pre_pow /\ job = issued[job.pre_pow]
            BY <1>3, <4>2 DEF JobsFit, NoTemplate
          <5>2. issued[x].height <= job.height /\ job.height <= serverJob.height
            <6>1. x \in 1 .. job.pre_pow /\ job.pre_pow \in 1 .. serverJob.pre_pow
              BY <3>2, <4>2, <5>1
            <6>2. QED
              BY <3>3, <5>1, <6>1 DEF VersionsKept
          <5>3. issued[x].height \in Int /\ job.height \in Int /\ serverJob.height \in Int
            BY <1>2, <3>3, <4>2, <5>1
          <5>4. issued[x].height # serverJob.height
            BY <4>5, <5>2, <5>3
          <5>5. QED
            BY <3>2, <4>2, <5>4
        <4>6. QED
          BY <4>4, <4>5
      <3>9. \A c \in Conns : \A x \in known'[c] :
              /\ x <= serverJob.pre_pow
              /\ issued[x].height = serverJob.height => versions'[JobId(issued[x])] # 0
        BY <3>1, <3>2, <3>3, <3>7, <3>8
      <3>10. QED
        BY <3>1, <3>7, <3>9 DEF VersionsKept
    <2>8. QED
      BY <1>4, <2>1, <2>2, <2>3, <2>4, <2>5, <2>6, <2>7, NextCases
  <1>5. CASE UNCHANGED vars
    BY <1>1, <1>5 DEF vars, nodeVars, poolVars, minerVars
  <1>6. QED
    BY <1>4, <1>5

LEMMA AlwaysVersionsKept ==
  ASSUME ~Falling
  PROVE  Spec => []VersionsKept
  <1>1. Init => VersionsKept
    <2>1. SUFFICES ASSUME Init PROVE VersionsKept
      OBVIOUS
    <2>2. /\ node.pre_pow = 1 /\ issued[1] = node /\ node.height = FirstHeight
          /\ job = NoTemplate /\ \A c \in Conns : known[c] = {}
      BY <2>1, ConstantsAssumption DEF Init, PrePows
    <2>3. \A y \in 1 .. node.pre_pow : \A x \in 1 .. y : issued[x].height <= issued[y].height
      BY <2>2, ConstantsAssumption
    <2>4. QED
      BY <2>2, <2>3 DEF VersionsKept
  <1>2. Fits /\ VersionsKept /\ [Next]_vars => VersionsKept'
    BY VersionsNext
  <1>3. QED
    BY <1>1, <1>2, AlwaysFits, PTL DEF Spec

(* Miners only send what fits, and a login is never undone. *)
LEMMA MailNext ==
  ASSUME Patient, Fits, MailFits, [Next]_vars
  PROVE  MailFits'
  <1> DEFINE R == [kind : Kinds, pow : Pows \cup {NoPow}]
  <1> USE DEF Fits, TypeOK
  <1>1. mail \in [Conns -> Seq(R)]
    BY DEF MinerType
  <1> HIDE DEF R
  <1>2. \A c \in Conns :
          /\ worker[c] = Gone => mail[c] = <<>>
          /\ \A i \in 1 .. Len(mail[c]) : RequestFits(c, mail[c][i])
    BY DEF MailFits
  <1>3. \A c \in Conns : c \in LoggedIn <=> worker[c] # Gone /\ worker[c].authenticated
    BY DEF LoggedIn, Live
  <1>4. \A c \in Conns : (c \in LoggedIn)' <=> worker'[c] # Gone /\ worker'[c].authenticated
    BY DEF LoggedIn, Live
  <1>5. ASSUME NEW c \in Conns, mail'[c] = mail[c], known[c] \subseteq known'[c],
               worker[c] # Gone => worker'[c] # Gone,
               c \in LoggedIn => (c \in LoggedIn)'
        PROVE  /\ worker'[c] = Gone => mail'[c] = <<>>
               /\ \A i \in 1 .. Len(mail'[c]) : RequestFits(c, mail[c][i])'
    BY <1>2, <1>5 DEF RequestFits
  <1>6. ASSUME UNCHANGED <<worker, mail>>, \A c \in Conns : known[c] \subseteq known'[c]
        PROVE  MailFits'
    <2>1. \A c \in Conns : c \in LoggedIn => (c \in LoggedIn)'
      BY <1>3, <1>4, <1>6
    <2>2. QED
      BY <1>5, <1>6, <2>1 DEF MailFits
  <1>7. ASSUME NEW S \in SUBSET Live, NEW t \in Templates \cup {NoTemplate}, Serve(S, t),
               mail' = mail
        PROVE  MailFits'
    <2>1. /\ Live' = Live
          /\ \A c \in Conns \ S : worker'[c] = worker[c]
          /\ \A c \in S : worker'[c].authenticated = worker[c].authenticated
      BY <1>7, ServeSteps
    <2>2. \A c \in Conns : known[c] \subseteq known'[c]
      BY <1>7 DEF Serve
    <2>3. \A c \in Conns : worker[c] # Gone => worker'[c] # Gone
      BY <2>1 DEF Live
    <2>4. \A c \in Conns : c \in LoggedIn => (c \in LoggedIn)'
      BY <1>3, <1>4, <2>1, <2>3
    <2>5. QED
      BY <1>5, <1>7, <2>2, <2>3, <2>4 DEF MailFits
  <1>8. CASE Next
    <2>1. CASE NewTemplate \/ Restart \/ Connect \/ ReadServer \/ SameJob \/ MessagesDone
      BY <1>6, <2>1 DEF NewTemplate, Restart, Connect, ReadServer, SameJob, MessagesDone,
                        minerVars
    <2>2. ASSUME NEW c \in Conns, HangUp(c)
          PROVE  MailFits'
      BY <1>6, <2>2 DEF HangUp
    <2>3. ASSUME NEW c \in Conns, Open(c)
          PROVE  MailFits'
      <3>1. /\ worker' = [worker EXCEPT ![c] = NewWorker] /\ UNCHANGED <<mail, known>>
            /\ worker[c] = Gone
        BY <2>3 DEF Open
      <3>2. NewWorker \in WorkerType
        BY DEF NewWorker, WorkerType
      <3>3. worker'[c] = NewWorker /\ \A d \in Conns \ {c} : worker'[d] = worker[d]
        BY <3>1, <3>2, OneWorker
      <3>4. \A d \in Conns : /\ worker[d] # Gone => worker'[d] # Gone
                             /\ d \in LoggedIn => (d \in LoggedIn)'
        BY <1>3, <1>4, <3>1, <3>3
      <3>5. QED
        BY <1>5, <3>1, <3>4 DEF MailFits
    <2>4. ASSUME NEW c \in Conns, Send(c)
          PROVE  MailFits'
      <3>1. PICK r \in {Request(k) : k \in Kinds \ {"submit"}}
                  \cup {Submission(p) : p \in {q \in Pows : q.pre_pow \in known[c]}} :
              /\ Patient => r.kind = "login" \/ worker[c].authenticated
              /\ r.kind \in Kinds
              /\ mail' = [mail EXCEPT ![c] = Append(@, r)]
        BY <2>4 DEF Send
      <3>2. c \in Live /\ UNCHANGED <<worker, known>>
        BY <2>4 DEF Send, MinerType
      <3>3. RequestFits(c, r)
        <4>1. r.kind = "login" \/ c \in LoggedIn
          BY <3>1, <3>2 DEF LoggedIn
        <4>2. CASE r \in {Request(k) : k \in Kinds \ {"submit"}}
          BY <4>1, <4>2 DEF RequestFits, Request
        <4>3. CASE r \in {Submission(p) : p \in {q \in Pows : q.pre_pow \in known[c]}}
          BY <4>1, <4>3 DEF RequestFits, Submission
        <4>4. QED
          BY <3>1, <4>2, <4>3
      <3>4. r \in R
        <4>1. r.pow \in Pows \cup {NoPow} /\ r = [kind |-> r.kind, pow |-> r.pow]
          BY <3>1 DEF Request, Submission
        <4>2. QED
          BY <3>1, <4>1 DEF R
      <3>5. \A d \in Conns : (d \in LoggedIn)' <=> d \in LoggedIn
        BY <1>3, <1>4, <3>2
      <3>6. mail'[c] = Append(mail[c], r) /\ \A d \in Conns \ {c} : mail'[d] = mail[d]
        BY <1>1, <3>1
      <3>7. /\ Len(mail'[c]) = Len(mail[c]) + 1 /\ mail'[c][Len(mail[c]) + 1] = r
            /\ \A i \in 1 .. Len(mail[c]) : mail'[c][i] = mail[c][i]
            /\ Len(mail[c]) \in Nat
        BY <1>1, <3>4, <3>6, AppendProperties, LenProperties
      <3>8. \A i \in 1 .. Len(mail'[c]) : RequestFits(c, mail'[c][i])
        BY <1>2, <3>3, <3>7
      <3>9. \A i \in 1 .. Len(mail'[c]) : RequestFits(c, mail[c][i])'
        BY <3>2, <3>5, <3>8 DEF RequestFits
      <3>10. worker'[c] # Gone
        BY <3>2 DEF Live
      <3>11. \A d \in Conns \ {c} :
               /\ worker'[d] = Gone => mail'[d] = <<>>
               /\ \A i \in 1 .. Len(mail'[d]) : RequestFits(d, mail[d][i])'
        BY <1>5, <3>2, <3>5, <3>6
      <3>12. QED
        BY <3>9, <3>10, <3>11 DEF MailFits
    <2>5. ASSUME NEW c \in Conns, WorkerMessage(c)
          PROVE  MailFits'
      <3>1. /\ c \in Live /\ known' = known /\ \E w \in WorkerType : MessageStep(c, w)
        BY <2>5, MessageSteps DEF LoopType
      <3>2. PICK w \in WorkerType : MessageStep(c, w)
        BY <3>1
      <3>3. worker'[c] = w /\ \A d \in Conns \ {c} : worker'[d] = worker[d]
        BY <3>2, OneWorker DEF MessageStep
      <3>4. \A d \in Conns : /\ worker[d] # Gone => worker'[d] # Gone
                             /\ d \in LoggedIn => (d \in LoggedIn)'
        BY <1>3, <1>4, <3>2, <3>3, GoneIsNoWorker DEF MessageStep, LoginStep, OtherStep
      <3>5. CASE mail' = mail
        BY <1>5, <3>1, <3>4, <3>5 DEF MailFits
      <3>6. CASE mail[c] # <<>> /\ mail' = [mail EXCEPT ![c] = Tail(@)]
        <4>1. mail'[c] = Tail(mail[c]) /\ \A d \in Conns \ {c} : mail'[d] = mail[d]
          BY <1>1, <3>6
        <4>2. /\ Len(mail'[c]) = Len(mail[c]) - 1 /\ Len(mail[c]) \in Nat
              /\ \A i \in 1 .. Len(mail'[c]) : mail'[c][i] = mail[c][i + 1]
          BY <1>1, <3>6, <4>1, HeadTailProperties, LenProperties
        <4>3. \A i \in 1 .. Len(mail'[c]) : RequestFits(c, mail'[c][i])
          BY <1>2, <4>2
        <4>4. \A i \in 1 .. Len(mail'[c]) : RequestFits(c, mail[c][i])'
          BY <3>1, <3>4, <4>3 DEF RequestFits
        <4>5. worker'[c] # Gone
          BY <3>1, <3>4 DEF Live
        <4>6. \A d \in Conns \ {c} :
                /\ worker'[d] = Gone => mail'[d] = <<>>
                /\ \A i \in 1 .. Len(mail'[d]) : RequestFits(d, mail[d][i])'
          BY <1>5, <3>1, <3>4, <4>1
        <4>7. QED
          BY <4>4, <4>5, <4>6 DEF MailFits
      <3>7. QED
        BY <3>2, <3>5, <3>6 DEF MessageStep
    <2>6. ASSUME NEW c \in Conns, NEW p \in Pows,
                 \/ Duplicate(c, p) \/ Stale(c, p) \/ UnknownJob(c, p) \/ Mismatch(c, p)
                 \/ Accept(c, p)
          PROVE  MailFits'
      <3>1. UNCHANGED minerVars /\ c \in Live /\ \E w \in WorkerType : ShareStep(c, p, w)
        BY <2>6, ShareSteps DEF LoopType
      <3>2. PICK w \in WorkerType : ShareStep(c, p, w)
        BY <3>1
      <3>3. worker'[c] = w /\ \A d \in Conns \ {c} : worker'[d] = worker[d]
        BY <3>2, OneWorker DEF ShareStep
      <3>4. \A d \in Conns : /\ worker[d] # Gone => worker'[d] # Gone
                             /\ d \in LoggedIn => (d \in LoggedIn)'
        BY <1>3, <1>4, <3>2, <3>3, GoneIsNoWorker DEF ShareStep
      <3>5. QED
        BY <1>5, <3>1, <3>4 DEF MailFits, minerVars
    <2>7. CASE NewJob
      BY <1>7, <2>7 DEF NewJob, LoopType, LoggedIn
    <2>8. CASE SendJobs
      <3>1. Serve({c \in LoggedIn : worker[c].needs_job}, job) /\ mail' = mail
        BY <2>8 DEF SendJobs
      <3>2. QED
        BY <1>7, <3>1 DEF LoopType, LoggedIn
    <2>9. CASE CleanWorkers
      <3> DEFINE dead == {c \in Live : worker[c].error}
      <3>1. /\ worker' = [c \in Conns |-> IF c \in dead THEN Gone ELSE worker[c]]
            /\ mail' = [c \in Conns |-> IF c \in dead THEN <<>> ELSE mail[c]]
            /\ known' = known /\ dead \in SUBSET Live
        BY <2>9 DEF CleanWorkers
      <3> HIDE DEF dead
      <3>2. \A c \in Conns \cap dead :
              /\ worker'[c] = Gone => mail'[c] = <<>>
              /\ \A i \in 1 .. Len(mail'[c]) : RequestFits(c, mail[c][i])'
        BY <3>1
      <3>3. \A c \in Conns \ dead : worker'[c] = worker[c] /\ mail'[c] = mail[c]
        BY <3>1
      <3>4. \A c \in Conns \ dead : c \in LoggedIn => (c \in LoggedIn)'
        BY <1>3, <1>4, <3>3
      <3>5. \A c \in Conns \ dead :
              /\ worker'[c] = Gone => mail'[c] = <<>>
              /\ \A i \in 1 .. Len(mail'[c]) : RequestFits(c, mail[c][i])'
        BY <1>5, <3>1, <3>3, <3>4
      <3>6. QED
        BY <3>2, <3>5 DEF MailFits
    <2>10. QED
      BY <1>8, <2>1, <2>2, <2>3, <2>4, <2>5, <2>6, <2>7, <2>8, <2>9, NextCases
  <1>9. CASE UNCHANGED vars
    BY <1>6, <1>9 DEF vars, minerVars
  <1>10. QED
    BY <1>8, <1>9

(* A worker that is served gets the answer it waits for. *)
LEMMA ServePace ==
  ASSUME TypeOK, NEW S \in SUBSET Live, NEW t \in Templates \cup {NoTemplate}, Serve(S, t),
         NEW c \in S, ~worker[c].crossed
  PROVE  /\ ~worker'[c].requested_job
         /\ worker'[c].share = worker[c].share
         /\ Quiet(worker[c]) \/ Waiting(worker[c]) =>
              Quiet(worker'[c]) /\ ~worker'[c].crossed
         /\ Dying(worker[c]) => Dying(worker'[c]) /\ ~worker'[c].crossed
  <1>1. PICK failed \in SUBSET (S \ open) :
          worker' = [d \in Conns |->
                      IF d \in S
                        THEN [SendJob(Reset(worker[d], t.height), t) EXCEPT
                                !.error = @ \/ d \in failed]
                        ELSE worker[d]]
    BY DEF Serve
  <1> DEFINE r == Reset(worker[c], t.height)
             v == SendJob(r, t)
             b == c \in failed
  <1>2. c \in Conns /\ worker[c] \in WorkerType
    BY LiveWorkers DEF TypeOK, Live
  <1>3. t.height \in Heights \cup {0}
    BY DEF Templates, NoTemplate
  <1>4. /\ r \in WorkerType /\ r.requested_job = worker[c].requested_job
        /\ r.error = worker[c].error /\ r.crossed = worker[c].crossed
        /\ r.request_ids = worker[c].request_ids /\ r.share = worker[c].share
    BY <1>2, <1>3, ResetFields
  <1>5. worker'[c] = [v EXCEPT !.error = @ \/ b] /\ b \in BOOLEAN
    BY <1>1, <1>2
  <1> HIDE DEF r, b
  <1>6. /\ v \in WorkerType /\ ~v.requested_job /\ v.error = r.error /\ v.share = r.share
        /\ ~r.requested_job => v.request_ids = r.request_ids /\ v.crossed = r.crossed
        /\ r.requested_job /\ r.request_ids = <<Request("getjobtemplate")>> =>
             v.request_ids = <<>> /\ (~r.crossed => ~v.crossed)
    BY <1>4, SendJobFields
  <1> HIDE DEF v
  <1> DEFINE w == [v EXCEPT !.error = @ \/ b]
  <1>7. /\ w.requested_job = v.requested_job /\ w.error = (v.error \/ b) /\ w.share = v.share
        /\ w.request_ids = v.request_ids /\ w.crossed = v.crossed
    BY <1>5, <1>6, OtherFields
  <1> HIDE DEF w
  <1>8. worker'[c] = w
    BY <1>5 DEF w
  <1>9. CASE Quiet(worker[c])
    BY <1>4, <1>6, <1>7, <1>8, <1>9 DEF Quiet, Waiting, Dying
  <1>10. CASE Waiting(worker[c])
    BY <1>4, <1>6, <1>7, <1>8, <1>10 DEF Quiet, Waiting, Dying
  <1>11. CASE Dying(worker[c])
    BY <1>4, <1>6, <1>7, <1>8, <1>11 DEF Quiet, Waiting, Dying
  <1>12. ~worker'[c].requested_job /\ worker'[c].share = worker[c].share
    BY <1>4, <1>6, <1>7, <1>8
  <1>13. QED
    BY <1>9, <1>10, <1>11, <1>12

(* A worker with nothing to answer reads one request. *)
LEMMA MessagePace ==
  ASSUME TypeOK, MailFits, NEW c \in Live, WorkerMessage(c), Quiet(worker[c]),
         ~worker[c].crossed
  PROVE  \E w \in WorkerType :
           /\ worker' = [worker EXCEPT ![c] = w] /\ ~w.crossed
           /\ Settled(w) \/ Sharing(c, w)
  <1> DEFINE r == Head(mail[c])
             S == [kind : Kinds, pow : Pows \cup {NoPow}]
  <1>1. worker[c] \in WorkerType /\ c \in Conns
    BY LiveWorkers DEF TypeOK, Live
  <1>2. mail[c] \in Seq(S)
    BY <1>1 DEF TypeOK, MinerType
  <1>3. ASSUME mail[c] # <<>>
        PROVE  r \in S /\ RequestFits(c, r)
    <2> HIDE DEF S
    <2>1. r = mail[c][1] /\ 1 \in 1 .. Len(mail[c]) /\ r \in S
      BY <1>2, <1>3, EmptySeq, HeadTailProperties
    <2>2. QED
      BY <1>1, <2>1 DEF MailFits
  <1>4. ASSUME mail[c] # <<>>
        PROVE  /\ Queued(c) \in WorkerType /\ Queued(c).request_ids = <<r>>
               /\ Queued(c).requested_job = FALSE /\ Queued(c).share = NoPow
               /\ Queued(c).crossed = FALSE
               /\ Queued(c).authenticated = worker[c].authenticated
    <2>1. /\ Queued(c) \in WorkerType
          /\ Queued(c).authenticated = worker[c].authenticated
          /\ Queued(c).requested_job = worker[c].requested_job
          /\ Queued(c).crossed = worker[c].crossed
          /\ Queued(c).share = worker[c].share
          /\ Queued(c).request_ids = Append(worker[c].request_ids, r)
      BY <1>4, QueuedFields
    <2>2. Append(<<>>, r) = <<r>>
      OBVIOUS
    <2>3. worker[c].requested_job \in BOOLEAN /\ worker[c].crossed \in BOOLEAN
      BY <1>1 DEF WorkerType
    <2>4. QED
      BY <2>1, <2>2, <2>3 DEF Quiet
  <1>5. ASSUME NEW v \in WorkerType, v.request_ids = <<r>>, v.requested_job = FALSE,
               v.share = NoPow, v.crossed = FALSE
        PROVE  Quiet(Reply(v, r)) /\ ~Reply(v, r).crossed /\ Reply(v, r) \in WorkerType
    BY <1>5, ReplyFields DEF Quiet
  <1>6. CASE NoMessage(c)
    <2> DEFINE w == [worker[c] EXCEPT !.error = @ \/ c \notin open]
    <2>1. /\ w \in WorkerType /\ w.request_ids = worker[c].request_ids
          /\ w.requested_job = worker[c].requested_job /\ w.share = worker[c].share
          /\ w.crossed = worker[c].crossed
      BY <1>1 DEF WorkerType
    <2>2. worker' = [worker EXCEPT ![c] = w]
      BY <1>1, <1>6 DEF NoMessage, TypeOK, LoopType
    <2> HIDE DEF w
    <2>3. QED
      BY <2>1, <2>2 DEF Settled, Quiet
  <1>7. ASSUME NEW u \in Users, Login(c, u)
        PROVE  \E w \in WorkerType :
                 worker' = [worker EXCEPT ![c] = w] /\ ~w.crossed /\ Quiet(w)
    <2>1. mail[c] # <<>> /\ r = Request("login")
      BY <1>3, <1>7 DEF Login, Reads, RequestFits
    <2> DEFINE v == [Queued(c) EXCEPT !.user = u, !.authenticated = TRUE, !.needs_job = FALSE]
               x == Reply(v, Request("login"))
               w == Reset(x, job.height)
    <2>2. /\ v \in WorkerType /\ v.request_ids = <<r>> /\ v.requested_job = FALSE
          /\ v.share = NoPow /\ v.crossed = FALSE
      BY <1>4, <2>1 DEF WorkerType
    <2>3. worker' = [worker EXCEPT ![c] = w]
      BY <1>7 DEF Login, Handle
    <2>4. job.height \in Heights \cup {0}
      BY DEF TypeOK, LoopType, Templates, NoTemplate
    <2> HIDE DEF v
    <2>5. Quiet(x) /\ ~x.crossed /\ x \in WorkerType
      BY <1>5, <2>1, <2>2
    <2> HIDE DEF x
    <2>6. /\ w \in WorkerType /\ w.request_ids = x.request_ids /\ w.crossed = x.crossed
          /\ w.requested_job = x.requested_job /\ w.share = x.share
      BY <2>4, <2>5, ResetFields
    <2>7. QED
      BY <2>3, <2>5, <2>6 DEF Quiet
  <1>8. ASSUME LoginFails(c)
        PROVE  \E w \in WorkerType :
                 worker' = [worker EXCEPT ![c] = w] /\ ~w.crossed /\ Quiet(w)
    <2>1. mail[c] # <<>> /\ r = Request("login")
      BY <1>3, <1>8 DEF LoginFails, Reads, RequestFits
    <2> DEFINE v == [Queued(c) EXCEPT !.error = TRUE]
    <2>2. /\ v \in WorkerType /\ v.request_ids = <<r>> /\ v.requested_job = FALSE
          /\ v.share = NoPow /\ v.crossed = FALSE
      BY <1>4, <2>1 DEF WorkerType
    <2>3. worker' = [worker EXCEPT ![c] = Reply(v, r)]
      BY <1>8, <2>1 DEF LoginFails, Handle
    <2> HIDE DEF v
    <2>4. QED
      BY <1>5, <2>2, <2>3
  <1>9. ASSUME LoginAgain(c) \/ KeepAlive(c)
        PROVE  \E w \in WorkerType :
                 worker' = [worker EXCEPT ![c] = w] /\ ~w.crossed /\ Quiet(w)
    <2>1. mail[c] # <<>>
      BY <1>9 DEF LoginAgain, KeepAlive, Reads
    <2>2. worker' = [worker EXCEPT ![c] = Reply(Queued(c), r)]
      <3>1. CASE LoginAgain(c)
        <4>1. r = Request("login")
          BY <1>3, <2>1, <3>1 DEF LoginAgain, Reads, RequestFits
        <4>2. QED
          BY <3>1, <4>1 DEF LoginAgain, Handle
      <3>2. CASE KeepAlive(c)
        <4>1. r = Request("keepalive")
          BY <1>3, <2>1, <3>2 DEF KeepAlive, Reads, RequestFits
        <4>2. QED
          BY <3>2, <4>1 DEF KeepAlive, Handle
      <3>3. QED
        BY <1>9, <3>1, <3>2
    <2>3. QED
      BY <1>4, <1>5, <2>1, <2>2
  <1>10. ASSUME GetJobTemplate(c)
         PROVE  \E w \in WorkerType :
                  worker' = [worker EXCEPT ![c] = w] /\ ~w.crossed /\ Waiting(w)
    <2>1. mail[c] # <<>> /\ r = Request("getjobtemplate") /\ c \in LoggedIn
      BY <1>3, <1>10 DEF GetJobTemplate, Reads, RequestFits
    <2> DEFINE w == [Queued(c) EXCEPT !.needs_job = TRUE, !.requested_job = TRUE]
    <2>2. /\ w \in WorkerType /\ w.request_ids = Queued(c).request_ids /\ w.requested_job = TRUE
          /\ w.share = Queued(c).share /\ w.crossed = Queued(c).crossed /\ w.needs_job = TRUE
          /\ w.authenticated = Queued(c).authenticated
      BY <1>4, <2>1 DEF WorkerType
    <2>3. worker' = [worker EXCEPT ![c] = w]
      BY <1>10 DEF GetJobTemplate, Handle
    <2>4. worker[c].authenticated
      BY <2>1 DEF LoggedIn
    <2> HIDE DEF w
    <2>5. QED
      BY <1>4, <2>1, <2>2, <2>3, <2>4 DEF Waiting
  <1>11. ASSUME Submit(c)
         PROVE  \E w \in WorkerType :
                  worker' = [worker EXCEPT ![c] = w] /\ ~w.crossed /\ Sharing(c, w)
    <2>1. /\ mail[c] # <<>> /\ r = Submission(r.pow) /\ r.pow \in Pows
          /\ r.pow.pre_pow \in known[c]
      BY <1>3, <1>11 DEF Submit, Reads, RequestFits
    <2> DEFINE p == r.pow
               w == [Queued(c) EXCEPT !.share = p]
    <2>2. worker' = [worker EXCEPT ![c] = w]
      BY <1>11 DEF Submit, Handle
    <2> HIDE DEF p
    <2>3. /\ w \in WorkerType /\ w.request_ids = Queued(c).request_ids
          /\ w.requested_job = Queued(c).requested_job
          /\ w.share = p /\ w.crossed = Queued(c).crossed
      BY <1>4, <2>1 DEF WorkerType, p
    <2> HIDE DEF w
    <2>4. QED
      BY <1>4, <2>1, <2>2, <2>3 DEF Sharing, p
  <1>12. ASSUME BadRequest(c)
         PROVE  \E w \in WorkerType :
                  worker' = [worker EXCEPT ![c] = w] /\ ~w.crossed /\ Dying(w)
    <2>1. mail[c] # <<>>
      BY <1>12 DEF BadRequest, Reads
    <2> DEFINE w == [Queued(c) EXCEPT !.error = TRUE]
    <2>2. /\ w \in WorkerType /\ w.error = TRUE /\ w.requested_job = Queued(c).requested_job
          /\ w.share = Queued(c).share /\ w.crossed = Queued(c).crossed
      BY <1>4, <2>1 DEF WorkerType
    <2>3. worker' = [worker EXCEPT ![c] = w]
      BY <1>12 DEF BadRequest, Handle
    <2> HIDE DEF w
    <2>4. QED
      BY <1>4, <2>1, <2>2, <2>3 DEF Dying
  <1>13. QED
    BY <1>6, <1>7, <1>8, <1>9, <1>10, <1>11, <1>12 DEF WorkerMessage, Settled

(* A share that is judged is answered: its job is on the list. *)
LEMMA SharePace ==
  ASSUME Fits, VersionsKept, NEW c \in Conns, NEW p \in Pows, Sharing(c, worker[c]),
         ~worker[c].crossed, c \in Live,
         \/ Duplicate(c, p) \/ Stale(c, p) \/ UnknownJob(c, p) \/ Mismatch(c, p)
         \/ Accept(c, p)
  PROVE  \E w \in WorkerType :
           worker' = [worker EXCEPT ![c] = w] /\ ~w.crossed /\ Quiet(w)
  <1> USE DEF Fits, TypeOK
  <1>1. worker[c] \in WorkerType
    BY LiveWorkers
  <1>2. worker[c].share = p
    BY DEF Duplicate, Stale, UnknownJob, Mismatch, Accept, Judging
  <1>3. worker[c].request_ids = <<Submission(p)>> /\ ~worker[c].requested_job
    BY <1>2 DEF Sharing
  <1>4. ~UnknownJob(c, p)
    BY <1>2 DEF UnknownJob, Sharing, VersionsKept, Template
  <1>5. ASSUME NEW v \in WorkerType, v.request_ids = <<Submission(p)>>, ~v.requested_job,
               ~v.crossed, Judge(c, p, Reply(v, Submission(p)))
        PROVE  \E w \in WorkerType :
                 worker' = [worker EXCEPT ![c] = w] /\ ~w.crossed /\ Quiet(w)
    <2> DEFINE x == Reply(v, Submission(p))
               w == [x EXCEPT !.share = NoPow]
    <2>1. x \in WorkerType /\ x.request_ids = <<>> /\ ~x.requested_job /\ ~x.crossed
      BY <1>5, ReplyFields
    <2> HIDE DEF x
    <2>2. /\ w \in WorkerType /\ w.request_ids = x.request_ids /\ w.share = NoPow
          /\ w.requested_job = x.requested_job /\ w.crossed = x.crossed
      BY <2>1, OtherFields
    <2>3. worker' = [worker EXCEPT ![c] = w]
      BY <1>5 DEF Judge, x
    <2> HIDE DEF w
    <2>4. QED
      BY <2>1, <2>2, <2>3 DEF Quiet
  <1>6. CASE Duplicate(c, p) \/ Stale(c, p) \/ Mismatch(c, p)
    BY <1>1, <1>3, <1>5, <1>6 DEF Duplicate, Stale, Mismatch, Refused
  <1>7. CASE Accept(c, p)
    <2> DEFINE v == [worker[c] EXCEPT !.shares.accepted = @ \cup {p}]
    <2>1. /\ v \in WorkerType /\ v.request_ids = worker[c].request_ids
          /\ v.requested_job = worker[c].requested_job /\ v.crossed = worker[c].crossed
      BY <1>1 DEF WorkerType
    <2>2. Judge(c, p, Reply(v, Submission(p)))
      BY <1>7 DEF Accept
    <2> HIDE DEF v
    <2>3. QED
      BY <1>3, <1>5, <2>1, <2>2
  <1>8. QED
    BY <1>4, <1>6, <1>7

(* The loop answers every worker before it turns to the next round. *)
LEMMA PaceNext ==
  ASSUME Fits, VersionsKept, MailFits, PaceFits, [Next]_vars
  PROVE  PaceFits'
  <1> USE DEF Fits, TypeOK
  <1>1. \A c \in Live : c \in Conns /\ worker[c] \in WorkerType
    BY LiveWorkers DEF Live
  <1>2. ASSUME UNCHANGED <<worker, phase, todo, known>>
        PROVE  PaceFits'
    <2>1. Live' = Live
      BY <1>2 DEF Live
    <2>2. QED
      BY <1>2, <2>1 DEF PaceFits, Quiet, Settled, Waiting, Dying, Sharing
  <1>3. ASSUME NEW c \in Live, NEW w \in WorkerType, worker' = [worker EXCEPT ![c] = w],
               known' = known
        PROVE  /\ worker'[c] = w /\ \A d \in Live \ {c} : worker'[d] = worker[d]
               /\ Live' = Live
    <2>1. /\ worker'[c] = w /\ \A d \in Conns \ {c} : worker'[d] = worker[d]
          /\ Live' = Live \cup {c}
      BY <1>1, <1>3, OneWorker
    <2>2. QED
      BY <1>1, <2>1
  <1>4. CASE Next
    <2>1. CASE NewTemplate \/ Restart \/ Connect
      BY <1>2, <2>1 DEF NewTemplate, Restart, Connect, minerVars
    <2>2. ASSUME NEW c \in Conns, HangUp(c) \/ Send(c)
          PROVE  PaceFits'
      BY <1>2, <2>2 DEF HangUp, Send
    <2>3. ASSUME NEW c \in Conns, Open(c)
          PROVE  PaceFits'
      <3>1. /\ NewWorker \in WorkerType /\ Quiet(NewWorker) /\ ~NewWorker.crossed
        BY DEF NewWorker, WorkerType, Quiet
      <3>2. /\ worker' = [worker EXCEPT ![c] = NewWorker] /\ c \notin Live
            /\ UNCHANGED <<phase, todo, known>>
        BY <2>3 DEF Open, Live
      <3>3. /\ worker'[c] = NewWorker /\ \A d \in Conns \ {c} : worker'[d] = worker[d]
            /\ Live' = Live \cup {c}
        BY <3>1, <3>2, OneWorker
      <3>4. c \notin todo
        BY <3>2 DEF LoopType
      <3>5. \A d \in Live : worker'[d] = worker[d]
        BY <1>1, <3>2, <3>3
      <3>6. QED
        BY <3>1, <3>2, <3>3, <3>4, <3>5
        DEF PaceFits, Quiet, Settled, Waiting, Dying, Sharing
    <2>4. CASE ReadServer
      <3>1. UNCHANGED <<worker, known>> /\ phase = "server" /\ phase' = "job"
        BY <2>4 DEF ReadServer, minerVars
      <3>2. Live' = Live
        BY <3>1 DEF Live
      <3>3. QED
        BY <3>1, <3>2 DEF PaceFits, Quiet
    <2>5. CASE SameJob
      <3>1. UNCHANGED <<worker, known>> /\ phase = "job" /\ phase' = "messages"
        BY <2>5 DEF SameJob, minerVars
      <3>2. Live' = Live
        BY <3>1 DEF Live
      <3>3. QED
        BY <3>1, <3>2 DEF PaceFits, Quiet, Settled, Waiting, Dying, Sharing
    <2>6. CASE NewJob
      <3>1. /\ Serve(LoggedIn, serverJob) /\ phase = "job" /\ phase' = "messages"
            /\ LoggedIn \in SUBSET Live
        BY <2>6 DEF NewJob, LoggedIn
      <3>2. \A c \in Live : ~worker[c].crossed /\ Quiet(worker[c])
        BY <3>1 DEF PaceFits
      <3>3. Live' = Live /\ \A c \in Conns \ LoggedIn : worker'[c] = worker[c]
        BY <3>1, ServeSteps DEF LoopType
      <3>4. \A c \in LoggedIn : Quiet(worker'[c]) /\ ~worker'[c].crossed
        BY <3>1, <3>2, ServePace DEF LoopType
      <3>5. \A c \in Live : Quiet(worker'[c]) /\ ~worker'[c].crossed
        BY <1>1, <3>2, <3>3, <3>4
      <3>6. QED
        BY <3>1, <3>3, <3>5 DEF PaceFits, Quiet, Settled, Waiting, Dying, Sharing
    <2>7. ASSUME NEW c \in Conns, WorkerMessage(c)
          PROVE  PaceFits'
      <3>1. /\ c \in todo /\ c \in Live /\ phase = "messages" /\ phase' = phase
            /\ todo' = todo \ {c} /\ known' = known
        BY <2>7, MessageSteps DEF LoopType
      <3>2. Quiet(worker[c]) /\ ~worker[c].crossed
        BY <3>1 DEF PaceFits
      <3>3. PICK w \in WorkerType :
              /\ worker' = [worker EXCEPT ![c] = w] /\ ~w.crossed
              /\ Settled(w) \/ Sharing(c, w)
        BY <2>7, <3>1, <3>2, MessagePace
      <3>4. /\ worker'[c] = w /\ \A d \in Live \ {c} : worker'[d] = worker[d]
            /\ Live' = Live
        BY <1>3, <3>1, <3>3
      <3>5. QED
        BY <3>1, <3>3, <3>4 DEF PaceFits, Quiet, Settled, Waiting, Dying, Sharing
    <2>8. ASSUME NEW c \in Conns, NEW p \in Pows,
                 \/ Duplicate(c, p) \/ Stale(c, p) \/ UnknownJob(c, p) \/ Mismatch(c, p)
                 \/ Accept(c, p)
          PROVE  PaceFits'
      <3>1. /\ c \in todo /\ c \in Live /\ phase = "shares" /\ phase' = phase
            /\ todo' = todo \ {c} /\ known' = known
        BY <2>8, ShareSteps DEF LoopType, minerVars
      <3>2. Sharing(c, worker[c]) /\ ~worker[c].crossed
        BY <3>1 DEF PaceFits
      <3>3. PICK w \in WorkerType :
              worker' = [worker EXCEPT ![c] = w] /\ ~w.crossed /\ Quiet(w)
        BY <2>8, <3>1, <3>2, SharePace
      <3>4. /\ worker'[c] = w /\ \A d \in Live \ {c} : worker'[d] = worker[d]
            /\ Live' = Live
        BY <1>3, <3>1, <3>3
      <3>5. QED
        BY <3>1, <3>3, <3>4 DEF PaceFits, Quiet, Settled, Waiting, Dying, Sharing
    <2>9. CASE MessagesDone
      <3>1. /\ UNCHANGED <<worker, known>> /\ phase = "messages" /\ todo = {}
            /\ phase' = "shares" /\ todo' = {c \in Live : worker[c].share # NoPow}
        BY <2>9 DEF MessagesDone, minerVars
      <3>2. \A c \in Live : ~worker[c].crossed /\ (Settled(worker[c]) \/ Sharing(c, worker[c]))
        BY <3>1 DEF PaceFits, Settled
      <3>3. \A c \in Live : IF c \in todo' THEN Sharing(c, worker[c]) ELSE Settled(worker[c])
        BY <3>1, <3>2, NoPowIsNone DEF Settled, Quiet, Waiting, Dying, Sharing
      <3>4. Live' = Live
        BY <3>1 DEF Live
      <3>5. QED
        BY <3>1, <3>2, <3>3, <3>4 DEF PaceFits, Quiet, Settled, Waiting, Dying, Sharing
    <2>10. CASE SendJobs
      <3> DEFINE S == {c \in LoggedIn : worker[c].needs_job}
      <3>1. /\ Serve(S, job) /\ phase = "shares" /\ todo = {} /\ phase' = "clean"
            /\ S \in SUBSET Live
        BY <2>10 DEF SendJobs, LoggedIn
      <3>2. \A c \in Live : ~worker[c].crossed /\ Settled(worker[c])
        BY <3>1 DEF PaceFits
      <3>3. \A c \in Live \ S : Quiet(worker[c]) \/ Dying(worker[c])
        BY <3>2 DEF Settled, Waiting, LoggedIn
      <3> HIDE DEF S
      <3>4. Live' = Live /\ \A c \in Conns \ S : worker'[c] = worker[c]
        BY <3>1, ServeSteps DEF LoopType
      <3>5. \A c \in S :
              ~worker'[c].crossed /\ (Quiet(worker'[c]) \/ Dying(worker'[c]))
        BY <3>1, <3>2, ServePace DEF LoopType, Settled
      <3>6. \A c \in Live :
              ~worker'[c].crossed /\ (Quiet(worker'[c]) \/ Dying(worker'[c]))
        BY <1>1, <3>2, <3>3, <3>4, <3>5
      <3>7. QED
        BY <3>1, <3>4, <3>6 DEF PaceFits, Quiet, Dying
    <2>11. CASE CleanWorkers
      <3>1. /\ phase = "clean" /\ phase' = "server"
            /\ \A c \in Live' : c \in Live /\ worker'[c] = worker[c] /\ ~worker[c].error
        BY <2>11 DEF CleanWorkers, Live
      <3>2. \A c \in Live' : Quiet(worker[c]) /\ ~worker[c].crossed
        BY <3>1 DEF PaceFits, Dying
      <3>3. QED
        BY <3>1, <3>2 DEF PaceFits, Quiet
    <2>12. QED
      BY <1>4, <2>1, <2>2, <2>3, <2>4, <2>5, <2>6, <2>7, <2>8, <2>9, <2>10, <2>11, NextCases
  <1>5. CASE UNCHANGED vars
    BY <1>2, <1>5 DEF vars, minerVars
  <1>6. QED
    BY <1>4, <1>5

(* Every reply a miner gets carries the id of the request it answers       *)
(* (Worker.request_ids is a queue, and one reply takes its head), if miners *)
(* wait until they are logged in and the node never falls behind: then     *)
(* each round of the loop answers each miner before it reads on.           *)
THEOREM RepliesCarryTheirId ==
  ASSUME Patient, ~Falling
  PROVE  Spec => []RepliesMatch
  <1>1. Init => MailFits /\ PaceFits
    <2>1. SUFFICES ASSUME Init PROVE MailFits /\ PaceFits
      OBVIOUS
    <2>2. Live = {} /\ \A c \in Conns : mail[c] = <<>>
      BY <2>1 DEF Init, Live
    <2>3. QED
      BY <2>2 DEF MailFits, PaceFits
  <1>2. Fits /\ VersionsKept /\ MailFits /\ PaceFits /\ [Next]_vars => (MailFits /\ PaceFits)'
    BY MailNext, PaceNext
  <1>3. PaceFits => RepliesMatch
    BY DEF PaceFits, RepliesMatch
  <1>4. QED
    BY <1>1, <1>2, <1>3, AlwaysFits, AlwaysVersionsKept, PTL DEF Spec

=============================================================================
