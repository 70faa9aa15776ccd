------------------------------ MODULE Stratum -------------------------------
(***************************************************************************)
(* The stratum proxy (stratum/src/pool/pool.rs, worker.rs, server.rs): one *)
(* loop takes block templates from the node, hands them to the connected   *)
(* miners, checks the shares they send back, counts the good ones per      *)
(* miner and height, and prints the counts, which the pool's accounting    *)
(* reads from the log, whenever a miner is given another job.              *)
(*                                                                         *)
(* Miners and the node are external.  Both talk over connections that may  *)
(* break; the node may restart and number its templates anew.              *)
(***************************************************************************)
EXTENDS Integers, Sequences, FiniteSets

CONSTANTS
  Conns,         \* connections of miners
  Users,         \* accounts
  NoUser,        \* user id 0: not logged in
  Nonces,        \* solutions a miner may find for one template
  Kinds,         \* requests miners send
  MaxTemplates,  \* bound: templates the node makes
  FirstHeight,   \* height of its first one
  MaxRestarts,   \* bound: restarts of the node, or of the connection to it
  MaxHangUps,    \* bound: connections that break
  MaxMail,       \* bound: requests of a miner that are unread or unanswered
  Patient,       \* do miners wait until they are logged in?
  Falling        \* may the node be behind after a restart?

ASSUME ConstantsAssumption ==
  /\ IsFiniteSet(Conns) /\ NoUser \notin Users
  /\ Kinds \subseteq {"login", "getjobtemplate", "submit", "keepalive", "other"}
  /\ MaxTemplates \in Nat \ {0} /\ MaxRestarts \in Nat /\ MaxHangUps \in Nat
  /\ MaxMail \in Nat
  /\ FirstHeight \in Nat /\ FirstHeight > 2 * MaxTemplates
  /\ Patient \in BOOLEAN /\ Falling \in BOOLEAN

(* The pre_pow of a template; 0 is the empty one the proxy starts with.    *)
PrePows == 1 .. MaxTemplates
Heights == FirstHeight - MaxTemplates .. FirstHeight + MaxTemplates
Templates == [height : Heights, job_id : 0 .. MaxTemplates, pre_pow : PrePows]
NoTemplate == [height |-> 0, job_id |-> 0, pre_pow |-> 0]

Pows == [pre_pow : PrePows, nonce : Nonces]
NoPow == [pre_pow |-> 0, nonce |-> 0]

Request(kind) == [kind |-> kind, pow |-> NoPow]
Submission(p) == [kind |-> "submit", pow |-> p]

VARIABLES
  \* the node and the proxy's connection to it
  node,        \* its newest template
  issued,      \* [PrePows -> template]: all it has made
  link,        \* "down", "up", or "broken" and not noticed
  feed,        \* its messages to the proxy
  restarts,    \* of the node, so far
  \* the proxy
  phase,       \* where its loop is
  todo,        \* workers the current part of the loop has yet to look at
  serverJob,   \* server.job
  job,         \* pool.job, its job_id not yet prefixed with the height
  versions,    \* job_versions: [job id -> pre_pow], 0 where there is none
  duplicates,  \* solutions seen at this height
  worker,      \* [Conns -> worker record, or Gone]
  submitted,   \* solutions sent to the node
  \* the miners
  open,        \* connections a miner has open
  hangups,     \* broken connections so far
  mail,        \* [Conns -> Seq(request)]: sent and not read
  known,       \* [Conns -> SUBSET PrePows]: templates the miner has been sent
  \* history: how often a solution was counted, printed and dropped
  credited, logged, lost

nodeVars == <<node, issued, restarts>>
poolVars == <<serverJob, job, versions, duplicates>>
minerVars == <<open, hangups, mail, known>>
books == <<credited, logged, lost>>
vars == <<nodeVars, link, feed, phase, todo, poolVars, worker, submitted, minerVars, books>>

Phases == {"server", "job", "messages", "shares", "send", "clean"}

(* The job id miners see: new_job.height * 1000 + new_job.job_id. *)
JobId(t) == t.height * 1000 + t.job_id
JobIds == {JobId(t) : t \in [height : Heights, job_id : 0 .. MaxTemplates]}
NoVersions == [k \in JobIds |-> 0]

Gone == [gone |-> TRUE]
NewWorker == [user |-> NoUser, authenticated |-> FALSE, needs_job |-> FALSE,
              requested_job |-> FALSE, error |-> FALSE, request_ids |-> <<>>,
              share |-> NoPow, crossed |-> FALSE, has |-> NoTemplate,
              shares |-> [user |-> NoUser, height |-> 0, accepted |-> {}]]

Live == {c \in Conns : worker[c] # Gone}
Counted(c) == IF worker[c] = Gone THEN {} ELSE worker[c].shares.accepted
LoggedIn == {c \in Live : worker[c].authenticated}

Nothing == [p \in Pows |-> 0]

Init ==
  /\ node = [height |-> FirstHeight, job_id |-> 0, pre_pow |-> 1]
  /\ issued = [x \in PrePows |-> IF x = 1 THEN node ELSE NoTemplate]
  /\ link = "down" /\ feed = <<>> /\ restarts = 0
  /\ phase = "server" /\ todo = {}
  /\ serverJob = NoTemplate /\ job = NoTemplate
  /\ versions = NoVersions /\ duplicates = {}
  /\ worker = [c \in Conns |-> Gone]
  /\ submitted = {}
  /\ open = {} /\ hangups = 0
  /\ mail = [c \in Conns |-> <<>>]
  /\ known = [c \in Conns |-> {}]
  /\ credited = Nothing /\ logged = Nothing /\ lost = Nothing

-----------------------------------------------------------------------------
(* The node *)

Issue(t) ==
  /\ node' = t
  /\ issued' = [issued EXCEPT ![t.pre_pow] = t]

(* New transactions for the same height, or a new block. *)
NewTemplate ==
  /\ node.pre_pow < MaxTemplates
  /\ \/ Issue([node EXCEPT !.pre_pow = @ + 1, !.job_id = @ + 1])
     \/ Issue([height |-> node.height + 1, job_id |-> 0, pre_pow |-> node.pre_pow + 1])
  /\ feed' = IF link = "up" THEN Append(feed, node') ELSE feed
  /\ UNCHANGED <<restarts, link, phase, todo, poolVars, worker, submitted, minerVars, books>>

(* The node restarts, or another one takes its place, or only the          *)
(* connection breaks.                                                      *)
Restart ==
  /\ restarts < MaxRestarts
  /\ restarts' = restarts + 1
  /\ \/ UNCHANGED <<node, issued>>
     \/ /\ node.pre_pow < MaxTemplates
        /\ \E h \in {node.height} \cup (IF Falling THEN {node.height - 1} ELSE {}) :
             Issue([height |-> h, job_id |-> 0, pre_pow |-> node.pre_pow + 1])
  /\ link' = IF link = "up" THEN "broken" ELSE link
  /\ UNCHANGED <<feed, phase, todo, poolVars, worker, submitted, minerVars, books>>

-----------------------------------------------------------------------------
(* The miners, and the thread that accepts their connections *)

Open(c) ==
  /\ worker[c] = Gone
  /\ worker' = [worker EXCEPT ![c] = NewWorker]
  /\ open' = open \cup {c}
  /\ UNCHANGED <<nodeVars, link, feed, phase, todo, poolVars, submitted, hangups, mail,
                 known, books>>

HangUp(c) ==
  /\ c \in open /\ hangups < MaxHangUps
  /\ open' = open \ {c} /\ hangups' = hangups + 1
  /\ UNCHANGED <<nodeVars, link, feed, phase, todo, poolVars, worker, submitted, mail,
                 known, books>>

(* A share names the height and the job of a template the miner was sent,  *)
(* on this connection or an earlier one.                                   *)
Send(c) ==
  /\ c \in open
  /\ Len(mail[c]) + Len(worker[c].request_ids) < MaxMail
  /\ \E r \in {Request(k) : k \in Kinds \ {"submit"}}
               \cup {Submission(p) : p \in {q \in Pows : q.pre_pow \in known[c]}} :
       /\ r.kind \in Kinds
       /\ Patient => r.kind = "login" \/ worker[c].authenticated
       /\ mail' = [mail EXCEPT ![c] = Append(@, r)]
  /\ UNCHANGED <<nodeVars, link, feed, phase, todo, poolVars, worker, submitted, open,
                 hangups, known, books>>

-----------------------------------------------------------------------------
(* Workers *)

(* A reply carries the id of the oldest unanswered request, or none.       *)
Reply(w, r) ==
  [w EXCEPT !.request_ids = IF @ = <<>> THEN <<>> ELSE Tail(@),
            !.crossed = @ \/ w.request_ids = <<>> \/ Head(w.request_ids) # r]

(* reset_worker_shares *)
Reset(w, height) ==
  [w EXCEPT !.shares = [user |-> w.user, height |-> height, accepted |-> {}]]

(* send_job; a job that was asked for is the reply to that request.        *)
SendJob(w, t) ==
  LET v == [w EXCEPT !.needs_job = FALSE, !.requested_job = FALSE, !.has = t] IN
  IF w.requested_job THEN Reply(v, Request("getjobtemplate")) ELSE v

Add(book, S) ==
  [p \in Pows |-> book[p] + Cardinality({c \in S : p \in Counted(c)})]

(* Faulty: the counts are reset before they are printed. *)
FaultyServe(S, t) ==
  /\ \E failed \in SUBSET (S \ open) :
       worker' = [c \in Conns |->
                   IF c \in S
                     THEN [SendJob(Reset(worker[c], t.height), t) EXCEPT
                             !.error = @ \/ c \in failed]
                     ELSE worker[c]]
  /\ known' = [c \in Conns |-> IF c \in S THEN known[c] \cup ({t.pre_pow} \ {0})
                                          ELSE known[c]]
  /\ UNCHANGED <<logged, credited, lost>>

(* Print and reset the counts of some workers and send them a job.  Where  *)
(* the connection is broken, the send may fail.                            *)
Serve(S, t) ==
  /\ \E failed \in SUBSET (S \ open) :
       worker' = [c \in Conns |->
                   IF c \in S
                     THEN [SendJob(Reset(worker[c], t.height), t) EXCEPT
                             !.error = @ \/ c \in failed]
                     ELSE worker[c]]
  /\ known' = [c \in Conns |-> IF c \in S THEN known[c] \cup ({t.pre_pow} \ {0})
                                          ELSE known[c]]
  /\ logged' = Add(logged, S)
  /\ UNCHANGED <<credited, lost>>

-----------------------------------------------------------------------------
(* The loop: the node's messages *)

(* connect: it also asks for a template, in vain from a node that is still *)
(* syncing.  While it fails, the whole loop waits.                         *)
Connect ==
  /\ phase = "server" /\ link = "down"
  /\ link' = "up"
  /\ feed' \in {<<>>, <<node>>}
  /\ UNCHANGED <<nodeVars, phase, todo, poolVars, worker, submitted, minerVars, books>>

(* process_server_messages: at most one; none left on a broken connection  *)
(* is an error.                                                            *)
ReadServer ==
  /\ phase = "server" /\ link # "down"
  /\ phase' = "job"
  /\ IF feed = <<>>
       THEN /\ link' = IF link = "broken" THEN "down" ELSE link
            /\ UNCHANGED <<feed, serverJob>>
       ELSE /\ serverJob' = Head(feed) /\ feed' = Tail(feed)
            /\ UNCHANGED link
  /\ UNCHANGED <<nodeVars, todo, job, versions, duplicates, worker, submitted, minerVars,
                 books>>

(* accept_new_job *)
SameJob ==
  /\ phase = "job" /\ job.pre_pow = serverJob.pre_pow
  /\ phase' = "messages" /\ todo' = Live
  /\ UNCHANGED <<nodeVars, link, feed, poolVars, worker, submitted, minerVars, books>>

(* Faulty: only a new block is broadcast. *)
LazyNewJob ==
  /\ phase = "job" /\ job.pre_pow # serverJob.pre_pow
  /\ job' = serverJob
  /\ Serve(IF serverJob.height # job.height THEN LoggedIn ELSE {}, serverJob)
  /\ duplicates' = IF serverJob.height # job.height THEN {} ELSE duplicates
  /\ versions' = [IF serverJob.height # job.height THEN NoVersions ELSE versions
                    EXCEPT ![JobId(serverJob)] = serverJob.pre_pow]
  /\ phase' = "messages" /\ todo' = Live
  /\ UNCHANGED <<nodeVars, link, feed, serverJob, submitted, open, hangups, mail>>

NewJob ==
  /\ phase = "job" /\ job.pre_pow # serverJob.pre_pow
  /\ job' = serverJob
  /\ Serve(LoggedIn, serverJob)
  /\ duplicates' = IF serverJob.height # job.height THEN {} ELSE duplicates
  /\ versions' = [IF serverJob.height # job.height THEN NoVersions ELSE versions
                    EXCEPT ![JobId(serverJob)] = serverJob.pre_pow]
  /\ phase' = "messages" /\ todo' = Live
  /\ UNCHANGED <<nodeVars, link, feed, serverJob, submitted, open, hangups, mail>>

-----------------------------------------------------------------------------
(* The loop: one message of each worker *)

(* Faulty: the end of a connection passes for a lack of messages. *)
FaultyNoMessage(c) ==
  /\ phase = "messages" /\ c \in todo /\ mail[c] = <<>>
  /\ todo' = todo \ {c}
  /\ UNCHANGED <<nodeVars, link, feed, phase, poolVars, worker, submitted, minerVars, books>>

(* Nothing to read: not an error, unless the connection is at its end.     *)
NoMessage(c) ==
  /\ phase = "messages" /\ c \in todo /\ mail[c] = <<>>
  /\ todo' = todo \ {c}
  /\ worker' = [worker EXCEPT ![c].error = @ \/ c \notin open]
  /\ UNCHANGED <<nodeVars, link, feed, phase, poolVars, submitted, minerVars, books>>

(* The next request: its id joins the queue of ids; w is what becomes of   *)
(* the worker.                                                             *)
Queued(c) == [worker[c] EXCEPT !.request_ids = Append(@, Head(mail[c]))]
Reads(c, kind) ==
  phase = "messages" /\ c \in todo /\ mail[c] # <<>> /\ Head(mail[c]).kind = kind
Handle(c, w) ==
  /\ worker' = [worker EXCEPT ![c] = w]
  /\ mail' = [mail EXCEPT ![c] = Tail(@)]
  /\ todo' = todo \ {c}
  /\ UNCHANGED <<nodeVars, link, feed, phase, poolVars, submitted, open, hangups, known,
                 credited, logged>>

(* Faulty: the counts are not reset for the account. *)
FaultyLogin(c, u) ==
  /\ Reads(c, "login") /\ worker[c].user = NoUser
  /\ Handle(c, Reply([Queued(c) EXCEPT !.user = u, !.authenticated = TRUE,
                                       !.needs_job = FALSE],
                     Request("login")))
  /\ UNCHANGED lost

(* The miner's account is found.  Its id changes, and the counts of what   *)
(* it did before are dropped.                                              *)
Login(c, u) ==
  /\ Reads(c, "login") /\ worker[c].user = NoUser
  /\ Handle(c,
            Reset(Reply([Queued(c) EXCEPT !.user = u, !.authenticated = TRUE,
                                          !.needs_job = FALSE],
                        Request("login")),
                  job.height))
  /\ lost' = Add(lost, {c})

(* Unknown account, or redis is away. *)
LoginFails(c) ==
  /\ Reads(c, "login") /\ worker[c].user = NoUser
  /\ Handle(c, Reply([Queued(c) EXCEPT !.error = TRUE], Request("login")))
  /\ UNCHANGED lost

LoginAgain(c) ==
  /\ Reads(c, "login") /\ worker[c].user # NoUser
  /\ Handle(c, Reply(Queued(c), Request("login")))
  /\ UNCHANGED lost

GetJobTemplate(c) ==
  /\ Reads(c, "getjobtemplate")
  /\ Handle(c, [Queued(c) EXCEPT !.needs_job = TRUE, !.requested_job = TRUE])
  /\ UNCHANGED lost

Submit(c) ==
  /\ Reads(c, "submit")
  /\ Handle(c, [Queued(c) EXCEPT !.share = Head(mail[c]).pow])
  /\ UNCHANGED lost

(* keepalive; status is answered at once as well. *)
KeepAlive(c) ==
  /\ Reads(c, "keepalive")
  /\ Handle(c, Reply(Queued(c), Request("keepalive")))
  /\ UNCHANGED lost

(* Not a request the proxy knows: the worker is dropped. *)
BadRequest(c) ==
  /\ Reads(c, "other")
  /\ Handle(c, [Queued(c) EXCEPT !.error = TRUE])
  /\ UNCHANGED lost

MessagesDone ==
  /\ phase = "messages" /\ todo = {}
  /\ phase' = "shares" /\ todo' = {c \in Live : worker[c].share # NoPow}
  /\ UNCHANGED <<nodeVars, link, feed, poolVars, worker, submitted, minerVars, books>>

-----------------------------------------------------------------------------
(* The loop: the shares (process_shares) *)

Template(p) == issued[p.pre_pow]

(* The share p of c is judged; w is what becomes of the worker.            *)
Judging(c, p) == phase = "shares" /\ c \in todo /\ worker[c].share = p
(* Faulty: a judged share is not remembered. *)
FaultyJudge(c, p, w) ==
  /\ worker' = [worker EXCEPT ![c] = [w EXCEPT !.share = NoPow]]
  /\ todo' = todo \ {c}
  /\ UNCHANGED <<nodeVars, link, feed, phase, serverJob, job, versions, duplicates, minerVars,
                 logged, lost>>

Judge(c, p, w) ==
  /\ worker' = [worker EXCEPT ![c] = [w EXCEPT !.share = NoPow]]
  /\ todo' = todo \ {c}
  /\ duplicates' = duplicates \cup {p}
  /\ UNCHANGED <<nodeVars, link, feed, phase, serverJob, job, versions, minerVars, logged,
                 lost>>
Refused(c, p) ==
  /\ Judge(c, p, Reply(worker[c], Submission(p)))
  /\ UNCHANGED <<submitted, credited>>

Duplicate(c, p) == Judging(c, p) /\ p \in duplicates /\ Refused(c, p)

(* Faulty: the miner is not told. *)
FaultyStale(c, p) ==
  /\ Judging(c, p) /\ p \notin duplicates
  /\ Template(p).height # job.height
  /\ Judge(c, p, worker[c])
  /\ UNCHANGED <<submitted, credited>>

Stale(c, p) ==
  /\ Judging(c, p) /\ p \notin duplicates
  /\ Template(p).height # job.height
  /\ Refused(c, p)

(* No such job at this height: the miner gets no answer. *)
UnknownJob(c, p) ==
  /\ Judging(c, p) /\ p \notin duplicates
  /\ Template(p).height = job.height
  /\ versions[JobId(Template(p))] = 0
  /\ Judge(c, p, worker[c])
  /\ UNCHANGED <<submitted, credited>>

(* The solution does not solve the template kept for its job id.  Shares   *)
(* that are malformed or too easy are refused in the same way.             *)
Mismatch(c, p) ==
  /\ Judging(c, p) /\ p \notin duplicates
  /\ Template(p).height = job.height
  /\ versions[JobId(Template(p))] \notin {0, p.pre_pow}
  /\ Refused(c, p)

(* Faulty: the node is given the id the miners see. *)
FaultySolution(p) ==
  LET t == Template(p) IN
  [height |-> t.height, job_id |-> JobId(t), pre_pow |-> p.pre_pow]

(* What the node is given: its own job id, the prefix removed. *)
Solution(p) ==
  LET t == Template(p) IN
  [height |-> t.height, job_id |-> JobId(t) % t.height, pre_pow |-> p.pre_pow]

(* Counted, and given to the node if it is difficult enough.               *)
Accept(c, p) ==
  /\ Judging(c, p) /\ p \notin duplicates
  /\ Template(p).height = job.height
  /\ versions[JobId(Template(p))] = p.pre_pow
  /\ Judge(c, p, Reply([worker[c] EXCEPT !.shares.accepted = @ \cup {p}], Submission(p)))
  /\ credited' = [credited EXCEPT ![p] = @ + 1]
  /\ submitted' \in {submitted, submitted \cup {Solution(p)}}

-----------------------------------------------------------------------------
(* The loop: jobs for those who asked, and the end of the dead *)

(* Faulty: a worker that has the job is passed over. *)
FaultySendJobs ==
  /\ phase = "shares" /\ todo = {}
  /\ Serve({c \in LoggedIn : worker[c].needs_job /\ worker[c].has # job}, job)
  /\ phase' = "clean"
  /\ UNCHANGED <<nodeVars, link, feed, todo, poolVars, submitted, open, hangups, mail>>

SendJobs ==
  /\ phase = "shares" /\ todo = {}
  /\ Serve({c \in LoggedIn : worker[c].needs_job}, job)
  /\ phase' = "clean"
  /\ UNCHANGED <<nodeVars, link, feed, todo, poolVars, submitted, open, hangups, mail>>

CleanWorkers ==
  LET dead == {c \in Live : worker[c].error} IN
  /\ phase = "clean"
  /\ worker' = [c \in Conns |-> IF c \in dead THEN Gone ELSE worker[c]]
  /\ mail' = [c \in Conns |-> IF c \in dead THEN <<>> ELSE mail[c]]
  /\ open' = open \ dead
  /\ lost' = Add(lost, dead)
  /\ phase' = "server"
  /\ UNCHANGED <<nodeVars, link, feed, todo, poolVars, submitted, hangups, known, credited,
                 logged>>

-----------------------------------------------------------------------------
WorkerMessage(c) ==
  \/ NoMessage(c)
  \/ \E u \in Users : Login(c, u)
  \/ LoginFails(c) \/ LoginAgain(c) \/ GetJobTemplate(c) \/ Submit(c)
  \/ KeepAlive(c) \/ BadRequest(c)

WorkerShare(c) ==
  \E p \in Pows :
    Duplicate(c, p) \/ Stale(c, p) \/ UnknownJob(c, p) \/ Mismatch(c, p) \/ Accept(c, p)

Run ==
  \/ Connect \/ ReadServer \/ SameJob \/ NewJob
  \/ \E c \in Conns : WorkerMessage(c) \/ WorkerShare(c)
  \/ MessagesDone \/ SendJobs \/ CleanWorkers

Next ==
  \/ NewTemplate \/ Restart
  \/ \E c \in Conns : Open(c) \/ HangUp(c) \/ Send(c)
  \/ Run

Spec == Init /\ [][Next]_vars

(* The loop runs on, and the node can be reached again.  Nothing is        *)
(* assumed of the miners.                                                  *)
FairSpec == Spec /\ WF_vars(Run)

-----------------------------------------------------------------------------
(* Properties *)

WorkerType ==
  [user : Users \cup {NoUser}, authenticated : BOOLEAN, needs_job : BOOLEAN,
   requested_job : BOOLEAN, error : BOOLEAN, crossed : BOOLEAN,
   request_ids : Seq([kind : Kinds, pow : Pows \cup {NoPow}]),
   share : Pows \cup {NoPow}, has : Templates \cup {NoTemplate},
   shares : [user : Users \cup {NoUser}, height : Heights \cup {0},
             accepted : SUBSET Pows]]

NodeType ==
  /\ node \in Templates /\ issued \in [PrePows -> Templates \cup {NoTemplate}]
  /\ restarts \in 0 .. MaxRestarts

LoopType ==
  /\ link \in {"down", "up", "broken"} /\ feed \in Seq(Templates)
  /\ phase \in Phases /\ todo \subseteq Live
  /\ serverJob \in Templates \cup {NoTemplate} /\ job \in Templates \cup {NoTemplate}
  /\ versions \in [JobIds -> PrePows \cup {0}] /\ duplicates \subseteq Pows
  /\ worker \in [Conns -> WorkerType \cup {Gone}]
  /\ submitted \subseteq Templates

MinerType ==
  /\ open \subseteq Live /\ hangups \in 0 .. MaxHangUps
  /\ mail \in [Conns -> Seq([kind : Kinds, pow : Pows \cup {NoPow}])]
  /\ known \in [Conns -> SUBSET PrePows]

BookType ==
  credited \in [Pows -> Nat] /\ logged \in [Pows -> Nat] /\ lost \in [Pows -> Nat]

TypeOK == NodeType /\ LoopType /\ MinerType /\ BookType

(* A solution is counted at most once, whoever sends it and however often, *)
(* also when the node falls back and the list of those seen is emptied.    *)
CreditedOnce == \A p \in Pows : credited[p] <= 1

(* A counted solution is printed once, or is still to be printed by one    *)
(* worker, or went down with a worker that left or logged in.              *)
CountsConserved ==
  \A p \in Pows :
    credited[p] = logged[p] + lost[p] + Cardinality({c \in Live : p \in Counted(c)})

(* The counts to be printed for a miner that is logged in are under its    *)
(* account and the current height, and only of shares of that height.      *)
CountsFit ==
  \A c \in LoggedIn :
    LET s == worker[c].shares IN
    /\ s.user = worker[c].user
    /\ s.height = job.height
    /\ \A p \in s.accepted : Template(p).height = s.height

(* A miner that was given a job has the pool's newest one. *)
FreshJob ==
  \A c \in LoggedIn : worker[c].has \in {NoTemplate, job}

(* A solution is given to the node under the height and the job id the     *)
(* node gave its template.                                                 *)
SubmittedAsIssued == \A t \in submitted : t = issued[t.pre_pow]

(* Every reply carries the id of the request it answers. *)
RepliesMatch == \A c \in Live : ~worker[c].crossed

(* A miner that is logged in and asks for a job gets it.                   *)
Asking(c) == c \in LoggedIn /\ worker[c].needs_job
JobServed == \A c \in Conns : Asking(c) ~> ~Asking(c)

(* A miner that hung up is forgotten. *)
HungUpLeaves == \A c \in Conns : (c \in Live \ open) ~> (c \notin Live)

=============================================================================
