# Verification of the mugle pool

TLA+ models, TLC runs and TLAPS proofs for the mugle mining pool: a Rust
stratum proxy, Python jobs over MariaDB and redis, a payment API, the node and
wallet they drive, a query API in TypeScript and a web UI. Everything below
is about the code under `src/`; paths are relative to it.

## 1. The system

### Components

| component | code | state it keeps | operations |
|---|---|---|---|
| stratum proxy | `stratum/src/pool/{pool,worker,server,proto}.rs` | per connection: user id, request ids, counts since the last job; per pool: current job, job versions and seen solutions of the height; the connection to the node | accept, login, getjobtemplate, submit, keepalive, new template, broadcast, clean |
| log pipeline | `logstash/*.conf`, message queue | unacknowledged messages | turns log lines of the proxy and of the node into messages |
| share aggregation | `mugle-py/services/shareAggr.py`, `muglebase/model/worker_shares.py` | counters per height in redis, `worker_shares` | share message, pool block message, commit scheduler, rig data scheduler |
| block watcher and validator | `services/blockWatcher.py`, `blockValidator.py` | `blocks` | copy the node's chain, add what was missed, mark orphans |
| pool blocks | `services/poolblockUnlocker.py`, `muglebase/model/pool_blocks.py` | `pool_blocks.state` | unlock, expire, mark as orphan |
| rewards | `services/paymentMaker.py`, `muglelib/pool.py`, `muglebase/model/pool_{utxo,credits}.py` | `pool_utxo.amount`, `pool_credits` | share a block's reward among the miners of a window of heights |
| payouts | `muglelib/payments.py`, `api/payment_api.py`, `services/makePayouts.py`, `tidyWallet.py` | `pool_payment.state`, `pool_utxo.amount`; in the wallet: locked outputs, transactions | get_tx_slate, submit_tx_slate, http/https send, daily payouts; confirm, cancel, post again |
| statistics | `services/{poolStats,workerStats,mugleStats,statsValidator,paymentEstimator}.py`, `muglelib/*stats.py` | derived tables and caches | recompute per height |
| audits, tools | `services/{auditor,healthCheck}.py`, `utils/*.py` | - | reports; manual credit and refund |
| JavaScript query API | `mugle-js/api/code/src/{index,utils}.ts`, `routes/*.ts`, `entity/*.ts` | redis: answers by URL, heights, weights; `users` | 15 GET routes, two estimates, login, account creation, payments passed on |
| web UI | `mugle-js/webui/src/redux`, `containers`, `utils`, `app` | the redux store, the session, timers, requests in flight | 21 thunks, 14 components that start them, login, sign-out, payout |
| Python query API | `mugle-py/api/api.py` | - | reads; accounts |
| deployment | `kube/`, `docker-compose/`, `rmq/`, `nginx/`, ... | configuration | schedules, restarts |

### How they interact

1. A miner's share is judged by the proxy, which **prints** its counts per
   miner and height when it hands out another job. The log is the only link:
   logstash turns the lines into messages, `shareAggr` adds them to redis and
   later to `worker_shares`.
2. The node logs the solutions it accepts; such a line becomes a `pool_blocks`
   row. `poolblockUnlocker` (hourly) asks the node whether the block is still
   there. `paymentMaker` (hourly) divides the reward of unlocked blocks by the
   `worker_shares` of a window and adds it to `pool_utxo`.
3. Users, and `makePayouts` for them, turn a balance into a wallet
   transaction; `tidyWallet` (every hour) follows it until it is on the chain
   or refunds it. API threads, `makePayouts`, `tidyWallet` and `paymentMaker`
   all write `pool_utxo` rows, under row locks that are held across wallet
   calls.
4. The query API answers from the tables those jobs fill, each at its own pace,
   and keeps what it answered in redis for a while. The web UI polls it for the
   height of the chain; a new height makes every mounted component start its
   thunks again, and each answer is joined to what the thunk read of the store
   before it asked.

### What is hard in it

* Several processes write one balance, each as *value read earlier + change*;
  row locks, commits and the wallet's side effects are not atomic together.
* A process can die, and a wallet call can fail or lose its answer, between
  any two of these steps; nothing is rolled back in the wallet.
* `createDataObj` commits whatever its session holds, in the middle of what
  looks like a transaction.
* The chain near its tip changes while jobs look at it.
* Counting and paying are at-least-once on the way in (messages, shares sent
  twice) and must be at-most-once in effect.
* The query API is a chain of callbacks; an error in one of them is caught by
  nobody. Parts of one answer are cached one by one.
* The web UI's thunks read the store, wait, and write: two for one history
  overlap, answers come out of order, and users sign in and out meanwhile.
* Replies of the proxy are matched to requests by queue order alone; job ids
  are made from a height and a counter that a restarted node begins again.

`PROJECT.json` lists each hazard at its line, with the properties that watch it.

### What makes each part correct

* **Stratum proxy**: a good share is counted once and printed once, for the
  account and the height it was made for; what goes to the node is a solution
  of a template the node made; replies carry the id of their request; miners
  that ask get the newest job; connections that broke are dropped.
* **Share aggregation**: no acknowledged share is lost, unless its record waits
  in redis for an hour; without a failure none is counted twice; every share
  reaches `worker_shares`.
* **Pool blocks and rewards**: a block is unlocked only when it is on the chain
  and too deep to leave it; its reward is credited once to each miner, with
  one record of it; every block is decided.
* **Payouts**: credits = balance + unrefunded payouts; what is on the chain was
  charged and never refunded, except where a slate comes back while it is given
  up; the wallet locks nothing without a record; every payout is confirmed or
  refunded.
* **Statistics, caches**: equal to what the shares and blocks say; never
  written twice for a height.
* **JavaScript query API**: an answer, from the cache or not, is one its URL
  asks for; every request is answered.
* **Web UI**: a history shows no block twice, none out of order and lacks none
  without cause; one user's data is not shown to the next; account and session
  agree; a user's payouts go out one at a time; spinners end.
* **Validators, auditor**: after a pass, `blocks` is the chain. They write
  nothing else.
* **Operator tools**: like payouts, but without the row locks.
* **Node, wallet, broker, stores**: external; they are modelled by what their
  callers can see of them.

## 2. The modules

| module | models | composed with |
|---|---|---|
| `Ledger` | the abstract promise about money: credit, charge, settle, refund | - |
| `Payments` | payment API threads, `makePayouts`, `tidyWallet`, both tables, the wallet and the chain | implements `Ledger` (`L == INSTANCE Ledger WITH ...`) |
| `PoolBlocks` | `blockWatcher`, `addPoolBlock`, `poolblockUnlocker`, `paymentMaker`, a chain with reorganisations | its credits are `Payments!Credit` |
| `Stratum` | the proxy's loop, the miners, the node's connection | its `logged` counts are what `ShareAggr!Publish` takes up |
| `ShareAggr` | consumers, the share commit scheduler, redis, MariaDB, the broker | its rows are what the payout map in `PoolBlocks` is made from |
| `QueryApi` | the JavaScript query API and its cache | its `AnswersFit` is what `WebUI!Answers` takes for granted |
| `WebStore` | the store of the web UI: slices, reducers, dispatch | extended by `WebUI` |
| `WebUI` | thunks, components, pages, timers, the session, login and payment | its histories implement `Feed` (`Network`, `Pool`, `Miner == INSTANCE Feed WITH ...`) |
| `Feed` | the abstract promise about a history that grows at its upper end | - |
| `LedgerProofs`, `PaymentsProofs`, `PoolBlocksProofs`, `StratumProofs`, `ShareAggrProofs`, `QueryApiProofs`, `WebUIProofs`, `FeedProofs` | theorems | extend the eight |
| `MCPayments`, `MCPoolBlocks`, `MCStratum`, `MCShareAggr`, `MCQueryApi`, `MCWebUI` | small instances for TLC | extend the six |

A definition whose name begins with `Faulty` or `Lazy` is not part of a
specification. It is a variant of the definition below it with one slip, and
shows that the property checked beside it would notice.

### Payments

State: `utxo` and `state` are the columns `pool_utxo.amount` and
`pool_payment.state` as committed; `rowLock` the `SELECT ... FOR UPDATE` locks;
`tx`, `wallet`, `chain` what the wallet and the node hold; `job` where each
request or payout stands, `tidy` where `tidyWallet` stands, `flushed` the
records it set to "expired" in an open transaction.

A step runs from one point at which others can interfere to the next: a wallet
call, a wait for a row lock, a commit. The isolation level is READ COMMITTED
(`dbaccess/database.py:47`), so that the `refresh` after `FOR UPDATE` sees the
last commit.

| action | code |
|---|---|
| `StartSlate`, `InitSendTx`, `RecordSlate`, `LockOutputs` | `get_tx_slate`: balance under the lock, wallet slate, record and charge, lock outputs |
| `StartSubmit`, `Finalize`, `RecordPost`, `PostTx` | `submit_tx_slate` |
| `StartSend`, `PayoutSend`, `HttpSend`, `RecordSend` | `atomic_send`, from the API and from `makePayouts` |
| `...Fails`, `HttpSendLost`, `PayoutTooSmall`, `PayoutSkip`, `PayoutExit` | the `except` branches and what they leave locked |
| `TidyConfirm`, `TidyCancel`, `TidyFlush`, `TidyRefund`, `TidyRepost` | the parts of `tidyWallet`; the query for the row lock flushes the record first |
| `Deadlock`, `TidyLockTimeout` | what InnoDB does about `submit_tx_slate` and `cancel_tx_slate`, which take the two rows in opposite orders |
| `Crash`, `TidyCrash` | the process dies, the transaction is rolled back, the wallet is not |

`makePayouts` keeps a user's row locked after a refused payment until its next
commit or its end; the model does too (`Abandon`). A row of `tidyWallet`'s
list is not looked at again before it is changed. Abstracted: addresses and
methods, `failure_count` and back-off, totals, the number of tries in
`tidyWallet`. `paymentMaker`'s transaction over all miners of a block is one
`Credit` step per miner here; its detail is in `PoolBlocks`.

`late` is a history variable. `tidyWallet` gives a slate up when it has the
record on its list and the return time is past (`GivenUp`); a slate has been
returned once its submission is under way (`Returned`). A slate is in `late`
from the first step after which it is both. The three steps that can make it so
are the return, the passing of the return time and the making of the list;
`Meetings` is a conjunct of each.

### PoolBlocks

State: `node` (block at each height) and `tip`; `found` (log lines of our own
blocks), `seen` (the watcher's `blocks` rows), `record` (`pool_blocks`),
`credited`, `mapped` (`pool_credits`), `rows` (miners with a `pool_utxo` row);
`unlocker` and `maker` where the jobs stand; `pending` what `maker`'s open
transaction holds.

`UnlockStart` reads the tip, `UnlockCheck` asks the node about one block,
`UnlockCommit` writes all verdicts. `MakePayoutMap` marks a block as paid and
adds the `Pool_credits` record; `CreditWorker` credits a miner with a row;
`CreditNewWorker` creates the row, and `createDataObj` **commits** with it
whatever the session holds. Heights at most `tip - ReorgDepth` are final; the
lock time is assumed to be at least as deep, as `block_locktime` (30 in
`kube/`, 1441 in `services/config.ini`) is meant to be. Amounts are one unit per
miner and block.

### Stratum

State: `node`, `issued`, `link`, `feed` are the node and the connection to it;
`phase`, `todo` where the one loop of `Pool::run` is (server, job, messages,
shares and send, clean); `serverJob`, `job`, `versions`, `duplicates` are its
fields; `worker` the `Worker` records; `mail`, `known`, `open` the miners; and
`credited`, `logged`, `lost` how often a solution was counted, printed, or
dropped with a connection.

One message and one share of a worker is a step. The accepting thread only adds
to the map under a lock, and commutes with the loop (`Open`). Request ids are
abstracted to the request they belong to, so that a reply with the wrong id is
visible (`crossed`). A broken upstream connection is noticed when it is read;
a failing connect makes the whole loop wait, as in `Pool::run`. The proof of
work is a comparison: a solution fits the template it was made for.
`FirstHeight > 2 * MaxTemplates` keeps the remainder by the height, with which
the proxy restores the node's job id (`pool.rs:427`), meaningful; so it is for
every real chain height.

### ShareAggr

State: `published`, `ready`, `acked` at the broker; `work` the message each
consumer thread has in hand; `locked` is `SHARES_MUTEX` in the scheduler's
hands; `commit` where the scheduler is; `pending` its open transaction; `redis`
the records, `rows` and `shares` the tables `worker_shares` and `shares`. A
counter is written as *how often each part of a message was added to it*.

`AddPart` is one graph size of one message, read, added and written back under
the mutex. `CommitBegin` to `CommitEnd` is one run of `ShareCommitScheduler`:
`CreateRow` commits in the middle (`createDataObj` again), `CommitRecord` and
`DeleteKey` are two steps with room for a failure between them, `Filler` writes
the rows of heights without shares. Failures: the handler's exception
(`HandlerFails`, message back in the queue, counts perhaps already added), a
lost connection that the handler does not notice (`ConnectionLost`,
`AckFails`), redis or MariaDB out of reach during a run (`RedisFails`,
`CreateFails`, `DatabaseFails`), a killed process (`Crash`). A record of redis
expires an hour after it was written last (`shareAggr.py:69`, 173). `Expire`
lets it go where it can wait so long: with the mutex left locked (`Stuck`) at
any time, else, if `Stalls`, when a standstill of an hour is one of the faults.
`lapsed` keeps what was nowhere else when its record expired. A listed record
that is gone when its turn comes ends the run (`KeyGone`). Delivery is folded
into handling: with an unlimited prefetch, which message comes next is open
anyway.

### QueryApi

State: `tip`, `work`, `calc`, `won`, `accounts` are how far the tables `blocks`,
`worker_shares`, the statistics, `pool_blocks` and `users` have come; `cache` is
redis; `req` what each request under way has left to do, as a list of stages,
with what it holds in `res.locals` and in its variables; `out` the requests that
end in this step and how.

A stage runs from one `await` or callback to the next. `CacheMiddleware`,
`BearerMiddleware`, `checkAuth`, `sanitizeHeight`, `getLatestNetworkBlockHeight`
and so on are the functions of those names; `Query` is the one query of a plain
route, and the operators named after the routes (`networkStats`, `poolBlocks`,
`workerShares`, ...) say which rows it answers with. `CachedReward` to
`Resolves` are `getUserEstimatedRewardForBlock`, callback by callback;
`NewBlocks` to `Balance` the immature balance. `Fails` lets MariaDB, redis, the
password script or the payment API fail at any stage: in a `try` block the error
handler answers (`Guarded`), a promise nobody catches leaves the request open
(`Swallowed`), and an error in a cache callback leaves it open or ends the
process (`Uncaught`).

A reward is kept as what it was worked out from: its height and how far the two
tables had come. What rows count, and so what a reward comes to, is left out:
`Concludes` decides by the rows whether there is a reward to store, and where
there are rows leaves open whether they add up to anything.

### WebStore, WebUI

`WebStore` has one operator per reducer of `redux/reducers`, and `Dispatch`. A
row of a history is the account and the block it is about; a balance or total
is the account it belongs to.

`WebUI`: `store`; `session` and `expired` (`sessionStorage`); `page`; `calls`, the
bag of requests in flight, each with what its thunk read before the `await`;
`timers`; `tip`, the network's height. A thunk starts in the step that calls it
(`Started`) and ends in a `Land` step, where the operator of its name gives the
stores it can lead to, or in a `Fail` step. `Show` mounts the components of a
page, `Refreshes` are the thunks they start when the height changes, which
happens in the step of the answer to `getLatestBlock`. `Poll` is the interval of
30 seconds with its check of the expiry, `Begin` the constructor of
`MainWrapper`, `SignIn` to `SigningInFailed` the login page and `authActions.js`,
`ChoosePaymentType`, `ChooseTxSlate` and `SubmitPayout` the payment form.

What the API may answer is external to `WebUI`: any rows of those asked for, up
to any height it has come to, in the order of their heights.

Three history variables say what the code leaves open. `left` are the users
whose data came to the slices that a sign-out clears when it was not theirs to
see: by a late reply, or because another login replaced their account; a
sign-out takes them off again, unless a request in flight remembers their rows
(`Recalled`). `former` are these and all who signed out since the page was
loaded, whose data stay in the slices that no sign-out clears: the rigs have no
such case (`minerDataReducer.js:40`), and the list of payments returns on null
data before it comes to its own (287, 306). `unwaited` are the users with a
payout in flight for which the page does not wait any more: they signed out
while the flag was up, or the late answer to somebody else's payout lowered it.

`Feed` states what a history is for its reader: a request remembers the rows at
its start, an answer replaces the history by a tail of *those* and new rows on
top. That two requests overlap and the later answer throws away the earlier
one's rows is within the promise; that a block shows twice is not.

## 3. The runs

| run | question | bounds |
|---|---|---|
| `payments_ledger` | `TypeOK`; `LedgerBalanced`: credits = balance + unrefunded payouts; `SettledStays`: nothing brings back a finished payout; `ImplementsLedger`: every commit is a ledger step | 1 account, 2 slates, 2 API threads + payout job + tidy, late slates (of their own account, made in time), 1 crash |
| `payments_mined` | `MinedIsCharged`, `LockedIsRecorded`, and `HandedOver`, from which they follow; `CancelsUnlessLate`: tidyWallet cancels nothing that was posted; `EventuallySettled`; all of them for slates that are not in `late` (`LockedIsRecorded` for all) | 2 accounts, 1 payout under way at a time, 1 API thread + both jobs, late slates from either account, lock timeouts, hung calls, 1 crash |
| `payments_late` | violated: `CancelsOnlyUnposted` | 1 account, 1 slate, no failures |
| `payments_refund` | violated: `ExpiredIsRefunded` | 2 accounts, lock timeouts |
| `blocks_jobs` | `CreditedOnce`, `CreditsOnRecord`, `UnlockedIsFinal`, `EventuallyDecided` | 5 heights, 2 of them ours or a rival's, 2 miners (one without a row), reorganisations of 2, 2 failed runs |
| `blocks_own` | violated: `UnlocksOwnBlocks` | 4 heights, 1 rival |
| `stratum_counts` | `CountsConserved`, `CountsFit`, `SubmittedAsIssued`, `CreditedOnce`, `FreshJob` | 2 connections, 4 templates (3 in a behaviour without a restart, 2 after one, for both connections; the others with one at most), 1 restart of the node, which may fall back a block and climb again; miners send before they log in |
| `stratum_served` | `RepliesMatch`, `JobServed`, `HungUpLeaves` | 1 connection that may break, 2 requests under way, 2 templates, 1 restart |
| `shares_kept` | `AckedIsKept`, `Kept`: nothing is lost that did not expire; `CountedOnce`, `RecordedOrStuck` | 3 messages (two of one height, two for the pool's account), 2 consumers, 4 heights, lag 1, 1 failure or standstill |
| `shares_stuck` | violated: `SharesRecorded` | 2 messages, 1 failure |
| `web` | `SessionKept`, `FormerUserData`, `OnePayout`, `SpinnersEnd`; `PublicFeeds`, `MinerFeed`: the histories of the network, of the pool and of a miner implement `Feed` | 2 users, 2 requests in flight, twelve groups of pages and thunks, a window of 2, up to 4 blocks |
| `api` | `AnswersFit`, `Answered` | 2 requests at once, eleven groups of URLs, 2 blocks, 2 cached entries, 1 failure |

Why these bounds show the cases that matter:

* *Payments*: a payout involves one account, one slate and at most three
  processes at a time. Two slates let a second payout of the same user begin
  in any state of the first, two threads let one slate be submitted twice at
  once; a third of either meets no state that two do not leave. Two accounts
  are needed where a job holds one row while it works on another, and where one
  hands in the slate of the other.
* *PoolBlocks*: two winnable heights give the jobs a list with an entry behind
  the failing one; five heights are enough for lock time, expiry and a
  reorganisation of full depth to overlap. Blocks do not meet except in those
  lists.
* *Stratum*: what the loop does to a worker depends on the others only
  through `duplicates`, `versions` and `job`; two connections suffice for one
  solution sent by both. Four templates are a block, a second template of
  it, the block before after the node fell back, and the first height again: a
  share of the second template then has the right height and a job the proxy no
  longer knows. The last templates need no second miner, and `CONSTRAINT Few`
  leaves it out of them.
* *QueryApi*: `Families` names what is asked for in one behaviour: routes that
  share a key of the cache, a table or a height. Two requests are what it takes
  for one to store what the other reads between two of its callbacks. Entries
  expire at any time; of those over `MaxCached` any does at once, so that a
  small cache loses no behaviour, only old answers. `fails` is 0 or 1, since
  what matters is where the failure strikes and whom else it takes along.
* *WebUI*: `Visits` does the same for pages and thunks; every thunk is live in
  one of them. Of the requests over `MaxCalls`, any fail at once, which the
  network may do anyway. Two in flight are the least that overlap. A window of
  2 blocks and a chain of 3 or 4 let a history fill, be cut off and fall behind;
  where the home page shows both public histories at once the chain has 2, and
  1 where only the users or only the types of the data are in question. Two
  users are what it takes for one's late answer to meet the other's payout. One
  timer of each kind is kept.
* *ShareAggr*: the message of a height that was committed before, another one
  of the same height, and one of the next height, which shares its account
  with the fillers. One fault is enough to leave the mutex locked, after which
  any record may expire.

`CHECK_DEADLOCK FALSE` is set where the system may stop: in `PoolBlocks` the
bounded chain ends, in `ShareAggr` nothing is left to do at the end of the
chain, or the mutex is stuck.

### Fairness

* `Payments`: requests and jobs that were begun go on, jobs are scheduled for
  ever (cron in `kube/`): WF. A call to the wallet or the node fails now and
  then but not always, a posted transaction is not dropped for ever, and a
  process in the database's lock queue gets the row: SF, as each of these is
  enabled again and again and not continuously. Row locks may time out in
  `payments_mined`, though not for ever (SF on `TidyRefund`). `EventuallySettled`
  excepts late slates: one whose wallet transaction was cancelled and whose
  record was set to "posted" all the same is found by no job again.
* `PoolBlocks`: jobs are started every hour (WF); the node answers a question
  that is asked for ever (SF).
* `Stratum`: the loop runs (WF on `Run`). Nothing is assumed of miners.
* `QueryApi`: node runs the callbacks that are due (WF on `Handle` of each
  request), whatever else arrives. MariaDB and redis answer or fail.
* `WebUI`: none; no browser has to stay open, no network to answer.
  `SpinnersEnd` is therefore a safety property: the request that will lower a
  flag is in flight.
* `ShareAggr`: threads run, the chain grows (WF); a consumer waiting for the
  mutex gets it in one of the scheduler's pauses of 30 seconds (SF).

### Findings

1. `payments_refund` - in `cancel_tx_slate` the query for the row lock flushes
   state "expired". If the lock is not granted, nothing is rolled back, and the
   session's next commit expires the payment without a refund.
2. `blocks_own` - the nonce of a `pool_blocks` row is that of whatever block the
   watcher saw at the height, so an orphaned block of ours can be unlocked.
3. `shares_stuck` - the `finally` clause of `ShareCommitScheduler` commits before
   it releases the mutex; after a MariaDB error that commit raises and the
   mutex stays locked until the process is restarted. After an hour of this the
   records in redis expire, and with them shares that were acknowledged
   (`AckedIsKept` excepts just these).
4. `payments_late` - `cancel_expired_tx` lists the records in state "sent" and
   cancels those past their time without a second look (`tidyWallet.py:47`): a
   slate handed in meanwhile is posted *and* refunded, though the comment says
   "Cancel an old UNPOSTED tx" (35). It goes wrong only for a slate that comes
   back, or is being handled, when its time is past and `tidyWallet` has it on
   its list (`CancelsUnlessLate`).

Known and seen by the models, with no run of their own:

* `cancel_tx_slate` locks the row of the account that owns the slate,
  `submit_tx_slate` that of the account that hands it in, whichever that is. If
  another account hands in a slate while it is cancelled, the two are not
  serialised: the record is refunded and then set to "posted" by `RecordPost`.
  With `LateReturns` and `OthersReturn` TLC finds `LedgerBalanced` violated as
  soon as there are two accounts;
* after a failed `post_tx` a payment stays "posted" and is posted again for
  ever; the comment at `payments.py:391` expects a refund. `TidyRepost` does
  what the code does, and `EventuallySettled` assumes that the node takes the
  transaction in the end;
* `createDataObj` in `credit_worker` commits a block as "paid" with part of its
  credits. If the run then fails the other miners are not paid. This is why
  `PaidInFull` is proved for miners that all have rows;
* a share for a job id the proxy forgot, after the node fell back, gets no
  reply (`pool.rs:356`, `UnknownJob`), and later replies carry the id before;
* a node restarted at the same height reuses job ids; a share for the earlier
  template is checked against the later one and refused (`Mismatch`);
* share messages are counted again when they are delivered again, and a record
  again when a run fails between commit and delete: `CountedOnce` holds
  without failures only;
* query API: where another request has cached the pool's weights, the estimate of
  a block is never answered (`workerRoutes.ts:225`, `PoolWeights`; `Answered`
  leaves it out); for a block that is not new it is answered with 0 and then
  again (216, `NewBlock`); a one-row route that finds no row caches "undefined", on which the next
  request throws outside any handler (`Undefined`); `limitRange` does not limit
  (`utils.ts:251`); the pool's height is stored under a key that is never read
  (`utils.ts:234`); the window of the estimate is a block longer than that of
  the balance;
* web UI: the rigs and the list of payments survive a sign-out
  (`minerDataReducer.js:40`, 287; `FormerUserData` has a line for them); a refused slate leaves its spinner on
  (`minerDataActions.js:282`); whether the second login API accepted is not
  looked at (`authActions.js:70`); old entries of `blocksByHeight` are never
  dropped (`networkDataActions.js:24`, the loop runs over keys); heights of the
  pool's blocks are listed again and again (`muglePoolDataActions.js:99`); a
  second payout can be sent while a user's first is in flight, after a sign-out
  or when another user's answer lowers the flag (`OnePayout` excepts these two
  ways).

## 4. The theorems

All are proved for every value of the constants that satisfies
the assumptions of the module (of `Feed`: `Constants`, a hypothesis), without any bound on crashes, slates,
heights, miners or messages.

| theorem | statement | argument |
|---|---|---|
| `PaymentsType` | `Spec => []TypeOK` | step by step |
| `PayoutsHandedOver` | `Spec => []HandedOver` | inductive with `TypeOK` |
| `MinedWasCharged` | `Spec => []MinedIsCharged` | from `HandedOver` (`ChainCharged`) |
| `LockedWasRecorded` | `Spec => []LockedIsRecorded` | from `HandedOver` |
| `PostedIsNotCancelled` | `Spec => CancelsUnlessLate` | from `HandedOver` (`TidyFits`); four commits write a state (`RecordWriters`) |
| `PayoutsImplementLedger` | `Exclusive`: `Spec => ImplementsLedger` | `Accounted`; each commit is a step of `Ledger`, all else a stutter |
| `BalancesKept` | `Exclusive`: `Spec => []LedgerBalanced` | the refinement and `MoneyIsKept` |
| `SettledForGood` | `Exclusive`: `Spec => SettledStays` | `Accounted` |
| `MoneyIsKept` (`Ledger`) | `Fees`, `Grants` integers: `Spec => []Balanced` | a step adds to one term of the sum what it takes from another |
| `PoolBlocksType` | `Spec => []TypeOK` | with `MakerFits` |
| `RewardCreditedOnce`, `RewardOnRecord` | `CreditedOnce`, `CreditsOnRecord` | `MakerFits` |
| `UnlockedStaysOnChain` | `UnlockedIsFinal` | `UnlockerFits` |
| `PaidInFull` | `Registered = Users => (Spec => []PaidIsWhole)` | a further invariant on the credits still due |
| `StratumType` | `Spec => []TypeOK` | `Fits` |
| `SolutionsAsIssued` | `SubmittedAsIssued` | `Fits` |
| `NewestJobGiven` | `FreshJob` | `Fits`, `RoundFits`, `GivenFits` |
| `SolutionCountedOnce` | `CreditedOnce` | `Fits`, `CreditFits` |
| `CountsBelong` | `CountsFit` | inductive with `Fits` |
| `CountsPrinted` | `CountsConserved` | inductive with `Fits`, `CountsFit` |
| `RepliesCarryTheirId` | `Patient`, `~Falling`: `Spec => []RepliesMatch` | `VersionsKept`, `MailFits`, `PaceFits` |
| `ShareAggrType` | `Spec => []TypeOK` | step by step |
| `AddedIsKept` | `Spec => []Kept` | inductive with `TypeOK` |
| `SharesKept` | `Spec => []AckedIsKept` | from `Kept` |
| `SharesCountedOnce` | `Spec => []CountedOnce` | `Calm`, inductive with `Kept` |
| `QueryInvariant` | `Spec => []QueryInv` | inductive |
| `QueryType`, `AnswersAsAsked` | `TypeOK`, `AnswersFit` | from `QueryInv` |
| `WebType` | `Spec => []TypeOK` | `WebInv` |
| `SessionIsKept` | `SessionKept` | `WebInv` |
| `FormerDataIsLate` | `FormerUserData` | `WebInv` (`StoreFits`, `CallsFit`, `Known`) |
| `PayoutsOneByOne` | `OnePayout` | `WebInv` (`Paying`) |
| `SpinnersHaveRequests` | `SpinnersEnd` | `WebInv` (`Spinning`) |
| `PublicHistoriesAreFeeds` | `Spec => PublicFeeds` | `HistoriesInOrder`; each step is a step of `Feed` or a stutter |
| `MinerHistoryIsFeed` | `Spec => MinerFeed` | the same, a sign-out being `Clear` |
| `HistoriesAreWhole` | `Ordered` of the three histories, `Gapless` of the two public ones | the refinement and the invariant of `FeedProofs` |
| `FeedOrdered` | `Constants => (Spec => []Ordered)` | what a request remembers is ordered too |
| `FeedGapless` | `Constants => (Spec => []Gapless)` | with `Ordered`; a gap once excused stays so |

**Payouts**

* `MinedIsCharged` is not inductive: that a record is "posted" when `PostTx`
  happens was decided two wallet calls earlier. `HandedOver` says what each
  process may rely on at each of its steps (`JobFits`, `TidyFits`), and that one
  process at a time handles a slate that was not yet issued (`OneHandler`).
  Slates that come back late are part of it, with no hypothesis: `LateKnown`
  says that a slate is both given up and returned only if it is in `late`, so
  that whatever is not in `late` is the concern of one of the two processes.
* The refinement has a hypothesis, `Exclusive == ~LockTimeouts /\
  (LateReturns => ~SlowCreate /\ ~OthersReturn)`. A lock that times out is
  finding 1. A late slate is harmless to the ledger when refund and return meet
  at the same row lock (own account) and the slate's record was made before it
  was old. `Accounted` says for each process what its slate's record must still
  be when it commits: whoever holds the row lock is the only one to change the
  record's state, so *value read + change* is the committed value plus the
  change.
* `LedgerBalanced` is a statement on a sum over all slates. Sums are folds, and
  the library's induction over finite sets takes an operator as a parameter;
  `LedgerProofs` shows by a smallest counterexample (the strict subsets of a
  finite set are well-founded) that the fold exists and that each element adds
  its own part. `LedgerProofs` is instantiated by `PaymentsProofs`, so that the
  sum is spoken of only there.

**Blocks**

* `UnlockedIsFinal` needs `UnlockerFits`: the unlocker's verdict is about a
  block whose depth was judged with an *earlier* tip, which errs on the safe
  side as the tip only grows. `CreditedOnce` needs `MakerFits`: a credit that
  is due or uncommitted has not been made.

**Proxy**

* `Fits` says that templates reach the proxy in the order the node made them
  (`JobsFit`), although heights and job ids do not grow in that order after a
  fall back. `FreshJob` needs what the loop has yet to do in its round
  (`RoundFits`) and that nobody is given a job before the login (`GivenFits`).
* `CreditedOnce` follows from `CreditFits`: a solution was counted only if it is
  in `duplicates` or for a height that the proxy has left and whose job ids it
  does not accept any more. The fall back of the node is the case to worry about: the
  versions of the earlier templates of that height are not found again.
* `CountsConserved` counts, per solution, the connections that still hold it.
* `RepliesMatch` holds for `Patient` miners and a node that does not fall back:
  both hypotheses are those of the run, and each excludes one of the
  disagreements listed in section 3. The invariant pairs the requests of a
  miner, in its mail and in the proxy's queue, with the replies (`MailFits`,
  `PaceFits`); `VersionsKept` says that a job the miner still has is known.

**Shares**

* `AckedIsKept` excepts parts in `lapsed`, which only `Expire` adds to, and only
  parts that are in no row yet. Of the others it needs to know that a record of
  redis is deleted only when all of it was committed (`RecordFits`, at each place of the scheduler), that no
  consumer writes meanwhile (the mutex), and that what was added of a message
  in hand is kept too (`HandledIsKept`).
* `CountedOnce` needs `Calm`: while nothing has failed, a message is with the
  broker, in one consumer's hands or acknowledged, and in one of these only; what a
  consumer has still to add is counted nowhere; and what the scheduler has
  moved is gone from the record it deletes.

**Query API**

* `AnswersFit` is about the end of a request, but an answer may have been put
  into redis by any request before, and be read when more is recorded.
  `QueryInv` therefore says of each entry, under the key it has, what
  `AnswersFit` says of an answer (`EntryAt`), with the height reached and the
  blocks won as parameters, and `FitsLater` that an answer that fits never
  ceases to. Of a request it says that what is left of its handler belongs to
  its route (`StagesOf`), so that nothing is stored under the key of another
  route, and that `mugle/block` knows a height before it asks for its row
  (`BlockPlans`). Each function of the routes has a lemma (`...Keeps`).
* Assumed of the constants: `FamiliesAssumption`, what is asked for is a URL of
  the API, with a height that is not above the last block of the instance
  (`MaxTip`, any number). Nothing is assumed of the number of requests, miners
  or entries.

**Web UI**

* What the store holds comes from replies, and a reply brings back what its
  request read of an earlier store. `WebInv` therefore says of every request in
  flight what it says of the store: its height is not above the tip, its rows are
  no more than a window, and its owners are known. `Known` has two sets for
  that: `left` for the slices a sign-out clears, and `left` with `former` for
  those it does not. A sign-out is the step that needs care: it empties the
  first slices but not the requests, which is why `left` keeps those whose rows
  a request remembers, and it leaves the account's own data in the others.
* `OnePayout` and `SpinnersEnd` relate flags to the *number* of requests of a
  kind in the bag, so the invariant counts them, payouts for each user
  (`Payouts`): who is not in `unwaited` has a payout in flight only while the flag
  is up, and then one. Each action has a lemma (`...Keeps`), and `Land` one for
  each thunk (`Outcome`).
* The assumption on the constants is `VisitsAssumption` (`Visits` groups pages and
  thunks of the code, and nothing is said about which), beside the types of the
  bounds.

**Histories**

* `Ordered` and `Gapless` speak of the rows that are shown, but an answer is
  joined to rows that were shown when it was asked for: the invariant of `Feed`
  is that every request in flight remembers rows with both properties (`IInv`).
* That `WebUI` implements `Feed` is shown for each of the three histories, named
  by the thunk that fetches it. `Moves` is a step of `Feed`, or none, in terms of
  the rows shown and the requests waiting; each action has a lemma that it
  moves every history. Most actions at most ask for more (`AsksOrNot`); an
  answer is `Feed`'s `Answer` by `ExtendedJoins`: dropping rows from the
  old end until the window fits (the code) is taking the last rows (`Feed`). That
  needs `HistoriesInOrder`, that the rows which requests remember are
  increasing, an invariant proved with the steps, and `WebInv` for the heights and owners.
* `Feed` is instantiated by what the pages show, `FeedProofs` by the same
  expressions, so that what is proved of `Feed` holds of `WebUI`
  (`HistoriesAreWhole`). `Feed` asks for a window that is a positive number
  (`Constants`); `WebUI` has that by `BoundAssumption`.

The runs check `HandedOver` and `Kept` as well; the other invariants
(`Accounted`, `MakerFits`, `UnlockerFits`, those of the proxy, `Calm`,
`QueryInv`, `WebInv`) hold by the proofs.

Only model-checked: all liveness (`EventuallySettled`, `EventuallyDecided`,
`JobServed`, `HungUpLeaves`, `RecordedOrStuck`, `Answered`), since the prover
knows neither fairness nor ENABLED. Every invariant and every other action
property or refinement that a passing run checks is proved, the ledger's
(`ImplementsLedger`, `LedgerBalanced`, `SettledStays`) under `Exclusive`, replies
(`RepliesMatch`) under the run's two hypotheses, all else without any. Sums and other folds
are proved about by a least counterexample, where there is one to be named (a
set of naturals, the subsets of a finite set), as the library's induction
theorems cannot be applied: the ledger's sum, the heights of a window.

## 5. Not modelled

* *Amounts*: the division of a reward (`calculate_block_payout_map`), the payment
  estimator, fee arithmetic. Planned as operators.
* *Estimates and rewards on display*, in the query API (`utils.ts:103`-209) and the
  pages (`utils.js:165`-272, `MinerBlockRewards.js`, `RigData.js`). One would state
  that a miner's part is at most the whole, but the code does not keep that:
  the pool's rows are loaded apart from the miner's and may lag; late shares are
  added to `worker_shares` after `pool_stats` was made, which is not marked dirty
  (`shareAggr.py:374`-382); the join of the estimate lets the block's graph size
  replace the share's (`workerRoutes.ts:243`); the network's rate is estimated from
  its difficulty (`utils.js:240`-264); and `RigData.js:227` takes one row of five
  and multiplies by five. Nothing is paid from these figures.
* *Rig data* in redis: nothing is paid from it.
* *Statistics*, *block validator*, *auditor*, *operator tools*: planned.
* *Web UI*: charts, layout and texts, the side bar and theme slices, the fields
  of forms, the worker shown in the rig table, the service worker, build files.
  `getMinerBlockReward` is started by no page.
* *JavaScript query API*: the choice of fields, password hashes and tokens, the
  size of answers; the tables' other columns.
* *Python query API* (`api/api.py`): the web UI asks the JavaScript one for all
  reads but accounts; the two logins are one request after the other in `WebUI`.
* *Unbounded queues of the proxy*: a `getjobtemplate` before the login stays
  queued (`worker.rs:573`); the bound on unanswered requests cuts this off.
* *Proof of work and difficulty arithmetic* of the proxy: planned as operators.
* *Deployment*: configuration. What the models take from it is the schedule of the
  jobs and `concurrencyPolicy: Replace`, a crash of the earlier run.
* Malformed messages and lines: the models' inputs are those that logstash lets
  through.

## 6. Plan

Done, in order of the money: payouts and their ledger, block life cycle, the
proxy, share aggregation; the query API and the web UI over them; theorems
about all of them.

Next:

1. `Rewards`: the payout map over a window of `worker_shares` (weights per graph
   size, secondary scale, rounding), against a reference division: nobody's
   part exceeds the reward, the parts add up to at most the reward less the
   pool's fee. Estimator with the same operators.
2. `Stats`: `poolStats`, `workerStats`, `mugleStats`, `statsValidator` as jobs that
   fill heights, in batches, interrupted and repeated, beside late shares and
   dirty marks; properties: every height gets its record, totals are the sums of
   the heights, and equal to what a run without interruption writes.
   `workerStats` goes on after a roll back without the heights it lost; the
   model should show it.
3. `Validator`: `blockValidator` beside `blockWatcher` and reorganisations; after a
   pass the table is the chain; composed with `PoolBlocks`.
4. `Operators`: `credit_user`, `cancel_payout` as further processes of `Payments`.
5. `Consensus`: difficulty and graph weight arithmetic of `consensus.rs`.

Theorems worth having then: the bounds of the reward division.

Beyond the hazards `PROJECT.json` lists, the next modules should look at: rows of
`worker_shares` that grow after the statistics of their height were made and
are not marked dirty; `statsValidator` clearing a dirty mark that `workerStats`
set meanwhile (`poolstats.py:149`); estimates cached for a month
(`paymentEstimator.py:95`); a missing block that stops the statistics
(`poolstats.py:75`); a message that cannot be parsed and returns to its queue at
once (`shareAggr.py:219`); filler rows only above the latest row
(`shareAggr.py:389`); late rig data that is dropped (`shareAggr.py:448`).
