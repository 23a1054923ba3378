# Eyeball executor: a TLA+ verification project

Eyeball runs tool calls for agents. Its core is the executor
(`src/apps/executor/src`): an HTTP service that admits executions, runs them
against providers through adapters, meters them, and tells webhook endpoints
what happened. It runs as one process over in-memory stores, or as several
replicas over one Postgres database. Everything hard about it is in how those
replicas share work: leases that expire under a live handler, final writes that
arrive late, crashes between two writes, sweeps that re-offer work at boot.
Beside it stands the voice worker (`src/apps/voice-worker`), a Python process
that holds voice sessions, which the executor starts, observes and reports on.
This directory models that core, checks it with TLC, and proves what matters
most with TLAPS.

## Inventory

| Component | State it keeps | Operations | What is hard |
|---|---|---|---|
| Job store (`jobs/memory-store.ts`, `stores/postgres/job-store.ts`) | one row per deterministic job id: state, attempts, lease, runAfter, group order | ensure, cancelPending, expireLeases, claim, renew, complete, cancelClaimed, reschedule, fail, reopenForRecovery | stale writes, several replicas' clocks, order within a group |
| Task worker (`jobs/worker.ts`) | `#active` runs, `#attached` completions, poll and lifecycle flags | submit, poll, claim, heartbeat, run, drain, hand off | lease loss under a live handler, late answers, shutdown |
| Start-up recovery (`jobs/recovery.ts`) | cursors over source records | expire leases, re-offer unfinished executions, events, deliveries | runs while other replicas work |
| Execution engine (`engine.ts`, `store.ts`) | execution record, dispatch marker, usage and webhook markers, local abort controllers | allocate, run, cancel, reconcile, fail interrupted | at-most-once dispatch, the cancellation fence, effects that must happen once |
| Usage metering (`usage/*`) | outbox rows: reserved, released, reported; sent marks | reserve, report, release, flush | a report and a release for one reservation, retries, ordering |
| Webhook pipeline (`webhooks/*`) | events, deliveries and their attempts, endpoints | admit, select, materialize, deliver, retry | at-least-once delivery in order, crash between materialize and submit |
| Rate and concurrency limits (`rate-limit.ts`) | buckets, windows, permits | acquire, release | numeric edges, limits at capacity |
| Triggers (`triggers/*`) | subscriptions, cursors, dedup claims, event history | create, delete, ingest, poll, emit | claim, admission, history and cursor are four calls; every replica polls |
| Voice observer (`voice/*`, `toolkits/.../voice-agents.ts`) | durable observer rows with a lease, a cursor and a terminal mark | prepare, activate, claim, relay, revoke, finalize, exhaust | the starter and observers write one record; events after the end |
| Voice-session grants (`voice-session-grants.ts`) | issued grants | issue, verify, revoke | expiry and revocation |
| Staged files (`staged-files.ts`) | bytes with an expiry | put, get, sweep | expiry against use |
| MCP gateway (`apps/mcp-gateway`) | sessions and tasks | call, cancel, task updates | concurrent task transitions |
| Voice worker (`apps/voice-worker`, Python) | sessions, their log, chat receipts, the pending tool call | create, turn, call, stop, deadline, recover | turns sent again, cancelled handlers, crashes between two transactions |
| HTTP routes, SDK, catalog, credentials, dashboard, docs | none that outlives a request, or data only | | not modelled |

The parts meet in a few places. `engine.ts` writes an execution record and
submits a job to the worker; the worker claims the job under a lease and calls
the engine's handler; the handler writes the record, calls the provider,
reports usage through the outbox, admits a webhook event, and answers with a
result the worker writes to the job row. The webhook handlers are jobs of the
same queue: selection makes deliveries, and each delivery is a job in its
endpoint's group. Recovery reads the records and re-offers jobs.

### What makes each part correct

- **Job store and worker.** One claim at a time decides a job; a late renewal
  or final write never touches somebody else's claim; a finished job moves only
  through recovery, a cancelled one never; no claim overtakes earlier work of
  its group; every row is finished in the end, whatever crashes or stalls.
- **Completions and shutdown.** A caller is told the truth about its job, and is
  told something; a job that ended well has admitted its follow-up; a shutdown
  leaves nothing running behind it, and ends.
- **Execution engine.** The provider is called at most once; a cancelled record
  that says dispatch never began is right; a terminal record is final; a job is
  acknowledged only after usage and event are settled; every allocated
  execution is settled in the end.
- **Usage.** A row is marked sent only when the usage service has taken it, and
  stays so; only what was dispatched is counted, and in the end all of it that
  got its report into the outbox; the reservation of what was dispatched is given
  back by a request that lost the race for its key, or whose own allocation was
  applied and threw, and by nobody else.
- **Webhook pipeline.** Every admitted event reaches every endpoint that was
  selected, at least once, in the order of its endpoint's group where admissions did
  not overlap; a record that ended has no job left and a job that ended has no
  record left unfinished.
- **Limits.** The bucket lets pass no more than burst and refill, a window no
  more than its quota, whatever the clock does; permits out are counted once
  each and never idle while an execution waits.
- **Triggers.** An upstream event is admitted once, though polls and callbacks
  overlap; a cursor passes no event that is not admitted, on its way or known to
  be lost; failed polls are made up for.
- **Voice observer, grants.** The cursor passes no event before it is admitted; a
  completed observation has relayed the end and the transcript; the session's
  grant dies with it; nobody is left with an observation that is silently over.
- **Voice worker.** The log tells the state; a turn is heard and answered once,
  however often it is sent; a tool call without result is the pending one; a
  conversation over a carrier ends.

## Modules

| Module | Extends | What it is |
|---|---|---|
| `JobLease` | | abstract specification: what the job store promises, without clock, heartbeat or message |
| `JobQueue` | | the store, the workers of several replicas, heartbeats, sweeps, recovery, crashes, shutdown, time; implements `JobLease` |
| `JobQueueProofs` | `JobQueue`, `TLAPS` | its theorems |
| `Execution` | | one execution through `engine.ts` and `store.ts`, over a queue that keeps the promise of `JobLease` |
| `ExecutionProofs` | `Execution`, `TLAPS` | its theorems |
| `TaskFacade` | | one process: promises, shared deferreds, the polling tick, shutdown |
| `TaskFacadeProofs` | `TaskFacade`, `TLAPS` | its theorems |
| `WebhookDelivery` | | events, deliveries and attempts over the queue's rows: admission, selection, delivery, retries, recovery |
| `WebhookDeliveryProofs` | `WebhookDelivery`, `TLAPS` | its theorems |
| `UsageOutbox` | | requests that race for one key, the outbox, the flushers of several replicas, the usage service |
| `UsageOutboxProofs` | `UsageOutbox`, `TLAPS` | its theorems |
| `Limits` | | token bucket, daily quota, permits with their line |
| `Triggers` | | one subscription: creation, deletion, polls, callbacks, dedup claims, admission |
| `AdmissionProofs` | `Limits`, `Triggers`, `TLAPS` | the theorems of both; `Limits` names its specification `LimitsSpec` to stand beside the other |
| `SessionLog` | | abstract specification: what the voice worker promises the readers of a session |
| `VoiceWorker` | | one session of the voice worker; implements `SessionLog` |
| `VoiceWorkerProofs` | `VoiceWorker`, `TLAPS` | its theorems |
| `VoiceObserver` | `SessionLog` | the executor's side of a session: starter, observers, grant, webhooks |
| `VoiceObserverProofs` | `VoiceObserver`, `TLAPS` | its theorems |
| `MC*` | | instances for TLC: replicas, jobs, threads, requests; symmetry |

The modules meet at `JobLease`. `JobQueue` is shown to implement it, by TLC and
by proof. `Execution` does not repeat leases: its queue variables take the steps
`JobLease` allows, and `KeepsLeaseContract`, again checked and proved, says that
the engine's threads use the queue as that contract prescribes. `TaskFacade`
stands beside `JobQueue`: the same worker, seen from the callers inside one
process, where leases do not matter and promises do. `WebhookDelivery` has its
own rows for the queue, with grants, groups and taking back but no clock, as
`JobQueue` allows them: what matters there is the order of groups and that a
handler may live on after its job went to another run. `UsageOutbox` takes up
where `Execution` has one outbox row: several executions, the flushers and the
service.

The voice modules meet at `SessionLog`. `VoiceWorker` is shown to implement it, by
TLC and by proof, and `VoiceObserver` extends it: its remote worker takes exactly the steps that
contract allows, an event after the terminal one included.

### JobQueue

State and code:

| Variable | Code |
|---|---|
| `state`, `sequence`, `seq`, `attempts`, `lease`, `delay` | the columns of a job row: `state`, insertion sequence, `attempts`, `claimedBy`/`leaseToken`/`leaseExpiresAt`, `runAfter` |
| `mode`, `todo` | the life of each process (`runtime.ts` boot to `close`) and what recovery still has to visit |
| `runs` | every `#run` in flight, with `leaseLost` and `heartbeatRenewal` |
| `active` | the keys of `#active` |
| `reopened`, `faults` | history and bound |

Each store method is one action; so is each step of the worker between two
store calls. A renewal and a final write read `now` in the process and land in
the store later, so each has two steps, and everything may happen between them.
Lease tokens are random UUIDs in the code and claim numbers here: as fresh, and
they let invariants speak of the latest claim. Time is the number of ticks a
lease or a `runAfter` has left; `Skew` lets replicas' clocks differ. Heartbeats
are on time (`OnTime`) except when a fault, `Stall`, lets a lease pass under its
holder. A claim reads `now` at the start of its poll: one that took long grants a
lease partly, or wholly, gone. A claim that committed and throws is logged and
polled over: the row runs for nobody until it is swept, which `JobLease` allows
too. Recovery offers a delivery again at once or when its next attempt is due.
A final write that throws rejects `#run`; `#begin` attaches a `finally`
and nothing else, so outside `drainOwned` the rejection is unhandled and ends
the process: `ResultFails`. Rows are never pruned,
and `release`, which nothing calls, has no action.

`job_leases` runs two replicas with skewed clocks, an execution job, two claims
and one fault: enough for every pair of claims to meet in every phase, for a
renewal or a write to land after the row was swept, cancelled, claimed again or
reopened. `job_groups` runs one replica with two slots and two deliveries of one
group, so that order can be broken by a claim, a reschedule or a reopening.
`MaxClaims` bounds how often a handler asks for a reschedule, not how often a
job is claimed: sweeps and crashes claim again without it.

### Execution

| Variable | Code |
|---|---|
| `status`, `async`, `marked`, `fence` | the record: `status`, mode, `dispatchStartedAt`, `cancellation.dispatchMayHaveBegun` |
| `usageDone`, `published` | `usageFinalizedAt`, `webhookPublishedAt` |
| `outbox`, `event` | the usage row and the admitted webhook event |
| `calls` | history: provider calls |
| `queue`, `epoch` | the job, as `JobLease` sees it |
| `up`, `th` | processes, and call chains in flight |

A thread is one asynchronous call chain: a sync or async `execute`, a job
handler, a cancellation, a replay under the same idempotency key, a recovery
sweep. Its `pc` names the store, provider or queue call it makes next; a step is
that call with the straight-line code behind it, so anything another thread does
may come between two awaits. `Throws` is where each call's rejection leads;
`StoreFails` lets any database call throw after it was applied or before.
`Upgraded` replicas no longer know the tool's version.

What is left out: time (timeouts are rejections that may come at any moment);
overlapping reconciliations of one replica share a promise in the code and here
each repeat idempotent writes; an unexpected credential error that is rethrown
after a settled failure only repeats such writes; records written before resume
contexts existed; graceful shutdown (see `TaskFacade`, `JobQueue`). One
execution is modelled, as executions share no state but limits and keys.

`execution_safety` has two replicas, one of them upgraded, two threads, and one
fault of any kind: a crash, a store call that fails, a lease taken from a live
handler. Two threads are what races for a record; that more do no harm is what
the proofs add. `execution_liveness` has one replica that crashes up to twice.
It stays with crashes because liveness is really lost under the other faults:
a failed first read closes the job, and a reservation
given back too early blocks reconciliation. It has one
replica because a job that is claimed while a sync request of another replica
is slow is rescheduled without bound, and `MaxEpoch` bounds claims.

### TaskFacade

| Variable | Code |
|---|---|
| `durable` | whether the store outlives the process |
| `row` | the store's row of each job |
| `accepting`, `claiming`, `phase` | the flags `stopClaiming` and `handoffPending` set, and `drainRuntime`'s place |
| `attached` | `#attached`: whose deferred waits for each job |
| `promise` | what became of each deferred |
| `call` | a `submit` in flight: `ensure` sent, applied, answered |
| `run` | the newest run of each job, up to the answer of its final write |
| `behind` | the older runs of a job that were written back and wait for that answer |
| `active`, `awaited` | the keys of `#active`; the runs `drainOwned` waits for |
| `tick` | the poll in flight: news, claim, begin |
| `doubled` | history: jobs begun while an older run of theirs was in flight, until none is |

A caller is a request or a handler, which makes one submission per run and is
named after its job. `Follow` says what a handler submits before it ends.
`Elsewhere` and `CancelPending` are the rest of the world. Leases, groups,
crashes and reopening are `JobQueue`'s. The second that a reschedule waits is kept
only as this: memory has answered the write-back before the job is due again, a
database may not have. Then the job is claimed and begun here once more, its key
in `#active` is overwritten, and the older run's `finally` (`FinishesBehind`) takes
it away while the newer run goes on. The look and the store's answer to it are one step, its arrival
another. A failed final write ends the process (`JobQueue`) and is not repeated
here.

`ClosedLeavesNothing` lets exactly those runs outlive the drain, and says so of
each of them: behind a closed process nothing is in flight but jobs in `doubled`,
and these lie in a durable store. It speaks of promises only while no `ensure` threw: the catch
of a throwing `ensure` deletes whatever deferred is attached by then, also one a
later submission made, and its promise stays open. `threw` remembers that it
happened, and `EverySubmissionSettles` excuses it too. `facade` takes both kinds
of store, two requests for one execution, its follow-up, and one throwing
`ensure` or one reschedule: two requests are what sharing a deferred is about,
and one throw is enough to let it go under the other. `MaxBehind = 1` lets one
older run stand behind a newer one, as many as one reschedule makes. The requests
are alike and nothing makes either of them submit, so the constraint `InTurn`
keeps only the behaviours in which the second submits after the first.

### WebhookDelivery

| Variable | Code |
|---|---|
| `serial`, `entry` | the database's sequence of events; the transaction of each admission between its INSERT and its COMMIT |
| `order`, `rank`, `targets` | an event's sequence once it is committed, its `materializedAt` (as the sequence of its deliveries), the endpoints selected |
| `status`, `attempts`, `waits` | a delivery's status and attempt rows; whether `nextRetryAt` lies ahead |
| `queue`, `holder` | job rows: `asleep` is pending with `runAfter` ahead, `granted` is claimed |
| `serving` | the endpoint exists and is active |
| `memory` | `#volatileEvents` |
| `up`, `todo` | processes, and what recovery still has to visit |
| `run` | handler runs, each with what it has read and the call it makes next |
| `passed` | history: an event and one that was there before it, though its number is greater |
| `acked`, `happened`, `left` | history: what the receiver acknowledged; what came in between, and its bound |

Selection and delivery jobs are handled by runs in slots; a step of a run is one
call with the code behind it, except that the reads of the delivery, the event
and the endpoint at the head of a delivery are one step: only the delivery's row
is written by a run that may overlap, and it is read first. An attempt is told
from others by the slot that made it, as times and results tell them apart in
the rows. `StoreFails` lets any store call throw, applied or not; outside the
handler's `try` that closes the job for good, inside it the job comes again.
Time is left out: what lies ahead passes at some moment. So are subscriptions
(every endpoint subscribes), the URL and secret, signing, renewals, shutdown
(`TaskFacade`), and voice events, whose missing source reschedules the job.
Materialization is the Postgres transaction; the memory store writes the
deliveries one by one, with awaits between them.

An admission is the Postgres transaction too: its INSERT draws the event's number
(`Enters`), its COMMIT shows the event and its selection job (`Admit`), and no lock
keeps two of them in order; it may be rolled back (`AdmitFails`), or die with its
process. A second admission writes nothing, and leaves the body in one more
process (`AdmitAgain`). The deliveries' numbers are drawn in the same way, but two
materializations overlap only for events that passed each other or after a lost
lease, of neither of which `InOrder` speaks; `WriteDeliveries` is one step.

`webhook_delivery` has two events for one endpoint, two runs, a schedule of two
attempts, and one thing in between: a crash, a store call that throws, a lease
taken from a live run, or the endpoint switched. Two events are what order is
about; two runs of one job are what a lost lease can make; the second attempt is
the last one. The constraint `InTurn` has e1 draw the first number, e2 the second
before the selection of e1 begins, and no third: any of the two may be committed
first, stay open for ever or fail, and a number more would leave a gap. Where e2
was there before e1 only crashes are looked at, which halves the states; the
invariants and `LogStands` are proved for all faults. A body that only the process remembers (`Volatile`) is lost with
it, and its deliveries are closed without an attempt, which the documentation
says of trigger events.

### UsageOutbox

| Variable | Code |
|---|---|
| `pc`, `handle`, `winner`, `dispatched` | a request in `execute`: reserved, allocated under its key, dispatch marked, settled |
| `thrown` | requests whose allocation was applied and threw: recovery runs the execution, the request's `catch` gives the reservation back |
| `row` | the outbox: operation, state, attempts and the wait until the next |
| `flush` | one `#flush` per replica: the batch it listed, what is sent, what failed |
| `mode` | a flusher that runs, drains or is closed |
| `reservation`, `counted` | the usage service (external): the reservation of a key, the keys it counted |

No lease guards the outbox: replicas list and send the same rows, so everything
rests on what the service accepts twice and on the conditions of `markSent` and
`markFailed`. A happening is an answer that is lost or refused, a reservation
that expires, a store call that throws, a crash, or a drain. `usage_outbox` has
two requests of one key, which is what a shared reservation needs, a third of
another key so that a batch can be half refused, and two flushers. `Saturation`
is the attempt from which the delay grows no more; two steps of delay show that
they differ. Batches of fifty do not fill.

### Limits

`bucket`, `window`, `active` and `waiters` are the fields of the classes in
`rate-limit.ts`; `pc` and `permit` are a caller between taking and giving back,
`clock` is what `now()` answers. Tokens are integers in units of `1/IntervalMs`
of a token, where the code has a float that rounds. `first`, `passed` and
`charged` are history. `limits` gives three callers one permit, so that the line
has two, runs over two window boundaries and sets the clock back once; the
proofs cover every policy and any number of set-backs.

### Triggers

| Variable | Code |
|---|---|
| `sub`, `row`, `claims` | the subscription, its polling state (cursor, `nextPollAt`), dedup claims |
| `admitted`, `noted` | events in the webhook work store, history entries |
| `label`, `answered` | the provider (external): Gmail `historyId`s, callbacks it need not repeat |
| `run` | a poll or a callback, with the cursor it read, the messages found and those to emit |
| `lost` | history: claimed and never admitted, or overtaken |

Claim, admission, history entry and cursor are separate calls, and a poll lists
its messages before it reads each of them. An event is lost when a call between
claim and admission fails or the process dies there, because the next carrier
takes it for a duplicate, or when a message's label moves while the mailbox is
listed. Both are the code's behaviour and both are named: `PastIsAccounted` says
that nothing else loses one. `triggers` has two messages, two replicas and two
happenings of any kind: a second poll that overlaps, and something that goes
wrong in one of them.

### VoiceWorker and VoiceObserver

`VoiceWorker`: `state`, `log`, `pending` and `receipts` are the tables of
`repository.py`; `slot` is a request or a tool handler, `task` the runtime of a
media session, `running` who is between two transactions of a segment without an
`await`: only a crash can come there. `late` is the deadline. A happening is a
crash or an overdue drain, a failing model, executor or runtime, a handler that
the runtime cancels, a stop, a turn sent again. `voice_worker` has two turns and
two requests, so that two turns interleave and one is sent twice, two possible
inputs of a call, so that a key can come back with another input, and three
happenings. `MaxLog` bounds only what a media session may still say; the log has room
for all else.

`VoiceObserver`: `rec` and `lease` are the observer's row, `grant` the
credential, `start` the starter in `startRemoteSession`, `task` a claim being
worked on, each step one call to the worker or a store; `published`,
`transcript` and `signal` are what the webhook store has admitted. A task that
fails remembers of what (`why`, `classifiedFailure`): of trouble, which is tried
again until the attempts are spent; of an answer of the worker that is invalid or
that says no retry helps, for which the observation is given up at once; or of a
history that is not what the session said. The record keeps the last one
(`failure`). A happening is a failed call, applied or not, an answer that is
refused, a crash, a lease that runs out under its holder, a replica that
boots, an event after the session's end, a start slower than its grace period.
`voice_observer` has two replicas, pages of one event, a log of at most three (a
first event, the end, one behind it) and three happenings: a lost lease, the
other's takeover, and a fault in it.

## Runs

A process that has nothing to do may stop, and so may a model whose requests or
faults are used up: configurations say `CHECK_DEADLOCK FALSE`, and what must go
on is said by liveness properties. `Limits` serves its callers over and over and
is checked for deadlock.

| Run | Question | Bounds |
|---|---|---|
| `job_leases` | do leases and rows agree, is there one holder, does every step keep the lease contract, is every row finished? | 2 replicas with skewed clocks, 1 job, 1 fault |
| `job_groups` | does no claim overtake its group, and does order never block it for good? | 1 replica, 2 slots, 2 deliveries, 1 fault |
| `execution_safety` | one provider call, a true fence, truthful usage, acknowledgement behind every effect, the lease contract | 2 replicas, one upgraded, 2 threads, 1 fault of any kind |
| `execution_liveness` | is every allocated execution settled? | 1 replica, 3 threads, 2 crashes |
| `execution_sweep` | the finding below | 2 replicas, 2 threads, no fault |
| `facade` | true completions, admitted follow-ups, a closed process that leaves nothing, a shutdown that ends, every completion settled | both kinds of store, 2 requests, an execution and its selection, 1 happening, 1 older run |
| `webhook_delivery` | complete selections, closed deliveries, a log that stands, order, delivery in the end | 2 events, 1 endpoint, 2 runs, 2 attempts, 1 happening; numbers drawn in one order |
| `usage_outbox` | does a sent row mean a taken one, and is every dispatch counted? | 3 requests, 2 keys, 2 flushers, 1 happening |
| `limits` | bucket, quota and permits | 3 callers, 1 permit, 5 ms, 1 set-back |
| `triggers` | is an event admitted once, is everything behind the cursor accounted for, are failed polls made up for? | 2 messages, 2 replicas, 2 happenings |
| `voice_observer` | no gap in what is relayed, whole completion, a dead grant, no silent end | 2 replicas, 3 events, 3 happenings |
| `voice_worker` | the log tells the state, turns once, the pending call, `SessionLog`, a media session ends | 2 turns or a media session, 2 slots, 2 calls, 3 happenings |

Every property of a passing run has a mutant: an operator named with it in the
module, which changes one definition as a plausible bug would and makes the run
fail.

### Fairness

Weak fairness only. A worker that is up polls (a timer), its handlers end (each
is bounded by request timeouts), its store calls return, its heartbeats fire,
leases pass, and a supervisor restarts a process that died. Promises are always
resumed by the event loop, Python's coroutines by theirs. Nobody has to send a
request, cancel, work on another replica or stop a process, and no fault has to
happen. In `Execution` and `WebhookDelivery` the lease of a dead thread or run is
taken back by fairness, that of a live one only by a fault.

- `EveryEventDelivered` excuses behaviours in which a store call threw or a live
  run lost its lease: two runs of one delivery can refuse each other's update,
  and the one that is refused before its `try` closes the job.
- `EverySubmissionSettles` and `ShutdownCompletes` speak of a durable store: in
  memory a shutdown may wait for ever (see below).
- `EveryDispatchCounted`: a request that reached its outbox row writes it, the
  flush timer rings, a drained or crashed replica is started again. The usage
  service fails only a bounded number of times; the code's retry has no limit of
  its own, so any number would do.
- `EveryMessageSettles` asks that a due poll runs and its calls return.
- `Settles`: the starter goes on or dies, the observers' timers ring, leases end.
- `MediaEnds`: `maxDurationSeconds` passes, the runtime's task goes on, and the
  worker is restarted. Chat sessions and dialled sessions without a runtime have
  no such timer and may stay open.

### Finding

`SweepSparesLiveRuns` (run `execution_sweep`). A sync execution has no job and no
lease while it runs. A replica that boots meanwhile offers a job for it, and the
job fails it as interrupted while its owner is waiting for the provider. A
comment in `jobs/recovery.ts:55` calls the sweep "safe across replicas".

### Other disagreements met while modelling

They are described, and where a property touches them it says so; no run is
spent on them. Paths are under `src/`, `W` is `apps/executor/src/jobs/worker.ts`,
`E` is `apps/executor/src/engine.ts`.

- `W:315`: `#active` is keyed by queue and job. A worker that claims a job again
  while a run of it is still in flight, because its write-back was applied and not
  yet answered or because it lost the lease to a stall, replaces its own entry;
  whichever run ends first deletes it, `drainOwned` returns under the other, and
  the process closes with a run in flight. `TaskFacade` has the first case, and
  `ClosedLeavesNothing` excepts it by name; the second is left to `JobQueue`, where
  a late run is fenced whoever waits for it.
- `W:243`: in memory `stopClaiming` refuses submissions for good and the drain
  then works until idle; an execution in flight is refused its event's selection,
  is rescheduled, and so for ever.
- `W:210`: two submissions of one job share a deferred. One whose `ensure` throws
  deletes whatever is attached by then: the other's promise is rejected or stays
  open though its job lives.
- `E:374`–`394`, `E:1189`, `E:1209`: requests with one Idempotency-Key share a usage
  key, and one that loses the race gives back a reservation the winner dispatches
  on. A request whose allocation was applied and threw does so too: recovery runs
  its execution, the outbox row says release by then, and the report is refused
  (`Preempted`, which `EveryDispatchCounted` excuses). `docs-site/self-hosting/executor.mdx:108` says that every execution
  that reaches dispatch is reported. A report the service refuses for good is
  retried for ever.
- `apps/executor/src/stores/postgres/webhook-work-store.ts:130`: an event's number
  is drawn at INSERT and seen at COMMIT, without a lock. Of two admissions that
  overlap the later number may be there first: its selection then runs beside or
  before the earlier one's, and its delivery may be posted while the other's waits.
  `InOrder` excepts such pairs by name (`Passed`) and holds for all others.
- `E:1490`, `apps/executor/src/webhooks/deliverer.ts:495`: a handler's store
  calls before its `try` may throw once; the job is then closed as failed, and
  the execution, or the delivery, waits for the next boot. The endpoint's next
  delivery is attempted before it, against `docs-site/concepts/webhooks.mdx:128`,
  which in its next sentence calls the order best-effort.
- `apps/executor/src/triggers/service.ts:997`: a claimed event whose admission
  fails is taken for a duplicate until its claim expires; the cursor has passed
  it. Deleting a trigger while a poll is under way leaves or recreates its state
  row, which `docs-site/api/triggers.mdx:184` says is removed. One malformed
  message fails every later poll.
- `packages/toolkits/src/voice/voice-agents.ts:1256`: when activation fails the
  starter cancels the record before it revokes the grant, and may die in between.
- `apps/executor/src/voice/remote-session-observer.ts:46`: the grace period is
  said to keep recovery away from a start in flight. It does so by time alone: a
  start slower than it finds its record adopted, finished or cancelled.
- `apps/executor/src/rate-limit.ts:345`: a recovered execution keeps the limit it
  was admitted with. While its bucket is in use under another one, after a deploy
  that changed it, taking the permit throws.

## Proofs

Checked by TLAPS for any sets of jobs, workers, threads, requests and replicas,
any skew, order, metering mode, policy and any number of faults, under the
modules' own named assumptions about the constants.

**JobQueue.** `Safe` is the inductive invariant: the type invariant with
`LeasesConsistent`. `AtMostOneHolder` is not inductive: it follows because the
row's token is the number of the last claim and no two runs share a job and a
number. `SafeNext` goes through the steps of a run, of a job, of a process and
of time. `GroupOrder` adds that insertion numbers are bounded by the
store's counter, and follows a later job's claim to the earlier one's row.
`FinalStates` comes from a lemma on what steps do to a row; `Refinement` maps
each step to the step of `JobLease` it is, or to a stutter.

**Execution.** `IInv` is `TypeOK`, a `Ledger` of what the record, outbox, event
and job say of one another, what each thread's place says of them (`PlaceTold`,
`ClaimTold`), and what holds between two threads (`Distinct`: not two at the
provider, no shared claim number). The single properties are corollaries:
at-most-once needs that a thread at the provider holds the marker and that
nobody else is there; the fence, that a cancellation copied the marker and a
marker set later finds no running record; the acknowledgement, that a thread
which is `done` has passed through every mark. Lemmas say once how a thread
moves (`Goto`, `Catch`, `Reconcile`, `Throws`), and each action cites them.
`LeaseContract` maps the engine's steps into `JobLease`, `RecordFinal` is an
action property from the same invariant.

**TaskFacade.** `IInv` joins eight parts: what a run says of its row and of its
follow-up's (`Runs`), that a run in flight has its key in `#active` unless an older
run of the job was beside it (`Keys`), what a tick has claimed (`Ticks`), what a submission has
seen (`Calls`), to which job a deferred is attached (`Waiters`), that in memory
somebody waits for every unfinished job (`Kept`), what each phase of the shutdown
rules out (`Closing`: `#active` is within what the drain waits for, and empty once
closed), and `CompletionTruthful`. Two lemmas carry most of it:
`SettleKeeps`, that settling from a true state of rows, be it the answer of
`ensure`, the tick's news or a run's own write, keeps promises true, and
`SubmitKeeps`, that a shared deferred is one of the same job. `Closed` needs both
halves of `Waiters` and `Kept`: a closed in-memory process has no unfinished row
because nobody is attached any more; and it needs `Keys`: no key is left, so what
runs was begun beside an older run.

**WebhookDelivery.** `IInv` joins what the rows say of the events (`Deliveries`),
what has a job and what an ended job has left (`Jobs`), why a delivery is closed
(`Reasons`), what is missing without a fault (`Present`), and what each run's place
says of its subject (`Runs`). It does not mention who holds a job's lease: two
runs of one job, as a lost lease makes them, may be anywhere, and what carries the
proof is that a run remembers less than the row refuses. `Forward` says what no
step takes back; what a run has learned stays true under the others' steps
(`RunStays`), and the writes are shown once (`WrittenKeeps`), for the handlers and
for the calls that throw after they were applied. The instance has one endpoint
and one replica; the theorems hold for any.

`Doors` goes with it: no two events have, or have drawn, one number, and who is
being admitted is not there yet.

The order of deliveries is proved apart, for there the queue's grants are the
argument. `OInv` has a half that always holds (`Numbered`: ranks grow, and an event
that is there has its job) and one that holds until a store call fails or a live run
loses its lease (`Ordered`). Events are selected one after the other is laid
(`Turns`), unless the one was shown behind the other in spite of its number: the
step that shows it is where the pair is noted in `passed`. So deliveries are ranked as their events (`Ranked`) and all earlier ones
have their jobs when one is claimed; a job ends well only behind a closed delivery
(from `IInv`) and, without those faults, fails only behind one (`Failures`).
Nobody but the run that holds a delivery writes it (`RunOrdered`, `OneRun`), and
`RunGoesOn` says once what such a run may do.

**UsageOutbox.** `IInv` adds to the types what the rows say of the requests
(`Rows`: a row that reports belongs to a dispatched execution, one that releases
to none, or to one whose allocation was applied and threw), what a flush's memory says of the service (`Flushes`: what it has noted
as sent is taken, whatever the other flushers did meanwhile) and that a
reservation given back was asked for by somebody's row (`Asked`). `SentIsSettled`
holds because the service never forgets; `SentForGood` is an action property:
`markFailed` excludes rows that are sent.

**Limits.** `Permits` rests on `Slots`: a caller holds a permit if and only if it
runs, the line is distinct and of waiting callers, and the count is the
cardinality of those that run; a second release of one permit changes nothing.
`Rate` rests on `Filled`: what passed and what is left together never exceed the
burst and the refill since the first check; the refill is a product, and each
arithmetic fact is a step of its own. `DailyQuota` rests on `Counted`: the window
kept agrees with what was charged to it, and later ones are empty, so that a
clock set back cannot reopen an old window.

**Triggers.** What the provider will not bring again must be accounted for: in the
pipeline, at a run between claim and admission, or in `lost`. `IInv` says so of
every cursor, the stored one, one a poll still remembers and may write back
(`Kept`, `RunTold`), of every claim, since a duplicate is passed over for its sake,
and of every answered callback. What a poll found between its cursor and its mark
is accounted for or still in its queue. That no other step disturbs this rests on
two facts (`Stays`): a new label is greater than every cursor and every mark, since
these were labels once (`Reached`), and no step takes an event out of account
(`Forward`). The put of a mark is the hard step: what lies behind it was found and
emitted, was behind the old cursor, or was overtaken and is in `lost`. An event is
entered once because a run that is to enter it has just admitted it, which the
store lets nobody do again (`OneNotes`). The messages are sorted by any order of
their labels (`Sortings`), of which the proof needs that it leaves none out.

**VoiceObserver.** `IInv` joins what the record says of the log, the credential
and the transcript (`Record`) with what each observer believes (`Told`): one that
lost its lease may still be anywhere, but the cursor it remembers is never ahead
of the record's, and an event it is about to admit has no gap before it. Whoever
holds the lease knows the cursor exactly (`Undisturbed`), so that a fenced write
never moves it back; `Forward` says what no step takes back, and what an observer
has learned stays true under it (`ToldStays`). That an observation is given up
for a reason (`Spent`) needs that whoever is about to give it up still finds the
failure on record under its lease; that a drain is tried a second time only after
progress (`tried`); and that the end, once marked, has another event behind it if
the log is longer than the session said.

**VoiceWorker.** `IInv` joins the state and its log (`LogTellsState`), what a
request has seen of the log (`Slots`: one that waits for the model has its words in
it, one that stores its answer has the answer), that a turn's events are single and
in order (`Turns`), that what a runtime says has a name of its own (`MediaTold`:
the event's place in the log), and `UnansweredIsPending`. A crash may come anywhere,
so nothing is said of the order of requests: a turn sent again finds its events by
their keys (`TurnTold`), and a call enters the log only when none waits, which with
the invariant means that all others are answered (`DispatchTold`). Every step is a
transition, one event, or nothing (`LogSteps`), from which follow the last "life"
event and, once the log is mapped to what its readers tell apart, the refinement
`ReadersSeeALog`.

Only model-checked is what holds under fairness (`EveryJobFinishes`,
`EveryExecutionSettles`, `ShutdownCompletes`, `EverySubmissionSettles`,
`EveryEventDelivered`, `EveryDispatchCounted`, `EveryMessageSettles`, `Settles`,
`MediaEnds`), which is out of the prover's reach. Every invariant, action property
and refinement that a run checks, and that holds, is a theorem.

## What remains

In order of worth: a run with one event to two endpoints; the memory store's
materialization, which awaits between deliveries; an execution that races its own
usage row with the flushers of `UsageOutbox`, as one composition.

## Not modelled

- **MCP gateway.** Translates MCP requests into executor calls. Its task records
  are copies of execution states, merged forward in one atomic update of a
  session; what decides them is the execution, which is modelled.
- **Staged files** are rows with an expiry that every read checks.
- **HTTP routes, SDK, generated toolkits, catalog, credentials** translate
  requests and hold no state that outlives one; `ssrf.ts` and the credential
  providers parse and fetch.
- **Dashboard, documentation, landing page** are user interface and prose; most
  of the repository's lines are these and generated catalogs.
- **Inside modelled parts**: the voice worker's carriers, audio and models; the
  fake transport of the voice toolkit; filters, secrets and pruning of triggers;
  validation of inputs and credentials before an execution is allocated; paging
  of recovery; signing of webhooks; telemetry.
