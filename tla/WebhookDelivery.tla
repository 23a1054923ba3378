-------------------------- MODULE WebhookDelivery --------------------------
(***************************************************************************)
(* From an admitted event to its closed deliveries                         *)
(* (apps/executor/src/webhooks/deliverer.ts over work-store.ts,            *)
(* delivery-store.ts and their Postgres twins, and the part of             *)
(* jobs/recovery.ts that sweeps events and deliveries).                    *)
(*                                                                         *)
(* Admission writes an event and its selection job in one transaction,     *)
(* which draws the event's number and shows both later; the selection picks*)
(* the endpoints, writes a delivery for each and submits its job; the      *)
(* delivery's job makes one attempt per run, under the retry schedule.     *)
(* Jobs are rows of the shared queue: granted to one run at a time, taken  *)
(* back under the feet of that run, and in order within a group.  A slot   *)
(* holds one handler run; each of its steps is one call to a store or to   *)
(* the receiver.                                                           *)
(***************************************************************************)
EXTENDS Naturals, Sequences, FiniteSets

CONSTANTS
  Event, Endpoint, Replica,
  Slot,         \* handler runs that may be in flight at once
  NoJob, NoSlot,
  Volatile,     \* events whose body only the admitting process remembers
  MaxAttempts,  \* length of the retry schedule
  Happenings,   \* what may come in between: "crash", "store", "lease", "edit"
  MaxHappenings \* bound: how often anything does

\* A delivery is told by its event and its endpoint: deterministicWebhookDeliveryId.
Delivery == Event \X Endpoint
Job      == Event \cup Delivery

ASSUME WebhookAssumption ==
  /\ NoJob \notin Job /\ NoSlot \notin Slot
  /\ Event \cap Delivery = {}
  /\ IsFiniteSet(Event) /\ IsFiniteSet(Replica)
  /\ Volatile \in SUBSET Event
  /\ MaxAttempts \in Nat \ {0}
  /\ Happenings \subseteq {"crash", "store", "lease", "edit"}
  /\ MaxHappenings \in Nat

VARIABLES
  \* the stores
  serial,     \* the last sequence number drawn for an event
  entry,      \* the admission of each event that is between INSERT and COMMIT
  order,      \* sequence of each event, 0 before its admission is committed
  rank,       \* when its deliveries were written, 0 before: their sequence
  targets,    \* the endpoints they were written for
  status,     \* of each delivery
  attempts,   \* the attempts on record, told apart by the run that made them
  waits,      \* nextRetryAt lies ahead
  queue,      \* the row of each job; "asleep" while its runAfter lies ahead
  holder,     \* the run each granted job is granted to
  serving,    \* the endpoint exists and is active; all subscribe
  \* the processes
  up,         \* life cycle of each replica
  todo,       \* jobs its recovery still has to visit
  memory,     \* volatile events whose body it holds
  run,        \* the handler runs
  \* history and bounds
  passed,     \* <<e, x>>: x was there before e, which has the smaller number
  acked,      \* the receiver has acknowledged the delivery
  happened,   \* what has happened in between
  left        \* how often something still may

entries == <<serial, entry, passed>>
events == <<order, rank, targets>>
rows   == <<status, attempts, waits>>
jobs   == <<queue, holder>>
past   == <<happened, left>>
procs  == <<up, todo>>
vars   == <<entries, events, rows, jobs, serving, procs, memory, run, acked, past>>

-----------------------------------------------------------------------------
Closed     == {"succeeded", "failed"}
Unfinished == {"asleep", "open", "granted"}

\* Where a run can be: selecting, delivering, or ready to answer the queue.
Selecting  == {"select", "materialize", "submit"}
Delivering == {"load", "reset", "reload", "close", "begin", "post", "record", "forget"}
Answer     == {"done", "later", "rejected"}

RunState == [job    : Job \cup {NoJob},
             at     : Replica \cup {NoSlot},
             pc     : {"idle"} \cup Selecting \cup Delivering \cup Answer,
             picked : SUBSET Endpoint,   \* endpoints selected, or still to be submitted
             seen   : Seq(Slot),         \* the attempts it read
             ok     : BOOLEAN,           \* it read a 2xx
             caught : BOOLEAN]           \* it is inside its try

Fresh(j, r, pc) == [job |-> j, at |-> r, pc |-> pc, picked |-> {}, seen |-> <<>>,
                    ok |-> FALSE, caught |-> FALSE]
Idle == Fresh(NoJob, NoSlot, "idle")

\* No admission in flight.
NoEntry == [at |-> NoSlot, number |-> 0]

Init ==
  /\ serial = 0 /\ entry = [e \in Event |-> NoEntry] /\ passed = {}
  /\ order = [e \in Event |-> 0] /\ rank = [e \in Event |-> 0]
  /\ targets = [e \in Event |-> {}]
  /\ status = [d \in Delivery |-> "none"]
  /\ attempts = [d \in Delivery |-> <<>>]
  /\ waits = [d \in Delivery |-> FALSE]
  /\ queue = [j \in Job |-> "absent"] /\ holder = [j \in Job |-> NoSlot]
  /\ serving = [p \in Endpoint |-> TRUE]
  /\ up = [r \in Replica |-> "up"] /\ todo = [r \in Replica |-> {}]
  /\ memory = [r \in Replica |-> {}]
  /\ run = [t \in Slot |-> Idle]
  /\ acked = {}
  /\ happened = {} /\ left = MaxHappenings

-----------------------------------------------------------------------------
At(t, pc)   == run[t].pc = pc
Goto(t, pc) == run' = [run EXCEPT ![t].pc = pc]
EventOf(t)  == IF run[t].job \in Event THEN run[t].job ELSE run[t].job[1]

Happens(kind) ==
  /\ kind \in Happenings
  /\ left > 0 /\ left' = left - 1
  /\ happened' = happened \cup {kind}

\* A counter's next value, where each member that has one has another.
NextOf(f) == 1 + Cardinality({e \in Event : f[e] # 0})

\* What #rememberEvent keeps: a body no store keeps.
Remembered(e) == {e} \cap Volatile

\* enqueueExecution, enqueueTriggerEvent, ...: the transaction of an admission
\* draws the event's number at its INSERT.  The same event's admission by
\* another process waits there for this one.
Enters(e, r) ==
  /\ up[r] = "up"
  /\ order[e] = 0 /\ entry[e] = NoEntry
  /\ serial' = serial + 1
  /\ entry' = [entry EXCEPT ![e] = [at |-> r, number |-> serial']]
  /\ UNCHANGED <<passed, events, rows, jobs, serving, procs, memory, run, acked, past>>

\* Its COMMIT shows the event and its selection job, though a later number may
\* have been there before.  If the call throws nevertheless, the body that was
\* remembered for it is forgotten.
Admit(e) ==
  LET r == entry[e].at
      n == entry[e].number
  IN  /\ entry[e] # NoEntry
      /\ entry' = [entry EXCEPT ![e] = NoEntry]
      /\ order' = [order EXCEPT ![e] = n]
      /\ passed' = passed \cup {<<e, x>> : x \in {x \in Event : order[x] > n}}
      /\ queue' = [queue EXCEPT ![e] = "open"]
      /\ \/ memory' = [memory EXCEPT ![r] = @ \cup Remembered(e)] /\ UNCHANGED past
         \/ Happens("store") /\ UNCHANGED memory
      /\ UNCHANGED <<serial, rank, targets, rows, holder, serving, procs, run, acked>>

\* The transaction fails, and is rolled back; its number is not drawn again.
AdmitFails(e) ==
  /\ entry[e] # NoEntry
  /\ Happens("store")
  /\ entry' = [entry EXCEPT ![e] = NoEntry]
  /\ UNCHANGED <<serial, passed, events, rows, jobs, serving, procs, memory, run, acked>>

\* An event is admitted again: it is there, and this process remembers it too.
\* MaxHappenings bounds these as well, though they excuse nothing.
AdmitAgain(e, r) ==
  /\ up[r] = "up"
  /\ order[e] # 0
  /\ left > 0 /\ left' = left - 1
  /\ memory' = [memory EXCEPT ![r] = @ \cup Remembered(e)]
  /\ UNCHANGED <<entries, events, rows, jobs, serving, procs, run, acked, happened>>

\* A client creates, deletes or switches an endpoint.
Edit(p) ==
  /\ Happens("edit")
  /\ serving' = [serving EXCEPT ![p] = ~@]
  /\ UNCHANGED <<entries, events, rows, jobs, procs, memory, run, acked>>

-----------------------------------------------------------------------------
(* The queue, as its store keeps it (JobQueue).                            *)

\* The order within a group: all selections, or an endpoint's deliveries.
Earlier(i, j) ==
  \/ i \in Event /\ j \in Event /\ order[i] < order[j]
  \/ i \in Delivery /\ j \in Delivery /\ i[2] = j[2] /\ rank[i[1]] < rank[j[1]]

\* Mutant: a job that sleeps does not hold up its group.
BlockedByAwake(j) == \E i \in Job : Earlier(i, j) /\ queue[i] \in {"open", "granted"}

Blocked(j) == \E i \in Job : Earlier(i, j) /\ queue[i] \in Unfinished

Claim(t, r, j) ==
  /\ up[r] = "up"
  /\ At(t, "idle")
  /\ queue[j] = "open"
  /\ ~Blocked(j)
  /\ queue' = [queue EXCEPT ![j] = "granted"]
  /\ holder' = [holder EXCEPT ![j] = t]
  /\ run' = [run EXCEPT ![t] = Fresh(j, r, IF j \in Event THEN "select" ELSE "load")]
  /\ UNCHANGED <<entries, events, rows, serving, procs, memory, acked, past>>

\* runAfter and nextRetryAt pass.
Wake(j) ==
  /\ queue[j] = "asleep"
  /\ queue' = [queue EXCEPT ![j] = "open"]
  /\ UNCHANGED <<entries, events, rows, holder, serving, procs, memory, run, acked, past>>

RetryDue(d) ==
  /\ waits[d]
  /\ waits' = [waits EXCEPT ![d] = FALSE]
  /\ UNCHANGED <<entries, events, status, attempts, jobs, serving, procs, memory, run, acked, past>>

TakeBack(j) ==
  /\ queue' = [queue EXCEPT ![j] = "open"]
  /\ holder' = [holder EXCEPT ![j] = NoSlot]
  /\ UNCHANGED <<entries, events, rows, serving, procs, memory, run, acked>>

\* A lease passes behind a run that is gone, ...
LeaseEnds(j) ==
  /\ queue[j] = "granted" /\ run[holder[j]].job # j
  /\ TakeBack(j)
  /\ UNCHANGED past

\* ... or under the feet of one that lives: it stalled, or its renewals failed.
LeaseLost(j) ==
  /\ queue[j] = "granted" /\ run[holder[j]].job = j
  /\ Happens("lease")
  /\ TakeBack(j)

Verdict == [done |-> "succeeded", later |-> "asleep", rejected |-> "failed"]

\* The run's result reaches the queue, or is fenced.
Finish(t) ==
  /\ run[t].pc \in Answer
  /\ LET j == run[t].job
     IN  IF queue[j] = "granted" /\ holder[j] = t
         THEN /\ queue' = [queue EXCEPT ![j] = Verdict[run[t].pc]]
              /\ holder' = [holder EXCEPT ![j] = NoSlot]
         ELSE UNCHANGED jobs
  /\ run' = [run EXCEPT ![t] = Idle]
  /\ UNCHANGED <<entries, events, rows, serving, procs, memory, acked, past>>

-----------------------------------------------------------------------------
(* handleWebhookSelectJob                                                  *)

\* A body nobody will ask for again is forgotten.
ForgetIf(done, t) ==
  memory' = IF done THEN [memory EXCEPT ![run[t].at] = @ \ {EventOf(t)}] ELSE memory

\* The event is read, and its deliveries or, if it has none yet, the endpoints.
Select(t) ==
  LET e == run[t].job
  IN  /\ At(t, "select")
      /\ run' = IF rank[e] # 0
                THEN [run EXCEPT ![t].pc = "submit", ![t].picked = targets[e]]
                ELSE [run EXCEPT ![t].pc = "materialize",
                                 ![t].picked = {p \in Endpoint : serving[p]}]
      /\ ForgetIf(rank[e] # 0 /\ targets[e] = {}, t)
      /\ UNCHANGED <<entries, events, rows, jobs, serving, procs, acked, past>>

\* Mutant: an event is materialized by every run that found it without deliveries.
WriteDeliveriesAgain(e, S) ==
  /\ rank' = [rank EXCEPT ![e] = NextOf(rank)]
  /\ targets' = [targets EXCEPT ![e] = S]
  /\ status' = [d \in Delivery |-> IF d[1] = e /\ d[2] \in S THEN "pending" ELSE status[d]]

\* materializeEvent, one transaction: the deliveries of an event are written
\* once.  Their numbers too are drawn at INSERT; which of two materializations
\* that overlap comes first is left to the order in which they end.
WriteDeliveries(e, S) ==
  IF rank[e] # 0 THEN UNCHANGED <<rank, targets, status>>
  ELSE /\ rank' = [rank EXCEPT ![e] = NextOf(rank)]
       /\ targets' = [targets EXCEPT ![e] = S]
       /\ status' = [d \in Delivery |-> IF d[1] = e /\ d[2] \in S THEN "pending" ELSE status[d]]

Materialize(t) ==
  LET e == run[t].job
  IN  /\ At(t, "materialize")
      /\ WriteDeliveries(e, run[t].picked)
      /\ run' = [run EXCEPT ![t].pc = "submit", ![t].picked = targets'[e]]
      /\ ForgetIf(targets'[e] = {}, t)
      /\ UNCHANGED <<entries, order, attempts, waits, jobs, serving, procs, acked, past>>

\* ensure, of the jobs of these deliveries: only a missing row is written.
Ensure(S) ==
  queue' = [j \in Job |-> IF j \in S /\ queue[j] = "absent"
                          THEN IF waits[j] THEN "asleep" ELSE "open"
                          ELSE queue[j]]

\* Mutant: the handler does not wait for its submissions.
SubmitWithoutWaiting(t) ==
  /\ At(t, "submit")
  /\ Goto(t, "done")
  /\ UNCHANGED <<entries, events, rows, jobs, serving, procs, memory, acked, past>>

\* The delivery jobs are submitted, and the handler waits for all of them.
Submit(t) ==
  /\ At(t, "submit")
  /\ \/ run[t].picked = {} /\ Goto(t, "done") /\ UNCHANGED queue
     \/ \E p \in run[t].picked :
          /\ Ensure({<<run[t].job, p>>})
          /\ run' = [run EXCEPT ![t].picked = @ \ {p}]
  /\ UNCHANGED <<entries, events, rows, holder, serving, procs, memory, acked, past>>

-----------------------------------------------------------------------------
(* The delivery store.                                                     *)

\* Mutant: a delivery may be taken up from any status.
ValidTransitionFromAny(from, to) == to = "delivering" \/ from = "delivering"

ValidTransition(from, to) ==
  \/ from = "pending" /\ to = "delivering"
  \/ from = "delivering" /\ to \in {"pending"} \cup Closed

\* update: a valid transition, that keeps the attempts on record and appends at
\* most one.
MayUpdate(d, to, tried) ==
  /\ ValidTransition(status[d], to)
  /\ Len(tried) \in {Len(attempts[d]), Len(attempts[d]) + 1}
  /\ \A i \in 1 .. Len(attempts[d]) : tried[i] = attempts[d][i]

Update(d, to, tried) ==
  /\ MayUpdate(d, to, tried)
  /\ status' = [status EXCEPT ![d] = to]
  /\ attempts' = [attempts EXCEPT ![d] = tried]
  /\ waits' = [waits EXCEPT ![d] = (to = "pending")]

\* resetForRecovery
ResetRow(d) ==
  /\ status' = [status EXCEPT ![d] = IF @ = "delivering" THEN "pending" ELSE @]
  /\ waits' = [waits EXCEPT ![d] = @ /\ status[d] # "delivering"]
  /\ UNCHANGED attempts

\* Mutant: what cannot be delivered is closed whatever its status.
CloseAnyRow(d) ==
  /\ status' = [status EXCEPT ![d] = "failed"]
  /\ waits' = [waits EXCEPT ![d] = FALSE]
  /\ UNCHANGED attempts

\* markRecoveryFailed
CloseRow(d) ==
  /\ status' = [status EXCEPT ![d] = IF @ \in Closed THEN @ ELSE "failed"]
  /\ waits' = [waits EXCEPT ![d] = FALSE]
  /\ UNCHANGED attempts

-----------------------------------------------------------------------------
(* handleWebhookDeliverJob                                                 *)

\* #resolveEvent finds the body, in a store or in this process, and the endpoint
\* is there and active.
Deliverable(t) ==
  /\ EventOf(t) \notin Volatile \/ EventOf(t) \in memory[run[t].at]
  /\ serving[run[t].job[2]]

\* Where a run goes on that may make an attempt.
GoOn(t) == IF Deliverable(t) THEN "begin" ELSE "close"

\* Mutant: a run that finds an attempt of another run under way goes on with it.
AfterLoadWithoutReset(t) ==
  LET d == run[t].job
  IN  IF status[d] \in Closed THEN "done" ELSE IF waits[d] THEN "later" ELSE GoOn(t)

\* The delivery as it is found: closed, not due, left by another run, or pending.
AfterLoad(t) ==
  LET d == run[t].job
  IN  CASE status[d] \in Closed -> "done"
        [] status[d] \notin Closed /\ waits[d] -> "later"
        [] status[d] = "delivering" /\ ~waits[d] -> "reset"
        [] OTHER -> GoOn(t)

\* What a run reads of the delivery, its event and its endpoint.
Read(t, next) == run' = [run EXCEPT ![t].seen = attempts[run[t].job], ![t].pc = next]

Load(t) ==
  /\ At(t, "load")
  /\ Read(t, AfterLoad(t))
  /\ UNCHANGED <<entries, events, rows, jobs, serving, procs, memory, acked, past>>

Reset(t) ==
  /\ At(t, "reset")
  /\ ResetRow(run[t].job)
  /\ Goto(t, "reload")
  /\ UNCHANGED <<entries, events, jobs, serving, procs, memory, acked, past>>

\* It is read again, and its status not looked at again.
Reload(t) ==
  /\ At(t, "reload")
  /\ Read(t, GoOn(t))
  /\ UNCHANGED <<entries, events, rows, jobs, serving, procs, memory, acked, past>>

Close(t) ==
  /\ At(t, "close")
  /\ CloseRow(run[t].job)
  /\ Goto(t, "forget")
  /\ UNCHANGED <<entries, events, jobs, serving, procs, memory, acked, past>>

\* The update to delivering; refused, it throws outside the try.
Begin(t) ==
  LET d == run[t].job
  IN  /\ At(t, "begin")
      /\ \/ Update(d, "delivering", run[t].seen) /\ Goto(t, "post")
         \/ ~MayUpdate(d, "delivering", run[t].seen) /\ Goto(t, "rejected") /\ UNCHANGED rows
      /\ UNCHANGED <<entries, events, jobs, serving, procs, memory, acked, past>>

\* The request.  A receiver may acknowledge and the answer be lost; the signal
\* of a lost lease is one way to lose it.
Post(t) ==
  /\ At(t, "post")
  /\ \E ok \in BOOLEAN :
       /\ run' = [run EXCEPT ![t].pc = "record", ![t].ok = ok, ![t].caught = TRUE]
       /\ \/ acked' = acked \cup {run[t].job}
          \/ ~ok /\ UNCHANGED acked
  /\ UNCHANGED <<entries, events, rows, jobs, serving, procs, memory, past>>

\* Mutant: the last delay of the schedule is never used.
OutcomeOneEarly(t) ==
  IF run[t].ok THEN "succeeded"
  ELSE IF Len(run[t].seen) + 2 >= MaxAttempts THEN "failed" ELSE "pending"

\* What the attempt makes of the delivery: retryDelaysMs[attemptNumber], if any.
Outcome(t) ==
  IF run[t].ok THEN "succeeded"
  ELSE IF Len(run[t].seen) + 1 >= MaxAttempts THEN "failed" ELSE "pending"

Tried(t) == Append(run[t].seen, t)

\* Mutant: a recorded attempt completes the job, whatever came of it.
RecordAndComplete(t) ==
  LET d == run[t].job
  IN  /\ At(t, "record")
      /\ \/ Update(d, Outcome(t), Tried(t)) /\ Goto(t, "forget")
         \/ ~MayUpdate(d, Outcome(t), Tried(t)) /\ Goto(t, "later") /\ UNCHANGED rows
      /\ UNCHANGED <<entries, events, jobs, serving, procs, memory, acked, past>>

\* The attempt is recorded; if that is refused the job comes again in a second.
Record(t) ==
  LET d == run[t].job
  IN  /\ At(t, "record")
      /\ \/ Update(d, Outcome(t), Tried(t))
            /\ Goto(t, IF Outcome(t) = "pending" THEN "later" ELSE "forget")
         \/ ~MayUpdate(d, Outcome(t), Tried(t)) /\ Goto(t, "later") /\ UNCHANGED rows
      /\ UNCHANGED <<entries, events, jobs, serving, procs, memory, acked, past>>

\* #releaseEventIfTerminal
Forget(t) ==
  LET e == EventOf(t)
  IN  /\ At(t, "forget")
      /\ ForgetIf(\A p \in targets[e] : status[<<e, p>>] \in Closed, t)
      /\ Goto(t, "done")
      /\ UNCHANGED <<entries, events, rows, jobs, serving, procs, acked, past>>

\* The write a run is about to make.
Written(t) ==
  \/ /\ At(t, "materialize") /\ WriteDeliveries(run[t].job, run[t].picked)
     /\ UNCHANGED <<order, attempts, waits, queue>>
  \/ /\ At(t, "submit")
     /\ \E S \in SUBSET run[t].picked : Ensure({<<run[t].job, p>> : p \in S})
     /\ UNCHANGED <<events, rows>>
  \/ /\ \/ At(t, "reset") /\ ResetRow(run[t].job)
        \/ At(t, "close") /\ CloseRow(run[t].job)
        \/ At(t, "begin") /\ Update(run[t].job, "delivering", run[t].seen)
        \/ At(t, "record") /\ Update(run[t].job, Outcome(t), Tried(t))
     /\ UNCHANGED <<events, queue>>

\* A call to a store throws, applied or not: inside the try the job comes again,
\* anywhere else the handler rejects.
StoreFails(t) ==
  /\ run[t].pc \in (Selecting \cup Delivering) \ {"post"}
  /\ Happens("store")
  /\ Written(t) \/ UNCHANGED <<events, rows, queue>>
  /\ Goto(t, IF run[t].caught THEN "later" ELSE "rejected")
  /\ UNCHANGED <<entries, holder, serving, procs, memory, acked>>

-----------------------------------------------------------------------------
(* Processes.                                                              *)

Crash(r) ==
  /\ up[r] # "down"
  /\ Happens("crash")
  /\ up' = [up EXCEPT ![r] = "down"]
  /\ todo' = [todo EXCEPT ![r] = {}]
  /\ memory' = [memory EXCEPT ![r] = {}]
  /\ entry' = [e \in Event |-> IF entry[e].at = r THEN NoEntry ELSE entry[e]]
  /\ run' = [t \in Slot |-> IF run[t].at = r THEN Idle ELSE run[t]]
  /\ UNCHANGED <<serial, passed, events, rows, jobs, serving, acked>>

\* recoverExecutorJobs: first listUnmaterialized, ...
Boot(r) ==
  /\ up[r] = "down"
  /\ up' = [up EXCEPT ![r] = "events"]
  /\ todo' = [todo EXCEPT ![r] = {e \in Event : order[e] # 0 /\ rank[e] = 0}]
  /\ UNCHANGED <<entries, events, rows, jobs, serving, memory, run, acked, past>>

\* ... then listUnfinished; then the worker starts.
Proceed(r) ==
  /\ todo[r] = {}
  /\ \/ /\ up[r] = "events"
        /\ up' = [up EXCEPT ![r] = "deliveries"]
        /\ todo' = [todo EXCEPT ![r] = {d \in Delivery : status[d] \in {"pending", "delivering"}}]
     \/ up[r] = "deliveries" /\ up' = [up EXCEPT ![r] = "up"] /\ UNCHANGED todo
  /\ UNCHANGED <<entries, events, rows, jobs, serving, memory, run, acked, past>>

\* ensureRecoveryJob inserts what is missing and reopens what has ended.
Offer(j) == queue[j] \in {"absent"} \cup Closed

RecoverJob(r, j) ==
  /\ j \in todo[r]
  /\ \A i \in todo[r] : ~Earlier(i, j)
  /\ todo' = [todo EXCEPT ![r] = @ \ {j}]
  /\ queue' = [queue EXCEPT ![j] =
       IF ~Offer(j) THEN @ ELSE IF j \in Delivery /\ waits[j] THEN "asleep" ELSE "open"]
  /\ UNCHANGED <<entries, events, rows, holder, serving, up, memory, run, acked, past>>

-----------------------------------------------------------------------------
RunStep(t) ==
  \/ Select(t) \/ Materialize(t) \/ Submit(t)
  \/ Load(t) \/ Reset(t) \/ Reload(t) \/ Close(t)
  \/ Begin(t) \/ Post(t) \/ Record(t) \/ Forget(t)
  \/ Finish(t)

Recovers(r) == Boot(r) \/ Proceed(r) \/ \E j \in Job : RecoverJob(r, j)

Next ==
  \/ \E e \in Event, r \in Replica : Enters(e, r) \/ AdmitAgain(e, r)
  \/ \E e \in Event : Admit(e) \/ AdmitFails(e)
  \/ \E p \in Endpoint : Edit(p)
  \/ \E t \in Slot : RunStep(t) \/ StoreFails(t)
  \/ \E t \in Slot, r \in Replica, j \in Job : Claim(t, r, j)
  \/ \E j \in Job : Wake(j) \/ LeaseEnds(j) \/ LeaseLost(j)
  \/ \E d \in Delivery : RetryDue(d)
  \/ \E r \in Replica : Crash(r) \/ Recovers(r)

\* Promises are resumed, workers poll, time passes, processes are restarted.
\* Nobody has to admit an event or edit an endpoint, and no fault has to happen.
Fairness ==
  /\ \A t \in Slot : WF_vars(RunStep(t))
  /\ \A j \in Job : /\ WF_vars(\E t \in Slot, r \in Replica : Claim(t, r, j))
                    /\ WF_vars(Wake(j))
                    /\ WF_vars(LeaseEnds(j))
  /\ \A d \in Delivery : WF_vars(RetryDue(d))
  /\ \A r \in Replica : WF_vars(Recovers(r))

Spec == Init /\ [][Next]_vars /\ Fairness

-----------------------------------------------------------------------------
(* Properties.                                                             *)

\* Every variable has its type.
TypeOK ==
  /\ serial \in Nat
  /\ entry \in [Event -> [at : Replica \cup {NoSlot}, number : Nat]]
  /\ passed \subseteq Event \X Event
  /\ order \in [Event -> Nat] /\ rank \in [Event -> Nat]
  /\ targets \in [Event -> SUBSET Endpoint]
  /\ status \in [Delivery -> {"none", "pending", "delivering"} \cup Closed]
  /\ attempts \in [Delivery -> Seq(Slot)]
  /\ waits \in [Delivery -> BOOLEAN]
  /\ queue \in [Job -> {"absent"} \cup Unfinished \cup Closed]
  /\ holder \in [Job -> Slot \cup {NoSlot}]
  /\ serving \in [Endpoint -> BOOLEAN]
  /\ up \in [Replica -> {"down", "events", "deliveries", "up"}]
  /\ todo \in [Replica -> SUBSET Job]
  /\ memory \in [Replica -> SUBSET Volatile]
  /\ run \in [Slot -> RunState]
  /\ acked \in SUBSET Delivery
  /\ happened \subseteq Happenings /\ left \in 0 .. MaxHappenings

\* A selection that ended well has left an event with its deliveries, and a job
\* for every one of them, whoever wrote them and whatever crashed in between.
SelectionComplete ==
  \A e \in Event : queue[e] = "succeeded"
    => rank[e] # 0 /\ \A p \in targets[e] : queue[<<e, p>>] # "absent"

\* A delivery's job ends well only behind a closed delivery, even if the run that
\* closed it was not the one the job was granted to.
DeliveredJobsClosed ==
  \A d \in Delivery : queue[d] = "succeeded" => status[d] \in Closed

\* A delivery succeeds only if its receiver acknowledged it, and fails only after
\* its whole schedule, because its endpoint was switched off, or because its
\* body was gone; the schedule is never exceeded.
ClosedForAReason ==
  \A d \in Delivery :
    /\ status[d] = "succeeded" => d \in acked
    /\ status[d] = "failed" => \/ Len(attempts[d]) = MaxAttempts
                               \/ "edit" \in happened
                               \/ d[1] \in Volatile /\ (happened # {} \/ Cardinality(Replica) > 1)
    /\ Len(attempts[d]) <= MaxAttempts

Inv == TypeOK /\ ClosedForAReason

\* The delivery log stands: attempts are only appended, whoever records them, and
\* nothing happens to a delivery once it is closed.
LogStands ==
  [][\A d \in Delivery :
       /\ Len(attempts[d]) <= Len(attempts'[d])
       /\ SubSeq(attempts'[d], 1, Len(attempts[d])) = attempts[d]
       /\ status[d] \in Closed => UNCHANGED <<status[d], attempts[d]>>]_vars

\* One of two events was shown only behind the other, whose number is greater.
Passed(e, x) == <<e, x>> \in passed \/ <<x, e>> \in passed

\* A request of a delivery while an earlier one to its endpoint is not closed.
Overtakes(t) ==
  /\ Post(t)
  /\ \E d \in Delivery : /\ Earlier(d, run[t].job) /\ status[d] \in {"pending", "delivering"}
                         /\ ~Passed(d[1], EventOf(t))

\* Retries included, one endpoint's deliveries are attempted in their order
\* through crashes and recoveries, as long as no store call failed and no live
\* run lost its lease.  Of two events whose admissions overlapped so that the
\* later number was there first nothing is claimed: no lock keeps the numbers
\* drawn at INSERT in the order of the commits.
InOrder == [][happened \cap {"store", "lease"} = {} => \A t \in Slot : ~Overtakes(t)]_vars

\* Through crashes, every admitted event is given to its endpoints and every
\* delivery is closed, unless another fault came in between.
Delivered(e) == rank[e] # 0 /\ \A p \in targets[e] : status[<<e, p>>] \in Closed
EveryEventDelivered ==
  \A e \in Event : order[e] # 0 ~> Delivered(e) \/ happened \cap {"store", "lease"} # {}
=============================================================================
