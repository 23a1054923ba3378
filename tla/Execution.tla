----------------------------- MODULE Execution -----------------------------
(***************************************************************************)
(* The life of one execution (apps/executor/src/engine.ts over store.ts):  *)
(* allocated by a request, run by that request or by a claimed job,        *)
(* cancelled, replayed, recovered at boot, and settled: its usage put into *)
(* the outbox and its webhook event admitted before its job is             *)
(* acknowledged.                                                           *)
(*                                                                         *)
(* A thread is one asynchronous call chain of one replica.  Each step of a *)
(* thread is one call to the store, to the provider or to the queue, with  *)
(* the straight-line code up to the next call.  The queue is what JobLease *)
(* promises of it (JobQueue is shown to keep that promise).                *)
(*                                                                         *)
(* Calls to reconcile that overlap in one replica share one promise in the *)
(* code; here each does the work itself, which repeats idempotent writes.  *)
(***************************************************************************)
EXTENDS Naturals

CONSTANTS
  Exec,       \* the execution, and its deterministic job
  Thread,     \* call chains that may be in flight at once
  Replica,    \* executor processes over one database
  Upgraded,   \* replicas whose catalog no longer has the tool's version
  Metering,   \* "off", "open" (admitted without a reservation) or "reserved"
  Faults,     \* kinds of fault: "crash", "store", "lease"
  MaxFaults,  \* bound: faults
  MaxAsks,    \* bound: cancellation requests and idempotent replays
  MaxEpoch    \* bound: claims of the job

ASSUME ExecutionAssumption ==
  /\ Upgraded \in SUBSET Replica
  /\ Metering \in {"off", "open", "reserved"}
  /\ Faults \in SUBSET {"crash", "store", "lease"}
  /\ MaxFaults \in Nat
  /\ MaxAsks \in Nat
  /\ MaxEpoch \in Nat

VARIABLES
  \* the execution's row
  status,     \* status of the record, "absent" before it is allocated
  async,      \* the mode the request asked for
  marked,     \* dispatchStartedAt is set
  fence,      \* cancellation.dispatchMayHaveBegun
  usageDone,  \* usageFinalizedAt is set
  published,  \* webhookPublishedAt is set
  \* what the row's effects are
  outbox,     \* payload of the usage outbox row
  event,      \* status the admitted webhook event carries
  calls,      \* history: calls made to the provider
  \* the job
  queue, epoch,
  \* the processes
  up,         \* life cycle of each replica
  th,         \* the threads
  asks,       \* requests still to come
  faults      \* faults still to come

record  == <<status, async, marked, fence>>
effects == <<usageDone, published, outbox, event>>
job     == <<queue, epoch>>
env     == <<up, asks, faults>>
vars    == <<record, effects, calls, job, env, th>>

-----------------------------------------------------------------------------
Terminal == {"succeeded", "failed", "cancelled"}
Live     == {"pending", "running"}

\* Where a thread can be: in #runAllocated, in a reconciliation, elsewhere.
Running     == {"start", "resume", "resolve", "dispatch", "call", "succeed",
                "fail", "catch", "release"}
Reconciling == {"usage", "usageMark", "publish", "publishMark"}
Pc == [idle   |-> {"idle"},
       async  |-> {"submit"},
       sync   |-> Running \cup Reconciling,
       job    |-> Running \cup Reconciling
                  \cup {"load", "recheck", "interrupt", "done", "again", "rejected"},
       cancel |-> Reconciling \cup {"abort", "withdraw"},
       replay |-> Reconciling \cup {"wait", "submit"},
       boot   |-> Reconciling \cup {"scan", "sweep", "withdraw"}]

Role == DOMAIN Pc

ThreadState == [role      : Role,
                at        : Replica \cup {"nowhere"},
                pc        : UNION {Pc[r] : r \in Role},
                ctx       : {"run", "catch", "outer"},  \* who called reconcile
                epoch     : Nat,                \* its claim; 0: none, or lost
                aborted   : BOOLEAN,            \* its abort signal
                attempted : BOOLEAN,            \* dispatchAttempted
                error     : {"none", "conflict", "fenced", "other"}]

Fresh(role, r, pc) ==
  [role |-> role, at |-> r, pc |-> pc, ctx |-> "outer", epoch |-> 0,
   aborted |-> FALSE, attempted |-> FALSE, error |-> "none"]

Idle == Fresh("idle", "nowhere", "idle")

Init ==
  /\ status = "absent" /\ async = FALSE /\ marked = FALSE /\ fence = FALSE
  /\ usageDone = FALSE /\ published = FALSE /\ outbox = "none" /\ event = "none"
  /\ calls = 0
  /\ queue = "absent" /\ epoch = 0
  /\ up \in [Replica -> {"down", "up"}] /\ \E r \in Replica : up[r] = "up"
  /\ th = [t \in Thread |-> Idle]
  /\ asks = MaxAsks /\ faults = MaxFaults

-----------------------------------------------------------------------------
(* How threads come and go.                                                *)

Spawn(t, s) == th[t].role = "idle" /\ th' = [th EXCEPT ![t] = s]
End(t)      == th' = [th EXCEPT ![t] = Idle]
At(t, pc)   == th[t].pc = pc
Goto(t, pc) == th' = [th EXCEPT ![t].pc = pc]

Reconcile(t, ctx) == th' = [th EXCEPT ![t].pc = "usage", ![t].ctx = ctx]
Catch(t, error)   == th' = [th EXCEPT ![t].pc = "catch", ![t].error = error]

\* #runAllocated throws: the job's handler looks again, a request answers 500.
Rethrow(t) == IF th[t].role = "job" THEN Goto(t, "recheck") ELSE End(t)

\* What a failing call leads to, by where it was made.  A handler's first read
\* is outside its try.  A recovery that fails ends the boot, and the process.
Throws(t) ==
  LET pc  == th[t].pc
      ctx == IF pc \in Reconciling THEN th[t].ctx ELSE "none"
  IN  /\ CASE pc \in {"resolve", "dispatch", "succeed"}                  -> Goto(t, "fail")
           [] pc \in {"start", "fail"} \/ ctx = "run"                   -> Catch(t, "other")
           [] pc \in {"catch", "release"} \/ ctx = "catch"              -> Rethrow(t)
           [] pc = "load"                                               -> Goto(t, "rejected")
           [] pc \in {"recheck", "interrupt", "done"} \/ (ctx = "outer" /\ th[t].role = "job")
                                                                        -> Goto(t, "again")
           [] OTHER                                                     -> End(t)
      /\ up' = IF th[t].role = "boot" THEN [up EXCEPT ![th[t].at] = "down"] ELSE up

-----------------------------------------------------------------------------
(* Requests: execute, cancelExecution, an idempotent replay.               *)

\* allocate persists the record; a sync request goes on to run it itself.
Allocate(t, r, a) ==
  /\ up[r] = "up"
  /\ r \notin Upgraded
  /\ status = "absent"
  /\ status' = "pending"
  /\ async' = a
  /\ Spawn(t, IF a THEN Fresh("async", r, "submit") ELSE Fresh("sync", r, "start"))
  /\ UNCHANGED <<marked, fence, effects, calls, job, env>>

\* #submitExecutionJob, and the ensure it leads to.
Submit(t) ==
  /\ At(t, "submit")
  /\ queue' = IF queue = "absent" THEN "open" ELSE queue
  /\ End(t)
  /\ UNCHANGED <<record, effects, calls, epoch, env>>

\* store.cancelExecution: one atomic step decides whether dispatch may have begun.
\* A second cancellation repeats what follows; any other terminal record is a 409.
CancelExecution(t, r) ==
  /\ up[r] = "up"
  /\ asks > 0 /\ asks' = asks - 1
  /\ \/ status \in Live /\ status' = "cancelled" /\ fence' = marked
     \/ status = "cancelled" /\ UNCHANGED <<status, fence>>
  /\ Spawn(t, Fresh("cancel", r, "abort"))
  /\ UNCHANGED <<async, marked, effects, calls, job, up, faults>>

\* #abortActiveExecution reaches the runs of this replica, and only those.
Abort(t) ==
  /\ At(t, "abort")
  /\ th' = [s \in Thread |->
              IF s = t THEN [th[t] EXCEPT !.pc = "usage"]
              ELSE IF th[s].at = th[t].at /\ th[s].pc \in Running
              THEN [th[s] EXCEPT !.aborted = TRUE]
              ELSE th[s]]
  /\ UNCHANGED <<record, effects, calls, job, env>>

\* cancelPending, once the cancellation is settled.
Withdraw(t) ==
  /\ At(t, "withdraw")
  /\ queue' = IF queue = "open" THEN "cancelled" ELSE queue
  /\ End(t)
  /\ up' = IF th[t].role = "boot" THEN [up EXCEPT ![th[t].at] = "up"] ELSE up
  /\ UNCHANGED <<record, effects, calls, epoch, asks, faults>>

\* A request with the key of this execution.
Replay(t, r) ==
  /\ up[r] = "up"
  /\ asks > 0 /\ asks' = asks - 1
  /\ status # "absent"
  /\ Spawn(t, Fresh("replay", r, IF status \in Terminal THEN "usage"
                                 ELSE IF async THEN "submit" ELSE "wait"))
  /\ UNCHANGED <<record, effects, calls, job, up, faults>>

\* waitForTerminal
Await(t) ==
  /\ At(t, "wait")
  /\ status \in Terminal
  /\ Goto(t, "usage")
  /\ UNCHANGED <<record, effects, calls, job, env>>

-----------------------------------------------------------------------------
(* The writes of the store.                                                *)

\* Mutants: the marker is set twice, and on records that no longer run.
ToMarkedAgain     == status = "running" /\ marked' = TRUE
ToMarkedAnyStatus == ~marked /\ marked' = TRUE

\* Each is a compare-and-set on the record.
ToRunning   == status = "pending" /\ status' = "running"
ToMarked    == status = "running" /\ ~marked /\ marked' = TRUE
ToSucceeded == status = "running" /\ status' = "succeeded"
ToFailed    == status \in Live /\ status' = "failed"

-----------------------------------------------------------------------------
(* The job: runExecutionJob.                                               *)

Claim(t, r) ==
  /\ up[r] = "up"
  /\ queue = "open"
  /\ epoch < MaxEpoch
  /\ queue' = "granted"
  /\ epoch' = epoch + 1
  /\ Spawn(t, [Fresh("job", r, "load") EXCEPT !.epoch = epoch + 1])
  /\ UNCHANGED <<record, effects, calls, env>>

\* A run that may have called the provider.
Ambiguous == status = "running" /\ marked

\* What the handler does first: settle what is terminal, fail as interrupted what
\* is ambiguous or cannot be resumed, run the rest.
Load(t) ==
  /\ At(t, "load")
  /\ \/ status \in Terminal /\ Reconcile(t, "outer")
     \/ Ambiguous /\ Goto(t, "interrupt")
     \/ /\ status \in Live /\ ~Ambiguous
        /\ Goto(t, IF th[t].aborted THEN "again"
                   ELSE IF th[t].at \in Upgraded THEN "interrupt"
                   ELSE IF status = "pending" THEN "start" ELSE "resume")
  /\ UNCHANGED <<record, effects, calls, job, env>>

\* failInterruptedExecution: a conflict means somebody else ended it.
Interrupt(t) ==
  /\ At(t, "interrupt")
  /\ \/ ToFailed /\ Reconcile(t, "outer")
     \/ status \notin Live /\ UNCHANGED status /\ Goto(t, "again")
  /\ UNCHANGED <<async, marked, fence, effects, calls, job, env>>

\* Mutant: what is terminal is taken to be settled.
RecheckTrustsRecord(t) ==
  /\ At(t, "recheck")
  /\ Goto(t, IF status \in Terminal THEN "done" ELSE "again")
  /\ UNCHANGED <<record, effects, calls, job, env>>

\* After #runAllocated threw: settle what is terminal, retry what is not.
Recheck(t) ==
  /\ At(t, "recheck")
  /\ IF status \in Terminal THEN Reconcile(t, "outer") ELSE Goto(t, "again")
  /\ UNCHANGED <<record, effects, calls, job, env>>

\* Mutant: any run that still believes in its claim.
HoldsAnyClaim(t) == queue = "granted" /\ th[t].epoch # 0

\* Who still acts for the claim the job is granted to.
Holds(t) == queue = "granted" /\ th[t].epoch = epoch

\* What the handler's result makes of the job.
Verdict(t) == CASE At(t, "again")    -> "open"
                [] At(t, "rejected") -> "failed"
                [] At(t, "done")     -> IF status = "cancelled" THEN "cancelled"
                                        ELSE "succeeded"

\* The result reaches the queue, or is dropped or fenced.
Acknowledge(t) ==
  /\ th[t].pc \in {"done", "again", "rejected"}
  /\ queue' = IF Holds(t) THEN Verdict(t) ELSE queue
  /\ End(t)
  /\ UNCHANGED <<record, effects, calls, epoch, env>>

\* A heartbeat learns that the lease is gone, or fails.
LoseLease(t) ==
  /\ th[t].role = "job" /\ th[t].epoch # 0
  /\ \/ ~Holds(t) /\ UNCHANGED faults
     \/ "lease" \in Faults /\ faults > 0 /\ faults' = faults - 1
  /\ th' = [th EXCEPT ![t].aborted = TRUE, ![t].epoch = 0]
  /\ UNCHANGED <<record, effects, calls, job, up, asks>>

\* The lease passes: at no cost once no live thread renews it.
TakeBack ==
  /\ queue = "granted"
  /\ queue' = "open"
  /\ \/ (\A t \in Thread : ~Holds(t)) /\ UNCHANGED faults
     \/ "lease" \in Faults /\ faults > 0 /\ faults' = faults - 1
  /\ UNCHANGED <<record, effects, calls, epoch, up, asks, th>>

-----------------------------------------------------------------------------
(* One run: #runAllocated.                                                 *)

\* mark_running, where the record was read as pending.
Start(t) ==
  /\ At(t, "start")
  /\ IF th[t].aborted THEN Catch(t, "other") /\ UNCHANGED status
     ELSE \/ ToRunning /\ Goto(t, "resolve")
          \/ status # "pending" /\ UNCHANGED status /\ Catch(t, "conflict")
  /\ UNCHANGED <<async, marked, fence, effects, calls, job, env>>

\* The record was read as running, with no dispatch.
Resume(t) ==
  /\ At(t, "resume")
  /\ IF th[t].aborted THEN Catch(t, "other") ELSE Goto(t, "resolve")
  /\ UNCHANGED <<record, effects, calls, job, env>>

\* Credentials resolve, or do not.
Resolve(t) ==
  /\ At(t, "resolve")
  /\ \E pc \in {"dispatch", "fail"} : Goto(t, pc)
  /\ UNCHANGED <<record, effects, calls, job, env>>

\* markDispatchStarted, the compare-and-set in front of the provider.
Dispatch(t) ==
  /\ At(t, "dispatch")
  /\ IF th[t].aborted THEN Goto(t, "fail") /\ UNCHANGED marked
     ELSE \/ /\ ToMarked
             /\ th' = [th EXCEPT ![t].pc = "call", ![t].attempted = TRUE]
          \/ /\ ~(status = "running" /\ ~marked)
             /\ Catch(t, "fenced") /\ UNCHANGED marked
  /\ UNCHANGED <<status, async, fence, effects, calls, job, env>>

\* adapter.execute: the provider answers well, or with an error.
CallProvider(t) ==
  /\ At(t, "call")
  /\ calls' = calls + 1
  /\ \E pc \in {"succeed", "fail"} : Goto(t, pc)
  /\ UNCHANGED <<record, effects, job, env>>

\* mark_succeeded; a conflict is thrown into the failure path.
Succeed(t) ==
  /\ At(t, "succeed")
  /\ \/ ToSucceeded /\ Reconcile(t, "run")
     \/ status # "running" /\ UNCHANGED status /\ Goto(t, "fail")
  /\ UNCHANGED <<async, marked, fence, effects, calls, job, env>>

\* mark_failed
Fail(t) ==
  /\ At(t, "fail")
  /\ \/ ToFailed /\ Reconcile(t, "run")
     \/ status \notin Live /\ UNCHANGED status /\ Catch(t, "conflict")
  /\ UNCHANGED <<async, marked, fence, effects, calls, job, env>>

\* The outer catch: settle a cancellation that won; otherwise give back a
\* reservation this run has not dispatched on, and throw.
CatchRun(t) ==
  /\ At(t, "catch")
  /\ IF (th[t].error \in {"conflict", "fenced"} \/ th[t].aborted) /\ status = "cancelled"
     THEN Reconcile(t, "catch")
     ELSE IF ~th[t].attempted /\ th[t].error # "fenced" /\ Metering = "reserved"
     THEN Goto(t, "release")
     ELSE Rethrow(t)
  /\ UNCHANGED <<record, effects, calls, job, env>>

\* usageOutbox.enqueue: a row is written once; another payload for it is refused.
Refused(payload)  == outbox \notin {"none", payload}
Enqueue(payload)  == ~Refused(payload) /\ outbox' = payload

\* Given back, or refused: thrown on either way.
Release(t) ==
  /\ At(t, "release")
  /\ Enqueue("release") \/ (Refused("release") /\ UNCHANGED outbox)
  /\ Rethrow(t)
  /\ UNCHANGED <<record, usageDone, published, event, calls, job, env>>

-----------------------------------------------------------------------------
(* reconcileTerminalExecution                                              *)

\* Mutant: a cancelled execution is never metered.
BegunUnlessCancelled == status = "succeeded" \/ (status = "failed" /\ marked)

\* dispatchMayHaveBegun, as the terminal record tells it.
Begun == \/ status = "succeeded"
         \/ (status = "cancelled" /\ fence)
         \/ (status = "failed" /\ marked)

\* The payload the record asks for, if any.
Payloads == IF Metering = "off" THEN {}
            ELSE IF Begun THEN {"report"}
            ELSE IF Metering = "reserved" THEN {"release"} ELSE {}

Usage(t) ==
  /\ At(t, "usage")
  /\ \/ usageDone /\ Goto(t, "publish") /\ UNCHANGED <<outbox, up>>
     \/ ~usageDone /\ Payloads = {} /\ Goto(t, "usageMark") /\ UNCHANGED <<outbox, up>>
     \/ \E p \in Payloads : ~usageDone /\ Enqueue(p) /\ Goto(t, "usageMark") /\ UNCHANGED up
     \/ \E p \in Payloads : ~usageDone /\ Refused(p) /\ Throws(t) /\ UNCHANGED outbox
  /\ UNCHANGED <<record, usageDone, published, event, calls, job, asks, faults>>

UsageMark(t) ==
  /\ At(t, "usageMark")
  /\ usageDone' = TRUE
  /\ Goto(t, "publish")
  /\ UNCHANGED <<record, published, outbox, event, calls, job, env>>

\* enqueueExecution admits the event once, under its preallocated id.
Admitted == event' = IF event = "none" THEN status ELSE event

Publish(t) ==
  /\ At(t, "publish")
  /\ IF published THEN UNCHANGED event ELSE Admitted
  /\ Goto(t, "publishMark")
  /\ UNCHANGED <<record, usageDone, published, outbox, calls, job, env>>

\* markWebhookPublished; then back to whoever called reconcile.
PublishMark(t) ==
  /\ At(t, "publishMark")
  /\ published' = TRUE
  /\ IF th[t].role = "job" THEN Goto(t, "done")
     ELSE IF th[t].role \in {"cancel", "boot"} THEN Goto(t, "withdraw")
     ELSE End(t)
  /\ UNCHANGED <<record, usageDone, outbox, event, calls, job, env>>

-----------------------------------------------------------------------------
(* Processes: boot with its recovery sweep, crash, and calls that fail.    *)

Boot(t, r) ==
  /\ up[r] = "down"
  /\ up' = [up EXCEPT ![r] = "booting"]
  /\ Spawn(t, Fresh("boot", r, "scan"))
  /\ UNCHANGED <<record, effects, calls, job, asks, faults>>

\* Mutant: only unfinished records are candidates.
CandidateLive == status \in Live

\* listRecoveryCandidates
Candidate == \/ status \in Live
             \/ status \in Terminal /\ (~published \/ (Metering # "off" /\ ~usageDone))

\* Recovery is over and the replica serves.
Serve(t) == End(t) /\ up' = [up EXCEPT ![th[t].at] = "up"]

\* A cancelled candidate is settled in place, any other is offered again.
Scan(t) ==
  /\ At(t, "scan")
  /\ CASE ~Candidate -> Serve(t)
       [] Candidate /\ status = "cancelled" -> Reconcile(t, "outer") /\ UNCHANGED up
       [] Candidate /\ status # "cancelled" -> Goto(t, "sweep") /\ UNCHANGED up
  /\ UNCHANGED <<record, effects, calls, job, asks, faults>>

\* ensureRecoveryJob
Offered == queue' = IF queue \in {"absent", "succeeded", "failed"} THEN "open" ELSE queue

Sweep(t) ==
  /\ At(t, "sweep")
  /\ Offered
  /\ Serve(t)
  /\ UNCHANGED <<record, effects, calls, epoch, asks, faults>>

Costs(kind) == kind \in Faults /\ faults > 0 /\ faults' = faults - 1

\* A process is gone with all its threads.
Crash(r) ==
  /\ up[r] # "down"
  /\ Costs("crash")
  /\ up' = [up EXCEPT ![r] = "down"]
  /\ th' = [t \in Thread |-> IF th[t].at = r THEN Idle ELSE th[t]]
  /\ UNCHANGED <<record, effects, calls, job, asks>>

\* The write the thread is about to make.
Written(t) ==
  \/ /\ \/ At(t, "start") /\ ~th[t].aborted /\ ToRunning
        \/ At(t, "succeed") /\ ToSucceeded
        \/ th[t].pc \in {"fail", "interrupt"} /\ ToFailed
     /\ UNCHANGED <<async, marked, fence, effects, queue>>
  \/ /\ At(t, "dispatch") /\ ~th[t].aborted /\ ToMarked
     /\ UNCHANGED <<status, async, fence, effects, queue>>
  \/ /\ \/ At(t, "release") /\ Enqueue("release")
        \/ At(t, "usage") /\ ~usageDone /\ \E p \in Payloads : Enqueue(p)
     /\ UNCHANGED <<record, usageDone, published, event, queue>>
  \/ /\ At(t, "usageMark") /\ usageDone' = TRUE
     /\ UNCHANGED <<record, published, outbox, event, queue>>
  \/ /\ At(t, "publish") /\ ~published /\ Admitted
     /\ UNCHANGED <<record, usageDone, published, outbox, queue>>
  \/ /\ At(t, "publishMark") /\ published' = TRUE
     /\ UNCHANGED <<record, usageDone, outbox, event, queue>>
  \/ /\ \/ At(t, "submit") /\ queue = "absent" /\ queue' = "open"
        \/ At(t, "sweep") /\ Offered
        \/ At(t, "withdraw") /\ queue = "open" /\ queue' = "cancelled"
     /\ UNCHANGED <<record, effects>>

\* A call to the database throws, applied or not.  A handler whose run returned
\* still reads the record once more before it is done.
StoreFails(t) ==
  /\ th[t].pc \notin {"idle", "resume", "call", "abort", "again", "rejected"}
  /\ At(t, "done") => th[t].ctx # "outer"
  /\ Costs("store")
  /\ Written(t) \/ UNCHANGED <<record, effects, queue>>
  /\ Throws(t)
  /\ UNCHANGED <<calls, epoch, asks>>

-----------------------------------------------------------------------------
Step(t) ==
  \/ Submit(t) \/ Abort(t) \/ Withdraw(t) \/ Await(t)
  \/ Load(t) \/ Interrupt(t) \/ Recheck(t) \/ Acknowledge(t)
  \/ Start(t) \/ Resume(t) \/ Resolve(t) \/ Dispatch(t) \/ CallProvider(t)
  \/ Succeed(t) \/ Fail(t) \/ CatchRun(t) \/ Release(t)
  \/ Usage(t) \/ UsageMark(t) \/ Publish(t) \/ PublishMark(t)
  \/ Scan(t) \/ Sweep(t)

Request(t, r) == \/ \E a \in BOOLEAN : Allocate(t, r, a)
                 \/ CancelExecution(t, r)
                 \/ Replay(t, r)

Next ==
  \/ \E t \in Thread : Step(t) \/ LoseLease(t) \/ StoreFails(t)
  \/ \E t \in Thread, r \in Replica : Request(t, r) \/ Claim(t, r) \/ Boot(t, r)
  \/ \E r \in Replica : Crash(r)
  \/ TakeBack

\* Promises are always resumed, workers keep polling, leases pass, processes
\* are restarted.  Nobody has to send a request, and no fault has to happen.
Fairness ==
  /\ \A t \in Thread : WF_vars(Step(t))
  /\ WF_vars(TakeBack /\ UNCHANGED faults)
  /\ \A r \in Replica : /\ WF_vars(\E t \in Thread : Claim(t, r))
                        /\ WF_vars(\E t \in Thread : Boot(t, r))

Spec == Init /\ [][Next]_vars /\ Fairness

-----------------------------------------------------------------------------
(* Properties.                                                             *)

\* Every variable has its type, and a thread only goes where its call chain
\* leads.
TypeOK ==
  /\ status \in {"absent"} \cup Live \cup Terminal
  /\ {async, marked, fence, usageDone, published} \subseteq BOOLEAN
  /\ outbox \in {"none", "report", "release"}
  /\ event \in {"none"} \cup Terminal
  /\ calls \in Nat
  /\ queue \in {"absent", "open", "granted"} \cup Terminal
  /\ epoch \in Nat
  /\ up \in [Replica -> {"down", "booting", "up"}]
  /\ th \in [Thread -> ThreadState]
  /\ \A t \in Thread : /\ th[t].pc \in Pc[th[t].role]
                       /\ th[t].ctx # "outer" => th[t].role \in {"sync", "job"}
  /\ asks \in Nat /\ faults \in Nat

\* The provider is called at most once for an execution, whoever runs it: two
\* owners, a crash, a second claim or a retry never repeat the call.
AtMostOneCall == calls <= 1

\* dispatchMayHaveBegun = false is a promise: the provider was not called for
\* this cancelled execution, and no thread is on its way to it.
CancelFence == status = "cancelled" /\ ~fence
                 => calls = 0 /\ \A t \in Thread : ~At(t, "call")

Inv == TypeOK /\ CancelFence

\* A terminal record never changes, whatever late threads still try to write.
TerminalRecordIsFinal ==
  [][(status \in Terminal) => UNCHANGED <<status, fence, marked>>]_vars

\* Once usage is finalized the outbox says what happened: a call is reported,
\* and a reservation is given back only where there was no call.
UsageTruthful ==
  usageDone => /\ (calls > 0 /\ Metering # "off" => outbox = "report")
               /\ (outbox = "release" => calls = 0)
               /\ (status = "cancelled" /\ ~fence => outbox # "report")

\* A job acknowledged as complete or cancelled leaves nothing behind: the record
\* is terminal, its usage finalized, and its event admitted with that status.
AcknowledgedIsSettled ==
  queue \in {"succeeded", "cancelled"}
    => status \in Terminal /\ usageDone /\ published /\ event = status

\* What the engine and its recovery do with the job is what JobLease allows.
Queue == INSTANCE JobLease
  WITH Job    <- {Exec},
       Worker <- Replica,
       status <- [e \in {Exec} |-> queue],
       epoch  <- [e \in {Exec} |-> epoch],
       claims <- {[by |-> th[t].at, job |-> Exec, epoch |-> th[t].epoch]
                    : t \in {s \in Thread : th[s].epoch # 0}}
KeepsLeaseContract == Queue!ASpec

\* What is left behind by a crash is picked up: every allocated execution ends
\* with a terminal record, its effects settled and its job closed.
Settled == /\ status \in Terminal /\ usageDone /\ published
           /\ queue \notin {"open", "granted"}
EveryExecutionSettles == status # "absent" ~> Settled

-----------------------------------------------------------------------------
(* A claim of a comment that a run refutes.                                *)

\* "The sweep is bounded, idempotent, and safe across replicas": recovery on one
\* replica does not end an execution another replica is still running.
SweepSparesLiveRuns ==
  [][\A t \in Thread : Interrupt(t) /\ status' # status
       => (\A s \in Thread : th[s].pc \notin {"call", "succeed"})]_vars
=============================================================================
