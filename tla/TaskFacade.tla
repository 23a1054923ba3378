----------------------------- MODULE TaskFacade -----------------------------
(***************************************************************************)
(* What one process tells its own callers of the jobs it submits           *)
(* (ExecutorTaskSystem in apps/executor/src/jobs/worker.ts): the promises  *)
(* accepted and completed of a submission, the deferred that submissions   *)
(* of one job share, the polling tick that settles them, and the shutdown  *)
(* that stops, drains and hands off (drainRuntime in runtime.ts).          *)
(*                                                                         *)
(* The store is one row per job; leases, groups and crashes are JobQueue's *)
(* subject and are left out here.  A handler that has a follow-up submits  *)
(* it and waits for it to be accepted: an execution its event's selection, *)
(* a selection its deliveries.                                             *)
(***************************************************************************)
EXTENDS Naturals

CONSTANTS
  Job,
  Client,      \* submissions requests may make
  Follow,      \* the job a job's handler submits, or "none"
  Retried,     \* jobs rescheduled when that submission is refused
  Stores,      \* whether the store may outlive the process: a set of BOOLEAN
  MaxHappenings, \* bound: ensure calls that throw, and reschedules a handler asks for by itself
  MaxBehind     \* bound: runs of one job that were written back and wait for the answer

\* Each handler makes one submission per run: it is named after its job.
Caller == Client \cup Job

ASSUME FacadeAssumption ==
  /\ Follow \in [Job -> Job \cup {"none"}]
  /\ Retried \in SUBSET Job
  /\ Stores \in SUBSET BOOLEAN
  /\ "none" \notin Job \cup Client /\ Client \cap Job = {}
  /\ MaxHappenings \in Nat /\ MaxBehind \in Nat

VARIABLES
  durable,    \* the store outlives the process
  row,        \* the store's row of each job
  accepting, claiming,
  phase,      \* how far the shutdown has come
  attached,   \* whose deferred is attached to each job
  promise,    \* what became of the deferred a caller made
  call,       \* the submission of each caller
  run,        \* the newest run in flight of each job
  behind,     \* how many older ones wait for the answer to their write-back
  active,     \* the jobs that have a key in #active
  awaited,    \* those whose runs drainOwned waits for
  doubled,    \* history: those begun while an older run was, until none is left
  tick,       \* the polling tick in flight
  left,       \* how often either may still happen
  threw       \* history: an ensure call has thrown

flags == <<durable, accepting, claiming, phase>>
told  == <<attached, promise>>
keys  == <<behind, active, awaited, doubled>>
spare == <<left, threw>>
vars  == <<row, flags, told, call, run, keys, tick, spare>>

-----------------------------------------------------------------------------
Terminal == {"succeeded", "failed", "cancelled"}
RowState == {"absent", "pending", "running"} \cup Terminal
Result   == Terminal \cup {"again"}

NoCall == [job |-> "none", shares |-> "none", at |-> "unused", seen |-> "absent"]
NoRun  == [at |-> "none", result |-> "again"]
NoTick == [at |-> "none", jobs |-> {}]

Init ==
  /\ durable \in Stores
  /\ row = [j \in Job |-> "absent"]
  /\ accepting = TRUE /\ claiming = TRUE /\ phase = "open"
  /\ attached = [j \in Job |-> "none"]
  /\ promise = [c \in Caller |-> "none"]
  /\ call = [c \in Caller |-> NoCall]
  /\ run = [j \in Job |-> NoRun]
  /\ behind = [j \in Job |-> 0] /\ active = {} /\ awaited = {} /\ doubled = {}
  /\ tick = NoTick
  /\ left = MaxHappenings /\ threw = FALSE

-----------------------------------------------------------------------------
(* Submissions.                                                            *)

\* submit, up to the call of ensure: the deferred of the job is shared.
Submits(c, j) ==
  LET maker == IF attached[j] = "none" THEN c ELSE attached[j]
  IN  /\ accepting
      /\ call' = [call EXCEPT ![c] = [job |-> j, shares |-> maker, at |-> "sent", seen |-> "absent"]]
      /\ attached' = [attached EXCEPT ![j] = maker]
      /\ promise' = [promise EXCEPT ![maker] = "open"]

\* Mutant: a failed job resolves what waits for it, as any terminal one does.
OutcomeResolved(s) == "resolved"

\* What a terminal row makes of the promise that waits for it.
Outcome(s) == IF s = "failed" THEN "failed" ELSE "resolved"

\* #settleTerminal, of every job in S that is terminal as st tells it.
Settle(S, st) ==
  LET ended == {j \in S : st[j] \in Terminal /\ attached[j] # "none"}
  IN  /\ attached' = [j \in Job |-> IF j \in ended THEN "none" ELSE attached[j]]
      /\ promise' = [c \in Caller |->
                       IF \E j \in ended : attached[j] = c
                       THEN Outcome(st[CHOOSE j \in ended : attached[j] = c])
                       ELSE promise[c]]

\* A request submits: an execution, or whatever nobody else submits.
ClientSubmits(c, j) ==
  /\ call[c].at = "unused"
  /\ \A i \in Job : Follow[i] # j
  /\ Submits(c, j)
  /\ UNCHANGED <<row, flags, run, keys, tick, spare>>

\* ensure reaches the store: inserted, or already there.
Ensured(c) ==
  LET j == call[c].job
  IN  /\ call[c].at = "sent"
      /\ row' = [row EXCEPT ![j] = IF @ = "absent" THEN "pending" ELSE @]
      /\ call' = [call EXCEPT ![c].at = "applied", ![c].seen = row'[j]]
      /\ UNCHANGED <<flags, told, run, keys, tick, spare>>

\* Its answer arrives; a row that was terminal settles who waits for it now.
Accepted(c) ==
  LET j == call[c].job
  IN  /\ call[c].at = "applied"
      /\ call' = [call EXCEPT ![c].at = "accepted"]
      /\ Settle({j}, [row EXCEPT ![j] = call[c].seen])
      /\ UNCHANGED <<row, flags, run, keys, tick, spare>>

\* ensure throws, applied or not, as a database may: the deferred this call took is rejected, and
\* whatever deferred is attached by now is let go.
EnsureFails(c) ==
  /\ durable
  /\ call[c].at \in {"sent", "applied"}
  /\ left > 0 /\ left' = left - 1 /\ threw' = TRUE
  /\ call' = [call EXCEPT ![c].at = "failed"]
  /\ promise' = [promise EXCEPT ![call[c].shares] = IF @ = "open" THEN "error" ELSE @]
  /\ attached' = [attached EXCEPT ![call[c].job] = "none"]
  /\ UNCHANGED <<row, flags, run, keys, tick>>

-----------------------------------------------------------------------------
(* Runs.                                                                   *)

\* What a handler makes of a submission that was refused or failed.
Refusal(j) == IF j \in Retried THEN "again" ELSE "failed"

Ends(j, result) == run' = [run EXCEPT ![j] = [at |-> "writing", result |-> result]]

\* A handler without a follow-up ends as it likes; any handler may be rejected.
Works(j) ==
  /\ run[j].at = "working"
  /\ \/ /\ Follow[j] = "none" /\ \E s \in {"succeeded", "cancelled"} : Ends(j, s)
        /\ UNCHANGED left
     \/ Ends(j, "failed") /\ UNCHANGED left
     \/ left > 0 /\ left' = left - 1 /\ Ends(j, "again")
  /\ UNCHANGED <<row, flags, told, call, keys, tick, threw>>

\* The handler submits its follow-up, or is told that nothing is accepted.
FollowsUp(j) ==
  /\ run[j].at = "working"
  /\ Follow[j] # "none"
  /\ \/ Submits(j, Follow[j]) /\ run' = [run EXCEPT ![j].at = "waiting"]
     \/ ~accepting /\ Ends(j, Refusal(j)) /\ UNCHANGED <<call, told>>
  /\ UNCHANGED <<row, flags, keys, tick, spare>>

\* Mutant: the handler does not wait for its submission to be accepted.
WaitsForNothing(j) ==
  /\ run[j].at = "waiting"
  /\ \E s \in {"succeeded", "cancelled"} : Ends(j, s)
  /\ UNCHANGED <<row, flags, told, call, keys, tick, spare>>

\* await submission.accepted
Waits(j) ==
  /\ run[j].at = "waiting"
  /\ \/ call[j].at = "accepted" /\ \E s \in {"succeeded", "cancelled"} : Ends(j, s)
     \/ call[j].at = "failed" /\ Ends(j, Refusal(j))
  /\ UNCHANGED <<row, flags, told, call, keys, tick, spare>>

\* The final write of #run.
Writes(j) ==
  /\ run[j].at = "writing"
  /\ row' = [row EXCEPT ![j] = IF run[j].result = "again" THEN "pending" ELSE run[j].result]
  /\ run' = [run EXCEPT ![j].at = "written"]
  /\ UNCHANGED <<flags, told, call, keys, tick, spare>>

\* The write's answer arrives: waiters are settled and the job's key leaves #active.
Finishes(j) ==
  /\ run[j].at = "written"
  /\ Settle({j}, [row EXCEPT ![j] = run[j].result])
  /\ run' = [run EXCEPT ![j] = NoRun]
  /\ active' = active \ {j} /\ awaited' = awaited \ {j}
  /\ doubled' = IF behind[j] = 0 THEN doubled \ {j} ELSE doubled
  /\ UNCHANGED <<row, flags, call, behind, tick, spare>>

\* So does the answer to an older run's write-back, and the key that leaves is the
\* newer run's.
FinishesBehind(j) ==
  /\ behind[j] > 0
  /\ behind' = [behind EXCEPT ![j] = @ - 1]
  /\ active' = active \ {j}
  /\ doubled' = IF behind[j] = 1 /\ run[j].at = "none" THEN doubled \ {j} ELSE doubled
  /\ UNCHANGED <<row, flags, told, call, run, awaited, tick, spare>>

-----------------------------------------------------------------------------
(* The rest of the world: other replicas, and clients that cancel.         *)

Elsewhere(j) ==
  /\ durable
  /\ row[j] = "pending"
  /\ \E s \in Terminal : row' = [i \in Job |->
       IF i = j THEN s
       ELSE IF s # "failed" /\ i = Follow[j] /\ row[i] = "absent" THEN "pending"
       ELSE row[i]]
  /\ UNCHANGED <<flags, told, call, run, keys, tick, spare>>

\* engine.cancelExecution withdraws an execution's pending job.
CancelPending(j) ==
  /\ \A i \in Job : Follow[i] # j
  /\ row[j] = "pending"
  /\ row' = [row EXCEPT ![j] = "cancelled"]
  /\ UNCHANGED <<flags, told, call, run, keys, tick, spare>>

-----------------------------------------------------------------------------
(* The tick: runOnce.                                                      *)

\* Mutant: only the store's own news of this process are looked for.
LooksAway ==
  /\ claiming /\ tick = NoTick
  /\ tick' = [at |-> "news", jobs |-> {}]
  /\ UNCHANGED <<row, flags, told, call, run, keys, spare>>

\* #observeAttached asks for the attached jobs that are terminal.
Looks ==
  /\ claiming /\ tick = NoTick
  /\ tick' = [at |-> "news", jobs |-> {j \in Job : attached[j] # "none" /\ row[j] \in Terminal}]
  /\ UNCHANGED <<row, flags, told, call, run, keys, spare>>

\* The answer settles them; then the tick claims, unless that was stopped.
Observes ==
  /\ tick.at = "news"
  /\ Settle(tick.jobs, row)
  /\ tick' = IF claiming THEN [at |-> "claim", jobs |-> {}] ELSE NoTick
  /\ UNCHANGED <<row, flags, call, run, keys, spare>>

\* A job that was written back is due again after a second at the earliest: by
\* then memory has answered, and a database may not have.
Due == {j \in Job : /\ row[j] = "pending"
                    /\ run[j].at # "none" => durable /\ behind[j] < MaxBehind}

\* Rows that are due are claimed, as far as they are free.
Claims ==
  /\ tick.at = "claim"
  /\ \E S \in SUBSET Due :
       /\ S = {} => Due = {}
       /\ row' = [j \in Job |-> IF j \in S THEN "running" ELSE row[j]]
       /\ tick' = [at |-> "begin", jobs |-> S]
  /\ UNCHANGED <<flags, told, call, run, keys, spare>>

\* #begin: the key of a run still in flight is overwritten.
Begins ==
  /\ tick.at = "begin"
  /\ LET again == {j \in tick.jobs : run[j].at # "none"}
     IN  /\ behind' = [j \in Job |-> behind[j] + IF j \in again THEN 1 ELSE 0]
         /\ doubled' = doubled \cup again \cup {j \in tick.jobs : behind[j] > 0}
  /\ run' = [j \in Job |-> IF j \in tick.jobs THEN [NoRun EXCEPT !.at = "working"] ELSE run[j]]
  /\ active' = active \cup tick.jobs
  /\ tick' = NoTick
  /\ UNCHANGED <<row, flags, told, call, awaited, spare>>

-----------------------------------------------------------------------------
(* The shutdown: drainRuntime.                                             *)

StopClaiming ==
  /\ phase = "open"
  /\ phase' = "stopping" /\ accepting' = FALSE /\ claiming' = FALSE
  /\ UNCHANGED <<durable, row, told, call, run, keys, tick, spare>>

\* await this.#tick; then drainOwned takes the promises that #active has.
Stopped ==
  /\ phase = "stopping" /\ tick = NoTick
  /\ phase' = "draining" /\ awaited' = active
  /\ UNCHANGED <<durable, row, accepting, claiming, told, call, run, behind, active, doubled, tick, spare>>

\* They are settled, and #active is empty by then: nothing was begun since.
Drained == awaited = {}

\* Mutant: pending promises are dropped without a word.
HandsOffSilently ==
  /\ phase = "draining" /\ Drained
  /\ IF durable
     THEN /\ attached' = [j \in Job |-> "none"]
          /\ phase' = "closed"
          /\ UNCHANGED <<claiming, promise>>
     ELSE phase' = "idling" /\ claiming' = TRUE /\ UNCHANGED told
  /\ UNCHANGED <<durable, row, accepting, call, run, keys, tick, spare>>

\* Mutant: what is attached must be idle before it is handed off.
HandsOffWhenIdle ==
  /\ phase = "draining" /\ Drained
  /\ \A j \in Job : attached[j] = "none"
  /\ phase' = "closed"
  /\ UNCHANGED <<durable, row, accepting, claiming, told, call, run, keys, tick, spare>>

\* drainOwned has returned, and handoffPending hands off to a durable store; a
\* store that dies with the process is worked on until it is idle.
HandsOff ==
  /\ phase = "draining" /\ Drained
  /\ IF durable
     THEN /\ attached' = [j \in Job |-> "none"]
          /\ promise' = [c \in Caller |-> IF \E j \in Job : attached[j] = c
                                          THEN "handed" ELSE promise[c]]
          /\ phase' = "closed"
          /\ UNCHANGED claiming
     ELSE phase' = "idling" /\ claiming' = TRUE /\ UNCHANGED told
  /\ UNCHANGED <<durable, row, accepting, call, run, keys, tick, spare>>

\* onIdle resolves.
Closes ==
  /\ phase = "idling" /\ active = {}
  /\ \A j \in Job : attached[j] = "none"
  /\ phase' = "closed" /\ claiming' = FALSE
  /\ UNCHANGED <<durable, row, accepting, told, call, run, keys, tick, spare>>

-----------------------------------------------------------------------------
CallStep(c) == Ensured(c) \/ Accepted(c)
RunStep(j)  == Works(j) \/ FollowsUp(j) \/ Waits(j) \/ Writes(j) \/ Finishes(j) \/ FinishesBehind(j)
TickStep    == Looks \/ Observes \/ Claims \/ Begins
CloseStep   == Stopped \/ HandsOff \/ Closes

Next ==
  \/ \E c \in Client, j \in Job : ClientSubmits(c, j)
  \/ \E c \in Caller : CallStep(c) \/ EnsureFails(c)
  \/ \E j \in Job : RunStep(j) \/ Elsewhere(j) \/ CancelPending(j)
  \/ TickStep
  \/ StopClaiming \/ CloseStep

\* The event loop runs what is ready and the poll timer rings; nobody has to
\* submit, cancel, work elsewhere or stop the process, and no call has to fail.
Fairness ==
  /\ \A c \in Caller : WF_vars(CallStep(c))
  /\ \A j \in Job : WF_vars(RunStep(j))
  /\ WF_vars(TickStep)
  /\ WF_vars(CloseStep)

Spec == Init /\ [][Next]_vars /\ Fairness

-----------------------------------------------------------------------------
(* Properties.                                                             *)

\* Every variable has its type.
TypeOK ==
  /\ durable \in BOOLEAN
  /\ row \in [Job -> RowState]
  /\ accepting \in BOOLEAN /\ claiming \in BOOLEAN
  /\ phase \in {"open", "stopping", "draining", "idling", "closed"}
  /\ attached \in [Job -> Caller \cup {"none"}]
  /\ promise \in [Caller -> {"none", "open", "resolved", "failed", "error", "handed"}]
  /\ call \in [Caller -> [job : Job \cup {"none"}, shares : Caller \cup {"none"},
                          at : {"unused", "sent", "applied", "accepted", "failed"},
                          seen : RowState]]
  /\ run \in [Job -> [at : {"none", "working", "waiting", "writing", "written"}, result : Result]]
  /\ behind \in [Job -> Nat] /\ active \subseteq Job /\ awaited \subseteq Job /\ doubled \subseteq Job
  /\ tick \in [at : {"none", "news", "claim", "begin"}, jobs : SUBSET Job]
  /\ left \in Nat /\ threw \in BOOLEAN

\* A completion tells the truth about the job, however late its news arrive: it
\* resolves only for a job that ended well, and reports a failure only of a job
\* that failed.
CompletionTruthful ==
  \A c \in Caller :
    /\ promise[c] = "resolved" => row[call[c].job] \in {"succeeded", "cancelled"}
    /\ promise[c] = "failed" => row[call[c].job] = "failed"

Inv == TypeOK /\ CompletionTruthful

InFlight(j) == run[j].at # "none" \/ behind[j] > 0

\* The database is closed only behind the last run: none is in flight, and no
\* claim is on its way into this process.  Only a run of a job that was claimed
\* again here before an earlier write-back of it was answered may still go on:
\* either run takes the key of both away.  A store that dies with its process
\* holds no work then, and, as long as no ensure threw, nobody is left waiting.
ClosedLeavesNothing ==
  phase = "closed" => /\ \A j \in Job : InFlight(j) => durable /\ j \in doubled
                      /\ tick.at = "begin" => tick.jobs = {}
                      /\ ~threw => \A c \in Caller : promise[c] # "open"
                      /\ ~durable => \A j \in Job : row[j] \notin {"pending", "running"}

\* A job that ended well has admitted its follow-up: a finished execution is
\* never without its event's selection, a selection never without deliveries.
FollowUpAdmitted ==
  \A j \in Job : run[j].at = "written" /\ run[j].result \in {"succeeded", "cancelled"}
                 /\ Follow[j] # "none" => row[Follow[j]] # "absent"

\* Over a durable store a shutdown comes to its end (in memory it may wait for
\* ever for an execution that can no longer submit its event's selection).
ShutdownCompletes == []<>(durable => phase \in {"open", "closed"})

\* Over a durable store every completion is settled: by this process, by what it
\* learns of others, or by the handoff.  A throwing ensure call may take away the
\* deferred another submission attached, which is then left open.
EverySubmissionSettles ==
  []<>(durable /\ ~threw => \A c \in Caller : promise[c] # "open")
=============================================================================
