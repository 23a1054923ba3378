------------------------------ MODULE JobQueue ------------------------------
(***************************************************************************)
(* The executor's job queue: the lease-fenced job store shared by every    *)
(* replica (apps/executor/src/jobs/memory-store.ts and its Postgres twin)  *)
(* and the worker each replica runs on it (jobs/worker.ts), with the part  *)
(* of the start-up recovery that touches jobs (jobs/recovery.ts).          *)
(*                                                                         *)
(* Time is kept as what is left of it: a lease and a runAfter are the      *)
(* ticks until they pass, so that no clock grows without bound.  A replica *)
(* whose clock runs Skew[w] ticks ahead sees a lease expired that early,   *)
(* and grants leases that much longer.                                     *)
(*                                                                         *)
(* A store call takes effect at once when the interleaving of its request  *)
(* cannot matter.  Renewals and final writes carry a `now' read before the *)
(* call and land later: they have a step that sends and a step that lands. *)
(***************************************************************************)
EXTENDS Integers, FiniteSets

CONSTANTS
  Job,          \* deterministic job ids
  Worker,       \* executor replicas
  NoWorker,     \* claimedBy of a job nobody holds
  NoGroup,      \* groupKey of a job outside every group
  LaneOf,       \* queueName of each job: queueNameForJob
  GroupOf,      \* groupKey of each job, or NoGroup
  OrderOf,      \* groupOrder of each job
  Concurrency,  \* slots a worker has in one lane
  LeaseTicks,   \* leaseMs, in ticks
  RetryTicks,   \* how far a handler pushes runAfter when it reschedules
  Skew,         \* how far each replica's clock runs ahead
  MaxClaims,    \* bound: a handler asks for a reschedule only below it
  MaxFaults     \* bound: crashes, failing calls, late polls and heartbeats

Lane == {"execution", "webhook-selection", "webhook-delivery"}

\* Only webhook jobs are grouped, and all of them are.
ASSUME QueueAssumption ==
  /\ NoWorker \notin Worker
  /\ LaneOf \in [Job -> Lane]
  /\ \A j \in Job : (GroupOf[j] = NoGroup) <=> (LaneOf[j] = "execution")
  /\ GroupOf \in [Job -> {GroupOf[j] : j \in Job} \cup {NoGroup}]
  /\ OrderOf \in [Job -> Nat]
  /\ Concurrency \in Nat \ {0}
  /\ LeaseTicks \in Nat \ {0}
  /\ RetryTicks \in Nat
  /\ Skew \in [Worker -> Nat]
  /\ MaxClaims \in Nat
  /\ MaxFaults \in Nat

VARIABLES
  \* the store
  state,        \* state of each job, "absent" before its row exists
  sequence,     \* the store's insertion counter
  seq,          \* insertion sequence of each row
  attempts,     \* times the row was claimed
  lease,        \* who holds the row, under which token, for how long
  delay,        \* ticks until runAfter
  \* the replicas
  mode,         \* life cycle of each process
  todo,         \* jobs its start-up recovery still has to visit
  runs,         \* handler runs in flight, one per claim
  active,       \* the keys of each worker's #active map
  \* bookkeeping
  reopened,     \* history: jobs recovery has reopened
  faults        \* faults still to come

store == <<state, sequence, seq, attempts, lease, delay>>
procs == <<mode, todo, active>>
vars  == <<store, procs, runs, reopened, faults>>

-----------------------------------------------------------------------------
(* The rows and the helpers of the store.                                  *)

Terminal == {"succeeded", "failed", "cancelled"}
Live     == {"pending", "running"}
State    == {"absent"} \cup Live \cup Terminal

Lease   == [by : Worker \cup {NoWorker}, token : Nat, left : Nat]
NoLease == [by |-> NoWorker, token |-> 0, left |-> 0]

Result == {"complete", "cancelled", "reschedule", "fail"}

\* A handler run, from #begin to the end of #run.  The lease token, a random
\* UUID drawn by every claim, is the claim's number: as fresh, and readable.
Run == [by     : Worker,
        job    : Job,
        token  : Nat,
        phase  : {"handling", "returned", "settling"},
        result : Result \cup {"none"},
        lost   : BOOLEAN,             \* leaseLost
        beat   : {"none", "sent"},    \* heartbeatRenewal
        fresh  : BOOLEAN,             \* the lease had not passed at its `now'
        ttl    : Nat]                 \* leaseExpiresAt a renewal asks for

Mode   == {"down", "booting", "running", "stopping", "draining", "stopped"}

Before(j, k) == \/ OrderOf[j] < OrderOf[k]
                \/ OrderOf[j] = OrderOf[k] /\ seq[j] < seq[k]

SameGroup(j, k) == /\ j # k
                   /\ GroupOf[j] # NoGroup
                   /\ GroupOf[j] = GroupOf[k]
                   /\ LaneOf[j] = LaneOf[k]

\* Mutant: only a running sibling blocks, a pending one is overtaken.
HasEarlierGroupJobRunningOnly(j) ==
  \E k \in Job : SameGroup(k, j) /\ state[k] = "running" /\ Before(k, j)

\* Mutant: a failed sibling blocks its group for good.
HasEarlierGroupJobOrFailed(j) ==
  \E k \in Job : SameGroup(k, j) /\ state[k] \in Live \cup {"failed"} /\ Before(k, j)

\* #hasEarlierGroupJob
HasEarlierGroupJob(j) ==
  \E k \in Job : SameGroup(k, j) /\ state[k] \in Live /\ Before(k, j)

\* What one replica's clock says of a time stored in a row.
Passed(w, left) == left <= Skew[w]

\* Mutant: the store checks the holder and forgets the token.
CurrentByHolder(r) == state[r.job] = "running" /\ lease[r.job].by = r.by

\* The row is still the one this run claimed, ...
Current(r) == /\ state[r.job] = "running"
              /\ lease[r.job].by = r.by
              /\ lease[r.job].token = r.token

\* ... and its lease has not passed: the guard #leased.
Leased(r) == Current(r) /\ ~Passed(r.by, lease[r.job].left)

Init ==
  /\ state = [j \in Job |-> "absent"]
  /\ sequence = 0
  /\ seq = [j \in Job |-> 0]
  /\ attempts = [j \in Job |-> 0]
  /\ lease = [j \in Job |-> NoLease]
  /\ delay = [j \in Job |-> 0]
  /\ mode = [w \in Worker |-> "down"]
  /\ todo = [w \in Worker |-> {}]
  /\ runs = {}
  /\ active = [w \in Worker |-> {}]
  /\ reopened = {}
  /\ faults = MaxFaults

-----------------------------------------------------------------------------
(* Submission and cancellation.                                            *)

\* runAfter as recovery gives it: at once, or, for a delivery
\* that waits for its next attempt, when that is due (nextRetryAt).
RunAfter(j) == IF LaneOf[j] = "webhook-delivery" THEN {0, RetryTicks} ELSE {0}

\* ensure, the inserting case: a row for a job that had none.
Insert(j, after) ==
  /\ state' = [state EXCEPT ![j] = "pending"]
  /\ sequence' = sequence + 1
  /\ seq' = [seq EXCEPT ![j] = sequence + 1]
  /\ delay' = [delay EXCEPT ![j] = after]
  /\ UNCHANGED <<attempts, lease>>

Accepting(w) == mode[w] \in {"booting", "running"}

\* submit ensures the row.  (What it does with promises: TaskFacade.)
Submit(w, j) ==
  /\ mode[w] \in {"booting", "running"}
  /\ state[j] = "absent"
  /\ Insert(j, 0)
  /\ UNCHANGED <<procs, runs, reopened, faults>>

\* cancelPending, called when an execution is cancelled.
CancelPending(w, j) ==
  /\ mode[w] \in {"booting", "running"}
  /\ LaneOf[j] = "execution"
  /\ state[j] = "pending"
  /\ state' = [state EXCEPT ![j] = "cancelled"]
  /\ lease' = [lease EXCEPT ![j] = NoLease]
  /\ UNCHANGED <<sequence, seq, attempts, delay, procs, runs, reopened, faults>>

-----------------------------------------------------------------------------
(* The poll: runOnce.                                                      *)

ExpiredFor(w) == {j \in Job : state[j] = "running" /\ Passed(w, lease[j].left)}

\* Mutant: the sweep leaves the lease columns behind.
ExpireLeasesStateOnly(w) ==
  /\ mode[w] \in {"booting", "running", "stopping"}
  /\ ExpiredFor(w) # {}
  /\ state' = [j \in Job |-> IF j \in ExpiredFor(w) THEN "pending" ELSE state[j]]
  /\ UNCHANGED <<sequence, seq, attempts, lease, delay, procs, runs, reopened, faults>>

\* expireLeases returns every row whose lease has passed to the queue.
ExpireLeases(w) ==
  /\ mode[w] \in {"booting", "running", "stopping"}
  /\ ExpiredFor(w) # {}
  /\ state' = [j \in Job |-> IF j \in ExpiredFor(w) THEN "pending" ELSE state[j]]
  /\ lease' = [j \in Job |-> IF j \in ExpiredFor(w) THEN NoLease ELSE lease[j]]
  /\ UNCHANGED <<sequence, seq, attempts, delay, procs, runs, reopened, faults>>

Claimable(w, j) ==
  /\ state[j] = "pending"
  /\ Passed(w, delay[j])
  /\ ~HasEarlierGroupJob(j)

FreeSlot(w, lane) == Cardinality({j \in active[w] : LaneOf[j] = lane}) < Concurrency

NewRun(w, j) == [by |-> w, job |-> j, token |-> attempts[j] + 1,
                 phase |-> "handling", result |-> "none", lost |-> FALSE,
                 beat |-> "none", fresh |-> FALSE, ttl |-> 0]

\* claim: a pending row whose turn it is goes to the worker.
Grant(w, j, left) ==
  /\ mode[w] \in {"running", "stopping"}
  /\ FreeSlot(w, LaneOf[j])
  /\ Claimable(w, j)
  /\ state' = [state EXCEPT ![j] = "running"]
  /\ attempts' = [attempts EXCEPT ![j] = @ + 1]
  /\ lease' = [lease EXCEPT ![j] = [by |-> w, token |-> attempts[j] + 1, left |-> left]]
  /\ UNCHANGED <<sequence, seq, delay, mode, todo, reopened>>

FullLease(w) == LeaseTicks + Skew[w]

\* #active is keyed by the job, so a worker that claims a job whose earlier run
\* it still has in flight replaces that run's entry.
Begin(w, j) ==
  /\ runs' = runs \cup {NewRun(w, j)}
  /\ active' = [active EXCEPT ![w] = @ \cup {j}]

\* A poll claims and begins what it was given; one under way when stopClaiming
\* is called still does.  It read `now' before it swept and looked around: a poll
\* that took long grants a lease partly, or wholly, gone.  A claim that committed
\* and throws leaves a row granted to nobody: the poll is logged, and comes again.
Claim(w, j) ==
  \/ /\ Grant(w, j, FullLease(w))
     /\ Begin(w, j)
     /\ UNCHANGED faults
  \/ /\ faults > 0
     /\ faults' = faults - 1
     /\ \/ \E left \in Skew[w] .. FullLease(w) - 1 : Grant(w, j, left) /\ Begin(w, j)
        \/ Grant(w, j, FullLease(w)) /\ UNCHANGED <<runs, active>>

-----------------------------------------------------------------------------
(* One handler run: #run.                                                  *)

Becomes(r, s) == runs' = (runs \ {r}) \cup {s}

\* The heartbeat timer fires and reads `now'; one renewal at a time.
SendRenewal(r) ==
  /\ r.phase = "handling"
  /\ r.beat = "none"
  /\ ~(Current(r) /\ lease[r.job].left = FullLease(r.by))
  /\ Becomes(r, [r EXCEPT !.beat = "sent", !.fresh = Leased(r),
                          !.ttl = FullLease(r.by)])
  /\ UNCHANGED <<store, procs, reopened, faults>>

Longer(a, b) == IF a > b THEN a ELSE b

Renew(r) == lease' = [lease EXCEPT ![r.job].left = Longer(@, r.ttl)]

Answered(r, lost) == [r EXCEPT !.beat = "none", !.fresh = FALSE, !.ttl = 0,
                               !.lost = @ \/ lost]

\* renew lands: the lease only ever grows; refusal means the lease is lost.
RenewalLands(r) ==
  /\ r.beat = "sent"
  /\ IF Current(r) /\ r.fresh
     THEN Renew(r) /\ Becomes(r, Answered(r, FALSE))
     ELSE UNCHANGED lease /\ Becomes(r, Answered(r, TRUE))
  /\ UNCHANGED <<state, sequence, seq, attempts, delay, procs, reopened, faults>>

\* The renewal throws, applied or not: the run gives its result up.
RenewalFails(r) ==
  /\ r.beat = "sent"
  /\ faults > 0
  /\ faults' = faults - 1
  /\ \/ UNCHANGED lease
     \/ Current(r) /\ r.fresh /\ Renew(r)
  /\ Becomes(r, Answered(r, TRUE))
  /\ UNCHANGED <<state, sequence, seq, attempts, delay, procs, reopened>>

\* The handler returns a result; one that throws returns "fail".
HandlerReturns(r, res) ==
  /\ r.phase = "handling"
  /\ res = "cancelled" => LaneOf[r.job] = "execution"
  /\ res = "reschedule" => r.token < MaxClaims
  /\ Becomes(r, [r EXCEPT !.phase = "returned", !.result = res])
  /\ UNCHANGED <<store, procs, reopened, faults>>

\* The run is over: its #finally drops the #active entry under its job's key.
Leave(r) ==
  /\ runs' = runs \ {r}
  /\ active' = [active EXCEPT ![r.by] = @ \ {r.job}]

\* Mutant: a run that gives up keeps its slot.
GiveUpKeepsSlot(r) ==
  /\ r.phase = "returned"
  /\ r.beat = "none"
  /\ r.lost
  /\ runs' = runs \ {r}
  /\ UNCHANGED <<store, procs, reopened, faults>>

\* Once no renewal is in flight, a run that lost its lease drops its result.
GiveUp(r) ==
  /\ r.phase = "returned"
  /\ r.beat = "none"
  /\ r.lost
  /\ Leave(r)
  /\ UNCHANGED <<store, mode, todo, reopened, faults>>

\* Otherwise it reads `now' and sends its final write.
SendResult(r) ==
  /\ r.phase = "returned"
  /\ r.beat = "none"
  /\ ~r.lost
  /\ Becomes(r, [r EXCEPT !.phase = "settling", !.fresh = Leased(r)])
  /\ UNCHANGED <<store, procs, reopened, faults>>

Outcome(res) == CASE res = "complete"   -> "succeeded"
                  [] res = "cancelled"  -> "cancelled"
                  [] res = "reschedule" -> "pending"
                  [] res = "fail"       -> "failed"

\* Mutant: the final write is not fenced by the lease.
WriteUnfenced(r) ==
  /\ r.fresh
  /\ state' = [state EXCEPT ![r.job] = Outcome(r.result)]
  /\ lease' = [lease EXCEPT ![r.job] = NoLease]
  /\ delay' = IF r.result = "reschedule"
              THEN [delay EXCEPT ![r.job] = RetryTicks]
              ELSE delay
  /\ UNCHANGED <<sequence, seq, attempts>>

\* complete, cancelClaimed, reschedule or fail, where the guard #leased holds.
Write(r) ==
  /\ Current(r)
  /\ r.fresh
  /\ state' = [state EXCEPT ![r.job] = Outcome(r.result)]
  /\ lease' = [lease EXCEPT ![r.job] = NoLease]
  /\ delay' = IF r.result = "reschedule"
              THEN [delay EXCEPT ![r.job] = RetryTicks]
              ELSE delay
  /\ UNCHANGED <<sequence, seq, attempts>>

\* The final write lands, or is fenced and dropped.
ResultLands(r) ==
  /\ r.phase = "settling"
  /\ \/ Write(r)
     \/ ~(Current(r) /\ r.fresh) /\ UNCHANGED store
  /\ Leave(r)
  /\ UNCHANGED <<mode, todo, reopened, faults>>

-----------------------------------------------------------------------------
(* Processes: crash, boot and recovery, graceful shutdown.                 *)

\* Everything a process keeps in memory goes with it.
Dies(w) ==
  /\ mode' = [mode EXCEPT ![w] = "down"]
  /\ todo' = [todo EXCEPT ![w] = {}]
  /\ active' = [active EXCEPT ![w] = {}]
  /\ runs' = {r \in runs : r.by # w}

Crash(w) ==
  /\ mode[w] \notin {"down", "stopped"}
  /\ faults > 0
  /\ faults' = faults - 1
  /\ Dies(w)
  /\ UNCHANGED <<store, reopened>>

\* The final write throws, applied or not.  #run rejects, and only drainOwned
\* handles the rejection: at any other time it is unhandled and ends the process.
ResultFails(r) ==
  /\ r.phase = "settling"
  /\ faults > 0
  /\ faults' = faults - 1
  /\ Write(r) \/ UNCHANGED store
  /\ IF mode[r.by] = "draining"
     THEN Leave(r) /\ UNCHANGED <<mode, todo>>
     ELSE Dies(r.by)
  /\ UNCHANGED reopened

\* A process boots; its source records say which jobs are unfinished.
Boot(w, S) ==
  /\ mode[w] = "down"
  /\ mode' = [mode EXCEPT ![w] = "booting"]
  /\ todo' = [todo EXCEPT ![w] = S]
  /\ UNCHANGED <<store, active, runs, reopened, faults>>

\* reopenForRecovery: what ended is offered again; what was cancelled is not.
ReopenForRecovery(j, after) ==
  /\ state[j] \in {"succeeded", "failed"}
  /\ state' = [state EXCEPT ![j] = "pending"]
  /\ lease' = [lease EXCEPT ![j] = NoLease]
  /\ delay' = [delay EXCEPT ![j] = after]
  /\ reopened' = reopened \cup {j}
  /\ UNCHANGED <<sequence, seq, attempts>>

\* ensureRecoveryJob: insert what is missing, reopen what ended too early.
RecoverJob(w, j) ==
  /\ mode[w] = "booting"
  /\ j \in todo[w]
  /\ todo' = [todo EXCEPT ![w] = @ \ {j}]
  /\ \/ /\ state[j] = "absent"
        /\ \E after \in RunAfter(j) : Insert(j, after)
        /\ UNCHANGED reopened
     \/ \E after \in RunAfter(j) : ReopenForRecovery(j, after)
     \/ state[j] \in Live \cup {"cancelled"} /\ UNCHANGED <<store, reopened>>
  /\ UNCHANGED <<mode, active, runs, faults>>

\* start: the worker begins to claim once recovery is done.
Start(w) ==
  /\ mode[w] = "booting"
  /\ todo[w] = {}
  /\ mode' = [mode EXCEPT ![w] = "running"]
  /\ UNCHANGED <<store, todo, active, runs, reopened, faults>>

\* stopClaiming refuses submissions, and waits for the poll under way.
StopClaiming(w) ==
  /\ mode[w] = "running"
  /\ mode' = [mode EXCEPT ![w] = "stopping"]
  /\ UNCHANGED <<store, todo, active, runs, reopened, faults>>

PollEnds(w) ==
  /\ mode[w] = "stopping"
  /\ mode' = [mode EXCEPT ![w] = "draining"]
  /\ UNCHANGED <<store, todo, active, runs, reopened, faults>>

\* drainOwned waits until #active is empty; after handoffPending the process
\* closes its store.
Handoff(w) ==
  /\ mode[w] = "draining"
  /\ active[w] = {}
  /\ mode' = [mode EXCEPT ![w] = "stopped"]
  /\ UNCHANGED <<store, todo, active, runs, reopened, faults>>

\* The process ends; a handler still in flight ends with it.
Exit(w) ==
  /\ mode[w] = "stopped"
  /\ \E r \in runs : r.by = w
  /\ runs' = {r \in runs : r.by # w}
  /\ UNCHANGED <<store, procs, reopened, faults>>

-----------------------------------------------------------------------------
(* Time.                                                                   *)

Less(n) == IF n = 0 THEN 0 ELSE n - 1

Elapse ==
  /\ lease' = [j \in Job |-> [lease[j] EXCEPT !.left = Less(@)]]
  /\ delay' = [j \in Job |-> Less(delay[j])]
  /\ runs' = {[r EXCEPT !.ttl = Less(@)] : r \in runs}
  /\ UNCHANGED <<state, sequence, seq, attempts, procs, reopened>>

SomethingTimed == \/ \E j \in Job : delay[j] > 0 \/ lease[j].left > 0
                  \/ \E r \in runs : r.ttl > 0

\* Heartbeats are on time: no holder is about to see its lease pass, on any
\* replica's clock.  The interval is shorter than the lease (constructor).
OnTime == \A r \in runs : Current(r) =>
            \A w \in Worker : ~Passed(w, lease[r.job].left - 1)

Tick ==
  /\ SomethingTimed
  /\ OnTime
  /\ Elapse
  /\ UNCHANGED faults

\* An event loop blocked, or a database unreachable, past a lease.
Stall ==
  /\ SomethingTimed
  /\ ~OnTime
  /\ faults > 0
  /\ faults' = faults - 1
  /\ Elapse

-----------------------------------------------------------------------------

RunStep(r) ==
  \/ SendRenewal(r)
  \/ RenewalLands(r)
  \/ RenewalFails(r)
  \/ \E res \in Result : HandlerReturns(r, res)
  \/ GiveUp(r)
  \/ SendResult(r)
  \/ ResultLands(r)
  \/ ResultFails(r)

JobStep(w, j) ==
  \/ Submit(w, j)
  \/ CancelPending(w, j)
  \/ Claim(w, j)
  \/ RecoverJob(w, j)

ProcessStep(w) ==
  \/ ExpireLeases(w)
  \/ Crash(w)
  \/ \E S \in SUBSET Job : Boot(w, S)
  \/ Start(w)
  \/ StopClaiming(w)
  \/ PollEnds(w)
  \/ Handoff(w)
  \/ Exit(w)

Next ==
  \/ \E r \in runs : RunStep(r)
  \/ \E w \in Worker, j \in Job : JobStep(w, j)
  \/ \E w \in Worker : ProcessStep(w)
  \/ Tick
  \/ Stall

Spec == Init /\ [][Next]_vars

-----------------------------------------------------------------------------
(* Fairness.  A process that is up keeps polling, its timers fire, its     *)
(* store calls return and its handlers end (each is bounded by a request   *)
(* timeout); a process that crashed is started again by its supervisor.    *)
(* Nothing obliges a client to submit or cancel, or an operator to stop a  *)
(* replica, and no fault has to happen.                                    *)

Fairness ==
  /\ WF_vars(Tick)
  /\ \A w \in Worker :
       /\ WF_vars(\E S \in SUBSET Job : Boot(w, S))
       /\ WF_vars(Start(w))
       /\ WF_vars(ExpireLeases(w))
       /\ WF_vars(PollEnds(w))
       /\ WF_vars(Handoff(w))
       /\ WF_vars(\E r \in runs : r.by = w /\ (SendRenewal(r) \/ RenewalLands(r)))
       /\ WF_vars(\E r \in runs : r.by = w /\ \E res \in Result : HandlerReturns(r, res))
       /\ WF_vars(\E r \in runs : r.by = w /\ (GiveUp(r) \/ SendResult(r) \/ ResultLands(r)))
       /\ \A j \in Job : /\ WF_vars(RecoverJob(w, j))
                         /\ WF_vars(Claim(w, j))

FairSpec == Spec /\ Fairness

-----------------------------------------------------------------------------
(* Properties.                                                             *)

\* The values the variables take; a run past its handler has a result.
TypeOK ==
  /\ state \in [Job -> State]
  /\ sequence \in Nat
  /\ seq \in [Job -> Nat]
  /\ attempts \in [Job -> Nat]
  /\ lease \in [Job -> Lease]
  /\ delay \in [Job -> Nat]
  /\ mode \in [Worker -> Mode]
  /\ todo \in [Worker -> SUBSET Job]
  /\ runs \in SUBSET Run
  /\ \A r \in runs : r.phase # "handling" => r.result \in Result
  /\ active \in [Worker -> SUBSET Job]
  /\ reopened \in SUBSET Job
  /\ faults \in Nat

\* A row names a holder exactly while its job runs, and its token is the number
\* of the last claim.
HolderIffRunning ==
  \A j \in Job : IF state[j] = "running"
                THEN lease[j].by \in Worker /\ lease[j].token = attempts[j]
                ELSE lease[j] = NoLease

\* No run is newer than the last claim of its job, ...
RunsClaimed == \A r \in runs : r.token \in 1 .. attempts[r.job]

\* ... and no claim number is handed out twice.
ClaimsDistinct == \A r, s \in runs : r.job = s.job /\ r.token = s.token => r = s

\* Rows and runs agree: a job has a holder exactly while it runs, under the
\* token of its last claim, and a run in flight is told by its job and token.
LeasesConsistent == HolderIffRunning /\ RunsClaimed /\ ClaimsDistinct

Inv == TypeOK /\ LeasesConsistent

\* However renewals, sweeps, stalls, crashes and reclaims interleave, at most
\* one of the runs in flight for a job can still write its outcome.
AtMostOneHolder ==
  \A r, s \in runs : r.job = s.job /\ Current(r) /\ Current(s) => r = s

\* In one group a job runs beside an earlier one that is unfinished only if
\* that one was inserted, or reopened by recovery, after the later one.
GroupOrderKept ==
  \A j, k \in Job :
    SameGroup(j, k) /\ Before(j, k) /\ state[j] \in Live /\ state[k] = "running"
      => seq[j] > seq[k] \/ j \in reopened

\* The queue implements the contract of its store: the runs are the claims,
\* and whatever expiry, renewal and fencing do is a step JobLease allows.
Contract == INSTANCE JobLease WITH
  status <- [j \in Job |-> IF state[j] = "pending" THEN "open"
                           ELSE IF state[j] = "running" THEN "granted"
                           ELSE state[j]],
  epoch  <- attempts,
  claims <- {[by |-> r.by, job |-> r.job, epoch |-> r.token] : r \in runs}

ImplementsContract == Contract!ASpec

\* A finished job moves again only when a booting process recovers it, and a
\* cancelled one never does.
TerminalIsFinal ==
  [][\A j \in Job : state[j] \in Terminal /\ state'[j] # state[j] =>
       /\ state[j] # "cancelled"
       /\ state'[j] = "pending"
       /\ \E w \in Worker : mode[w] = "booting" /\ j \in todo[w] \ todo'[w]]_vars

\* While some replica lives, no job is left behind by crashes, stalls and
\* failed renewals: a row once written is finished in the end.
EveryJobFinishes ==
  \A j \in Job : state[j] \in Live ~> \/ state[j] \in Terminal
                                      \/ \A w \in Worker : mode[w] = "stopped"
=============================================================================
