--------------------------- MODULE VoiceObserver ---------------------------
(***************************************************************************)
(* The durable observation of one remote voice session                     *)
(* (apps/executor/src/voice/remote-session-observer.ts over                *)
(* voice-observer-store.ts, and startRemoteSession of                      *)
(* packages/toolkits/src/voice/voice-agents.ts).                           *)
(*                                                                         *)
(* The starter remembers the session, prepares its observer record, asks   *)
(* the worker to create it and activates the record.  Observers of several *)
(* replicas claim the record under a lease, relay the worker's events one  *)
(* by one, revoke the session's grant at the terminal event, and close the *)
(* record with the transcript.  A task is one claim being worked on; each  *)
(* of its steps is one call to the worker or to a store.                   *)
(***************************************************************************)
EXTENDS SessionLog, FiniteSets

CONSTANTS
  Observer, NoOne,
  Selected,      \* kinds of event the agent's webhooks ask for
  Wanted,        \* whether they ask for the transcript
  PageSize, RetryLimit,
  MaxLog,        \* bound: events of the session
  Happenings,    \* what may come in between: "fault", "crash", "lease", "boot", "late", "slow"
  MaxHappenings  \* bound: how often anything does

ASSUME LogAssumption == MaxLog \in Nat \ {0, 1}

ASSUME ObserverAssumption ==
  /\ NoOne \notin Observer
  /\ Selected \subseteq {"turn", "end"} /\ Wanted \in BOOLEAN
  /\ PageSize \in Nat \ {0} /\ RetryLimit \in Nat \ {0}
  /\ Happenings \subseteq {"fault", "crash", "lease", "boot", "late", "slow"}
  /\ MaxHappenings \in Nat

VARIABLES
  request,     \* the starter's request: "none", "sent", or "closed": answered or lost
  start,       \* where the starter is
  grant,       \* the session's credential
  rec, lease,  \* the observer record and its lease
  task,        \* what each observer is doing
  published,   \* sequences of the events admitted as webhooks
  transcript,  \* length of the admitted transcript, 0 before
  signal,      \* handled sequence told by the failure webhook
  left         \* how often something may still happen

worker  == <<session, log, request>>
effects == <<published, transcript, signal>>
vars == <<worker, start, grant, rec, lease, task, effects, left>>

-----------------------------------------------------------------------------
NoSignal == MaxLog + 1

Free     == [owner |-> NoOne, live |-> FALSE]
Active   == {"prepared", "observing", "finalizing"}

NoRecord == [status |-> "none", handled |-> 0, terminal |-> 0, transcript |-> "pending",
             failures |-> 0, failure |-> "none", signaled |-> FALSE, due |-> FALSE]

\* "tried" is 1 + the sequence the terminal drain was last attempted at; "why" is
\* what a task failed of.
NoTask == [pc |-> "idle", handled |-> 0, terminal |-> 0, upto |-> 0, more |-> FALSE,
           tried |-> 0, pending |-> FALSE, last |-> 0, why |-> "none"]

\* Steps of #processClaim inside its try, and those that come after it.
Working == {"look", "void", "drop", "adopt", "open", "renew", "page", "revoke", "mark",
            "publish", "advance", "check", "enter", "schedule", "reopen", "history",
            "compose", "written", "skip", "complete"}
Giving  == {"failed", "exhaust", "signal", "signalled", "release"}

\* Those that ask the worker: what it answers may be refused for good.
Asking == {"look", "open", "page", "check", "reopen", "history"}

Init ==
  /\ LogInit
  /\ request = "none" /\ start = "idle" /\ grant = "none"
  /\ rec = NoRecord /\ lease = Free
  /\ task = [p \in Observer |-> NoTask]
  /\ published = {} /\ transcript = 0 /\ signal = NoSignal
  /\ left = MaxHappenings

Happens(kind) == kind \in Happenings /\ left > 0 /\ left' = left - 1

-----------------------------------------------------------------------------
(* The starter.                                                            *)

Starting == {"idle", "prepare", "send", "sent", "activate", "reconcile", "again", "cancel", "revoke"}

Remember ==
  /\ start = "idle"
  /\ start' = "prepare" /\ grant' = "active"
  /\ UNCHANGED <<worker, rec, lease, task, effects, left>>

\* ensurePrepared: a record that is there is taken as it is.
Prepare ==
  /\ start = "prepare"
  /\ start' = "send"
  /\ rec' = IF rec.status = "none" THEN [rec EXCEPT !.status = "prepared"] ELSE rec
  /\ UNCHANGED <<worker, grant, lease, task, effects, left>>

Send ==
  /\ start = "send"
  /\ start' = "sent" /\ request' = "sent"
  /\ UNCHANGED <<session, log, grant, rec, lease, task, effects, left>>

Answered ==
  /\ start = "sent" /\ session # "absent"
  /\ start' = "activate" /\ request' = "closed"
  /\ UNCHANGED <<session, log, grant, rec, lease, task, effects, left>>

\* Mutant: the record is activated whatever became of it.
ActivateAnyway ==
  /\ start \in {"activate", "again"}
  /\ rec' = [rec EXCEPT !.status = "observing", !.due = TRUE]
  /\ start' = "started"
  /\ UNCHANGED <<worker, grant, lease, task, effects, left>>

\* activatePrepared; the record may have been cancelled or even finished.
Activate ==
  /\ start \in {"activate", "again"}
  /\ IF rec.status \in {"prepared", "observing"}
       THEN /\ rec' = [rec EXCEPT !.status = "observing", !.due = TRUE]
            /\ start' = "started"
       ELSE /\ start' = IF start = "activate" THEN "reconcile" ELSE "lost"
            /\ UNCHANGED rec
  /\ UNCHANGED <<worker, grant, lease, task, effects, left>>

\* handleStartFailure asks the worker what became of the request.
Reconcile ==
  /\ start = "reconcile"
  /\ start' = IF session = "absent" THEN "cancel" ELSE "again"
  /\ UNCHANGED <<worker, grant, rec, lease, task, effects, left>>

CancelPrepared ==
  /\ start = "cancel" /\ start' = "revoke"
  /\ IF rec.status = "prepared"
       THEN rec' = [rec EXCEPT !.status = "cancelled", !.due = TRUE] /\ lease' = Free
       ELSE UNCHANGED <<rec, lease>>
  /\ UNCHANGED <<worker, grant, task, effects, left>>

RevokeStart ==
  /\ start = "revoke"
  /\ start' = "refused" /\ grant' = "revoked"
  /\ UNCHANGED <<worker, rec, lease, task, effects, left>>

\* A call of the starter fails, and was applied or not: the request may be on its
\* way all the same, the record may be written.
StartFault ==
  /\ Happens("fault")
  /\ \/ start = "prepare" /\ start' = "revoke" /\ UNCHANGED <<request, rec>>
     \/ /\ start = "prepare" /\ start' = "revoke" /\ UNCHANGED request
        /\ rec.status = "none" /\ rec' = [rec EXCEPT !.status = "prepared"]
     \/ start = "sent" /\ start' = "reconcile" /\ UNCHANGED <<request, rec>>
     \/ start = "sent" /\ start' = "reconcile" /\ request' = "closed" /\ UNCHANGED rec
     \/ start = "activate" /\ start' = "reconcile" /\ UNCHANGED <<request, rec>>
     \/ /\ start = "activate" /\ start' = "reconcile" /\ UNCHANGED request
        /\ rec.status \in {"prepared", "observing"}
        /\ rec' = [rec EXCEPT !.status = "observing", !.due = TRUE]
     \/ start \in {"reconcile", "again", "cancel", "revoke"} /\ start' = "lost" /\ UNCHANGED <<request, rec>>
  /\ UNCHANGED <<session, log, grant, lease, task, effects>>

StartCrash ==
  /\ Happens("crash")
  /\ start \in Starting \ {"idle"} /\ start' = "lost"
  /\ UNCHANGED <<worker, grant, rec, lease, task, effects>>

StarterStep ==
  Remember \/ Prepare \/ Send \/ Answered \/ Activate \/ Reconcile \/ CancelPrepared \/ RevokeStart

-----------------------------------------------------------------------------
(* The worker, and time.                                                   *)

\* The worker takes the request up, however long ago its sender gave up.
Create ==
  /\ request = "sent" /\ Created
  /\ UNCHANGED <<request, start, grant, rec, lease, task, effects, left>>

HasRoom == Len(log) + (IF session = "live" THEN 1 ELSE 0) < MaxLog

Speak ==
  /\ HasRoom
  /\ \/ Appended /\ UNCHANGED left
     \/ AppendedLate /\ Happens("late")
  /\ UNCHANGED <<request, start, grant, rec, lease, task, effects>>

End ==
  /\ Ended
  /\ UNCHANGED <<request, start, grant, rec, lease, task, effects, left>>

\* nextAttemptAt passes.
FallDue ==
  /\ ~rec.due /\ rec.status \in Active
  /\ rec' = [rec EXCEPT !.due = TRUE]
  /\ UNCHANGED <<worker, start, grant, lease, task, effects>>

InGrace == rec.status = "prepared" /\ start \in Starting

ComesDue == FallDue /\ ~InGrace /\ UNCHANGED left

\* The grace period of a prepared record outlasts its start, unless that is slow.
GraceEnds == FallDue /\ InGrace /\ Happens("slow")

Lapse ==
  /\ lease.live
  /\ lease' = [lease EXCEPT !.live = FALSE]
  /\ UNCHANGED <<worker, start, grant, rec, task, effects>>

\* A lease nobody works under runs out; one in use does if its holder is slow.
LeaseEnds  == Lapse /\ task[lease.owner].pc = "idle" /\ UNCHANGED left
LeaseLapses == Lapse /\ task[lease.owner].pc # "idle" /\ Happens("lease")

\* reconcileAtBoot of another replica: backfillMissing gives every remembered
\* session without a record one that may be claimed at once.
Backfill ==
  /\ Happens("boot")
  /\ start \notin {"idle"} /\ rec.status = "none"
  /\ rec' = [rec EXCEPT !.status = "prepared", !.due = TRUE]
  /\ UNCHANGED <<worker, start, grant, lease, task, effects>>

-----------------------------------------------------------------------------
(* The observer.                                                           *)

At(p, pc)   == task[p].pc = pc
Becomes(p, t) == task' = [task EXCEPT ![p] = t]
Goto(p, pc) == task' = [task EXCEPT ![p].pc = pc]

\* A task that gives up forgets what it had read.
Quits(p, pc) == Becomes(p, [NoTask EXCEPT !.pc = pc])

\* classifiedFailure: "trouble" may pass and is tried again; "refused" is an answer
\* that is invalid, or an error that says no retry helps; "behind" is a log that is
\* not what the session said.
Fails(p, why) == Becomes(p, [NoTask EXCEPT !.pc = "failed", !.why = why])

\* leaseMatches: a process works on one claim at a time, so that the token
\* of its task is the lease's whenever it owns it.
Holds(p) == lease.owner = p /\ lease.live

\* A fenced update.  If it changes no row the task ends: ObserverLeaseLostError.
Fenced(p, able, new, newLease, next) ==
  IF Holds(p) /\ able
    THEN rec' = new /\ lease' = newLease /\ Becomes(p, next)
    ELSE Becomes(p, NoTask) /\ UNCHANGED <<rec, lease>>

OnlyTask == UNCHANGED <<worker, start, grant, rec, lease, effects, left>>
OnlyRow  == UNCHANGED <<worker, start, grant, effects, left>>

\* Mutant: an observation that was given up is nobody's business any more.
ClaimableActive == rec.status \in Active /\ rec.due /\ ~lease.live

Claimable ==
  /\ rec.status \in Active \cup (IF rec.signaled THEN {} ELSE {"exhausted"})
  /\ rec.due /\ ~lease.live

Claim(p) ==
  /\ At(p, "idle") /\ Claimable
  /\ lease' = [owner |-> p, live |-> TRUE]
  /\ Becomes(p, [NoTask EXCEPT
       !.pc = CASE rec.status = "prepared" -> "look"
                [] rec.status = "observing" -> "open"
                [] rec.status = "finalizing" -> "reopen"
                [] rec.status = "exhausted" -> "signal",
       !.handled = rec.handled, !.terminal = rec.terminal,
       !.pending = (rec.transcript = "pending")])
  /\ UNCHANGED <<worker, start, grant, rec, effects, left>>

\* A prepared record: does the worker know the session?
Look(p) ==
  /\ At(p, "look")
  /\ Goto(p, IF session = "absent" THEN "void" ELSE "adopt")
  /\ OnlyTask

Void(p) ==
  /\ At(p, "void") /\ Goto(p, "drop") /\ grant' = "revoked"
  /\ UNCHANGED <<worker, start, rec, lease, effects, left>>

Drop(p) ==
  /\ At(p, "drop")
  /\ Fenced(p, rec.status = "prepared",
            [rec EXCEPT !.status = "cancelled", !.due = TRUE], Free, NoTask)
  /\ OnlyRow

Adopt(p) ==
  /\ At(p, "adopt")
  /\ Fenced(p, rec.status = "prepared",
            [rec EXCEPT !.status = "observing", !.failures = 0, !.failure = "none", !.due = TRUE], lease,
            [task[p] EXCEPT !.pc = "open"])
  /\ OnlyRow

Open(p) == At(p, "open") /\ Goto(p, "renew") /\ OnlyTask

Renew(p) ==
  /\ At(p, "renew")
  /\ Becomes(p, IF Holds(p) THEN [task[p] EXCEPT !.pc = "page"] ELSE NoTask)
  /\ OnlyTask

\* Mutant: the terminal event is marked without revoking the grant.
OnwardToMark(t) ==
  [t EXCEPT !.pc = IF t.handled = t.upto THEN (IF t.more THEN "renew" ELSE "check")
                   ELSE IF log[t.handled + 1] = "end" /\ t.terminal = 0 THEN "mark"
                   ELSE "publish"]

\* Where the loop over a page goes next: there is no call in between.
Onward(t) ==
  [t EXCEPT !.pc = IF t.handled = t.upto THEN (IF t.more THEN "renew" ELSE "check")
                   ELSE IF log[t.handled + 1] = "end" /\ t.terminal = 0 THEN "revoke"
                   ELSE "publish"]

Page(p) ==
  /\ At(p, "page")
  /\ LET end  == task[p].handled + PageSize
         more == Len(log) > end
     IN Becomes(p, Onward([task[p] EXCEPT !.upto = IF more THEN end ELSE Len(log), !.more = more]))
  /\ OnlyTask

Revoke(p) ==
  /\ At(p, "revoke") /\ Goto(p, "mark") /\ grant' = "revoked"
  /\ UNCHANGED <<worker, start, rec, lease, effects, left>>

Mark(p) ==
  /\ At(p, "mark")
  /\ LET terminal == task[p].handled + 1
     IN Fenced(p, rec.status = "observing" /\ terminal = rec.handled + 1,
               [rec EXCEPT !.terminal = terminal], lease,
               [task[p] EXCEPT !.terminal = terminal, !.pc = "publish"])
  /\ OnlyRow

Publish(p) ==
  /\ At(p, "publish") /\ Goto(p, "advance")
  /\ LET next == task[p].handled + 1
     IN published' = published \cup (IF log[next] \in Selected THEN {next} ELSE {})
  /\ UNCHANGED <<worker, start, grant, rec, lease, transcript, signal, left>>

Advance(p) ==
  /\ At(p, "advance")
  /\ LET next == task[p].handled + 1
     IN Fenced(p, rec.status = "observing" /\ rec.handled = task[p].handled,
               [rec EXCEPT !.handled = next], lease, Onward([task[p] EXCEPT !.handled = next]))
  /\ OnlyRow

\* Mutant: a session that ended since the last page is held to be incomplete.
CheckOnce(p) ==
  /\ At(p, "check")
  /\ IF session = "ended" /\ task[p].handled < Len(log) THEN Fails(p, "behind")
     ELSE Goto(p, IF session = "ended" THEN "enter" ELSE "schedule")
  /\ OnlyTask

\* The log is drained: has the session ended, and does the log go on?  A
\* drain that made no progress since the last look is not tried again.
Check(p) ==
  /\ At(p, "check")
  /\ LET t == task[p]
         behind == session = "ended" /\ t.handled < Len(log)
     IN IF behind /\ t.tried = t.handled + 1 THEN Fails(p, "behind")
        ELSE IF behind THEN Becomes(p, [t EXCEPT !.tried = t.handled + 1, !.pc = "renew"])
        ELSE Goto(p, IF session = "ended" THEN "enter" ELSE "schedule")
  /\ OnlyTask

Schedule(p) ==
  /\ At(p, "schedule")
  /\ Fenced(p, rec.status = "observing", [rec EXCEPT !.failures = 0, !.failure = "none", !.due = FALSE], Free, NoTask)
  /\ OnlyRow

Enter(p) ==
  /\ At(p, "enter")
  /\ Fenced(p, /\ rec.status = "observing"
               /\ rec.terminal # 0 /\ rec.terminal = task[p].terminal
               /\ rec.handled >= rec.terminal,
            [rec EXCEPT !.status = "finalizing", !.failures = 0, !.failure = "none", !.due = TRUE], lease,
            [task[p] EXCEPT !.pc = "reopen"])
  /\ OnlyRow

\* #finalize: the session as it is now, and the transcript if it is due.
Reopen(p) ==
  /\ At(p, "reopen")
  /\ Becomes(p, [task[p] EXCEPT !.last = Len(log),
                   !.pc = IF ~task[p].pending THEN "complete" ELSE IF Wanted THEN "history" ELSE "skip"])
  /\ OnlyTask

\* Mutant: the transcript is marked as admitted before it is.
HistoryThenMark(p) ==
  /\ At(p, "history")
  /\ IF ~Holds(p) THEN Becomes(p, NoTask)
     ELSE IF Len(log) # task[p].last THEN Fails(p, "behind")
     ELSE Goto(p, "written")
  /\ OnlyTask

\* #completeHistory reads the whole log again; it must end where the session said.
History(p) ==
  /\ At(p, "history")
  /\ IF ~Holds(p) THEN Becomes(p, NoTask)
     ELSE IF Len(log) # task[p].last THEN Fails(p, "behind")
     ELSE Goto(p, "compose")
  /\ OnlyTask

\* ensureSource refuses another content under the same identity.
Compose(p) ==
  /\ At(p, "compose")
  /\ IF transcript \in {0, task[p].last}
       THEN transcript' = task[p].last /\ Goto(p, "written")
       ELSE Fails(p, "trouble") /\ UNCHANGED transcript
  /\ UNCHANGED <<worker, start, grant, rec, lease, published, signal, left>>

Written(p) ==
  /\ task[p].pc \in {"written", "skip"}
  /\ Fenced(p, rec.status = "finalizing",
            [rec EXCEPT !.transcript = IF At(p, "skip") THEN "skipped" ELSE "admitted"], lease,
            [task[p] EXCEPT !.pc = "complete"])
  /\ OnlyRow

Complete(p) ==
  /\ At(p, "complete")
  /\ Fenced(p, rec.status = "finalizing" /\ rec.transcript # "pending",
            [rec EXCEPT !.status = "completed", !.failures = 0, !.failure = "none", !.due = TRUE], Free, NoTask)
  /\ OnlyRow

-----------------------------------------------------------------------------
(* Failure.                                                                *)

RecordFailure(p) ==
  /\ At(p, "failed")
  /\ LET spent == task[p].why # "trouble" \/ rec.failures + 1 >= RetryLimit
     IN Fenced(p, rec.status \in Active,
               [rec EXCEPT !.failures = @ + 1, !.failure = task[p].why, !.due = FALSE], lease,
               [NoTask EXCEPT !.pc = IF spent THEN "exhaust" ELSE "release"])
  /\ OnlyRow

Release(p) ==
  /\ At(p, "release")
  /\ lease' = IF Holds(p) THEN Free ELSE lease
  /\ Becomes(p, NoTask)
  /\ UNCHANGED <<worker, start, grant, rec, effects, left>>

Exhaust(p) ==
  /\ At(p, "exhaust")
  /\ Fenced(p, rec.status \in Active,
            [rec EXCEPT !.status = "exhausted", !.due = TRUE], Free, NoTask)
  /\ OnlyRow

\* enqueueVoiceObserverFailure, under an identity of its own.
Signal(p) ==
  /\ At(p, "signal")
  /\ IF signal \in {NoSignal, task[p].handled}
       THEN signal' = task[p].handled /\ Goto(p, "signalled")
       ELSE Quits(p, "release") /\ UNCHANGED signal
  /\ UNCHANGED <<worker, start, grant, rec, lease, published, transcript, left>>

Signalled(p) ==
  /\ At(p, "signalled")
  /\ Fenced(p, rec.status = "exhausted" /\ ~rec.signaled, [rec EXCEPT !.signaled = TRUE], Free, NoTask)
  /\ OnlyRow

\* Mutant: an event that cannot be published is passed over.
FaultPassed(p) ==
  /\ Happens("fault")
  /\ \/ At(p, "publish") /\ Goto(p, "advance")
     \/ task[p].pc \in Working \ {"publish"} /\ Fails(p, "trouble")
     \/ task[p].pc \in Giving \ {"release"} /\ Quits(p, "release")
     \/ At(p, "release") /\ Becomes(p, NoTask)
  /\ UNCHANGED <<worker, start, grant, rec, lease, effects>>

\* A call to the worker or to a store fails.  One that was applied before it
\* failed is its own step, and then this one at the next: what a task remembers
\* of the call is lost with the task.
Fault(p) ==
  /\ Happens("fault")
  /\ \/ task[p].pc \in Working /\ Fails(p, "trouble")
     \/ task[p].pc \in Asking /\ Fails(p, "refused")
     \/ task[p].pc \in Giving \ {"release"} /\ Quits(p, "release")
     \/ At(p, "release") /\ Becomes(p, NoTask)
  /\ UNCHANGED <<worker, start, grant, rec, lease, effects>>

\* The process dies, or is closed and releases what it holds.
Crash(p) ==
  /\ Happens("crash")
  /\ \/ ~At(p, "idle") /\ Becomes(p, NoTask)
     \/ task[p].pc \in Working /\ Quits(p, "release")
  /\ UNCHANGED <<worker, start, grant, rec, lease, effects>>

Step(p) ==
  \/ Look(p) \/ Void(p) \/ Drop(p) \/ Adopt(p) \/ Open(p) \/ Renew(p) \/ Page(p)
  \/ Revoke(p) \/ Mark(p) \/ Publish(p) \/ Advance(p) \/ Check(p) \/ Schedule(p)
  \/ Enter(p) \/ Reopen(p) \/ History(p) \/ Compose(p) \/ Written(p) \/ Complete(p)
  \/ RecordFailure(p) \/ Release(p) \/ Exhaust(p) \/ Signal(p) \/ Signalled(p)

Next ==
  \/ StarterStep \/ StartFault \/ StartCrash
  \/ Create \/ Speak \/ End \/ ComesDue \/ GraceEnds \/ LeaseEnds \/ LeaseLapses \/ Backfill
  \/ \E p \in Observer : Claim(p) \/ Step(p) \/ Fault(p) \/ Crash(p)

Fairness ==
  /\ WF_vars(StarterStep) /\ WF_vars(Create)
  /\ WF_vars(ComesDue) /\ WF_vars(LeaseEnds)
  /\ WF_vars(\E p \in Observer : Claim(p))
  /\ \A p \in Observer : WF_vars(Step(p))

Spec == Init /\ [][Next]_vars /\ Fairness

-----------------------------------------------------------------------------
(* What holds in every state.                                              *)

Status == {"none", "prepared", "observing", "finalizing", "completed", "cancelled", "exhausted"}

Position == 0..MaxLog

Why == {"none", "trouble", "refused", "behind"}

RecordType ==
  [status : Status, handled : Position, terminal : Position,
   transcript : {"pending", "admitted", "skipped"},
   failures : Nat, failure : Why, signaled : BOOLEAN, due : BOOLEAN]

TaskType ==
  [pc : {"idle"} \cup Working \cup Giving, handled : Position, terminal : Position,
   upto : Position, more : BOOLEAN, tried : 0..MaxLog + 1, pending : BOOLEAN,
   last : Position, why : Why]

\* Every variable has its type, and a lease that runs has an owner.
TypeOK ==
  /\ session \in {"absent", "live", "ended"}
  /\ log \in Seq({"turn", "end"}) /\ Len(log) <= MaxLog
  /\ request \in {"none", "sent", "closed"}
  /\ start \in Starting \cup {"started", "lost", "refused"}
  /\ grant \in {"none", "active", "revoked"}
  /\ rec \in RecordType
  /\ lease \in [owner : Observer \cup {NoOne}, live : BOOLEAN]
  /\ lease.live => lease.owner \in Observer
  /\ task \in [Observer -> TaskType]
  /\ published \subseteq 1..MaxLog /\ transcript \in Position
  /\ signal \in 0..NoSignal
  /\ left \in 0..MaxHappenings

\* The cursor passes no event the webhooks ask for before it is admitted, and
\* no event is admitted while an earlier one is not, whoever relays them and
\* whatever fails on the way: not even an observer that goes on after another
\* has taken the record over leaves a gap (#observe).
Relayed ==
  /\ \A i \in 1..rec.handled : log[i] \in Selected => i \in published
  /\ \A i \in published : \A j \in 1..i - 1 : log[j] \in Selected => j \in published

\* What the later properties rest on.
Inv == TypeOK /\ Relayed

\* A completed observation has relayed the session's end and the transcript,
\* if anyone asked for it, and that reaches to the end (#finalize).
CompletedIsWhole ==
  rec.status = "completed" =>
    /\ rec.terminal \in 1..rec.handled /\ log[rec.terminal] = "end"
    /\ Wanted => transcript >= rec.terminal

\* The credential is dead once the session's end is marked, and when the
\* observation is closed for want of a session; only a starter that stops
\* between cancelling and revoking leaves it to its expiry (#cancelClaim).
GrantDies ==
  /\ rec.terminal # 0 => grant = "revoked"
  /\ rec.status = "cancelled" /\ start \notin {"revoke", "lost"} => grant = "revoked"

\* An observation is given up when its attempts are spent, or at once: for an
\* answer no retry changes, or a history that was incomplete, and that is found
\* only of a worker whose log went on after the session's end.  The failure
\* webhook is sent for one that was given up, and what it says of the cursor
\* stays true (#handleFailure, #signalExhaustion).
GivenUpForAReason ==
  /\ rec.status = "exhausted" =>
       \/ rec.failures >= RetryLimit
       \/ rec.failure = "refused"
       \/ rec.failure = "behind" /\ \E i \in 1..Len(log) - 1 : log[i] = "end"
  /\ signal # NoSignal => rec.status = "exhausted" /\ signal = rec.handled

-----------------------------------------------------------------------------
(* What a step may never do, and what must come about.                     *)

Rank == [none |-> 0, prepared |-> 1, observing |-> 2, finalizing |-> 3,
         exhausted |-> 4, cancelled |-> 4, completed |-> 4]

\* Nothing is taken back, whoever writes: a starter that comes late does not
\* reopen the record, the cursor never falls back (activatePrepared), and a
\* transcript that was admitted is never another one (enqueueVoiceTranscript).
NothingTakenBack ==
  [][/\ Rank[rec.status] <= Rank[rec'.status]
     /\ Rank[rec.status] = 4 => rec'.status = rec.status
     /\ rec.handled <= rec'.handled /\ rec.terminal \in {0, rec'.terminal}
     /\ transcript # 0 => transcript' = transcript]_vars

\* The observation of a session that is over, or never was, comes to an end
\* or is reported as given up.
Settles ==
  (rec.status # "none") ~>
    \/ session = "live"
    \/ rec.status \in {"completed", "cancelled"}
    \/ rec.status = "exhausted" /\ rec.signaled
=============================================================================
