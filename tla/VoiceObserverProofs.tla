------------------------ MODULE VoiceObserverProofs ------------------------
(* Proofs about VoiceObserver, for any observers, webhooks, pages, limits  *)
(* and faults: what is relayed has no gap, nothing is taken back, and what *)
(* the record says of the session is true.                                 *)
EXTENDS VoiceObserver, TLAPS

-----------------------------------------------------------------------------
(* The inductive invariant.                                                *)

\* The log goes on after the session's end.
Late == \E i \in 1..Len(log) - 1 : log[i] = "end"

\* What an observation may be given up for.
Spent(r) == \/ r.failures >= RetryLimit
            \/ r.failure = "refused"
            \/ r.failure = "behind" /\ Late

\* The end is marked, and the cursor has passed it.
PastEnd == rec.terminal \in 1..rec.handled

Ending == {"reopen", "history", "compose", "written", "skip", "complete"}

\* A task with nothing left in hand.
Resting == {"idle", "failed", "exhaust", "release"}

\* The log has room for the end of a live session.
Session ==
  /\ session = "absent" => log = <<>>
  /\ session = "live" => Len(log) < MaxLog

\* What the record says of the log, the credential and the transcript.
Record ==
  /\ start = "idle" => rec = NoRecord /\ grant = "none"
  /\ rec.handled <= Len(log) /\ published \subseteq 1..Len(log)
  /\ rec.terminal # 0 => rec.terminal <= Len(log) /\ log[rec.terminal] = "end"
  /\ rec.status \in {"finalizing", "completed"} => PastEnd
  /\ rec.transcript = "admitted" => rec.terminal # 0 /\ transcript >= rec.terminal
  /\ rec.transcript = "skipped" => ~Wanted
  /\ rec.status = "completed" => rec.transcript # "pending"

\* What a task knows, by where it is.  A task that holds the lease knows the record.
Told(p, t) ==
  /\ t.pc # "idle" => start # "idle"
  /\ t.handled <= rec.handled /\ t.upto <= Len(log)
  /\ Holds(p) /\ t.pc \notin Resting => t.handled = rec.handled /\ t.terminal = rec.terminal
  /\ t.pc \in {"revoke", "mark", "publish", "advance"} => t.handled < t.upto /\ t.tried <= t.handled + 1
  /\ t.pc \in {"revoke", "mark"} => t.terminal = 0 /\ log[t.handled + 1] = "end"
  /\ t.pc \in {"drop", "mark"} => grant = "revoked"
  /\ t.pc = "advance" => (log[t.handled + 1] \in Selected => t.handled + 1 \in published)
  /\ t.pc \in {"look", "adopt", "open"} => t.tried = 0
  /\ t.pc \in {"renew", "page"} =>
       t.tried <= t.handled + 1 /\ (t.tried = t.handled + 1 => t.handled < Len(log))
  /\ t.pc = "check" => t.tried <= t.handled
  /\ t.pc \in Ending => PastEnd
  /\ t.pc \in {"history", "compose", "written"} => rec.terminal <= t.last /\ t.last <= Len(log)
  /\ t.pc = "written" => transcript >= rec.terminal
  /\ t.pc = "skip" => ~Wanted
  /\ t.pc = "failed" => t.why # "none" /\ (t.why = "behind" => Late)
  /\ t.pc = "exhaust" /\ Holds(p) => Spent(rec)
  /\ t.pc \in {"signal", "signalled"} => rec.status = "exhausted" /\ t.handled = rec.handled

Tasks == \A p \in Observer : Told(p, task[p])

\* What the stores and the worker tell of one another.
Story == Session /\ Record /\ Relayed /\ GrantDies /\ GivenUpForAReason

IInv == TypeOK /\ Story /\ Tasks

-----------------------------------------------------------------------------
(* What every step leaves behind.                                          *)

\* A step of the record, as NothingTakenBack has it.
Stays ==
  /\ Rank[rec.status] <= Rank[rec'.status]
  /\ Rank[rec.status] = 4 => rec'.status = rec.status
  /\ rec.handled <= rec'.handled /\ rec.terminal \in {0, rec'.terminal}
  /\ transcript # 0 => transcript' = transcript

\* What is written, told or dead stays so.
Forward ==
  /\ Len(log) <= Len(log') /\ \A i \in 1..Len(log) : log'[i] = log[i]
  /\ published \subseteq published'
  /\ grant = "revoked" => grant' = "revoked"
  /\ start # "idle" => start' # "idle"
  /\ Stays
  /\ rec.status = "exhausted" => rec'.handled = rec.handled

\* What a task may know of the record is not changed under its lease.
Undisturbed(p) ==
  Holds(p)' => /\ Holds(p) /\ rec'.handled = rec.handled
               /\ rec'.terminal = rec.terminal
               /\ rec'.failures = rec.failures /\ rec'.failure = rec.failure

Settled == IInv' /\ Forward

\* The states of a record, and which may follow which.
LEMMA Ranks ==
  /\ \A s \in Status : Rank[s] \in 0..4
  /\ \A s \in Status : Rank[s] = 4 <=> s \in {"exhausted", "cancelled", "completed"}
  /\ Rank["none"] = 0 /\ Rank["prepared"] = 1 /\ Rank["observing"] = 2 /\ Rank["finalizing"] = 3
  BY DEF Rank, Status

\* Late stays late.
LEMMA LateStays ==
  ASSUME TypeOK, TypeOK', Forward, Late
  PROVE  Late'
<1>1. Len(log) \in Nat /\ Len(log') \in Nat /\ Len(log) <= Len(log')
  BY DEF TypeOK, Forward
<1>2. PICK i \in 1..Len(log) - 1 : log[i] = "end"
  BY DEF Late
<1>3. i \in 1..Len(log') - 1 /\ log'[i] = "end"
  BY <1>1, <1>2 DEF Forward
<1> QED
  BY <1>3 DEF Late

\* A cursor past the end stays past it.
LEMMA PastEndStays ==
  ASSUME TypeOK, TypeOK', Forward, PastEnd
  PROVE  PastEnd' /\ rec'.terminal = rec.terminal
<1>1. /\ rec.terminal \in Nat /\ rec.handled \in Nat /\ rec'.handled \in Nat
      /\ rec.terminal # 0 /\ rec.terminal <= rec.handled
  BY DEF TypeOK, RecordType, Position, PastEnd
<1>2. rec'.terminal = rec.terminal /\ rec.handled <= rec'.handled
  BY <1>1 DEF Forward, Stays
<1> QED
  BY <1>1, <1>2 DEF PastEnd

\* The numbers on record.
LEMMA RecordNumbers ==
  ASSUME TypeOK
  PROVE  /\ rec.handled \in Nat /\ rec.terminal \in Nat /\ rec.failures \in Nat
         /\ rec.status \in Status /\ transcript \in Nat /\ Len(log) \in Nat
<1>1. rec \in RecordType /\ transcript \in Position /\ log \in Seq({"turn", "end"})
  BY DEF TypeOK
<1> QED
  BY <1>1, LogAssumption DEF RecordType, Position

\* The same after a step.
LEMMA RecordNumbersNext ==
  ASSUME TypeOK'
  PROVE  /\ rec'.handled \in Nat /\ rec'.terminal \in Nat /\ rec'.failures \in Nat
         /\ rec'.status \in Status /\ transcript' \in Nat /\ Len(log') \in Nat
<1>1. rec' \in RecordType /\ transcript' \in Position /\ log' \in Seq({"turn", "end"})
  BY DEF TypeOK
<1> QED
  BY <1>1, LogAssumption DEF RecordType, Position

\* What a task knows stays true under the steps of others.
LEMMA ToldStays ==
  ASSUME TypeOK, TypeOK', Forward, NEW p \in Observer, Undisturbed(p),
         NEW t \in TaskType, Told(p, t)
  PROVE  Told(p, t)'
<1>t. /\ t.handled \in Nat /\ t.upto \in Nat /\ t.last \in Nat /\ t.tried \in Nat
      /\ rec.handled \in Nat /\ rec'.handled \in Nat /\ rec.terminal \in Nat
      /\ transcript \in Nat /\ transcript' \in Nat
      /\ Len(log) \in Nat /\ Len(log') \in Nat /\ rec.status \in Status /\ rec'.status \in Status
  <2>1. t.handled \in Nat /\ t.upto \in Nat /\ t.last \in Nat /\ t.tried \in Nat
    BY LogAssumption DEF TaskType, Position
  <2> QED
    BY <2>1, RecordNumbers, RecordNumbersNext
<1>1. /\ Len(log) <= Len(log') /\ \A i \in 1..Len(log) : log'[i] = log[i]
      /\ published \subseteq published' /\ (grant = "revoked" => grant' = "revoked")
      /\ start # "idle" => start' # "idle"
      /\ rec.handled <= rec'.handled /\ (transcript # 0 => transcript' = transcript)
  BY DEF Forward, Stays
<1>2. t.pc # "idle" => start' # "idle"
  BY <1>1 DEF Told
<1>3. t.handled <= rec'.handled /\ t.upto <= Len(log')
  BY <1>1, <1>t DEF Told
<1>4. Holds(p)' /\ t.pc \notin Resting => t.handled = rec'.handled /\ t.terminal = rec'.terminal
  BY DEF Told, Undisturbed
<1>5. t.pc \in {"revoke", "mark", "publish", "advance"} =>
        /\ t.handled < t.upto /\ t.tried <= t.handled + 1
        /\ t.handled + 1 \in 1..Len(log) /\ log'[t.handled + 1] = log[t.handled + 1]
  BY <1>1, <1>t DEF Told
<1>6. t.pc \in {"revoke", "mark"} => t.terminal = 0 /\ log'[t.handled + 1] = "end"
  BY <1>5 DEF Told
<1>7. t.pc = "advance" => (log'[t.handled + 1] \in Selected => t.handled + 1 \in published')
  BY <1>1, <1>5 DEF Told
<1>8. t.pc \in {"renew", "page"} =>
        t.tried <= t.handled + 1 /\ (t.tried = t.handled + 1 => t.handled < Len(log'))
  BY <1>1, <1>t DEF Told
<1>9. t.pc \in Ending => PastEnd' /\ rec'.terminal = rec.terminal /\ rec.terminal # 0
  BY PastEndStays, <1>t DEF Told, PastEnd
<1>10. t.pc \in {"history", "compose", "written"} => rec'.terminal <= t.last /\ t.last <= Len(log')
  BY <1>1, <1>t, <1>9 DEF Told, Ending
<1>11. t.pc = "written" => transcript' >= rec'.terminal
  BY <1>1, <1>t, <1>9 DEF Told, Ending
<1>12. t.pc = "failed" => t.why # "none" /\ (t.why = "behind" => Late')
  BY LateStays DEF Told
<1>13. t.pc = "exhaust" /\ Holds(p)' => Spent(rec)'
  BY LateStays DEF Told, Undisturbed, Spent
<1>14. t.pc \in {"signal", "signalled"} => rec'.status = "exhausted" /\ t.handled = rec'.handled
  <2>1. rec.status = "exhausted" => rec'.status = "exhausted" /\ rec'.handled = rec.handled
    BY <1>t, Ranks DEF Forward, Stays
  <2> QED
    BY <2>1 DEF Told
<1>15. /\ t.pc \in {"drop", "mark"} => grant' = "revoked"
       /\ t.pc \in {"look", "adopt", "open"} => t.tried = 0
       /\ t.pc = "check" => t.tried <= t.handled
       /\ t.pc = "skip" => ~Wanted
  BY <1>1 DEF Told
<1> QED
  BY <1>2, <1>3, <1>4, <1>5, <1>6, <1>7, <1>8, <1>9, <1>10, <1>11, <1>12, <1>13, <1>14, <1>15
  DEF Told

\* A step of one task, and none: the others do not notice.
LEMMA TaskSettles ==
  ASSUME IInv, TypeOK', Story', Forward,
         NEW p \in Observer, NEW t \in TaskType, task' = [task EXCEPT ![p] = t], Told(p, t)',
         \A q \in Observer : q # p => Undisturbed(q)
  PROVE  Settled
<1>t. TypeOK
  BY DEF IInv
<1>1. task \in [Observer -> TaskType]
  BY <1>t DEF TypeOK
<1>2. Tasks'
  <2> SUFFICES ASSUME NEW q \in Observer PROVE Told(q, task[q])'
    BY DEF Tasks
  <2>1. PICK u \in TaskType : u = task'[q]
    BY <1>1
  <2>2. Told(q, u)'
    <3>1. CASE q = p
      <4>1. u = t
        BY <1>1, <2>1, <3>1
      <4> QED
        BY <3>1, <4>1
    <3>2. CASE q # p
      <4>1. u = task[q]
        BY <1>1, <2>1, <3>2
      <4>2. Told(q, u)
        BY <4>1 DEF IInv, Tasks
      <4> QED
        BY <1>t, <3>2, <4>2, ToldStays
    <3> QED
      BY <3>1, <3>2
  <2> QED
    BY <2>1, <2>2 DEF Told
<1> QED
  BY <1>2 DEF Settled, IInv

\* A step of no task.
LEMMA NoTaskSettles ==
  ASSUME IInv, TypeOK', Story', Forward, UNCHANGED task, \A q \in Observer : Undisturbed(q)
  PROVE  Settled
<1>t. TypeOK
  BY DEF IInv
<1>2. Tasks'
  <2> SUFFICES ASSUME NEW q \in Observer PROVE Told(q, task[q])'
    BY DEF Tasks
  <2>1. PICK u \in TaskType : u = task[q]
    BY <1>t DEF TypeOK
  <2>2. Told(q, u)
    BY <2>1 DEF IInv, Tasks
  <2>3. Told(q, u)'
    BY <1>t, <2>2, ToldStays
  <2> QED
    BY <2>1, <2>3 DEF Told
<1> QED
  BY <1>2 DEF Settled, IInv

\* The stores left alone.
LEMMA StoryRests ==
  ASSUME IInv, UNCHANGED <<session, log, start, grant, rec, published, transcript, signal>>
  PROVE  Story' /\ Forward
<1>1. Session' /\ Record'
  BY DEF IInv, Story, Session, Record, PastEnd
<1>2. Relayed' /\ GrantDies' /\ GivenUpForAReason'
  BY DEF IInv, Story, Relayed, GrantDies, GivenUpForAReason
<1>3. Forward
  <2>1. Rank[rec.status] \in 0..4 /\ rec.handled \in Nat /\ Len(log) \in Nat
    BY RecordNumbers, Ranks DEF IInv
  <2> QED
    BY <2>1 DEF Forward, Stays
<1> QED
  BY <1>1, <1>2, <1>3 DEF Story

\* A lease is kept or given back.
LEMMA LeaseType ==
  ASSUME TypeOK, lease' \in {lease, Free}
  PROVE  /\ lease' \in [owner : Observer \cup {NoOne}, live : BOOLEAN]
         /\ lease'.live => lease'.owner \in Observer
         /\ \A q \in Observer : Holds(q)' => Holds(q)
<1>1. /\ lease \in [owner : Observer \cup {NoOne}, live : BOOLEAN]
      /\ lease.live => lease.owner \in Observer
  BY DEF TypeOK
<1>2. Free \in [owner : Observer \cup {NoOne}, live : BOOLEAN] /\ ~Free.live
  BY DEF Free
<1>3. CASE lease' = lease
  BY <1>1, <1>3 DEF Holds
<1>4. CASE lease' = Free
  BY <1>2, <1>4 DEF Holds
<1> QED
  BY <1>3, <1>4

\* A step that changes its task, and gives back its lease at most.
LEMMA OnlyTaskSettles ==
  ASSUME IInv, UNCHANGED <<session, log, request, start, grant, rec, published, transcript, signal>>,
         left' \in 0..MaxHappenings, lease' \in {lease, Free},
         NEW p \in Observer, NEW t \in TaskType, task' = [task EXCEPT ![p] = t], Told(p, t)
  PROVE  Settled
<1>t. TypeOK
  BY DEF IInv
<1>1. Story' /\ Forward
  BY StoryRests
<1>2. \A q \in Observer : Undisturbed(q)
  BY <1>t, LeaseType DEF Undisturbed
<1>3. TypeOK'
  BY <1>t, LeaseType DEF TypeOK
<1>4. Told(p, t)'
  BY <1>t, <1>1, <1>2, <1>3, ToldStays
<1> QED
  BY <1>1, <1>2, <1>3, <1>4, TaskSettles

\* A task that is over knows nothing.
LEMMA NoTaskTold ==
  /\ NoTask \in TaskType
  /\ \A p \in Observer : TypeOK => Told(p, NoTask)
<1>1. NoTask \in TaskType /\ NoTask.pc = "idle" /\ NoTask.handled = 0 /\ NoTask.upto = 0
  BY LogAssumption DEF NoTask, TaskType, Position, Why
<1>2. ASSUME NEW p \in Observer, TypeOK PROVE Told(p, NoTask)
  <2>1. rec.handled \in Nat /\ Len(log) \in Nat
    BY <1>2, RecordNumbers
  <2> QED
    BY <1>1, <2>1 DEF Told, Ending, Resting
<1> QED
  BY <1>1, <1>2

\* A task that is dropped.
LEMMA EndTaskSettles ==
  ASSUME IInv, UNCHANGED <<session, log, request, start, grant, rec, published, transcript, signal>>,
         left' \in 0..MaxHappenings, lease' \in {lease, Free},
         NEW p \in Observer, task' = [task EXCEPT ![p] = NoTask]
  PROVE  Settled
BY NoTaskTold, OnlyTaskSettles DEF IInv

\* What comes in between is counted.
LEMMA HappensCounts ==
  ASSUME TypeOK, NEW kind, Happens(kind)
  PROVE  left' \in 0..MaxHappenings
<1>1. left \in 0..MaxHappenings /\ MaxHappenings \in Nat
  BY ObserverAssumption DEF TypeOK
<1> QED
  BY <1>1 DEF Happens

\* The holder writes the record: nobody else holds it, before or after.
LEMMA WriteSettles ==
  ASSUME IInv, UNCHANGED <<session, log, request, start, grant, published, transcript, signal, left>>,
         NEW p \in Observer, Holds(p), lease' \in {lease, Free},
         rec' \in RecordType, Story', Forward,
         NEW t \in TaskType, task' = [task EXCEPT ![p] = t], Told(p, t)'
  PROVE  Settled
<1>t. TypeOK
  BY DEF IInv
<1>1. \A q \in Observer : q # p => Undisturbed(q)
  BY <1>t, LeaseType DEF Undisturbed, Holds
<1>2. TypeOK'
  BY <1>t, LeaseType DEF TypeOK
<1> QED
  BY <1>1, <1>2, TaskSettles

-----------------------------------------------------------------------------
(* The starter, time and the worker.                                       *)

\* A step of the starter, of time or of a boot: of the record it changes the
\* status and the due time only, and those only before an observer finished.
LEMMA StatusSettles ==
  ASSUME IInv, UNCHANGED <<session, log, grant, task, published, transcript, signal>>,
         request' \in {"none", "sent", "closed"}, left' \in 0..MaxHappenings,
         lease' \in {lease, Free}, NEW x \in RecordType, rec' = x,
         x.handled = rec.handled, x.terminal = rec.terminal,
         x.transcript = rec.transcript, x.failures = rec.failures, x.failure = rec.failure,
         start # "idle", start' \in (Starting \cup {"started", "lost", "refused"}) \ {"idle"},
         start' \notin {"revoke", "lost"} => start \notin {"revoke", "lost"},
         \/ x.status = rec.status
         \/ rec.status = "none" /\ x.status = "prepared"
         \/ rec.status = "prepared" /\ x.status = "observing"
         \/ rec.status = "prepared" /\ x.status = "cancelled" /\ start' = "revoke"
  PROVE  Settled
<1>t. TypeOK /\ Story
  BY DEF IInv
<1>n. /\ rec.handled \in Nat /\ rec.terminal \in Nat /\ rec.failures \in Nat
      /\ rec.status \in Status /\ x.status \in Status /\ Len(log) \in Nat
  BY <1>t, RecordNumbers DEF RecordType
<1>1. TypeOK'
  BY <1>t, LeaseType DEF TypeOK
<1>2. Session' /\ Relayed'
  BY <1>t DEF Story, Session, Relayed
<1>3. Record'
  BY <1>t DEF Story, Record, PastEnd
<1>4. GrantDies'
  BY <1>t DEF Story, GrantDies
<1>5. GivenUpForAReason'
  BY <1>t DEF Story, GivenUpForAReason
<1>6. Forward
  BY <1>n, Ranks DEF Forward, Stays
<1>7. \A q \in Observer : Undisturbed(q)
  BY <1>t, LeaseType DEF Undisturbed
<1> QED
  BY <1>1, <1>2, <1>3, <1>4, <1>5, <1>6, <1>7, NoTaskSettles DEF Story

\* The steps and the failures of the starter.
LEMMA StarterSettles ==
  ASSUME IInv, StarterStep \/ StartFault \/ StartCrash
  PROVE  Settled
<1>t. TypeOK /\ Story
  BY DEF IInv
<1>r. rec \in RecordType
  BY <1>t DEF TypeOK
<1>1. CASE Remember
  <2>1. rec = NoRecord /\ grant = "none" /\ start' = "prepare" /\ grant' = "active"
    BY <1>t, <1>1 DEF Remember, Story, Record
  <2>2. UNCHANGED <<session, log, request, rec, lease, task, published, transcript, signal, left>>
    BY <1>1 DEF Remember, worker, effects
  <2>3. TypeOK'
    BY <1>t, <2>1, <2>2 DEF TypeOK, Starting
  <2>4. Session' /\ Relayed' /\ GivenUpForAReason'
    BY <1>t, <2>2 DEF Story, Session, Relayed, GivenUpForAReason
  <2>5. Record' /\ GrantDies'
    BY <1>t, <2>1, <2>2 DEF Story, Record, GrantDies, PastEnd, NoRecord
  <2>6. Forward
    <3>1. Rank[rec.status] \in 0..4 /\ rec.handled \in Nat /\ Len(log) \in Nat
      BY <1>t, RecordNumbers, Ranks
    <3> QED
      BY <2>1, <2>2, <3>1 DEF Forward, Stays
  <2>7. \A q \in Observer : Undisturbed(q)
    BY <2>2 DEF Undisturbed, Holds
  <2> QED
    BY <2>2, <2>3, <2>4, <2>5, <2>6, <2>7, NoTaskSettles DEF Story
<1>2. CASE RevokeStart
  <2>1. start # "idle" /\ start' = "refused" /\ grant' = "revoked"
    BY <1>2 DEF RevokeStart
  <2>2. UNCHANGED <<session, log, request, rec, lease, task, published, transcript, signal, left>>
    BY <1>2 DEF RevokeStart, worker, effects
  <2>3. TypeOK'
    BY <1>t, <2>1, <2>2 DEF TypeOK
  <2>4. Session' /\ Relayed' /\ GivenUpForAReason'
    BY <1>t, <2>2 DEF Story, Session, Relayed, GivenUpForAReason
  <2>5. Record' /\ GrantDies'
    BY <1>t, <2>1, <2>2 DEF Story, Record, GrantDies, PastEnd
  <2>6. Forward
    <3>1. Rank[rec.status] \in 0..4 /\ rec.handled \in Nat /\ Len(log) \in Nat
      BY <1>t, RecordNumbers, Ranks
    <3> QED
      BY <2>1, <2>2, <3>1 DEF Forward, Stays
  <2>7. \A q \in Observer : Undisturbed(q)
    BY <2>2 DEF Undisturbed, Holds
  <2> QED
    BY <2>2, <2>3, <2>4, <2>5, <2>6, <2>7, NoTaskSettles DEF Story
<1>3. CASE Prepare
  <2>1. PICK x : x = IF rec.status = "none" THEN [rec EXCEPT !.status = "prepared"] ELSE rec
    OBVIOUS
  <2>2. /\ x \in RecordType /\ x.handled = rec.handled /\ x.terminal = rec.terminal
        /\ x.transcript = rec.transcript /\ x.failures = rec.failures /\ x.failure = rec.failure
        /\ x.status = rec.status \/ (rec.status = "none" /\ x.status = "prepared")
    BY <1>r, <2>1 DEF RecordType, Status
  <2>3. UNCHANGED <<session, log, request, grant, lease, task, published, transcript, signal, left>>
    BY <1>3 DEF Prepare, worker, effects
  <2>4. rec' = x /\ start = "prepare" /\ start' = "send"
    BY <1>3, <2>1 DEF Prepare
  <2> QED
    BY <1>t, <2>2, <2>3, <2>4, StatusSettles DEF TypeOK, Starting
<1>4. CASE Send \/ Answered \/ Reconcile
  <2>1. /\ UNCHANGED <<session, log, grant, rec, lease, task, published, transcript, signal, left>>
        /\ request' \in {request, "sent", "closed"}
    BY <1>4 DEF Send, Answered, Reconcile, worker, effects
  <2>2. /\ start \in {"send", "sent", "reconcile"}
        /\ start' \in {"sent", "activate", "cancel", "again"}
    BY <1>4 DEF Send, Answered, Reconcile
  <2> QED
    BY <1>t, <1>r, <2>1, <2>2, StatusSettles DEF TypeOK, Starting
<1>5. CASE Activate
  <2>1. PICK x : x = IF rec.status \in {"prepared", "observing"}
                     THEN [rec EXCEPT !.status = "observing", !.due = TRUE] ELSE rec
    OBVIOUS
  <2>2. /\ x \in RecordType /\ x.handled = rec.handled /\ x.terminal = rec.terminal
        /\ x.transcript = rec.transcript /\ x.failures = rec.failures /\ x.failure = rec.failure
        /\ x.status = rec.status \/ (rec.status = "prepared" /\ x.status = "observing")
    BY <1>r, <2>1 DEF RecordType, Status
  <2>3. UNCHANGED <<session, log, request, grant, lease, task, published, transcript, signal, left>>
    BY <1>5 DEF Activate, worker, effects
  <2>4. /\ rec' = x /\ start \in {"activate", "again"}
        /\ start' \in {"started", "reconcile", "lost"}
    BY <1>5, <2>1 DEF Activate
  <2> QED
    BY <1>t, <2>2, <2>3, <2>4, StatusSettles DEF TypeOK, Starting
<1>6. CASE CancelPrepared
  <2>1. PICK x : x = IF rec.status = "prepared"
                     THEN [rec EXCEPT !.status = "cancelled", !.due = TRUE] ELSE rec
    OBVIOUS
  <2>2. /\ x \in RecordType /\ x.handled = rec.handled /\ x.terminal = rec.terminal
        /\ x.transcript = rec.transcript /\ x.failures = rec.failures /\ x.failure = rec.failure
        /\ x.status = rec.status \/ (rec.status = "prepared" /\ x.status = "cancelled")
    BY <1>r, <2>1 DEF RecordType, Status
  <2>3. UNCHANGED <<session, log, request, grant, task, published, transcript, signal, left>>
    BY <1>6 DEF CancelPrepared, worker, effects
  <2>4. /\ rec' = x /\ lease' \in {lease, Free} /\ start = "cancel" /\ start' = "revoke"
    BY <1>6, <2>1 DEF CancelPrepared
  <2> QED
    BY <1>t, <2>2, <2>3, <2>4, StatusSettles DEF TypeOK, Starting
<1>7. CASE StartFault
  <2>1. /\ UNCHANGED <<session, log, grant, lease, task, published, transcript, signal>>
        /\ request' \in {request, "closed"}
    BY <1>7 DEF StartFault, effects
  <2>2. /\ start # "idle" /\ start' \in {"revoke", "reconcile", "lost"}
        /\ start' = "reconcile" => start \in {"sent", "activate"}
    BY <1>7 DEF StartFault
  <2>3. left' \in 0..MaxHappenings
    BY <1>t, <1>7, HappensCounts DEF StartFault
  <2>4. PICK x : rec' = x /\ \/ x = rec
                             \/ rec.status = "none" /\ x = [rec EXCEPT !.status = "prepared"]
                             \/ /\ rec.status \in {"prepared", "observing"}
                                /\ x = [rec EXCEPT !.status = "observing", !.due = TRUE]
    BY <1>7 DEF StartFault
  <2>5. /\ x \in RecordType /\ x.handled = rec.handled /\ x.terminal = rec.terminal
        /\ x.transcript = rec.transcript /\ x.failures = rec.failures /\ x.failure = rec.failure
        /\ \/ x.status = rec.status
           \/ rec.status = "none" /\ x.status = "prepared"
           \/ rec.status = "prepared" /\ x.status = "observing"
    BY <1>r, <2>4 DEF RecordType, Status
  <2> QED
    BY <1>t, <2>1, <2>2, <2>3, <2>4, <2>5, StatusSettles DEF TypeOK, Starting
<1>8. CASE StartCrash
  <2>1. UNCHANGED <<session, log, request, grant, rec, lease, task, published, transcript, signal>>
    BY <1>8 DEF StartCrash, worker, effects
  <2>2. start # "idle" /\ start' = "lost"
    BY <1>8 DEF StartCrash
  <2>3. left' \in 0..MaxHappenings
    BY <1>t, <1>8, HappensCounts DEF StartCrash
  <2> QED
    BY <1>t, <1>r, <2>1, <2>2, <2>3, StatusSettles DEF TypeOK, Starting
<1> QED
  BY <1>1, <1>2, <1>3, <1>4, <1>5, <1>6, <1>7, <1>8 DEF StarterStep

\* A record is due, or found missing.
LEMMA DueSettles ==
  ASSUME IInv, ComesDue \/ GraceEnds \/ Backfill
  PROVE  Settled
<1>t. TypeOK /\ Story
  BY DEF IInv
<1>r. rec \in RecordType /\ start \in Starting \cup {"started", "lost", "refused"}
  BY <1>t DEF TypeOK
<1>1. UNCHANGED <<session, log, request, start, grant, lease, task, published, transcript, signal>>
  BY DEF ComesDue, GraceEnds, FallDue, Backfill, worker, effects
<1>2. left' \in 0..MaxHappenings
  <2>1. left \in 0..MaxHappenings
    BY <1>t DEF TypeOK
  <2>2. CASE ComesDue
    BY <2>1, <2>2 DEF ComesDue
  <2>3. CASE GraceEnds
    BY <1>t, <2>3, HappensCounts DEF GraceEnds
  <2>4. CASE Backfill
    BY <1>t, <2>4, HappensCounts DEF Backfill
  <2> QED
    BY <2>2, <2>3, <2>4
<1>3. start # "idle"
  <2>1. CASE ComesDue \/ GraceEnds
    BY <1>t, <2>1 DEF ComesDue, GraceEnds, FallDue, Active, Story, Record, NoRecord
  <2>2. CASE Backfill
    BY <2>2 DEF Backfill
  <2> QED
    BY <2>1, <2>2
<1>4. PICK x : rec' = x /\ \/ x = [rec EXCEPT !.due = TRUE]
                           \/ rec.status = "none" /\ x = [rec EXCEPT !.status = "prepared", !.due = TRUE]
  BY DEF ComesDue, GraceEnds, FallDue, Backfill
<1>5. /\ x \in RecordType /\ x.handled = rec.handled /\ x.terminal = rec.terminal
      /\ x.transcript = rec.transcript /\ x.failures = rec.failures /\ x.failure = rec.failure
      /\ x.status = rec.status \/ (rec.status = "none" /\ x.status = "prepared")
  BY <1>r, <1>4 DEF RecordType, Status
<1> QED
  BY <1>t, <1>r, <1>1, <1>2, <1>3, <1>4, <1>5, StatusSettles DEF TypeOK

\* A lease runs out.
LEMMA LapseSettles ==
  ASSUME IInv, LeaseEnds \/ LeaseLapses
  PROVE  Settled
<1>t. TypeOK
  BY DEF IInv
<1>1. /\ UNCHANGED <<session, log, request, start, grant, rec, task, published, transcript, signal>>
      /\ lease' = [lease EXCEPT !.live = FALSE]
  BY DEF LeaseEnds, LeaseLapses, Lapse, worker, effects
<1>2. left' \in 0..MaxHappenings
  BY <1>t, HappensCounts DEF LeaseEnds, LeaseLapses, TypeOK
<1>3. lease' \in [owner : Observer \cup {NoOne}, live : BOOLEAN] /\ ~lease'.live
  BY <1>t, <1>1 DEF TypeOK
<1>4. TypeOK'
  BY <1>t, <1>1, <1>2, <1>3 DEF TypeOK
<1>5. \A q \in Observer : Undisturbed(q)
  BY <1>3 DEF Undisturbed, Holds
<1> QED
  BY <1>1, <1>4, <1>5, StoryRests, NoTaskSettles

\* The worker's log grows.
LEMMA WorkerSettles ==
  ASSUME IInv, Create \/ Speak \/ End
  PROVE  Settled
<1>t. TypeOK /\ Story
  BY DEF IInv
<1>1. UNCHANGED <<request, start, grant, rec, lease, task, published, transcript, signal>>
  BY DEF Create, Speak, End, effects
<1>2. left' \in 0..MaxHappenings
  <2>1. left \in 0..MaxHappenings
    BY <1>t DEF TypeOK
  <2>2. CASE UNCHANGED left
    BY <2>1, <2>2
  <2>3. CASE Happens("late")
    BY <1>t, <2>3, HappensCounts
  <2> QED
    BY <2>2, <2>3 DEF Create, Speak, End
<1>3. PICK e \in {"turn", "end"} : log' = Append(log, e)
  <2>1. CASE Create
    <3>1. log' = Append(log, "turn")
      BY <1>t, <2>1 DEF Create, Created, Story, Session
    <3> QED
      BY <3>1
  <2>2. CASE Speak
    BY <2>2 DEF Speak, Appended, AppendedLate
  <2>3. CASE End
    BY <2>3 DEF End, Ended
  <2> QED
    BY <2>1, <2>2, <2>3
<1>4. /\ log \in Seq({"turn", "end"}) /\ log' \in Seq({"turn", "end"})
      /\ Len(log) \in Nat /\ Len(log') = Len(log) + 1
      /\ \A i \in 1..Len(log) : log'[i] = log[i]
  BY <1>t, <1>3 DEF TypeOK
<1>5. Session' /\ session' \in {"absent", "live", "ended"} /\ Len(log') <= MaxLog
  <2>1. MaxLog \in Nat /\ MaxLog > 1
    BY LogAssumption
  <2>2. CASE Create
    <3>1. Len(log) = 0 /\ session' = "live"
      BY <1>t, <2>2 DEF Create, Created, Story, Session
    <3> QED
      BY <1>4, <2>1, <3>1 DEF Session
  <2>3. CASE Speak
    BY <1>t, <1>4, <2>1, <2>3 DEF Speak, Appended, AppendedLate, HasRoom, Session, TypeOK
  <2>4. CASE End
    <3>1. Len(log) < MaxLog /\ session' = "ended"
      BY <1>t, <2>4 DEF End, Ended, Story, Session
    <3> QED
      BY <1>4, <2>1, <3>1 DEF Session
  <2> QED
    BY <2>2, <2>3, <2>4
<1>6. TypeOK'
  BY <1>t, <1>1, <1>2, <1>4, <1>5 DEF TypeOK
<1>n. rec.handled \in Nat /\ rec.terminal \in Nat /\ Rank[rec.status] \in 0..4
  BY <1>t, RecordNumbers, Ranks
<1>7. Forward
  BY <1>1, <1>4, <1>n DEF Forward, Stays
<1>8. Record'
  <2>1. rec.handled <= Len(log') /\ published \subseteq 1..Len(log')
    BY <1>t, <1>4, <1>n DEF Story, Record
  <2>2. rec.terminal # 0 => rec.terminal <= Len(log') /\ log'[rec.terminal] = "end"
    <3>1. rec.terminal # 0 => rec.terminal \in 1..Len(log) /\ log[rec.terminal] = "end"
      BY <1>t, <1>4, <1>n DEF Story, Record
    <3> QED
      BY <1>4, <3>1
  <2> QED
    BY <1>t, <1>1, <2>1, <2>2 DEF Story, Record, PastEnd
<1>9. Relayed'
  <2>1. \A i \in 1..rec.handled : i \in 1..Len(log)
    BY <1>t, <1>4, <1>n DEF Story, Record
  <2>2. \A i \in published : i \in 1..Len(log) /\ \A j \in 1..i - 1 : j \in 1..Len(log)
    BY <1>t, <1>4 DEF Story, Record
  <2> QED
    BY <1>t, <1>1, <1>4, <2>1, <2>2 DEF Story, Relayed
<1>10. GrantDies' /\ GivenUpForAReason'
  <2>1. GrantDies'
    BY <1>t, <1>1 DEF Story, GrantDies
  <2>2. Late => Late'
    BY <1>t, <1>6, <1>7, LateStays
  <2>3. GivenUpForAReason'
    BY <1>t, <1>1, <2>2 DEF Story, GivenUpForAReason, Late
  <2> QED
    BY <2>1, <2>3
<1>11. \A q \in Observer : Undisturbed(q)
  BY <1>1 DEF Undisturbed, Holds
<1> QED
  BY <1>1, <1>5, <1>6, <1>7, <1>8, <1>9, <1>10, <1>11, NoTaskSettles DEF Story

-----------------------------------------------------------------------------
(* The observer: steps that only learn.                                    *)

\* A step of a task whose record was taken away, or whose fence holds.
LEMMA FencedCases ==
  ASSUME NEW p, NEW able, NEW new, NEW newLease, NEW next, Fenced(p, able, new, newLease, next)
  PROVE  \/ Holds(p) /\ able /\ rec' = new /\ lease' = newLease /\ task' = [task EXCEPT ![p] = next]
         \/ task' = [task EXCEPT ![p] = NoTask] /\ UNCHANGED <<rec, lease>>
  BY DEF Fenced, Becomes

\* A record nobody holds is claimed.
LEMMA ClaimSettles ==
  ASSUME IInv, NEW p \in Observer, Claim(p)
  PROVE  Settled
<1>t. TypeOK /\ Story
  BY DEF IInv
<1>1. /\ UNCHANGED <<session, log, request, start, grant, rec, published, transcript, signal, left>>
      /\ lease' = [owner |-> p, live |-> TRUE]
  BY DEF Claim, worker, effects
<1>2. rec.status \in {"prepared", "observing", "finalizing", "exhausted"}
  BY DEF Claim, Claimable, Active
<1>3. PICK pc : /\ rec.status = "prepared" => pc = "look"
                /\ rec.status = "observing" => pc = "open"
                /\ rec.status = "finalizing" => pc = "reopen"
                /\ rec.status = "exhausted" => pc = "signal"
                /\ pc = CASE rec.status = "prepared" -> "look"
                          [] rec.status = "observing" -> "open"
                          [] rec.status = "finalizing" -> "reopen"
                          [] rec.status = "exhausted" -> "signal"
  BY <1>2
<1>4. PICK x : x = [NoTask EXCEPT !.pc = pc, !.handled = rec.handled, !.terminal = rec.terminal,
                                  !.pending = (rec.transcript = "pending")]
  OBVIOUS
<1>5. task' = [task EXCEPT ![p] = x]
  BY <1>3, <1>4 DEF Claim, Becomes
<1>6. rec.handled \in Position /\ rec.terminal \in Position
  BY <1>t DEF TypeOK, RecordType
<1>7. /\ x \in TaskType /\ x.pc = pc /\ x.handled = rec.handled /\ x.terminal = rec.terminal
      /\ x.upto = 0 /\ x.tried = 0
  <2>1. pc \in {"look", "open", "reopen", "signal"}
    BY <1>2, <1>3
  <2>2. pc \in {"idle"} \cup Working \cup Giving
    BY <2>1 DEF Working, Giving
  <2>3. NoTask \in TaskType /\ NoTask.upto = 0 /\ NoTask.tried = 0
    BY NoTaskTold DEF NoTask
  <2> QED
    BY <1>4, <1>6, <2>2, <2>3 DEF TaskType
<1>8. Story' /\ Forward
  BY <1>1, StoryRests
<1>9. TypeOK'
  <2>1. task' \in [Observer -> TaskType]
    BY <1>t, <1>5, <1>7 DEF TypeOK
  <2>2. lease' \in [owner : Observer \cup {NoOne}, live : BOOLEAN] /\ lease'.owner \in Observer
    BY <1>1
  <2> QED
    BY <1>t, <1>1, <2>1, <2>2 DEF TypeOK
<1>10. \A q \in Observer : q # p => Undisturbed(q)
  BY <1>1 DEF Undisturbed, Holds
<1>11. Told(p, x)'
  <2>1. start # "idle"
    BY <1>t, <1>2 DEF Story, Record, NoRecord
  <2>2. rec.status = "finalizing" => PastEnd
    BY <1>t DEF Story, Record
  <2>3. rec.handled \in Nat /\ Len(log) \in Nat
    BY <1>t, RecordNumbers
  <2>4. pc \in {"look", "open", "reopen", "signal"}
    BY <1>2, <1>3
  <2>5. pc = "reopen" => rec.status = "finalizing"
    BY <1>2, <1>3
  <2>6. pc = "signal" => rec.status = "exhausted"
    BY <1>2, <1>3
  <2> QED
    BY <1>1, <1>7, <2>1, <2>2, <2>3, <2>4, <2>5, <2>6 DEF Told, Ending, PastEnd
<1> QED
  BY <1>5, <1>7, <1>8, <1>9, <1>10, <1>11, TaskSettles

\* The numbers a task remembers.
LEMMA TaskNumbers ==
  ASSUME NEW t \in TaskType
  PROVE  /\ t.handled \in Nat /\ t.terminal \in Nat /\ t.upto \in Nat /\ t.tried \in Nat /\ t.last \in Nat
         /\ t.handled \in Position /\ t.terminal \in Position /\ t.upto \in Position /\ t.last \in Position
         /\ t.more \in BOOLEAN /\ t.pending \in BOOLEAN /\ t.why \in Why
  BY LogAssumption DEF TaskType, Position

\* What a task keeps when it moves on.
LEMMA MovesTask ==
  ASSUME NEW t \in TaskType, NEW pc \in {"idle"} \cup Working \cup Giving,
         NEW x, x = [t EXCEPT !.pc = pc]
  PROVE  /\ x \in TaskType /\ x.pc = pc /\ x.handled = t.handled /\ x.terminal = t.terminal
         /\ x.upto = t.upto /\ x.more = t.more /\ x.tried = t.tried /\ x.pending = t.pending
         /\ x.last = t.last /\ x.why = t.why
  BY DEF TaskType

\* A task that moves to a place where it has to know nothing more.
LEMMA MovesTold ==
  ASSUME NEW p \in Observer, NEW t \in TaskType, Told(p, t), t.pc \notin Resting,
         NEW x \in TaskType, x.handled = t.handled, x.terminal = t.terminal, x.upto = t.upto,
         x.pc \in {"void", "adopt", "schedule", "enter"},
         x.pc = "adopt" => x.tried = 0
  PROVE  Told(p, x)
BY DEF Told, Ending, Resting

\* A task that gives up forgets what it had read.
LEMMA GivesUpTask ==
  ASSUME NEW pc \in Giving, NEW x, x = [NoTask EXCEPT !.pc = pc]
  PROVE  x \in TaskType /\ x.pc = pc /\ x.handled = 0 /\ x.upto = 0
<1>1. NoTask \in TaskType /\ NoTask.handled = 0 /\ NoTask.upto = 0
  BY NoTaskTold DEF NoTask
<1> QED
  BY <1>1 DEF TaskType

\* A task that fails or is stopped.
LEMMA GivesUpSettles ==
  ASSUME IInv, UNCHANGED <<session, log, request, start, grant, rec, published, transcript, signal>>,
         left' \in 0..MaxHappenings, lease' \in {lease, Free},
         NEW p \in Observer, task[p].pc # "idle", NEW why \in Why, why = "behind" => Late,
         (Fails(p, why) /\ why # "none") \/ Quits(p, "release")
  PROVE  Settled
<1>t. TypeOK /\ Told(p, task[p])
  BY DEF IInv, Tasks
<1>1. PICK x \in TaskType :
         /\ task' = [task EXCEPT ![p] = x] /\ x.handled = 0 /\ x.upto = 0
         /\ (x.pc = "release") \/ (x.pc = "failed" /\ x.why = why /\ why # "none")
  <2>1. CASE Fails(p, why) /\ why # "none"
    <3>0. PICK pc \in Giving : pc = "failed"
      BY DEF Giving
    <3>1. PICK y : y = [NoTask EXCEPT !.pc = pc, !.why = why]
      OBVIOUS
    <3>2. y \in TaskType /\ y.pc = pc /\ y.handled = 0 /\ y.upto = 0 /\ y.why = why
      <4>1. NoTask \in TaskType /\ NoTask.handled = 0 /\ NoTask.upto = 0
        BY NoTaskTold DEF NoTask
      <4> QED
        BY <3>1, <4>1 DEF TaskType
    <3>3. task' = [task EXCEPT ![p] = y]
      BY <2>1, <3>0, <3>1 DEF Fails, Becomes
    <3> QED
      BY <2>1, <3>0, <3>2, <3>3
  <2>2. CASE Quits(p, "release")
    <3>0. PICK pc \in Giving : pc = "release"
      BY DEF Giving
    <3>1. PICK x : x = [NoTask EXCEPT !.pc = pc]
      OBVIOUS
    <3>2. x \in TaskType /\ x.pc = pc /\ x.handled = 0 /\ x.upto = 0
      BY <3>1, GivesUpTask
    <3> QED
      BY <2>2, <3>0, <3>1, <3>2 DEF Quits, Becomes
  <2> QED
    BY <2>1, <2>2
<1>4. Told(p, x)
  <2>1. rec.handled \in Nat /\ Len(log) \in Nat /\ start # "idle"
    BY <1>t, RecordNumbers DEF Told, Resting
  <2> QED
    BY <1>1, <2>1 DEF Told, Resting, Ending
<1> QED
  BY <1>1, <1>4, OnlyTaskSettles

\* Where a task goes on in its page.
LEMMA OnwardGoes ==
  ASSUME NEW t \in TaskType
  PROVE  /\ Onward(t) \in TaskType
         /\ Onward(t).handled = t.handled /\ Onward(t).terminal = t.terminal
         /\ Onward(t).upto = t.upto /\ Onward(t).tried = t.tried
         /\ \/ t.handled = t.upto /\ Onward(t).pc \in {"renew", "check"}
            \/ t.handled # t.upto /\ Onward(t).pc = "publish"
            \/ /\ t.handled # t.upto /\ Onward(t).pc = "revoke"
               /\ t.terminal = 0 /\ log[t.handled + 1] = "end"
<1>1. PICK pc : pc = IF t.handled = t.upto THEN (IF t.more THEN "renew" ELSE "check")
                     ELSE IF log[t.handled + 1] = "end" /\ t.terminal = 0 THEN "revoke"
                     ELSE "publish"
  OBVIOUS
<1>2. pc \in Working
  BY <1>1 DEF Working
<1>3. Onward(t) = [t EXCEPT !.pc = pc]
  BY <1>1 DEF Onward
<1>4. /\ Onward(t) \in TaskType /\ Onward(t).pc = pc
      /\ Onward(t).handled = t.handled /\ Onward(t).terminal = t.terminal
      /\ Onward(t).upto = t.upto /\ Onward(t).tried = t.tried
  BY <1>2, <1>3, MovesTask
<1>5. \/ t.handled = t.upto /\ pc \in {"renew", "check"}
      \/ t.handled # t.upto /\ pc = "publish"
      \/ t.handled # t.upto /\ pc = "revoke" /\ t.terminal = 0 /\ log[t.handled + 1] = "end"
  BY <1>1
<1> QED
  BY <1>4, <1>5

\* The worker is asked, the log opened, the lease renewed.
LEMMA PlainSettles ==
  ASSUME IInv, NEW p \in Observer, Look(p) \/ Open(p) \/ Renew(p)
  PROVE  Settled
<1>t. TypeOK
  BY DEF IInv
<1>1. PICK t \in TaskType : t = task[p]
  BY <1>t DEF TypeOK
<1>2. Told(p, t)
  BY <1>1 DEF IInv, Tasks
<1>3. /\ UNCHANGED <<session, log, request, start, grant, rec, lease, published, transcript, signal, left>>
  BY DEF Look, Open, Renew, OnlyTask, worker, effects
<1>4. left' \in 0..MaxHappenings /\ lease' \in {lease, Free}
  BY <1>t, <1>3 DEF TypeOK
<1>5. CASE Look(p)
  <2>1. PICK pc \in {"void", "adopt"} : task' = [task EXCEPT ![p].pc = pc]
    BY <1>5 DEF Look, Goto
  <2>2. pc \in {"idle"} \cup Working \cup Giving
    BY <2>1 DEF Working
  <2>3. PICK x : x = [t EXCEPT !.pc = pc]
    OBVIOUS
  <2>4. task' = [task EXCEPT ![p] = x]
    BY <1>1, <2>1, <2>3
  <2>5. /\ x \in TaskType /\ x.pc = pc /\ x.handled = t.handled /\ x.terminal = t.terminal
        /\ x.upto = t.upto /\ x.tried = t.tried
    BY <2>2, <2>3, MovesTask
  <2>6. t.pc = "look"
    BY <1>1, <1>5 DEF Look, At
  <2>7. Told(p, x)
    <3>1. x.pc \in {"void", "adopt"} /\ t.pc \notin Resting /\ x.tried = 0
      BY <1>2, <2>1, <2>5, <2>6 DEF Told, Resting
    <3> QED
      BY <1>2, <2>5, <3>1, MovesTold
  <2> QED
    BY <1>3, <1>4, <2>4, <2>5, <2>7, OnlyTaskSettles
<1>6. CASE Open(p)
  <2>1. task' = [task EXCEPT ![p].pc = "renew"] /\ t.pc = "open"
    BY <1>1, <1>6 DEF Open, Goto, At
  <2>2. PICK x : x = [t EXCEPT !.pc = "renew"]
    OBVIOUS
  <2>3. task' = [task EXCEPT ![p] = x]
    BY <1>1, <2>1, <2>2
  <2>4. /\ x \in TaskType /\ x.pc = "renew" /\ x.handled = t.handled /\ x.terminal = t.terminal
        /\ x.upto = t.upto /\ x.tried = t.tried
    BY <2>2, MovesTask DEF Working
  <2>5. t.handled \in Nat /\ t.tried = 0
    BY <1>2, <2>1, TaskNumbers DEF Told
  <2>6. Told(p, x)
    BY <1>2, <2>1, <2>4, <2>5 DEF Told, Ending, Resting
  <2> QED
    BY <1>3, <1>4, <2>3, <2>4, <2>6, OnlyTaskSettles
<1>7. CASE Renew(p)
  <2>1. t.pc = "renew"
    BY <1>1, <1>7 DEF Renew, At
  <2>2. CASE task' = [task EXCEPT ![p] = NoTask]
    BY <1>3, <1>4, <2>2, EndTaskSettles
  <2>3. CASE task' = [task EXCEPT ![p] = [task[p] EXCEPT !.pc = "page"]]
    <3>1. PICK x : x = [t EXCEPT !.pc = "page"]
      OBVIOUS
    <3>2. task' = [task EXCEPT ![p] = x]
      BY <1>1, <2>3, <3>1
    <3>3. /\ x \in TaskType /\ x.pc = "page" /\ x.handled = t.handled /\ x.terminal = t.terminal
          /\ x.upto = t.upto /\ x.tried = t.tried
      BY <3>1, MovesTask DEF Working
    <3>4. Told(p, x)
      BY <1>2, <2>1, <3>3 DEF Told, Ending, Resting
    <3> QED
      BY <1>3, <1>4, <3>2, <3>3, <3>4, OnlyTaskSettles
  <2> QED
    BY <1>7, <2>2, <2>3 DEF Renew, Becomes
<1> QED
  BY <1>5, <1>6, <1>7

\* A page of the log is read.
LEMMA PageSettles ==
  ASSUME IInv, NEW p \in Observer, Page(p)
  PROVE  Settled
<1>t. TypeOK
  BY DEF IInv
<1>1. PICK t \in TaskType : t = task[p]
  BY <1>t DEF TypeOK
<1>2. Told(p, t) /\ t.pc = "page"
  BY <1>1 DEF IInv, Tasks, Page, At
<1>3. /\ UNCHANGED <<session, log, request, start, grant, rec, lease, published, transcript, signal, left>>
  BY DEF Page, OnlyTask, worker, effects
<1>4. left' \in 0..MaxHappenings /\ lease' \in {lease, Free}
  BY <1>t, <1>3 DEF TypeOK
<1>n. /\ t.handled \in Nat /\ t.tried \in Nat /\ Len(log) \in Nat /\ rec.handled \in Nat
      /\ PageSize \in Nat \ {0} /\ Len(log) <= MaxLog /\ MaxLog \in Nat
  <2>1. t.handled \in Nat /\ t.tried \in Nat
    BY TaskNumbers
  <2>2. Len(log) \in Nat /\ rec.handled \in Nat
    BY <1>t, RecordNumbers
  <2>3. PageSize \in Nat \ {0} /\ MaxLog \in Nat
    BY ObserverAssumption, LogAssumption
  <2>4. Len(log) <= MaxLog
    BY <1>t DEF TypeOK
  <2> QED
    BY <2>1, <2>2, <2>3, <2>4
<1>5. (Len(log) > t.handled + PageSize) \in BOOLEAN
  OBVIOUS
<1>6. PICK upto : upto = IF Len(log) > t.handled + PageSize THEN t.handled + PageSize ELSE Len(log)
  OBVIOUS
<1>7. rec.handled <= Len(log) /\ t.handled <= rec.handled
  <2>1. rec.handled <= Len(log)
    BY DEF IInv, Story, Record
  <2>2. t.handled <= rec.handled
    BY <1>2 DEF Told
  <2> QED
    BY <2>1, <2>2
<1>8. /\ upto \in Nat /\ upto <= Len(log) /\ t.handled <= upto
      /\ t.handled < Len(log) => t.handled < upto
  <2>1. CASE Len(log) > t.handled + PageSize
    BY <1>n, <1>6, <2>1
  <2>2. CASE ~(Len(log) > t.handled + PageSize)
    <3>1. upto = Len(log)
      BY <1>6, <2>2
    <3> QED
      BY <1>n, <1>7, <3>1
  <2> QED
    BY <2>1, <2>2
<1>9. PICK u : u = [t EXCEPT !.upto = upto, !.more = (Len(log) > t.handled + PageSize)]
  OBVIOUS
<1>10. /\ u \in TaskType /\ u.handled = t.handled /\ u.terminal = t.terminal
       /\ u.upto = upto /\ u.tried = t.tried
  <2>1. upto \in Position
    BY <1>n, <1>8 DEF Position
  <2> QED
    BY <1>5, <1>9, <2>1 DEF TaskType
<1>11. PICK x : x = Onward(u)
  OBVIOUS
<1>12. task' = [task EXCEPT ![p] = x]
  BY <1>1, <1>6, <1>9, <1>11 DEF Page, Becomes
<1>13. /\ x \in TaskType /\ x.handled = t.handled /\ x.terminal = t.terminal
       /\ x.upto = upto /\ x.tried = t.tried
       /\ \/ t.handled = upto /\ x.pc \in {"renew", "check"}
          \/ t.handled # upto /\ x.pc = "publish"
          \/ t.handled # upto /\ x.pc = "revoke" /\ t.terminal = 0 /\ log[t.handled + 1] = "end"
  BY <1>10, <1>11, OnwardGoes
<1>14. /\ t.tried <= t.handled + 1 /\ (t.tried = t.handled + 1 => t.handled < Len(log))
  BY <1>2 DEF Told
<1>15. t.handled = upto => t.tried <= t.handled
  BY <1>n, <1>8, <1>14
<1>16. Told(p, x)
  <2>1. /\ x.pc # "idle" => start # "idle"
        /\ x.handled <= rec.handled /\ x.upto <= Len(log)
        /\ Holds(p) => x.handled = rec.handled /\ x.terminal = rec.terminal
    BY <1>2, <1>8, <1>13 DEF Told, Resting
  <2>2. x.pc \in {"revoke", "publish"} => x.handled < x.upto /\ x.tried <= x.handled + 1
    BY <1>n, <1>8, <1>13, <1>14
  <2>3. x.pc \in {"renew", "check"} => x.tried <= x.handled
    BY <1>13, <1>15
  <2>4. x.pc \in {"renew", "check"} => x.tried <= x.handled + 1 /\ x.tried # x.handled + 1
    BY <1>n, <1>13, <2>3
  <2> QED
    BY <1>13, <2>1, <2>2, <2>3, <2>4 DEF Told, Ending
<1> QED
  BY <1>3, <1>4, <1>12, <1>13, <1>16, OnlyTaskSettles

\* The end of a drain: the session is asked for.
LEMMA CheckSettles ==
  ASSUME IInv, NEW p \in Observer, Check(p)
  PROVE  Settled
<1>t. TypeOK
  BY DEF IInv
<1>1. PICK t \in TaskType : t = task[p]
  BY <1>t DEF TypeOK
<1>2. Told(p, t) /\ t.pc = "check"
  BY <1>1 DEF IInv, Tasks, Check, At
<1>3. /\ UNCHANGED <<session, log, request, start, grant, rec, lease, published, transcript, signal, left>>
  BY DEF Check, OnlyTask, worker, effects
<1>4. left' \in 0..MaxHappenings /\ lease' \in {lease, Free}
  BY <1>t, <1>3 DEF TypeOK
<1>n. t.handled \in Nat /\ t.tried \in Nat /\ Len(log) \in Nat /\ Len(log) <= MaxLog /\ MaxLog \in Nat
  BY <1>t, TaskNumbers, RecordNumbers, LogAssumption DEF TypeOK
<1>5. t.tried # t.handled + 1
  BY <1>2, <1>n DEF Told
<1>6. \/ /\ session = "ended" /\ t.handled < Len(log)
         /\ task' = [task EXCEPT ![p] = [t EXCEPT !.tried = t.handled + 1, !.pc = "renew"]]
      \/ \E pc \in {"enter", "schedule"} : task' = [task EXCEPT ![p].pc = pc]
  BY <1>1, <1>5 DEF Check, Becomes, Goto
<1>7. CASE /\ session = "ended" /\ t.handled < Len(log)
           /\ task' = [task EXCEPT ![p] = [t EXCEPT !.tried = t.handled + 1, !.pc = "renew"]]
  <2>1. PICK x : x = [t EXCEPT !.tried = t.handled + 1, !.pc = "renew"]
    OBVIOUS
  <2>2. /\ x \in TaskType /\ x.pc = "renew" /\ x.handled = t.handled /\ x.terminal = t.terminal
        /\ x.upto = t.upto /\ x.tried = t.handled + 1
    <3>1. t.handled + 1 \in 0..MaxLog + 1
      BY <1>n, <1>7
    <3>2. "renew" \in {"idle"} \cup Working \cup Giving
      BY DEF Working
    <3> QED
      BY <2>1, <3>1, <3>2 DEF TaskType
  <2>3. Told(p, x)
    BY <1>2, <1>n, <1>7, <2>2 DEF Told, Ending, Resting
  <2> QED
    BY <1>3, <1>4, <1>7, <2>1, <2>2, <2>3, OnlyTaskSettles
<1>8. CASE \E pc \in {"enter", "schedule"} : task' = [task EXCEPT ![p].pc = pc]
  <2>1. PICK pc \in {"enter", "schedule"} : task' = [task EXCEPT ![p].pc = pc]
    BY <1>8
  <2>2. PICK x : x = [t EXCEPT !.pc = pc]
    OBVIOUS
  <2>3. task' = [task EXCEPT ![p] = x]
    BY <1>1, <2>1, <2>2
  <2>4. pc \in {"idle"} \cup Working \cup Giving
    BY <2>1 DEF Working
  <2>5. /\ x \in TaskType /\ x.pc = pc /\ x.handled = t.handled /\ x.terminal = t.terminal
        /\ x.upto = t.upto
    BY <2>2, <2>4, MovesTask
  <2>6. Told(p, x)
    <3>1. x.pc \in {"enter", "schedule"} /\ t.pc \notin Resting
      BY <1>2, <2>1, <2>5 DEF Resting
    <3> QED
      BY <1>2, <2>5, <3>1, MovesTold
  <2> QED
    BY <1>3, <1>4, <2>3, <2>5, <2>6, OnlyTaskSettles
<1> QED
  BY <1>6, <1>7, <1>8

\* The finished session, and its history.
LEMMA HistorySettles ==
  ASSUME IInv, NEW p \in Observer, Reopen(p) \/ History(p)
  PROVE  Settled
<1>t. TypeOK
  BY DEF IInv
<1>1. PICK t \in TaskType : t = task[p]
  BY <1>t DEF TypeOK
<1>2. Told(p, t) /\ t.pc \in {"reopen", "history"}
  BY <1>1 DEF IInv, Tasks, Reopen, History, At
<1>3. /\ UNCHANGED <<session, log, request, start, grant, rec, lease, published, transcript, signal, left>>
  BY DEF Reopen, History, OnlyTask, worker, effects
<1>4. left' \in 0..MaxHappenings /\ lease' \in {lease, Free}
  BY <1>t, <1>3 DEF TypeOK
<1>n. Len(log) \in Nat /\ rec.terminal \in Nat /\ rec.handled \in Nat
  BY <1>t, RecordNumbers
<1>5. PastEnd /\ rec.terminal <= Len(log) /\ log[rec.terminal] = "end" /\ rec.terminal # 0
  <2>1. PastEnd
    BY <1>2 DEF Told, Ending
  <2>2. rec.terminal # 0
    BY <1>n, <2>1 DEF PastEnd
  <2> QED
    BY <2>1, <2>2 DEF IInv, Story, Record
<1>6. CASE Reopen(p)
  <2>1. PICK pc : pc = IF ~t.pending THEN "complete" ELSE IF Wanted THEN "history" ELSE "skip"
    OBVIOUS
  <2>2. PICK x : x = [t EXCEPT !.last = Len(log), !.pc = pc]
    OBVIOUS
  <2>3. task' = [task EXCEPT ![p] = x]
    BY <1>1, <1>6, <2>1, <2>2 DEF Reopen, Becomes
  <2>4. pc \in {"complete", "history", "skip"} /\ (pc = "skip" => ~Wanted)
    BY <2>1
  <2>5. /\ x \in TaskType /\ x.pc = pc /\ x.handled = t.handled /\ x.terminal = t.terminal
        /\ x.upto = t.upto /\ x.last = Len(log)
    <3>1. Len(log) \in Position
      BY <1>t, <1>n, LogAssumption DEF TypeOK, Position
    <3>2. pc \in {"idle"} \cup Working \cup Giving
      BY <2>4 DEF Working
    <3> QED
      BY <2>2, <3>1, <3>2 DEF TaskType
  <2>6. Told(p, x)
    BY <1>2, <1>5, <1>n, <2>4, <2>5 DEF Told, Ending, Resting
  <2> QED
    BY <1>3, <1>4, <2>3, <2>5, <2>6, OnlyTaskSettles
<1>7. CASE History(p)
  <2>1. t.pc = "history"
    BY <1>1, <1>7 DEF History, At
  <2>2. CASE task' = [task EXCEPT ![p] = NoTask]
    BY <1>3, <1>4, <2>2, EndTaskSettles
  <2>3. CASE Len(log) # t.last /\ Fails(p, "behind")
    <3>1. Late
      <4>1. rec.terminal <= t.last /\ t.last <= Len(log) /\ t.last \in Nat
        BY <1>2, <2>1, TaskNumbers DEF Told
      <4>2. rec.terminal \in 1..Len(log) - 1
        BY <1>5, <1>n, <2>3, <4>1
      <4> QED
        BY <1>5, <4>2 DEF Late
    <3>2. task[p].pc # "idle" /\ "behind" \in Why /\ "behind" # "none"
      BY <1>1, <2>1 DEF Why
    <3> QED
      BY <1>3, <1>4, <2>3, <3>1, <3>2, GivesUpSettles
  <2>4. CASE task' = [task EXCEPT ![p].pc = "compose"]
    <3>1. PICK x : x = [t EXCEPT !.pc = "compose"]
      OBVIOUS
    <3>2. task' = [task EXCEPT ![p] = x]
      BY <1>1, <2>4, <3>1
    <3>3. /\ x \in TaskType /\ x.pc = "compose" /\ x.handled = t.handled /\ x.terminal = t.terminal
          /\ x.upto = t.upto /\ x.last = t.last
      BY <3>1, MovesTask DEF Working
    <3>4. Told(p, x)
      BY <1>2, <2>1, <3>3 DEF Told, Ending, Resting
    <3> QED
      BY <1>3, <1>4, <3>2, <3>3, <3>4, OnlyTaskSettles
  <2> QED
    BY <1>1, <1>7, <2>2, <2>3, <2>4 DEF History, Becomes, Goto
<1> QED
  BY <1>6, <1>7

\* Giving back, failing, dying.
LEMMA ReleaseSettles ==
  ASSUME IInv, NEW p \in Observer, Release(p) \/ Fault(p) \/ Crash(p)
  PROVE  Settled
<1>t. TypeOK
  BY DEF IInv
<1>1. PICK t \in TaskType : t = task[p]
  BY <1>t DEF TypeOK
<1>2. Told(p, t)
  BY <1>1 DEF IInv, Tasks
<1>3. UNCHANGED <<session, log, request, start, grant, rec, published, transcript, signal>>
  BY DEF Release, Fault, Crash, worker, effects
<1>4. left' \in 0..MaxHappenings
  <2>1. CASE Release(p)
    BY <1>t, <2>1 DEF Release, TypeOK
  <2>2. CASE Fault(p)
    BY <1>t, <2>2, HappensCounts DEF Fault
  <2>3. CASE Crash(p)
    BY <1>t, <2>3, HappensCounts DEF Crash
  <2> QED
    BY <2>1, <2>2, <2>3
<1>5. lease' \in {lease, Free}
  BY DEF Release, Fault, Crash
<1>6. CASE task' = [task EXCEPT ![p] = NoTask]
  BY <1>3, <1>4, <1>5, <1>6, EndTaskSettles
<1>7. ASSUME task[p].pc # "idle", NEW why \in {"trouble", "refused"}, Fails(p, why) PROVE Settled
  BY <1>3, <1>4, <1>5, <1>7, GivesUpSettles DEF Why
<1>8. CASE task[p].pc # "idle" /\ Quits(p, "release")
  BY <1>3, <1>4, <1>5, <1>8, GivesUpSettles DEF Why
<1>9. "idle" \notin Working /\ "idle" \notin Giving /\ "idle" \notin Asking
  BY DEF Working, Giving, Asking
<1>10. CASE Release(p)
  BY <1>6, <1>10 DEF Release, Becomes
<1>11. CASE Fault(p)
  BY <1>6, <1>7, <1>8, <1>9, <1>11 DEF Fault, Becomes
<1>12. CASE Crash(p)
  BY <1>6, <1>8, <1>9, <1>12 DEF Crash, Becomes, At
<1> QED
  BY <1>10, <1>11, <1>12

-----------------------------------------------------------------------------
(* The observer: effects outside its record.                               *)

\* A credential revoked, an event, a transcript or a signal admitted.
LEMMA EffectSettles ==
  ASSUME IInv, UNCHANGED <<session, log, request, start, rec, lease, left>>,
         grant' \in {grant, "revoked"}, published \subseteq published',
         published' \subseteq 1..Len(log), transcript' \in Position,
         transcript # 0 => transcript' = transcript, signal' \in 0..NoSignal,
         Relayed', GivenUpForAReason',
         NEW p \in Observer, NEW u \in TaskType, u = task[p], u.pc # "idle",
         NEW t \in TaskType, task' = [task EXCEPT ![p] = t], Told(p, u)' => Told(p, t)'
  PROVE  Settled
<1>t. TypeOK /\ Story
  BY DEF IInv
<1>n. /\ Len(log) \in Nat /\ rec.terminal \in Nat /\ rec.handled \in Nat /\ rec.status \in Status
      /\ transcript \in Nat
  BY <1>t, RecordNumbers
<1>1. Told(p, u)
  BY DEF IInv, Tasks
<1>2. start # "idle"
  BY <1>1 DEF Told
<1>3. TypeOK'
  <2>1. Len(log) <= MaxLog /\ MaxLog \in Nat
    BY <1>t, LogAssumption DEF TypeOK
  <2>2. published' \subseteq 1..MaxLog
    BY <1>n, <2>1
  <2> QED
    BY <1>t, <2>2 DEF TypeOK
<1>4. Record'
  <2>1. rec.transcript = "admitted" => rec.terminal # 0 /\ transcript' >= rec.terminal
    BY <1>t, <1>n DEF Story, Record
  <2> QED
    BY <1>t, <1>2, <2>1 DEF Story, Record, PastEnd
<1>5. Session' /\ GrantDies'
  BY <1>t DEF Story, Session, GrantDies
<1>6. Forward
  BY <1>n, Ranks DEF Forward, Stays
<1>7. \A q \in Observer : Undisturbed(q)
  BY DEF Undisturbed, Holds
<1>8. Told(p, t)'
  BY <1>t, <1>1, <1>3, <1>6, <1>7, ToldStays
<1> QED
  BY <1>3, <1>4, <1>5, <1>6, <1>7, <1>8, TaskSettles DEF Story

\* The credential is revoked, at the end or for want of a session.
LEMMA RevokeSettles ==
  ASSUME IInv, NEW p \in Observer, Void(p) \/ Revoke(p)
  PROVE  Settled
<1>t. TypeOK /\ Story
  BY DEF IInv
<1>1. PICK u \in TaskType : u = task[p] /\ u.pc \in {"void", "revoke"}
  BY <1>t DEF TypeOK, Void, Revoke, At
<1>2. UNCHANGED <<session, log, request, start, rec, lease, left, published, transcript, signal>> /\ grant' = "revoked"
  BY DEF Void, Revoke, worker, effects
<1>3. PICK pc : /\ \/ u.pc = "void" /\ pc = "drop"
                   \/ u.pc = "revoke" /\ pc = "mark"
                /\ task' = [task EXCEPT ![p].pc = pc]
  BY <1>1 DEF Void, Revoke, Goto, At
<1>4. PICK x : x = [u EXCEPT !.pc = pc]
  OBVIOUS
<1>5. task' = [task EXCEPT ![p] = x]
  BY <1>1, <1>3, <1>4
<1>6. /\ x \in TaskType /\ x.pc = pc /\ x.handled = u.handled /\ x.terminal = u.terminal
      /\ x.upto = u.upto /\ x.tried = u.tried
  <2>1. pc \in {"idle"} \cup Working \cup Giving
    BY <1>3 DEF Working
  <2> QED
    BY <1>4, <2>1, MovesTask
<1>7. Told(p, u)' => Told(p, x)'
  BY <1>2, <1>3, <1>6 DEF Told, Ending, Resting
<1>8. Relayed' /\ GivenUpForAReason'
  BY <1>t, <1>2 DEF Story, Relayed, GivenUpForAReason
<1>9. published' \subseteq 1..Len(log) /\ transcript' \in Position /\ signal' \in 0..NoSignal
  BY <1>t, <1>2 DEF Story, Record, TypeOK
<1> QED
  BY <1>1, <1>2, <1>5, <1>6, <1>7, <1>8, <1>9, EffectSettles

\* An event is admitted, if it was asked for.
LEMMA PublishSettles ==
  ASSUME IInv, NEW p \in Observer, Publish(p)
  PROVE  Settled
<1>t. TypeOK /\ Story
  BY DEF IInv
<1>1. PICK u \in TaskType : u = task[p] /\ u.pc = "publish"
  BY <1>t DEF TypeOK, Publish, At
<1>2. UNCHANGED <<session, log, request, start, grant, rec, lease, left, transcript, signal>>
  BY DEF Publish, worker
<1>n. u.handled \in Nat /\ u.upto \in Nat /\ Len(log) \in Nat /\ rec.handled \in Nat
  BY <1>t, TaskNumbers, RecordNumbers
<1>3. PICK next : next = u.handled + 1
  OBVIOUS
<1>4. published' = published \cup (IF log[next] \in Selected THEN {next} ELSE {})
  BY <1>1, <1>3 DEF Publish
<1>5. next \in 1..Len(log) /\ u.handled <= rec.handled
  <2>1. Told(p, u)
    BY <1>1 DEF IInv, Tasks
  <2>2. u.handled < u.upto /\ u.upto <= Len(log) /\ u.handled <= rec.handled
    BY <1>1, <2>1 DEF Told
  <2> QED
    BY <1>n, <1>3, <2>2
<1>6. /\ published \subseteq published' /\ published' \subseteq 1..Len(log)
      /\ log[next] \in Selected => next \in published'
  BY <1>t, <1>4, <1>5 DEF Story, Record
<1>7. Relayed'
  <2>1. \A i \in 1..rec.handled : log[i] \in Selected => i \in published
    BY <1>t DEF Story, Relayed
  <2>2. \A i \in published : \A j \in 1..i - 1 : log[j] \in Selected => j \in published
    BY <1>t DEF Story, Relayed
  <2>3. \A j \in 1..next - 1 : log[j] \in Selected => j \in published
    BY <1>n, <1>3, <1>5, <2>1
  <2>4. \A i \in published' : \A j \in 1..i - 1 : log[j] \in Selected => j \in published'
    BY <1>4, <2>2, <2>3
  <2> QED
    BY <1>2, <1>6, <2>1, <2>4 DEF Relayed
<1>8. PICK x : x = [u EXCEPT !.pc = "advance"]
  OBVIOUS
<1>9. task' = [task EXCEPT ![p] = x]
  BY <1>1, <1>8 DEF Publish, Goto
<1>10. /\ x \in TaskType /\ x.pc = "advance" /\ x.handled = u.handled /\ x.terminal = u.terminal
       /\ x.upto = u.upto /\ x.tried = u.tried
  BY <1>8, MovesTask DEF Working
<1>11. Told(p, u)' => Told(p, x)'
  BY <1>1, <1>2, <1>3, <1>6, <1>10 DEF Told, Ending, Resting
<1>12. GivenUpForAReason' /\ transcript' \in Position /\ signal' \in 0..NoSignal
  BY <1>t, <1>2 DEF Story, GivenUpForAReason, TypeOK
<1> QED
  BY <1>1, <1>2, <1>6, <1>7, <1>9, <1>10, <1>11, <1>12, EffectSettles

\* The transcript is admitted, unless another one was.
LEMMA ComposeSettles ==
  ASSUME IInv, NEW p \in Observer, Compose(p)
  PROVE  Settled
<1>t. TypeOK /\ Story
  BY DEF IInv
<1>1. PICK u \in TaskType : u = task[p] /\ u.pc = "compose"
  BY <1>t DEF TypeOK, Compose, At
<1>2. UNCHANGED <<session, log, request, start, grant, rec, lease, left, published, signal>>
  BY DEF Compose, worker
<1>3. Relayed' /\ GivenUpForAReason' /\ published' \subseteq 1..Len(log) /\ signal' \in 0..NoSignal
  BY <1>t, <1>2 DEF Story, Relayed, GivenUpForAReason, Record, TypeOK
<1>4. CASE transcript \in {0, u.last} /\ transcript' = u.last /\ task' = [task EXCEPT ![p].pc = "written"]
  <2>1. PICK x : x = [u EXCEPT !.pc = "written"]
    OBVIOUS
  <2>2. task' = [task EXCEPT ![p] = x]
    BY <1>1, <1>4, <2>1
  <2>3. /\ x \in TaskType /\ x.pc = "written" /\ x.handled = u.handled /\ x.terminal = u.terminal
        /\ x.upto = u.upto /\ x.last = u.last
    BY <2>1, MovesTask DEF Working
  <2>4. u.last \in Nat /\ u.last \in Position /\ rec.terminal \in Nat
    BY <1>t, TaskNumbers, RecordNumbers
  <2>5. Told(p, u)' => Told(p, x)'
    <3>1. Told(p, u)' => transcript' >= rec'.terminal
      BY <1>1, <1>2, <1>4, <2>4 DEF Told
    <3> QED
      BY <1>1, <2>3, <3>1 DEF Told, Ending, Resting
  <2>6. transcript # 0 => transcript' = transcript
    BY <1>4
  <2> QED
    BY <1>1, <1>2, <1>3, <1>4, <2>2, <2>3, <2>4, <2>5, <2>6, EffectSettles
<1>5. CASE Fails(p, "trouble") /\ UNCHANGED transcript
  <2>1. lease' = lease /\ left' \in 0..MaxHappenings
    BY <1>t, <1>2 DEF TypeOK
  <2>2. task[p].pc # "idle" /\ "trouble" \in Why /\ "trouble" # "none" /\ "trouble" # "behind"
    BY <1>1 DEF Why
  <2> QED
    BY <1>2, <1>5, <2>1, <2>2, GivesUpSettles
<1> QED
  BY <1>1, <1>4, <1>5 DEF Compose, Goto

\* The failure webhook is admitted, unless it told of another cursor.
LEMMA SignalSettles ==
  ASSUME IInv, NEW p \in Observer, Signal(p)
  PROVE  Settled
<1>t. TypeOK /\ Story
  BY DEF IInv
<1>1. PICK u \in TaskType : u = task[p] /\ u.pc = "signal"
  BY <1>t DEF TypeOK, Signal, At
<1>2. UNCHANGED <<session, log, request, start, grant, rec, lease, left, published, transcript>>
  BY DEF Signal, worker
<1>3. Told(p, u)
  BY <1>1 DEF IInv, Tasks
<1>4. CASE signal' = u.handled /\ task' = [task EXCEPT ![p].pc = "signalled"]
  <2>1. PICK x : x = [u EXCEPT !.pc = "signalled"]
    OBVIOUS
  <2>2. task' = [task EXCEPT ![p] = x]
    BY <1>1, <1>4, <2>1
  <2>3. /\ x \in TaskType /\ x.pc = "signalled" /\ x.handled = u.handled /\ x.terminal = u.terminal
        /\ x.upto = u.upto
    BY <2>1, MovesTask DEF Giving
  <2>4. Told(p, u)' => Told(p, x)'
    BY <1>1, <2>3 DEF Told, Ending, Resting
  <2>5. rec.status = "exhausted" /\ u.handled = rec.handled
    BY <1>1, <1>3 DEF Told
  <2>6. GivenUpForAReason'
    BY <1>t, <1>2, <1>4, <2>5 DEF Story, GivenUpForAReason
  <2>7. signal' \in 0..NoSignal
    <3>1. u.handled \in Position
      BY TaskNumbers
    <3> QED
      BY <1>4, <3>1, LogAssumption DEF Position, NoSignal
  <2>8. Relayed' /\ published' \subseteq 1..Len(log) /\ transcript' \in Position
    BY <1>t, <1>2 DEF Story, Relayed, Record, TypeOK
  <2> QED
    BY <1>1, <1>2, <2>2, <2>3, <2>4, <2>6, <2>7, <2>8, EffectSettles
<1>5. CASE Quits(p, "release") /\ UNCHANGED signal
  <2>1. lease' = lease /\ left' \in 0..MaxHappenings
    BY <1>t, <1>2 DEF TypeOK
  <2>2. task[p].pc # "idle" /\ "trouble" \in Why /\ "trouble" # "behind"
    BY <1>1 DEF Why
  <2> QED
    BY <1>2, <1>5, <2>1, <2>2, GivesUpSettles
<1> QED
  BY <1>1, <1>4, <1>5 DEF Signal, Goto

-----------------------------------------------------------------------------
(* The observer: fenced writes of its record.                              *)

\* A task that is over knows nothing of the next state either.
LEMMA NoTaskToldNext ==
  ASSUME NEW p \in Observer, rec'.handled \in Nat, Len(log') \in Nat
  PROVE  Told(p, NoTask)'
<1>1. NoTask.pc = "idle" /\ NoTask.handled = 0 /\ NoTask.upto = 0
  BY DEF NoTask
<1> QED
  BY <1>1 DEF Told, Ending, Resting

\* The holder writes, and leaves the cursor and the mark of the end alone.
LEMMA KeepsSettles ==
  ASSUME IInv, NEW p \in Observer, Holds(p),
         UNCHANGED <<session, log, request, start, grant, published, transcript, signal, left>>,
         lease' \in {lease, Free}, task[p].pc # "idle",
         NEW x \in RecordType, rec' = x, x.handled = rec.handled, x.terminal = rec.terminal,
         x.status = rec.status \/ (rec.status \in Active /\ Rank[rec.status] < Rank[x.status]),
         x.status = "cancelled" => rec.status = "cancelled" \/ grant = "revoked",
         x.status \in {"finalizing", "completed"} => PastEnd,
         x.status = "completed" => x.transcript # "pending",
         \/ x.transcript = rec.transcript
         \/ x.transcript = "admitted" /\ rec.terminal # 0 /\ transcript >= rec.terminal
         \/ x.transcript = "skipped" /\ ~Wanted,
         x.status = "exhausted" => Spent(x),
         NEW t \in TaskType, task' = [task EXCEPT ![p] = t], Told(p, t)'
  PROVE  Settled
<1>t. TypeOK /\ Story
  BY DEF IInv
<1>n. /\ rec.handled \in Nat /\ rec.terminal \in Nat /\ Len(log) \in Nat
      /\ rec.status \in Status /\ x.status \in Status
  BY <1>t, RecordNumbers DEF RecordType
<1>1. start # "idle"
  BY DEF IInv, Tasks, Told
<1>2. Session' /\ Relayed'
  BY <1>t DEF Story, Session, Relayed
<1>3. Record'
  <2>1. rec'.transcript = "admitted" => rec'.terminal # 0 /\ transcript' >= rec'.terminal
    BY <1>t DEF Story, Record
  <2>2. rec'.transcript = "skipped" => ~Wanted
    BY <1>t DEF Story, Record
  <2>3. rec'.status \in {"finalizing", "completed"} => PastEnd'
    BY DEF PastEnd
  <2> QED
    BY <1>t, <1>1, <2>1, <2>2, <2>3 DEF Story, Record
<1>4. GrantDies'
  BY <1>t DEF Story, GrantDies
<1>5. rec.status = "exhausted" => x.status = "exhausted"
  BY DEF Active
<1>6. GivenUpForAReason'
  BY <1>t, <1>5 DEF Story, GivenUpForAReason, Spent, Late
<1>7. Forward
  <2>1. Rank[rec.status] \in Nat /\ Rank[x.status] \in Nat
    BY <1>n, Ranks
  <2>2. Rank[rec.status] = 4 => rec.status \notin Active
    BY <1>n, Ranks DEF Active
  <2> QED
    BY <1>n, <2>1, <2>2 DEF Forward, Stays
<1> QED
  BY <1>2, <1>3, <1>4, <1>6, <1>7, WriteSettles DEF Story

\* What the holder knows after such a write.
LEMMA KeepsTold ==
  ASSUME TypeOK, NEW p \in Observer, Holds(p), UNCHANGED <<log, start>>,
         rec'.handled = rec.handled, rec'.terminal = rec.terminal,
         NEW u \in TaskType, Told(p, u), u.pc \notin Resting,
         NEW t \in TaskType, t.handled = u.handled, t.terminal = u.terminal, t.upto = u.upto,
         t.pc \in {"open", "reopen", "complete"},
         t.pc = "open" => t.tried = 0,
         t.pc \in {"reopen", "complete"} => PastEnd
  PROVE  Told(p, t)'
<1>1. PastEnd => PastEnd'
  BY DEF PastEnd
<1>2. /\ start' # "idle" /\ t.handled <= rec'.handled /\ t.upto <= Len(log')
      /\ t.handled = rec'.handled /\ t.terminal = rec'.terminal
  BY DEF Told, Resting
<1> QED
  BY <1>1, <1>2 DEF Told, Ending

\* What it knows when the write was that it failed.
LEMMA GivesUpTold ==
  ASSUME TypeOK, NEW p \in Observer, start # "idle", UNCHANGED <<log, start>>,
         rec'.handled = rec.handled,
         NEW t \in TaskType, t.handled = 0, t.upto = 0, t.pc \in {"exhaust", "release"},
         t.pc = "exhaust" => Spent(rec')
  PROVE  Told(p, t)'
<1>1. Spent(rec') => Spent(rec)'
  BY DEF Spent, Late
<1>2. rec'.handled \in Nat /\ Len(log') \in Nat /\ start' # "idle"
  BY RecordNumbers
<1> QED
  BY <1>1, <1>2 DEF Told, Resting, Ending

\* A prepared record is dropped, or adopted as observed.
LEMMA AdoptSettles ==
  ASSUME IInv, NEW p \in Observer, Drop(p) \/ Adopt(p)
  PROVE  Settled
<1>t. TypeOK /\ Story
  BY DEF IInv
<1>1. PICK u \in TaskType : u = task[p] /\ Told(p, u)
  BY DEF IInv, TypeOK, Tasks
<1>2. UNCHANGED <<session, log, request, start, grant, published, transcript, signal, left>>
  BY DEF Drop, Adopt, OnlyRow, worker, effects
<1>3. left' \in 0..MaxHappenings
  BY <1>t, <1>2 DEF TypeOK
<1>4. CASE Drop(p)
  <2>1. PICK new : new = [rec EXCEPT !.status = "cancelled", !.due = TRUE]
    OBVIOUS
  <2>2. /\ u.pc = "drop"
        /\ Fenced(p, rec.status = "prepared", new, Free, NoTask)
    BY <1>1, <1>4, <2>1 DEF Drop, At
  <2>3. CASE Holds(p) /\ rec.status = "prepared" /\ rec' = new /\ lease' = Free
             /\ task' = [task EXCEPT ![p] = NoTask]
    <3>1. /\ new \in RecordType /\ new.status = "cancelled" /\ new.handled = rec.handled
          /\ new.terminal = rec.terminal /\ new.transcript = rec.transcript
      BY <1>t, <2>1 DEF TypeOK, RecordType, Status
    <3>2. grant = "revoked"
      BY <1>1, <2>2 DEF Told
    <3>3. Told(p, NoTask)'
      <4>1. rec'.handled \in Nat /\ Len(log') \in Nat
        BY <1>t, <1>2, <2>3, <3>1, RecordNumbers
      <4> QED
        BY <4>1, NoTaskToldNext
    <3>4. rec.status \in Active /\ Rank[rec.status] < Rank[new.status]
      BY <2>3, <3>1 DEF Active, Rank
    <3> QED
      BY <1>1, <1>2, <2>2, <2>3, <3>1, <3>2, <3>3, <3>4, NoTaskTold, KeepsSettles
  <2>4. CASE task' = [task EXCEPT ![p] = NoTask] /\ UNCHANGED <<rec, lease>>
    BY <1>2, <1>3, <2>4, EndTaskSettles
  <2> QED
    BY <2>2, <2>3, <2>4, FencedCases
<1>5. CASE Adopt(p)
  <2>1. PICK new : new = [rec EXCEPT !.status = "observing", !.failures = 0, !.failure = "none", !.due = TRUE]
    OBVIOUS
  <2>2. PICK t : t = [u EXCEPT !.pc = "open"]
    OBVIOUS
  <2>3. /\ u.pc = "adopt"
        /\ Fenced(p, rec.status = "prepared", new, lease, t)
    BY <1>1, <1>5, <2>1, <2>2 DEF Adopt, At
  <2>4. CASE Holds(p) /\ rec.status = "prepared" /\ rec' = new /\ lease' = lease
             /\ task' = [task EXCEPT ![p] = t]
    <3>1. /\ new \in RecordType /\ new.status = "observing" /\ new.handled = rec.handled
          /\ new.terminal = rec.terminal /\ new.transcript = rec.transcript
      BY <1>t, <2>1 DEF TypeOK, RecordType, Status, Why
    <3>2. /\ t \in TaskType /\ t.pc = "open" /\ t.handled = u.handled /\ t.terminal = u.terminal
          /\ t.upto = u.upto /\ t.tried = u.tried
      BY <2>2, MovesTask DEF Working
    <3>3. t.tried = 0
      BY <1>1, <2>3, <3>2 DEF Told
    <3>4. Told(p, t)'
      BY <1>t, <1>1, <1>2, <2>3, <2>4, <3>1, <3>2, <3>3, KeepsTold DEF Resting
    <3>5. rec.status \in Active /\ Rank[rec.status] < Rank[new.status]
      BY <2>4, <3>1 DEF Active, Rank
    <3> QED
      BY <1>1, <1>2, <2>3, <2>4, <3>1, <3>2, <3>4, <3>5, KeepsSettles
  <2>5. CASE task' = [task EXCEPT ![p] = NoTask] /\ UNCHANGED <<rec, lease>>
    BY <1>2, <1>3, <2>5, EndTaskSettles
  <2> QED
    BY <2>3, <2>4, <2>5, FencedCases
<1> QED
  BY <1>4, <1>5

\* The task writes the record for the last time, and gives the lease back.
LEMMA ClosesSettles ==
  ASSUME IInv, NEW p \in Observer, Schedule(p) \/ Complete(p) \/ Exhaust(p) \/ Signalled(p)
  PROVE  Settled
<1>t. TypeOK /\ Story
  BY DEF IInv
<1>1. PICK u \in TaskType : u = task[p] /\ Told(p, u)
  BY DEF IInv, TypeOK, Tasks
<1>2. UNCHANGED <<session, log, request, start, grant, published, transcript, signal, left>>
  BY DEF Schedule, Complete, Exhaust, Signalled, OnlyRow, worker, effects
<1>3. left' \in 0..MaxHappenings
  BY <1>t, <1>2 DEF TypeOK
<1>4. ASSUME Holds(p), NEW x \in RecordType, rec' = x, lease' = Free, task' = [task EXCEPT ![p] = NoTask],
             u.pc # "idle",
             x.handled = rec.handled, x.terminal = rec.terminal, x.transcript = rec.transcript,
             \/ x.status = rec.status /\ x.failures = 0 /\ rec.status = "observing"
             \/ x.status = rec.status /\ x.failures = rec.failures /\ x.failure = rec.failure
             \/ rec.status = "finalizing" /\ x.status = "completed" /\ rec.transcript # "pending"
             \/ rec.status \in Active /\ x.status = "exhausted" /\ Spent(x)
      PROVE  Settled
  <2>1. Told(p, NoTask)'
    <3>1. rec'.handled \in Nat /\ Len(log') \in Nat
      BY <1>t, <1>2, <1>4, RecordNumbers
    <3> QED
      BY <3>1, NoTaskToldNext
  <2>2. x.status = rec.status \/ (rec.status \in Active /\ Rank[rec.status] < Rank[x.status])
    BY <1>4 DEF Active, Rank
  <2>3. x.status = "cancelled" => rec.status = "cancelled"
    BY <1>4
  <2>4. x.status \in {"finalizing", "completed"} => PastEnd
    BY <1>t, <1>4 DEF Story, Record
  <2>5. x.status = "completed" => x.transcript # "pending"
    BY <1>t, <1>4 DEF Story, Record
  <2>6. x.status = "exhausted" => Spent(x)
    BY <1>t, <1>4 DEF Story, GivenUpForAReason, Spent, Late
  <2> QED
    BY <1>1, <1>2, <1>4, <2>1, <2>2, <2>3, <2>4, <2>5, <2>6, NoTaskTold, KeepsSettles
<1>5. ASSUME task' = [task EXCEPT ![p] = NoTask], UNCHANGED <<rec, lease>> PROVE Settled
  BY <1>2, <1>3, <1>5, EndTaskSettles
<1>r. rec \in RecordType
  BY <1>t DEF TypeOK
<1>6. CASE Schedule(p)
  <2>1. PICK x : x = [rec EXCEPT !.failures = 0, !.failure = "none", !.due = FALSE]
    OBVIOUS
  <2>2. u.pc = "schedule" /\ Fenced(p, rec.status = "observing", x, Free, NoTask)
    BY <1>1, <1>6, <2>1 DEF Schedule, At
  <2>3. /\ x \in RecordType /\ x.status = rec.status /\ x.handled = rec.handled
        /\ x.terminal = rec.terminal /\ x.transcript = rec.transcript /\ x.failures = 0
    BY <1>r, <2>1 DEF RecordType, Why
  <2> QED
    BY <1>4, <1>5, <2>2, <2>3, FencedCases
<1>7. CASE Complete(p)
  <2>1. PICK x : x = [rec EXCEPT !.status = "completed", !.failures = 0, !.failure = "none", !.due = TRUE]
    OBVIOUS
  <2>2. /\ u.pc = "complete"
        /\ Fenced(p, rec.status = "finalizing" /\ rec.transcript # "pending", x, Free, NoTask)
    BY <1>1, <1>7, <2>1 DEF Complete, At
  <2>3. /\ x \in RecordType /\ x.status = "completed" /\ x.handled = rec.handled
        /\ x.terminal = rec.terminal /\ x.transcript = rec.transcript
    BY <1>r, <2>1 DEF RecordType, Status, Why
  <2> QED
    BY <1>4, <1>5, <2>2, <2>3, FencedCases
<1>8. CASE Exhaust(p)
  <2>1. PICK x : x = [rec EXCEPT !.status = "exhausted", !.due = TRUE]
    OBVIOUS
  <2>2. u.pc = "exhaust" /\ Fenced(p, rec.status \in Active, x, Free, NoTask)
    BY <1>1, <1>8, <2>1 DEF Exhaust, At
  <2>3. /\ x \in RecordType /\ x.status = "exhausted" /\ x.handled = rec.handled
        /\ x.terminal = rec.terminal /\ x.transcript = rec.transcript
        /\ x.failures = rec.failures /\ x.failure = rec.failure
    BY <1>r, <2>1 DEF RecordType, Status
  <2>4. Holds(p) => Spent(x)
    BY <1>1, <2>2, <2>3 DEF Told, Spent
  <2> QED
    BY <1>4, <1>5, <2>2, <2>3, <2>4, FencedCases
<1>9. CASE Signalled(p)
  <2>1. PICK x : x = [rec EXCEPT !.signaled = TRUE]
    OBVIOUS
  <2>2. u.pc = "signalled" /\ Fenced(p, rec.status = "exhausted" /\ ~rec.signaled, x, Free, NoTask)
    BY <1>1, <1>9, <2>1 DEF Signalled, At
  <2>3. /\ x \in RecordType /\ x.status = rec.status /\ x.handled = rec.handled
        /\ x.terminal = rec.terminal /\ x.transcript = rec.transcript
        /\ x.failures = rec.failures /\ x.failure = rec.failure
    BY <1>r, <2>1 DEF RecordType
  <2> QED
    BY <1>4, <1>5, <2>2, <2>3, FencedCases
<1> QED
  BY <1>6, <1>7, <1>8, <1>9

\* The task writes the record and goes on.
LEMMA GoesOnSettles ==
  ASSUME IInv, NEW p \in Observer, Enter(p) \/ Written(p) \/ RecordFailure(p)
  PROVE  Settled
<1>t. TypeOK /\ Story
  BY DEF IInv
<1>1. PICK u \in TaskType : u = task[p] /\ Told(p, u)
  BY DEF IInv, TypeOK, Tasks
<1>2. UNCHANGED <<session, log, request, start, grant, published, transcript, signal, left>>
  BY DEF Enter, Written, RecordFailure, OnlyRow, worker, effects
<1>3. left' \in 0..MaxHappenings
  BY <1>t, <1>2 DEF TypeOK
<1>5. ASSUME task' = [task EXCEPT ![p] = NoTask], UNCHANGED <<rec, lease>> PROVE Settled
  BY <1>2, <1>3, <1>5, EndTaskSettles
<1>r. rec \in RecordType
  BY <1>t DEF TypeOK
<1>n. rec.handled \in Nat /\ rec.terminal \in Nat /\ rec.failures \in Nat
  BY <1>t, RecordNumbers
<1>6. CASE Enter(p)
  <2>1. PICK x : x = [rec EXCEPT !.status = "finalizing", !.failures = 0, !.failure = "none", !.due = TRUE]
    OBVIOUS
  <2>2. PICK t : t = [u EXCEPT !.pc = "reopen"]
    OBVIOUS
  <2>4. CASE task' = [task EXCEPT ![p] = NoTask] /\ UNCHANGED <<rec, lease>>
    BY <1>5, <2>4
  <2>5. CASE /\ Holds(p) /\ rec.status = "observing" /\ rec.terminal # 0 /\ rec.handled >= rec.terminal
             /\ rec' = x /\ lease' = lease /\ task' = [task EXCEPT ![p] = t]
    <3>1. /\ x \in RecordType /\ x.status = "finalizing" /\ x.handled = rec.handled
          /\ x.terminal = rec.terminal /\ x.transcript = rec.transcript
      BY <1>r, <2>1 DEF RecordType, Status, Why
    <3>2. /\ t \in TaskType /\ t.pc = "reopen" /\ t.handled = u.handled /\ t.terminal = u.terminal
          /\ t.upto = u.upto
      BY <2>2, MovesTask DEF Working
    <3>3. PastEnd
      BY <1>n, <2>5 DEF PastEnd
    <3>4. u.pc \notin Resting /\ u.pc # "idle"
      BY <1>1, <1>6 DEF Enter, At, Resting
    <3>5. Told(p, t)'
      BY <1>t, <1>1, <1>2, <2>5, <3>1, <3>2, <3>3, <3>4, KeepsTold
    <3>6. rec.status \in Active /\ Rank[rec.status] < Rank[x.status]
      BY <2>5, <3>1 DEF Active, Rank
    <3> QED
      BY <1>1, <1>2, <2>5, <3>1, <3>2, <3>3, <3>4, <3>5, <3>6, KeepsSettles
  <2> QED
    BY <1>1, <1>6, <2>1, <2>2, <2>4, <2>5 DEF Enter, Fenced, Becomes
<1>7. CASE Written(p)
  <2>1. PICK x : x = [rec EXCEPT !.transcript = IF At(p, "skip") THEN "skipped" ELSE "admitted"]
    OBVIOUS
  <2>2. PICK t : t = [u EXCEPT !.pc = "complete"]
    OBVIOUS
  <2>3. u.pc \in {"written", "skip"} /\ Fenced(p, rec.status = "finalizing", x, lease, t)
    BY <1>1, <1>7, <2>1, <2>2 DEF Written
  <2>4. CASE task' = [task EXCEPT ![p] = NoTask] /\ UNCHANGED <<rec, lease>>
    BY <1>5, <2>4
  <2>5. CASE /\ Holds(p) /\ rec.status = "finalizing"
             /\ rec' = x /\ lease' = lease /\ task' = [task EXCEPT ![p] = t]
    <3>1. /\ x \in RecordType /\ x.status = rec.status /\ x.handled = rec.handled
          /\ x.terminal = rec.terminal
          /\ u.pc = "skip" => x.transcript = "skipped"
          /\ u.pc = "written" => x.transcript = "admitted"
      BY <1>r, <1>1, <2>1 DEF RecordType, At
    <3>2. /\ t \in TaskType /\ t.pc = "complete" /\ t.handled = u.handled /\ t.terminal = u.terminal
          /\ t.upto = u.upto
      BY <2>2, MovesTask DEF Working
    <3>3. PastEnd /\ rec.terminal # 0
      <4>1. PastEnd
        BY <1>1, <2>3 DEF Told, Ending
      <4> QED
        BY <1>n, <4>1 DEF PastEnd
    <3>4. \/ x.transcript = "admitted" /\ rec.terminal # 0 /\ transcript >= rec.terminal
          \/ x.transcript = "skipped" /\ ~Wanted
      BY <1>1, <2>3, <3>1, <3>3 DEF Told
    <3>5. Told(p, t)'
      BY <1>t, <1>1, <1>2, <2>3, <2>5, <3>1, <3>2, <3>3, KeepsTold DEF Resting
    <3> QED
      BY <1>1, <1>2, <2>3, <2>5, <3>1, <3>2, <3>3, <3>4, <3>5, KeepsSettles
  <2> QED
    BY <2>3, <2>4, <2>5, FencedCases
<1>8. CASE RecordFailure(p)
  <2>1. PICK spent \in BOOLEAN : spent <=> (u.why # "trouble" \/ rec.failures + 1 >= RetryLimit)
    OBVIOUS
  <2>0. PICK n \in Nat : n = rec.failures + 1
    BY <1>n
  <2>2. PICK x : x = [rec EXCEPT !.failures = n, !.failure = u.why, !.due = FALSE]
    OBVIOUS
  <2>3. PICK pc : pc = IF spent THEN "exhaust" ELSE "release"
    OBVIOUS
  <2>4. PICK t : t = [NoTask EXCEPT !.pc = pc]
    OBVIOUS
  <2>5. CASE task' = [task EXCEPT ![p] = NoTask] /\ UNCHANGED <<rec, lease>>
    BY <1>5, <2>5
  <2>6. CASE /\ Holds(p) /\ rec.status \in Active
             /\ rec' = x /\ lease' = lease /\ task' = [task EXCEPT ![p] = t]
    <3>1. /\ x \in RecordType /\ x.status = rec.status /\ x.handled = rec.handled
          /\ x.terminal = rec.terminal /\ x.transcript = rec.transcript
          /\ x.failures = rec.failures + 1 /\ x.failure = u.why
      <4>1. u.why \in Why
        BY TaskNumbers
      <4> QED
        BY <1>r, <2>0, <2>2, <4>1 DEF RecordType
    <3>2. t \in TaskType /\ t.pc = pc /\ t.handled = 0 /\ t.upto = 0
      <4>1. pc \in Giving
        BY <2>3 DEF Giving
      <4> QED
        BY <2>4, <4>1, GivesUpTask
    <3>3. u.pc = "failed" /\ start # "idle"
      BY <1>1, <1>8 DEF RecordFailure, At, Told, Resting
    <3>4. pc = "exhaust" => Spent(x)
      <4>1. u.why \in Why /\ u.why # "none" /\ (u.why = "behind" => Late)
        BY <1>1, <3>3, TaskNumbers DEF Told
      <4> QED
        BY <2>1, <2>3, <3>1, <4>1 DEF Spent, Why
    <3>5. Told(p, t)'
      <4>1. t.pc \in {"exhaust", "release"}
        BY <2>3, <3>2
      <4> QED
        BY <1>t, <1>2, <2>6, <3>1, <3>2, <3>3, <3>4, <4>1, GivesUpTold
    <3>6. /\ x.status \notin {"cancelled", "completed", "exhausted"}
          /\ x.status = "finalizing" => PastEnd
      BY <1>t, <2>6, <3>1 DEF Active, Story, Record
    <3> QED
      BY <1>1, <1>2, <2>6, <3>1, <3>2, <3>3, <3>5, <3>6, KeepsSettles
  <2>7. (u.why # "trouble" \/ rec.failures + 1 >= RetryLimit) <=> spent
    BY <2>1
  <2>8. t = [NoTask EXCEPT !.pc = IF u.why # "trouble" \/ rec.failures + 1 >= RetryLimit
                                  THEN "exhaust" ELSE "release"]
    BY <2>3, <2>4, <2>7
  <2>9. Fenced(p, rec.status \in Active, x, lease, t)
    BY <1>1, <1>8, <2>0, <2>2, <2>8 DEF RecordFailure
  <2> QED
    BY <2>5, <2>6, <2>9, FencedCases
<1> QED
  BY <1>6, <1>7, <1>8

\* The end of the session is marked, after the credential is revoked.
LEMMA MarkSettles ==
  ASSUME IInv, NEW p \in Observer, Mark(p)
  PROVE  Settled
<1>t. TypeOK /\ Story
  BY DEF IInv
<1>1. PICK u \in TaskType : u = task[p] /\ Told(p, u)
  BY DEF IInv, TypeOK, Tasks
<1>2. UNCHANGED <<session, log, request, start, grant, published, transcript, signal, left>>
  BY DEF Mark, OnlyRow, worker, effects
<1>3. left' \in 0..MaxHappenings
  BY <1>t, <1>2 DEF TypeOK
<1>n. /\ rec.handled \in Nat /\ rec.terminal \in Nat /\ Len(log) \in Nat
      /\ u.handled \in Nat /\ u.upto \in Nat /\ u.tried \in Nat
      /\ Len(log) <= MaxLog /\ MaxLog \in Nat
  BY <1>t, RecordNumbers, TaskNumbers, LogAssumption DEF TypeOK
<1>4. PICK end \in Nat : end = u.handled + 1
  BY <1>n
<1>5. PICK x : x = [rec EXCEPT !.terminal = end]
  OBVIOUS
<1>6. PICK t : t = [u EXCEPT !.terminal = end, !.pc = "publish"]
  OBVIOUS
<1>7. u.pc = "mark" /\ Fenced(p, rec.status = "observing" /\ end = rec.handled + 1, x, lease, t)
  BY <1>1, <1>4, <1>5, <1>6 DEF Mark, At
<1>8. CASE task' = [task EXCEPT ![p] = NoTask] /\ UNCHANGED <<rec, lease>>
  BY <1>2, <1>3, <1>8, EndTaskSettles
<1>9. CASE /\ Holds(p) /\ rec.status = "observing" /\ end = rec.handled + 1
           /\ rec' = x /\ lease' = lease /\ task' = [task EXCEPT ![p] = t]
  <2>1. /\ u.handled < u.upto /\ u.upto <= Len(log) /\ u.handled = rec.handled
        /\ u.tried <= u.handled + 1
        /\ rec.terminal = 0 /\ log[end] = "end" /\ grant = "revoked" /\ start # "idle"
    BY <1>1, <1>4, <1>7, <1>9 DEF Told, Resting
  <2>2. end \in 1..Len(log) /\ end \in Position
    BY <1>n, <1>4, <2>1 DEF Position
  <2>3. /\ x \in RecordType /\ x.status = rec.status /\ x.handled = rec.handled
        /\ x.terminal = end /\ x.transcript = rec.transcript
          /\ x.failures = rec.failures /\ x.failure = rec.failure
    BY <1>t, <1>5, <2>2 DEF TypeOK, RecordType
  <2>4. /\ t \in TaskType /\ t.pc = "publish" /\ t.handled = u.handled /\ t.terminal = end
        /\ t.upto = u.upto /\ t.tried = u.tried
    <3>1. "publish" \in {"idle"} \cup Working \cup Giving
      BY DEF Working
    <3> QED
      BY <1>6, <2>2, <3>1 DEF TaskType
  <2>5. Record'
    <3>1. x.transcript # "admitted"
      BY <1>t, <2>1, <2>3 DEF Story, Record
    <3> QED
      BY <1>t, <1>2, <1>9, <2>1, <2>2, <2>3, <3>1 DEF Story, Record
  <2>6. Session' /\ Relayed' /\ GrantDies' /\ GivenUpForAReason'
    <3>1. Session' /\ Relayed'
      BY <1>t, <1>2, <1>9, <2>3 DEF Story, Session, Relayed
    <3>2. GrantDies'
      BY <1>2, <2>1 DEF GrantDies
    <3>3. GivenUpForAReason'
      BY <1>t, <1>2, <1>9, <2>3 DEF Story, GivenUpForAReason
    <3> QED
      BY <3>1, <3>2, <3>3
  <2>7. Forward
    <3>1. Rank[rec.status] \in 0..4
      BY <1>t, RecordNumbers, Ranks
    <3> QED
      BY <1>n, <1>2, <1>9, <2>1, <2>3, <3>1 DEF Forward, Stays
  <2>8. Told(p, t)'
    BY <1>n, <1>2, <1>9, <2>1, <2>3, <2>4 DEF Told, Ending
  <2> QED
    BY <1>2, <1>9, <2>3, <2>4, <2>5, <2>6, <2>7, <2>8, WriteSettles DEF Story
<1> QED
  BY <1>7, <1>8, <1>9, FencedCases

\* The cursor passes an event that was admitted, if it was asked for.
LEMMA AdvanceSettles ==
  ASSUME IInv, NEW p \in Observer, Advance(p)
  PROVE  Settled
<1>t. TypeOK /\ Story
  BY DEF IInv
<1>1. PICK u \in TaskType : u = task[p] /\ Told(p, u)
  BY DEF IInv, TypeOK, Tasks
<1>2. UNCHANGED <<session, log, request, start, grant, published, transcript, signal, left>>
  BY DEF Advance, OnlyRow, worker, effects
<1>3. left' \in 0..MaxHappenings
  BY <1>t, <1>2 DEF TypeOK
<1>n. /\ rec.handled \in Nat /\ rec.terminal \in Nat /\ Len(log) \in Nat
      /\ u.handled \in Nat /\ u.upto \in Nat /\ u.tried \in Nat
      /\ Len(log) <= MaxLog /\ MaxLog \in Nat
  BY <1>t, RecordNumbers, TaskNumbers, LogAssumption DEF TypeOK
<1>4. PICK next \in Nat : next = u.handled + 1
  BY <1>n
<1>5. PICK x : x = [rec EXCEPT !.handled = next]
  OBVIOUS
<1>6. PICK v : v = [u EXCEPT !.handled = next]
  OBVIOUS
<1>m. PICK t : t = Onward(v)
  OBVIOUS
<1>7. u.pc = "advance" /\ Fenced(p, rec.status = "observing" /\ rec.handled = u.handled, x, lease, t)
  BY <1>1, <1>4, <1>5, <1>6, <1>m DEF Advance, At
<1>8. CASE task' = [task EXCEPT ![p] = NoTask] /\ UNCHANGED <<rec, lease>>
  BY <1>2, <1>3, <1>8, EndTaskSettles
<1>9. CASE /\ Holds(p) /\ rec.status = "observing" /\ rec.handled = u.handled
           /\ rec' = x /\ lease' = lease /\ task' = [task EXCEPT ![p] = t]
  <2>1. /\ u.handled < u.upto /\ u.upto <= Len(log) /\ u.tried <= u.handled + 1
        /\ u.terminal = rec.terminal /\ start # "idle"
        /\ log[next] \in Selected => next \in published
    BY <1>1, <1>4, <1>7, <1>9 DEF Told, Resting
  <2>2. next \in Position /\ next <= Len(log) /\ next <= u.upto /\ rec.handled <= next
    BY <1>n, <1>4, <1>9, <2>1 DEF Position
  <2>3. /\ x \in RecordType /\ x.status = rec.status /\ x.handled = next
        /\ x.terminal = rec.terminal /\ x.transcript = rec.transcript
          /\ x.failures = rec.failures /\ x.failure = rec.failure
    BY <1>t, <1>5, <2>2 DEF TypeOK, RecordType
  <2>4. /\ v \in TaskType /\ v.handled = next /\ v.terminal = u.terminal
        /\ v.upto = u.upto /\ v.tried = u.tried
    BY <1>6, <2>2 DEF TaskType
  <2>5. /\ t \in TaskType /\ t.handled = next /\ t.terminal = u.terminal
        /\ t.upto = u.upto /\ t.tried = u.tried
        /\ \/ next = u.upto /\ t.pc \in {"renew", "check"}
           \/ next # u.upto /\ t.pc = "publish"
           \/ next # u.upto /\ t.pc = "revoke" /\ u.terminal = 0 /\ log[next + 1] = "end"
    BY <1>m, <2>4, OnwardGoes
  <2>6. Record'
    BY <1>t, <1>2, <1>9, <2>1, <2>2, <2>3 DEF Story, Record
  <2>7. Session' /\ Relayed' /\ GrantDies' /\ GivenUpForAReason'
    <3>1. Session' /\ GrantDies'
      BY <1>t, <1>2, <1>9, <2>3 DEF Story, Session, GrantDies
    <3>2. \A i \in 1..next : log[i] \in Selected => i \in published
      BY <1>t, <1>n, <1>4, <1>9, <2>1 DEF Story, Relayed
    <3>3. Relayed'
      BY <1>t, <1>2, <1>9, <2>3, <3>2 DEF Story, Relayed
    <3>4. GivenUpForAReason'
      BY <1>t, <1>2, <1>9, <2>3 DEF Story, GivenUpForAReason
    <3> QED
      BY <3>1, <3>3, <3>4
  <2>8. Forward
    <3>1. Rank[rec.status] \in 0..4
      BY <1>t, RecordNumbers, Ranks
    <3> QED
      BY <1>n, <1>2, <1>9, <2>2, <2>3, <3>1 DEF Forward, Stays
  <2>9. Told(p, t)'
    <3>1. t.pc \in {"revoke", "publish"} => t.handled < t.upto /\ t.tried <= t.handled + 1
      BY <1>n, <1>4, <2>1, <2>2, <2>5
    <3>2. /\ t.pc \in {"renew", "check"} => t.tried <= t.handled
          /\ t.pc = "renew" => t.tried <= t.handled + 1 /\ t.tried # t.handled + 1
      BY <1>n, <1>4, <2>1, <2>5
    <3>3. /\ t.pc # "idle" => start' # "idle"
          /\ t.handled <= rec'.handled /\ t.upto <= Len(log')
          /\ t.handled = rec'.handled /\ t.terminal = rec'.terminal
      BY <1>2, <1>9, <2>1, <2>3, <2>5
    <3> QED
      BY <1>2, <2>5, <3>1, <3>2, <3>3 DEF Told, Ending
  <2> QED
    BY <1>2, <1>9, <2>3, <2>5, <2>6, <2>7, <2>8, <2>9, WriteSettles DEF Story
<1> QED
  BY <1>7, <1>8, <1>9, FencedCases

-----------------------------------------------------------------------------
(* The theorems.                                                           *)

\* Nothing has happened.
LEMMA Start ==
  Init => IInv
<1> SUFFICES ASSUME Init PROVE IInv
  OBVIOUS
<1>1. /\ session = "absent" /\ log = <<>> /\ request = "none" /\ start = "idle" /\ grant = "none"
      /\ rec = NoRecord /\ lease = Free /\ task = [p \in Observer |-> NoTask]
      /\ published = {} /\ transcript = 0 /\ signal = NoSignal /\ left = MaxHappenings
  BY DEF Init, LogInit
<1>m. MaxLog \in Nat /\ MaxHappenings \in Nat
  BY LogAssumption, ObserverAssumption
<1>2. /\ rec \in RecordType /\ rec.status = "none" /\ rec.handled = 0 /\ rec.terminal = 0
      /\ rec.transcript = "pending"
  BY <1>1, <1>m DEF NoRecord, RecordType, Status, Position, Why
<1>3. /\ log \in Seq({"turn", "end"}) /\ Len(log) = 0
  BY <1>1
<1>4. TypeOK
  <2>1. lease \in [owner : Observer \cup {NoOne}, live : BOOLEAN] /\ ~lease.live
    BY <1>1 DEF Free
  <2>2. task \in [Observer -> TaskType]
    BY <1>1, NoTaskTold
  <2>3. signal \in 0..NoSignal /\ transcript \in Position /\ left \in 0..MaxHappenings
    BY <1>1, <1>m DEF NoSignal, Position
  <2>4. Len(log) <= MaxLog
    BY <1>3, <1>m
  <2> QED
    BY <1>1, <1>2, <1>3, <2>1, <2>2, <2>3, <2>4 DEF TypeOK, Starting
<1>5. Session /\ Record
  BY <1>1, <1>2, <1>3, <1>m DEF Session, Record
<1>6. Relayed /\ GrantDies /\ GivenUpForAReason
  BY <1>1, <1>2 DEF Relayed, GrantDies, GivenUpForAReason
<1>7. Tasks
  BY <1>1, <1>4, NoTaskTold DEF Tasks
<1> QED
  BY <1>4, <1>5, <1>6, <1>7 DEF IInv, Story

\* Whatever steps, what every step leaves behind is left.
LEMMA StepSettles ==
  ASSUME IInv, [Next]_vars
  PROVE  Settled
<1>1. CASE UNCHANGED vars
  <2>1. UNCHANGED <<session, log, start, grant, rec, published, transcript, signal>>
        /\ UNCHANGED <<request, lease, task, left>>
    BY <1>1 DEF vars, worker, effects
  <2>2. TypeOK'
    BY <2>1 DEF IInv, TypeOK
  <2>3. \A q \in Observer : Undisturbed(q)
    BY <2>1 DEF Undisturbed, Holds
  <2> QED
    BY <2>1, <2>2, <2>3, StoryRests, NoTaskSettles
<1>2. CASE StarterStep \/ StartFault \/ StartCrash
  BY <1>2, StarterSettles
<1>3. CASE Create \/ Speak \/ End
  BY <1>3, WorkerSettles
<1>4. CASE ComesDue \/ GraceEnds \/ Backfill
  BY <1>4, DueSettles
<1>5. CASE LeaseEnds \/ LeaseLapses
  BY <1>5, LapseSettles
<1>6. ASSUME NEW p \in Observer, Claim(p) \/ Step(p) \/ Fault(p) \/ Crash(p)
      PROVE  Settled
  <2>1. CASE Claim(p)
    BY <2>1, ClaimSettles
  <2>2. CASE Release(p) \/ Fault(p) \/ Crash(p)
    BY <2>2, ReleaseSettles
  <2>3. CASE Look(p) \/ Open(p) \/ Renew(p)
    BY <2>3, PlainSettles
  <2>4. CASE Page(p)
    BY <2>4, PageSettles
  <2>5. CASE Check(p)
    BY <2>5, CheckSettles
  <2>6. CASE Reopen(p) \/ History(p)
    BY <2>6, HistorySettles
  <2>7. CASE Void(p) \/ Revoke(p)
    BY <2>7, RevokeSettles
  <2>8. CASE Publish(p)
    BY <2>8, PublishSettles
  <2>9. CASE Compose(p)
    BY <2>9, ComposeSettles
  <2>10. CASE Signal(p)
    BY <2>10, SignalSettles
  <2>11. CASE Drop(p) \/ Adopt(p)
    BY <2>11, AdoptSettles
  <2>12. CASE Mark(p)
    BY <2>12, MarkSettles
  <2>13. CASE Advance(p)
    BY <2>13, AdvanceSettles
  <2>14. CASE Schedule(p) \/ Complete(p) \/ Exhaust(p) \/ Signalled(p)
    BY <2>14, ClosesSettles
  <2>15. CASE Enter(p) \/ Written(p) \/ RecordFailure(p)
    BY <2>15, GoesOnSettles
  <2> QED
    BY <1>6, <2>1, <2>2, <2>3, <2>4, <2>5, <2>6, <2>7, <2>8, <2>9, <2>10, <2>11, <2>12, <2>13,
       <2>14, <2>15 DEF Step
<1> QED
  BY <1>1, <1>2, <1>3, <1>4, <1>5, <1>6 DEF Next

\* The record, the worker's log, the credential, the webhooks and what every
\* observer believes of them agree, whoever steps in between and whatever fails.
THEOREM Invariance == Spec => []IInv
<1>1. IInv /\ [Next]_vars => IInv'
  BY StepSettles DEF Settled
<1> QED
  BY Start, <1>1, PTL DEF Spec

\* The cursor passes no event before it is admitted, and no admitted event has
\* an earlier one missing, however many observers relay at once (#observe).
THEOREM NoGap == Spec => []Inv
<1>1. IInv => Inv
  BY DEF IInv, Story, Inv
<1> QED
  BY Invariance, <1>1, PTL

\* A completed observation has relayed the end, and the transcript to the end
\* if the webhooks ask for one (#finalize).
THEOREM Whole == Spec => []CompletedIsWhole
<1>1. IInv => CompletedIsWhole
  <2> SUFFICES ASSUME IInv, rec.status = "completed"
               PROVE  /\ rec.terminal \in 1..rec.handled /\ log[rec.terminal] = "end"
                      /\ Wanted => transcript >= rec.terminal
    BY DEF CompletedIsWhole
  <2>1. rec.terminal \in 1..rec.handled /\ rec.transcript # "pending"
    BY DEF IInv, Story, Record, PastEnd
  <2>2. rec.terminal # 0
    BY <2>1
  <2>3. log[rec.terminal] = "end"
    BY <2>2 DEF IInv, Story, Record
  <2>4. rec.transcript \in {"admitted", "skipped"}
    BY <2>1 DEF IInv, TypeOK, RecordType
  <2>5. Wanted => transcript >= rec.terminal
    BY <2>4 DEF IInv, Story, Record
  <2> QED
    BY <2>1, <2>3, <2>5
<1> QED
  BY Invariance, <1>1, PTL

\* The credential is dead when the end is marked, and when the record is
\* cancelled unless its starter stopped half-way (#cancelClaim).
THEOREM Revoked == Spec => []GrantDies
<1>1. IInv => GrantDies
  BY DEF IInv, Story
<1> QED
  BY Invariance, <1>1, PTL

\* An observation is given up for spent attempts, for an answer of the worker
\* that no retry changes, or for a log that outlived its end, whatever happened
\* before its last failure; and the failure webhook is sent only then, with the
\* cursor as it stays (#handleFailure, #signalExhaustion).
THEOREM GivenUp == Spec => []GivenUpForAReason
<1>1. IInv => GivenUpForAReason
  BY DEF IInv, Story
<1> QED
  BY Invariance, <1>1, PTL

\* No step of the starter, of a boot or of any observer takes back a status,
\* the cursor, the mark of the end or a transcript.
THEOREM Standing == Spec => NothingTakenBack
<1>1. IInv /\ [Next]_vars =>
        [/\ Rank[rec.status] <= Rank[rec'.status]
         /\ Rank[rec.status] = 4 => rec'.status = rec.status
         /\ rec.handled <= rec'.handled /\ rec.terminal \in {0, rec'.terminal}
         /\ transcript # 0 => transcript' = transcript]_vars
  BY StepSettles DEF Settled, Forward, Stays
<1> QED
  BY Invariance, <1>1, PTL DEF Spec, NothingTakenBack
=============================================================================
