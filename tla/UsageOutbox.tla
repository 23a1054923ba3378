---------------------------- MODULE UsageOutbox ----------------------------
(***************************************************************************)
(* Metering of executions: admission (engine.ts execute, usage/cloud.ts),  *)
(* the outbox of reports and releases (usage/outbox.ts) and its flushers,  *)
(* one in every replica (usage/flusher.ts), against the usage service      *)
(* (Cloud), which is external.                                             *)
(*                                                                         *)
(* Requests with one Idempotency-Key share a usage key, and Cloud holds    *)
(* one reservation per key.  Execution models how one execution settles,   *)
(* crashes included; here several race, and what they enqueue reaches      *)
(* Cloud or does not.  A batch never fills: MAX_BATCH_SIZE is 50.          *)
(***************************************************************************)
EXTENDS Naturals, FiniteSets

CONSTANTS
  Exec,          \* requests, each with an execution ID of its own
  Key, KeyOf,    \* usage keys, and the key of each request
  NoExec,
  Flusher,       \* one per replica
  RetryDelay,    \* retryDelayMs, in ticks
  Saturation,    \* the attempt from which the delay grows no more
  Strict,        \* EYEBALL_USAGE_STRICT
  Rejected,      \* keys whose report Cloud refuses for good
  Happenings,    \* "cloud", "expiry", "store", "crash", "drain"
  MaxHappenings  \* bound: how often anything does

ASSUME UsageAssumption ==
  /\ KeyOf \in [Exec -> Key] /\ NoExec \notin Exec
  /\ Saturation \in Nat \ {0} /\ RetryDelay \in [1..Saturation -> Nat \ {0}]
  /\ Strict \in BOOLEAN /\ Rejected \subseteq Key
  /\ Happenings \subseteq {"cloud", "expiry", "store", "crash", "drain"}
  /\ MaxHappenings \in Nat

VARIABLES
  pc,            \* where each request is
  handle,        \* requests that hold a reservation handle
  winner,        \* the execution allocated for a key
  dispatched,    \* executions whose dispatch is marked: their adapter may have been called
  thrown,        \* requests whose allocation was applied and threw, and whether they
                 \* still owe what they do of it
  row,           \* the outbox
  flush,         \* what each flusher is doing
  mode,          \* "run", "drain" or "closed"
  reservation,   \* Cloud: the reservation of each key
  counted,       \* Cloud: the keys whose usage is counted
  left           \* how often something may still happen

engine == <<pc, handle, winner, dispatched, thrown>>
cloud  == <<reservation, counted>>
vars   == <<engine, row, flush, mode, cloud, left>>

-----------------------------------------------------------------------------
NoRow == [op |-> "none", state |-> "none", attempts |-> 0, wait |-> 0]

Idle == [pc |-> "idle", batch |-> [e \in {} |-> 0], todo |-> {}, sent |-> {}, failed |-> {}]

Init ==
  /\ pc = [e \in Exec |-> "arrived"] /\ handle = {} /\ dispatched = {}
  /\ winner = [k \in Key |-> NoExec] /\ thrown = [e \in Exec |-> "no"]
  /\ row = [e \in Exec |-> NoRow]
  /\ flush = [f \in Flusher |-> Idle] /\ mode = [f \in Flusher |-> "run"]
  /\ reservation = [k \in Key |-> "none"] /\ counted = {}
  /\ left = MaxHappenings

Happens(what) == what \in Happenings /\ left > 0 /\ left' = left - 1

At(e, label)   == pc[e] = label
Goto(e, label) == pc' = [pc EXCEPT ![e] = label]

-----------------------------------------------------------------------------
(* A request, from admission to its row in the outbox.                     *)

\* inspectAllocation: a replay is not metered.
Inspect(e) ==
  /\ At(e, "arrived")
  /\ Goto(e, IF winner[KeyOf[e]] = NoExec THEN "reserve" ELSE "done")
  /\ UNCHANGED <<handle, winner, dispatched, thrown, row, flush, mode, cloud, left>>

\* Cloud keeps one reservation per key; an answer in another state is an error.
Reserve(e) ==
  /\ At(e, "reserve") /\ reservation[KeyOf[e]] \in {"none", "reserved"}
  /\ reservation' = [reservation EXCEPT ![KeyOf[e]] = "reserved"]
  /\ handle' = handle \cup {e} /\ Goto(e, "allocate")
  /\ UNCHANGED <<winner, dispatched, thrown, row, flush, mode, counted, left>>

Denied(e) ==
  /\ At(e, "reserve") /\ reservation[KeyOf[e]] = "none" /\ Goto(e, "done")
  /\ UNCHANGED <<handle, winner, dispatched, thrown, row, flush, mode, cloud, left>>

\* The service cannot be reached, or its answer is lost: fail open or closed.
ReserveFails(e) ==
  /\ At(e, "reserve")
  /\ \/ reservation[KeyOf[e]] \notin {"none", "reserved"} /\ UNCHANGED <<reservation, left>>
     \/ Happens("cloud") /\ UNCHANGED reservation
     \/ /\ Happens("cloud") /\ reservation[KeyOf[e]] = "none"
        /\ reservation' = [reservation EXCEPT ![KeyOf[e]] = "reserved"]
  /\ Goto(e, IF Strict THEN "done" ELSE "allocate")
  /\ UNCHANGED <<handle, winner, dispatched, thrown, row, flush, mode, counted>>

Unwinds(e) == Goto(e, IF e \in handle THEN "release" ELSE "done")

\* store.allocate: one request of a key gets the execution, another replays it.
Allocate(e) ==
  /\ At(e, "allocate")
  /\ IF winner[KeyOf[e]] = NoExec
       THEN winner' = [winner EXCEPT ![KeyOf[e]] = e] /\ Goto(e, "run")
       ELSE Unwinds(e) /\ UNCHANGED winner
  /\ UNCHANGED <<handle, dispatched, thrown, row, flush, mode, cloud, left>>

\* Either nothing is stored, or all of it and the answer is lost: then recovery
\* runs the execution, and the request gives the reservation back (GivesBack).
AllocateFails(e) ==
  /\ At(e, "allocate") /\ Happens("store")
  /\ \/ Unwinds(e) /\ UNCHANGED <<winner, thrown>>
     \/ /\ winner[KeyOf[e]] = NoExec
        /\ winner' = [winner EXCEPT ![KeyOf[e]] = e] /\ Goto(e, "run")
        /\ thrown' = [thrown EXCEPT ![e] = IF e \in handle THEN "owes" ELSE @]
  /\ UNCHANGED <<handle, dispatched, row, flush, mode, cloud>>

Dispatch(e) ==
  /\ At(e, "run") /\ dispatched' = dispatched \cup {e} /\ Goto(e, "report")
  /\ UNCHANGED <<handle, winner, thrown, row, flush, mode, cloud, left>>

\* It fails or is cancelled before its adapter is called.
NotDispatched(e) ==
  /\ At(e, "run") /\ Unwinds(e)
  /\ UNCHANGED <<handle, winner, dispatched, thrown, row, flush, mode, cloud, left>>

\* enqueue: a row is written once, and one that asks for something else is refused.
Entered(e, what) ==
  row' = IF row[e].op = "none"
           THEN [row EXCEPT ![e] = [NoRow EXCEPT !.op = what, !.state = "pending"]]
           ELSE row

\* Ensured by recovery for the execution that was allocated; in vain for a report
\* that is refused.
Enqueue(e) ==
  /\ pc[e] \in {"report", "release"} /\ Entered(e, pc[e]) /\ Goto(e, "done")
  /\ UNCHANGED <<handle, winner, dispatched, thrown, flush, mode, cloud, left>>

\* The request whose allocation was applied and threw, whatever became of it.
GivesBack(e) ==
  /\ thrown[e] = "owes" /\ Entered(e, "release")
  /\ thrown' = [thrown EXCEPT ![e] = "gave"]
  /\ UNCHANGED <<pc, handle, winner, dispatched, flush, mode, cloud, left>>

\* The process dies under a request that has no execution in the store, or that
\* knows of none.
RequestDies(e) ==
  /\ Happens("crash")
  /\ \/ /\ pc[e] \in {"reserve", "allocate", "release"} /\ winner[KeyOf[e]] # e
        /\ Goto(e, "done") /\ UNCHANGED thrown
     \/ thrown[e] = "owes" /\ thrown' = [thrown EXCEPT ![e] = "gave"] /\ UNCHANGED pc
  /\ UNCHANGED <<handle, winner, dispatched, row, flush, mode, cloud>>

Expires(k) ==
  /\ reservation[k] = "reserved" /\ Happens("expiry")
  /\ reservation' = [reservation EXCEPT ![k] = "expired"]
  /\ UNCHANGED <<engine, row, flush, mode, counted>>

-----------------------------------------------------------------------------
(* Flushers.  Rows are listed without a lease: two replicas may take one.  *)

\* Mutant: what has failed is not listed again.
ReadyOnce(deferred) == {e \in Exec : row[e].state = "pending" /\ (deferred \/ row[e].wait = 0)}

Ready(deferred) ==
  {e \in Exec : row[e].state \in {"pending", "failed"} /\ (deferred \/ row[e].wait = 0)}

\* The rows as they were when they were listed; without reports none is sent.
Listed(es) ==
  LET rel == {e \in es : row[e].op = "release"} IN
    [Idle EXCEPT !.pc = IF rel = es THEN "release" ELSE "report",
                 !.batch = [e \in es |-> row[e].attempts], !.todo = rel]

\* flushOnce.  A drain takes deferred rows too; it ends when there are none.
List(f) ==
  /\ flush[f].pc = "idle" /\ mode[f] # "closed"
  /\ LET es == Ready(mode[f] = "drain") IN
       /\ es # {} /\ flush' = [flush EXCEPT ![f] = Listed(es)]
  /\ UNCHANGED <<engine, row, mode, cloud, left>>

Reports(f) == {e \in DOMAIN flush[f].batch : row[e].op = "report"}

Keys(es) == {KeyOf[e] : e \in es}

\* client.report: Cloud takes the batch as a whole, each key once.
Taken(es) ==
  /\ counted' = counted \cup Keys(es)
  /\ reservation' = [k \in Key |-> IF k \in Keys(es) /\ reservation[k] = "reserved"
                                     THEN "committed" ELSE reservation[k]]

Reported(f) ==
  /\ flush[f].pc = "report" /\ Keys(Reports(f)) \cap Rejected = {}
  /\ Taken(Reports(f))
  /\ flush' = [flush EXCEPT ![f].pc = "release", ![f].sent = Reports(f)]
  /\ UNCHANGED <<engine, row, mode, left>>

\* The batch is refused, or is lost, or its answer is.
ReportFails(f) ==
  /\ flush[f].pc = "report"
  /\ \/ Keys(Reports(f)) \cap Rejected # {} /\ UNCHANGED <<cloud, left>>
     \/ Happens("cloud") /\ UNCHANGED cloud
     \/ Happens("cloud") /\ Keys(Reports(f)) \cap Rejected = {} /\ Taken(Reports(f))
  /\ flush' = [flush EXCEPT ![f].pc = "release", ![f].failed = Reports(f)]
  /\ UNCHANGED <<engine, row, mode>>

Outcome(f, e, list) ==
  flush' = [flush EXCEPT ![f].todo = @ \ {e},
                         ![f].sent = IF list = "sent" THEN @ \cup {e} ELSE @,
                         ![f].failed = IF list = "failed" THEN @ \cup {e} ELSE @]

GivenBack(e) ==
  /\ reservation[KeyOf[e]] \in {"reserved", "released", "expired"}
  /\ reservation' = [reservation EXCEPT ![KeyOf[e]] = IF @ = "reserved" THEN "released" ELSE @]

\* client.release accepts a reservation that is given back, or expired.
Released(f, e) ==
  /\ flush[f].pc = "release" /\ e \in flush[f].todo
  /\ GivenBack(e) /\ Outcome(f, e, "sent")
  /\ UNCHANGED <<engine, row, mode, counted, left>>

ReleaseFails(f, e) ==
  /\ flush[f].pc = "release" /\ e \in flush[f].todo
  /\ \/ reservation[KeyOf[e]] \in {"none", "committed"} /\ UNCHANGED <<reservation, left>>
     \/ Happens("cloud") /\ UNCHANGED reservation
     \/ Happens("cloud") /\ GivenBack(e)
  /\ Outcome(f, e, "failed")
  /\ UNCHANGED <<engine, row, mode, counted>>

\* Mutant: the whole batch is marked.
MarkBatch(f) ==
  /\ flush[f].pc = "release" /\ flush[f].todo = {}
  /\ row' = [e \in Exec |-> IF e \in DOMAIN flush[f].batch THEN [row[e] EXCEPT !.state = "sent", !.wait = 0]
                                                  ELSE row[e]]
  /\ flush' = [flush EXCEPT ![f].pc = "fail"]
  /\ UNCHANGED <<engine, mode, cloud, left>>

MarkSent(f) ==
  /\ flush[f].pc = "release" /\ flush[f].todo = {}
  /\ row' = [e \in Exec |-> IF e \in flush[f].sent THEN [row[e] EXCEPT !.state = "sent", !.wait = 0]
                                                  ELSE row[e]]
  /\ flush' = [flush EXCEPT ![f].pc = "fail"]
  /\ UNCHANGED <<engine, mode, cloud, left>>

Grown(n) == IF n < Saturation THEN n + 1 ELSE n

\* The delay follows from the attempts as listed, the attempts from those stored.
Deferred(f, e) ==
  [row[e] EXCEPT !.state = "failed", !.attempts = Grown(@),
                 !.wait = RetryDelay[Grown(flush[f].batch[e])]]

\* markFailed.  A drain goes on while it gets somewhere.
MarkFailed(f) ==
  /\ flush[f].pc = "fail"
  /\ row' = [e \in Exec |-> IF e \in flush[f].failed /\ row[e].state # "sent"
                              THEN Deferred(f, e) ELSE row[e]]
  /\ flush' = [flush EXCEPT ![f] = Idle]
  /\ mode' = [mode EXCEPT ![f] = IF @ = "drain" /\ flush[f].failed # {} THEN "closed" ELSE @]
  /\ UNCHANGED <<engine, cloud, left>>

\* A store call throws and the flush is over.
FlushThrows(f) ==
  /\ flush[f].pc # "idle" /\ Happens("store")
  /\ flush' = [flush EXCEPT ![f] = Idle]
  /\ mode' = [mode EXCEPT ![f] = IF @ = "drain" THEN "closed" ELSE @]
  /\ UNCHANGED <<engine, row, cloud>>

\* stop; a flush under way goes on, and the drain waits for it.
DrainStarts(f) ==
  /\ mode[f] = "run" /\ Happens("drain")
  /\ mode' = [mode EXCEPT ![f] = "drain"]
  /\ UNCHANGED <<engine, row, flush, cloud>>

DrainEnds(f) ==
  /\ mode[f] = "drain" /\ flush[f].pc = "idle" /\ Ready(TRUE) = {}
  /\ mode' = [mode EXCEPT ![f] = "closed"]
  /\ UNCHANGED <<engine, row, flush, cloud, left>>

\* The drain's time is up, or the process is killed.
Dies(f) ==
  /\ \/ mode[f] = "drain" /\ UNCHANGED left
     \/ mode[f] = "run" /\ Happens("crash")
  /\ mode' = [mode EXCEPT ![f] = "closed"] /\ flush' = [flush EXCEPT ![f] = Idle]
  /\ UNCHANGED <<engine, row, cloud>>

Boot(f) ==
  /\ mode[f] = "closed" /\ mode' = [mode EXCEPT ![f] = "run"]
  /\ UNCHANGED <<engine, row, flush, cloud, left>>

Tick ==
  /\ \E e \in Exec : row[e].wait > 0
  /\ row' = [e \in Exec |-> [row[e] EXCEPT !.wait = IF @ > 0 THEN @ - 1 ELSE 0]]
  /\ UNCHANGED <<engine, flush, mode, cloud, left>>

-----------------------------------------------------------------------------
RequestStep(e) ==
  \/ Inspect(e) \/ Reserve(e) \/ Denied(e) \/ ReserveFails(e) \/ Allocate(e)
  \/ Dispatch(e) \/ NotDispatched(e) \/ Enqueue(e) \/ GivesBack(e)

FlushStep(f) ==
  \/ List(f) \/ Reported(f) \/ MarkSent(f) \/ MarkFailed(f) \/ ReportFails(f)
  \/ \E e \in Exec : Released(f, e) \/ ReleaseFails(f, e)

Next ==
  \/ \E e \in Exec : RequestStep(e) \/ AllocateFails(e) \/ RequestDies(e)
  \/ \E k \in Key : Expires(k)
  \/ \E f \in Flusher : FlushStep(f) \/ FlushThrows(f) \/ DrainStarts(f) \/ DrainEnds(f)
                          \/ Dies(f) \/ Boot(f)
  \/ Tick

\* An execution settles (Execution), timers fire, a replica that ended restarts.
Fairness ==
  /\ \A e \in Exec : WF_vars(Enqueue(e))
  /\ \A f \in Flusher : WF_vars(FlushStep(f)) /\ WF_vars(DrainEnds(f)) /\ WF_vars(Boot(f))
  /\ WF_vars(Tick)

Spec == Init /\ [][Next]_vars /\ Fairness

-----------------------------------------------------------------------------
(* What metering promises.                                                 *)

TypeOK ==
  /\ pc \in [Exec -> {"arrived", "reserve", "allocate", "run", "report", "release", "done"}]
  /\ handle \subseteq Exec /\ dispatched \subseteq Exec /\ counted \subseteq Key
  /\ winner \in [Key -> Exec \cup {NoExec}] /\ thrown \in [Exec -> {"no", "owes", "gave"}]
  /\ row \in [Exec -> [op : {"none", "report", "release"},
                       state : {"none", "pending", "failed", "sent"},
                       attempts : 0..Saturation, wait : Nat]]
  /\ \A f \in Flusher :
       /\ flush[f].pc \in {"idle", "report", "release", "fail"}
       /\ DOMAIN flush[f].batch \subseteq Exec
       /\ \A e \in DOMAIN flush[f].batch : flush[f].batch[e] \in 0..Saturation
       /\ flush[f].todo \cup flush[f].sent \cup flush[f].failed \subseteq DOMAIN flush[f].batch
  /\ mode \in [Flusher -> {"run", "drain", "closed"}]
  /\ reservation \in [Key -> {"none", "reserved", "released", "expired", "committed"}]
  /\ left \in 0..MaxHappenings

\* Cloud knows of a row that is sent: its key is counted, or given back.
Settled(e) ==
  CASE row[e].op = "report"  -> KeyOf[e] \in counted
    [] row[e].op = "release" -> reservation[KeyOf[e]] \in {"released", "expired"}
    [] OTHER -> FALSE

\* A row is marked sent only when Cloud has taken it, whichever replica sent it
\* and however the flushes of the other overlap (#flush).
SentIsSettled == \A e \in Exec : row[e].state = "sent" => Settled(e)

\* Cloud counts a key only for an execution whose dispatch is marked: it may have
\* reached its adapter (reportTerminal, release).
CountedWasDispatched == counted \subseteq Keys(dispatched)

\* The reservation of an execution whose dispatch is marked is given back by
\* nobody but a request that lost the race for its key, or its own request, whose
\* allocation was applied and threw (execute).
GivenBackByARacer ==
  \A e \in dispatched : reservation[KeyOf[e]] = "released" =>
    \E o \in Exec : /\ KeyOf[o] = KeyOf[e] /\ row[o].op = "release"
                    /\ o # e \/ thrown[e] = "gave"

Inv == TypeOK /\ SentIsSettled /\ CountedWasDispatched /\ GivenBackByARacer

\* A late failure of another replica's flush does not reopen a row (markFailed).
SentIsFinal ==
  [][\A e \in Exec : row[e].state = "sent" => row'[e].state = "sent"]_vars

\* The request of an execution gave the reservation back before its report was
\* enqueued: its allocation was applied and threw, and recovery dispatched it.
Preempted(e) == thrown[e] = "gave" /\ row[e].op = "release"

\* "Every execution that reaches adapter dispatch is ... reported at least once
\* in batches of up to 50 ... Failed deliveries ... are never silently dropped"
\* (docs-site/self-hosting/executor.mdx:108).  Of those whose release was
\* enqueued first the promise is not kept: the outbox refuses their report.
EveryDispatchCounted ==
  []<>(Keys({e \in dispatched : ~Preempted(e)}) \ Rejected \subseteq counted)
=============================================================================
