------------------------------ MODULE Triggers ------------------------------
(***************************************************************************)
(* One trigger subscription (apps/executor/src/triggers/service.ts over    *)
(* triggers/adapters.ts, triggers/state-store.ts and its Postgres twin):   *)
(* its creation and deletion, the polls of the replicas' schedulers or     *)
(* the provider's callbacks, and the way of a provider event through its   *)
(* dedup claim into the webhook pipeline and the event history.            *)
(*                                                                         *)
(* The claim, the admission, the history entry and the cursor are written  *)
(* by separate calls, and each replica polls for itself.  An event's label *)
(* is its Gmail historyId: a message gets a higher one when it is changed. *)
(* Every message matches the filters and the canonical schema.             *)
(***************************************************************************)
EXTENDS Naturals, Sequences, FiniteSets, FiniteSetsExt

CONSTANTS
  Event,         \* provider events
  Worker,        \* replicas whose scheduler polls, or requests that carry a callback
  DeliveryMode,  \* delivery modes considered, of "polling" and "push"
  Happenings,    \* what may come in between, see Happens
  MaxHappenings  \* bound: how often anything does

ASSUME TriggerAssumption ==
  /\ IsFiniteSet(Event)
  /\ DeliveryMode \subseteq {"polling", "push"}
  /\ Happenings \subseteq {"again", "expiry", "fault", "crash", "delete"}
  /\ MaxHappenings \in Nat

VARIABLES
  mode,      \* the trigger's delivery mode
  sub,       \* the subscription
  row,       \* its polling state: cursor and whether nextPollAt has passed
  claims,    \* events claimed and not expired
  admitted,  \* events in the webhook work store, by their derived identity
  noted,     \* history entries "accepted, admitted" of each event
  label,     \* the provider: the historyId of each event, 0 before it happens
  answered,  \* the provider: callbacks it need not repeat
  run,       \* the polls and callbacks under way
  lost,      \* history: claimed and never enqueued, or overtaken
  left       \* how often something may still happen

state == <<row, claims>>
sink  == <<admitted, noted>>
world == <<label, answered>>
vars  == <<mode, sub, state, sink, world, run, lost, left>>

-----------------------------------------------------------------------------
\* The subscription is listed as active while it is in one of these.
Live == {"made", "active", "undo"}

NoRow == [put |-> FALSE, cursor |-> 0, due |-> TRUE]

Idle == [pc |-> "idle", cursor |-> 0, found |-> {}, queue |-> <<>>, mark |-> 0]

Init ==
  /\ mode \in DeliveryMode
  /\ sub = "none" /\ row = NoRow /\ claims = {}
  /\ admitted = {} /\ noted = [e \in Event |-> 0]
  /\ label = [e \in Event |-> 0] /\ answered = {}
  /\ run = [w \in Worker |-> Idle]
  /\ lost = {} /\ left = MaxHappenings

Happens(kind) == kind \in Happenings /\ left > 0 /\ left' = left - 1

At(w, pc)   == run[w].pc = pc
Goto(w, pc) == run' = [run EXCEPT ![w].pc = pc]
Ends(w)     == run' = [run EXCEPT ![w] = Idle]

Happened == {e \in Event : label[e] > 0}
NextLabel == 1 + Max({label[e] : e \in Event} \cup {0})

-----------------------------------------------------------------------------
(* The provider, and the clock.                                            *)

Arrives(e) ==
  /\ label[e] = 0 /\ label' = [label EXCEPT ![e] = NextLabel]
  /\ UNCHANGED <<mode, sub, state, sink, answered, run, lost, left>>

\* A message is relabelled, or a callback repeated though it was answered.
Again(e) ==
  /\ Happens("again") /\ label[e] > 0
  /\ IF mode = "polling"
       THEN label' = [label EXCEPT ![e] = NextLabel] /\ UNCHANGED answered
       ELSE answered' = answered \ {e} /\ UNCHANGED label
  /\ UNCHANGED <<mode, sub, state, sink, run, lost>>

Due ==
  /\ ~row.due /\ row' = [row EXCEPT !.due = TRUE]
  /\ UNCHANGED <<mode, sub, claims, sink, world, run, lost, left>>

\* The claim's 24 hours are over.
Expires(e) ==
  /\ Happens("expiry") /\ e \in claims /\ claims' = claims \ {e}
  /\ UNCHANGED <<mode, sub, row, sink, world, run, lost>>

-----------------------------------------------------------------------------
(* Creation and deletion: two calls each.                                  *)

Create ==
  /\ sub = "none" /\ sub' = IF mode = "polling" THEN "made" ELSE "active"
  /\ UNCHANGED <<mode, state, sink, world, run, lost, left>>

\* The first state overwrites what a poll may have stored meanwhile.
CreateState ==
  /\ sub = "made"
  /\ \/ sub' = "active" /\ row' = [put |-> TRUE, cursor |-> 0, due |-> FALSE] /\ UNCHANGED left
     \/ Happens("fault") /\ sub' = "undo" /\ UNCHANGED row
     \/ Happens("crash") /\ sub' = "active" /\ UNCHANGED row
  /\ UNCHANGED <<mode, claims, sink, world, run, lost>>

\* The state a poll may have stored stays.
CreateUndone ==
  /\ sub = "undo" /\ sub' = "gone"
  /\ UNCHANGED <<mode, state, sink, world, run, lost, left>>

Delete ==
  /\ Happens("delete") /\ sub = "active" /\ sub' = "deleting"
  /\ UNCHANGED <<mode, state, sink, world, run, lost>>

\* A second request finds no subscription: what this call leaves stays.
DeleteState ==
  /\ sub = "deleting" /\ sub' = "gone"
  /\ \/ row' = NoRow /\ claims' = {} /\ UNCHANGED left
     \/ (Happens("fault") \/ Happens("crash")) /\ UNCHANGED state
  /\ UNCHANGED <<mode, sink, world, run, lost>>

-----------------------------------------------------------------------------
(* A poll, up to the events it emits.                                      *)

\* runDue: listActive.
List(w) ==
  /\ mode = "polling" /\ At(w, "idle") /\ sub \in Live
  /\ Goto(w, "get")
  /\ UNCHANGED <<mode, sub, state, sink, world, lost, left>>

\* Mutant: a subscription without polling state is not due.
StateRead(w) ==
  /\ At(w, "get") /\ UNCHANGED left
  /\ IF row.put /\ row.due
       THEN run' = [run EXCEPT ![w] = [Idle EXCEPT !.pc = "list", !.cursor = row.cursor]]
       ELSE Ends(w)
  /\ UNCHANGED <<mode, sub, state, sink, world, lost>>

\* If this read fails the whole tick ends.
Get(w) ==
  /\ At(w, "get")
  /\ \/ /\ row.due /\ UNCHANGED left
        /\ run' = [run EXCEPT ![w] = [Idle EXCEPT !.pc = "list", !.cursor = row.cursor]]
     \/ ~row.due /\ Ends(w) /\ UNCHANGED left
     \/ Happens("fault") /\ Ends(w)
  /\ UNCHANGED <<mode, sub, state, sink, world, lost>>

\* The adapter lists the mailbox, page by page, ...
Messages(w) ==
  /\ At(w, "list")
  /\ run' = [run EXCEPT ![w].pc = "fetch", ![w].found = Happened]
  /\ UNCHANGED <<mode, sub, state, sink, world, lost, left>>

\* The messages S in the order of their labels.
Sortings(S) ==
  {q \in [1..Cardinality(S) -> S] :
     /\ \A e \in S : \E i \in 1..Cardinality(S) : q[i] = e
     /\ \A i, j \in 1..Cardinality(S) : i < j => label[q[i]] < label[q[j]]}

\* ... and then reads the messages; a label may have changed since.
Fetch(w) ==
  LET r    == run[w]
      fresh == {e \in r.found : label[e] > r.cursor}
  IN  /\ At(w, "fetch")
      /\ \E q \in Sortings(fresh) :
           run' = [run EXCEPT ![w].pc = "emit", ![w].queue = q,
                     ![w].mark = Max({label[e] : e \in r.found} \cup {r.cursor})]
      /\ UNCHANGED <<mode, sub, state, sink, world, lost, left>>

\* The credential or the provider fails.
FetchFails(w) ==
  /\ run[w].pc \in {"list", "fetch"} /\ Happens("fault") /\ Goto(w, "catch")
  /\ UNCHANGED <<mode, sub, state, sink, world, lost>>

\* ingest, up to the events: the provider calls until it is answered.
Callback(w, e) ==
  /\ mode = "push" /\ At(w, "idle") /\ sub \in Live
  /\ e \in Happened \ answered
  /\ run' = [run EXCEPT ![w] = [Idle EXCEPT !.pc = "emit", !.found = {e}, !.queue = <<e>>]]
  /\ UNCHANGED <<mode, sub, state, sink, world, lost, left>>

-----------------------------------------------------------------------------
(* #emit: the claim, the admission, the history entry.                     *)

Passes(w) == run' = [run EXCEPT ![w].pc = "emit", ![w].queue = Tail(@)]

\* A duplicate is entered in the history and passed over.  The claim throws, not
\* applied, or the entry does; a claim that was applied and throws leaves what a
\* claim and an admission that failed leave.
Claim(w) ==
  LET e == Head(run[w].queue)
  IN  /\ At(w, "emit") /\ run[w].queue # <<>>
      /\ \/ e \notin claims /\ claims' = claims \cup {e} /\ Goto(w, "admit") /\ UNCHANGED left
         \/ e \in claims /\ Passes(w) /\ UNCHANGED <<claims, left>>
         \/ Happens("fault") /\ Goto(w, "catch") /\ UNCHANGED claims
      /\ UNCHANGED <<mode, sub, row, sink, world, lost>>

\* Mutant: the store takes a second piece of work under the same identity.
Accepts(e) == TRUE

\* ensureEvent refuses an identity it has: the work was created at another time.
Admissible(e) == e \notin admitted

Admit(w) ==
  LET e == Head(run[w].queue)
  IN  /\ At(w, "admit") /\ Admissible(e)
      /\ admitted' = admitted \cup {e} /\ Goto(w, "note")
      /\ UNCHANGED <<mode, sub, state, noted, world, lost, left>>

\* It throws, whether the work is in the store or not; the claim stays.
AdmitFails(w) ==
  LET e == Head(run[w].queue)
  IN  /\ At(w, "admit") /\ Goto(w, "catch")
      /\ \/ ~Admissible(e) /\ UNCHANGED <<admitted, lost, left>>
         \/ Happens("fault") /\ Admissible(e) /\ admitted' = admitted \cup {e} /\ UNCHANGED lost
         \/ Happens("fault") /\ lost' = lost \cup {e} /\ UNCHANGED admitted
      /\ UNCHANGED <<mode, sub, state, noted, world>>

Note(w) ==
  LET e == Head(run[w].queue)
  IN  /\ At(w, "note")
      /\ \/ noted' = [noted EXCEPT ![e] = @ + 1] /\ Passes(w) /\ UNCHANGED left
         \/ Happens("fault") /\ Goto(w, "catch") /\ UNCHANGED noted
      /\ UNCHANGED <<mode, sub, state, admitted, world, lost>>

-----------------------------------------------------------------------------
(* How a poll and a callback end.                                          *)

Stored(cursor) == [put |-> TRUE, cursor |-> cursor, due |-> FALSE]

\* The new cursor; a message that came after the listing may lie below it.
Put(w) ==
  /\ mode = "polling" /\ At(w, "emit") /\ run[w].queue = <<>>
  /\ \/ /\ row' = Stored(run[w].mark) /\ Ends(w) /\ UNCHANGED left
        /\ lost' = lost \cup {e \in Happened \ run[w].found : label[e] <= run[w].mark}
     \/ Happens("fault") /\ Goto(w, "catch") /\ UNCHANGED <<row, lost>>
  /\ UNCHANGED <<mode, sub, claims, sink, world>>

\* Mutant: a failed poll stores how far it would have come.
Skipped(w) == run[w].mark

\* What a failed poll goes back to.
Retained(w) == run[w].cursor

\* #scheduleNext; if its put fails too the tick ends.
Reschedule(w) ==
  /\ mode = "polling" /\ At(w, "catch") /\ Ends(w)
  /\ \/ row' = Stored(Retained(w)) /\ UNCHANGED left
     \/ Happens("fault") /\ UNCHANGED row
  /\ UNCHANGED <<mode, sub, claims, sink, world, lost>>

\* 202 once every event is dealt with, an error otherwise.
Respond(w) ==
  /\ mode = "push" /\ Ends(w)
  /\ \/ At(w, "emit") /\ run[w].queue = <<>> /\ answered' = answered \cup run[w].found
     \/ At(w, "catch") /\ UNCHANGED answered
  /\ UNCHANGED <<mode, sub, state, sink, label, lost, left>>

\* The process ends; its claim outlives it.
Crash(w) ==
  /\ ~At(w, "idle") /\ Happens("crash") /\ Ends(w)
  /\ lost' = IF At(w, "admit") THEN lost \cup {Head(run[w].queue)} ELSE lost
  /\ UNCHANGED <<mode, sub, state, sink, world>>

-----------------------------------------------------------------------------
PollStep(w) ==
  \/ List(w) \/ Get(w) \/ Messages(w) \/ Fetch(w) \/ FetchFails(w)
  \/ Put(w) \/ Reschedule(w)

EmitStep(w) == Claim(w) \/ Admit(w) \/ AdmitFails(w) \/ Note(w)

Next ==
  \/ Create \/ CreateState \/ CreateUndone \/ Delete \/ DeleteState \/ Due
  \/ \E e \in Event : Arrives(e) \/ Again(e) \/ Expires(e)
  \/ \E w \in Worker :
       \/ PollStep(w) \/ EmitStep(w) \/ Respond(w) \/ Crash(w)
       \/ \E e \in Event : Callback(w, e)

\* The scheduler ticks, its calls return, and time passes.
Fairness ==
  /\ WF_vars(Due)
  /\ \A w \in Worker : WF_vars(PollStep(w)) /\ WF_vars(EmitStep(w))

Spec == Init /\ [][Next]_vars /\ Fairness

-----------------------------------------------------------------------------
TypeOK ==
  /\ mode \in DeliveryMode
  /\ sub \in Live \cup {"none", "deleting", "gone"}
  /\ row \in [put : BOOLEAN, cursor : Nat, due : BOOLEAN]
  /\ claims \in SUBSET Event /\ admitted \in SUBSET Event
  /\ noted \in [Event -> Nat]
  /\ label \in [Event -> Nat] /\ answered \in SUBSET Event
  /\ run \in [Worker -> [pc     : {"idle", "get", "list", "fetch", "emit", "admit",
                                   "note", "catch"},
                         cursor : Nat, found : SUBSET Event, queue : Seq(Event), mark : Nat]]
  /\ lost \in SUBSET Event /\ left \in 0..MaxHappenings

\* The history says of an event that it was admitted at most once, and only if
\* the webhook pipeline has it, whichever polls or callbacks carried it and
\* however often its claim expired.
AdmittedOnce ==
  \A e \in Event : noted[e] <= 1 /\ (noted[e] = 1 => e \in admitted)

Inv == TypeOK /\ AdmittedOnce

\* The provider's way of not bringing an event again: the cursor has passed it,
\* or its callback was answered.
Past(e) ==
  /\ e \in Happened
  /\ IF mode = "polling" THEN row.cursor >= label[e] ELSE e \in answered

\* What is behind the cursor, or was answered, is in the pipeline or on its way
\* there, unless its claim was left by a failed admission, a crash or an answer
\* that was lost, or it was overtaken: concurrent polls, failures and claims never lose one otherwise.
PastIsAccounted ==
  \A e \in Event : Past(e) =>
    \/ e \in admitted \cup lost
    \/ \E w \in Worker : At(w, "admit") /\ Head(run[w].queue) = e

\* A message that comes while the subscription stands is admitted in the end,
\* or was lost in one of those ways: failed polls are made up for.
EveryMessageSettles ==
  mode = "polling" =>
    []<>(sub \in {"made", "active"} => Happened \subseteq admitted \cup lost)
=============================================================================
