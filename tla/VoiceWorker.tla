----------------------------- MODULE VoiceWorker -----------------------------
(***************************************************************************)
(* One session of the voice worker (apps/voice-worker: manager.py over     *)
(* repository.py and SQLite).                                              *)
(*                                                                         *)
(* A chat session is driven by turns that arrive over HTTP, possibly more  *)
(* than once under one key; a media session by a runtime task.  Both call  *)
(* tools of the executor.  The event loop runs one coroutine at a time:    *)
(* between two transactions of a segment without an await, only a crash    *)
(* can come.                                                               *)
(***************************************************************************)
EXTENDS Naturals, Sequences, FiniteSets

CONSTANTS
  Kind,          \* kinds of session: subset of {"chat", "media"}
  Turn, Input,   \* keys of chat turns, inputs of tool calls
  Slot,          \* requests, or tool handlers of the runtime, under way
  NoOne, NoCall, NoTurn,
  MaxCalls,      \* bound: tool calls of one turn, or of a media session
  MaxLog,        \* bound: events of the session
  Happenings,    \* "crash", "outage", "interrupt", "stop", "again"
  MaxHappenings  \* bound: how often anything does

VARIABLES
  kind, state, log,  \* the session and its events
  pending,           \* the tool call waiting for its result
  receipts,          \* turns whose answer is stored
  late,              \* maxDurationSeconds is over
  up,                \* the process: "up", "recovering" or "down"
  running,           \* who is between two transactions of a segment
  slot,              \* what each request is doing
  task,              \* the runtime task of a media session
  left               \* how often something may still happen

\* A tool call: its idempotency key and its input.
Made == [key : (Turn \cup {NoTurn}) \X Nat, input : Input]

ASSUME WorkerAssumption ==
  /\ Kind \subseteq {"chat", "media"} /\ MaxCalls \in Nat /\ MaxLog \in Nat \ 0..3
  /\ Slot \cap {NoOne, "task", "stop"} = {} /\ NoOne \notin {"task", "stop"}
  /\ NoTurn \notin Turn /\ NoCall \notin Made
  /\ Happenings \subseteq {"crash", "outage", "interrupt", "stop", "again"}
  /\ MaxHappenings \in Nat

stored == <<kind, state, log, pending, receipts>>
vars == <<stored, late, up, running, slot, task, left>>

-----------------------------------------------------------------------------
(* The repository.                                                         *)

Terminal == {"completed", "failed", "abandoned"}

Allowed ==
  {<<"none", "created">>,
   <<"created", "connecting">>, <<"created", "in-progress">>,
   <<"created", "failed">>, <<"created", "abandoned">>,
   <<"connecting", "in-progress">>, <<"connecting", "failed">>, <<"connecting", "abandoned">>,
   <<"in-progress", "wrap-up">>, <<"in-progress", "failed">>, <<"in-progress", "abandoned">>,
   <<"wrap-up", "completed">>, <<"wrap-up", "failed">>}

States == {"none", "wrap-up"} \cup Terminal \cup {"created", "connecting", "in-progress"}

Event(k, key, data) == [kind |-> k, key |-> key, data |-> data]

\* Events have a key that is unique in the log.
Find(k, key) == {i \in 1..Len(log) : log[i].kind = k /\ log[i].key = key}

Recorded(k, key, data)   == \E i \in Find(k, key) : log[i].data = data
Conflicting(k, key, data) == \E i \in Find(k, key) : log[i].data # data

\* Mutant: the key is not looked up.
AppendAnyway(k, key, data) == Append(log, Event(k, key, data))

\* What _append_event makes of the log, unless the event conflicts.
With(k, key, data) ==
  IF Find(k, key) = {} THEN Append(log, Event(k, key, data)) ELSE log

\* transition: the state and its event are one transaction.
Moves(to) ==
  /\ <<state, to>> \in Allowed
  /\ state' = to
  /\ log' = Append(log, Event("life", to, "-"))

Idle == [pc |-> "idle", turn |-> NoTurn, calls |-> 0, call |-> NoCall]

Init ==
  /\ kind \in Kind
  /\ state = "none" /\ log = <<>> /\ pending = NoCall /\ receipts = {}
  /\ late = FALSE /\ up = "up" /\ running = NoOne
  /\ slot = [s \in Slot |-> Idle] /\ task = "none"
  /\ left = MaxHappenings

Happens(what) == what \in Happenings /\ left > 0 /\ left' = left - 1

\* A coroutine can take a step: no other one is within a segment.
Awake == up = "up" /\ running = NoOne

-----------------------------------------------------------------------------
(* The session's life.                                                     *)

Start ==
  /\ Awake /\ state = "none" /\ ~late
  /\ Moves("created")
  /\ UNCHANGED <<kind, pending, receipts, late, up, running, slot, task, left>>

Deadline ==
  /\ state # "none" /\ ~late /\ late' = TRUE
  /\ UNCHANGED <<stored, up, running, slot, task, left>>

\* _run_media up to the runtime; a carrier's socket may come long after.
RuntimeConnects ==
  /\ Awake /\ kind = "media" /\ task = "none" /\ state = "created"
  /\ task' = "running" /\ running' = "task"
  /\ Moves("connecting")
  /\ UNCHANGED <<kind, pending, receipts, late, up, slot, left>>

RuntimeStarts ==
  /\ \/ running = "task" /\ state = "connecting"
     \/ Awake /\ task = "none" /\ kind = "media" /\ state = "connecting"
  /\ task' = "running" /\ running' = NoOne
  /\ Moves("in-progress")
  /\ UNCHANGED <<kind, pending, receipts, late, up, slot, left>>

\* mark_connecting: a carrier is dialled.
Dialled ==
  /\ Awake /\ kind = "media" /\ task = "none" /\ state = "created"
  /\ Moves("connecting")
  /\ UNCHANGED <<kind, pending, receipts, late, up, running, slot, task, left>>

\* Mutant: a session that is over fails again.
FailsAgain == state' = "failed" /\ log' = Append(log, Event("life", "failed", "-"))

\* _fail.
Fails == IF state \in Terminal THEN UNCHANGED <<state, log>> ELSE Moves("failed")

\* The runtime does not look at the state of its session.
Says ==
  /\ Awake /\ task = "running"
  /\ Len(log) + 2 * MaxCalls + 4 <= MaxLog
  /\ log' = Append(log, Event("human", <<NoTurn, Len(log)>>, "-"))
  /\ UNCHANGED <<kind, state, pending, receipts, late, up, running, slot, task, left>>

RuntimeEnds ==
  /\ Awake /\ task = "running"
  /\ task' = "done" /\ slot' = [s \in Slot |-> Idle]
  /\ IF state = "in-progress" THEN Moves("wrap-up") /\ running' = "task"
                              ELSE UNCHANGED <<state, log, running>>
  /\ UNCHANGED <<kind, pending, receipts, late, up, left>>

RuntimeTimesOut ==
  /\ Awake /\ task = "running" /\ late
  /\ task' = "done" /\ slot' = [s \in Slot |-> Idle] /\ Fails
  /\ UNCHANGED <<kind, pending, receipts, late, up, running, left>>

\* The runtime raises, or the session is failed beside it: its set-up failed,
\* or a second socket came for it.
MediaFails ==
  /\ Awake /\ kind = "media" /\ state # "none" /\ Happens("outage")
  /\ \/ task = "running" /\ task' = "done" /\ slot' = [s \in Slot |-> Idle]
     \/ UNCHANGED <<task, slot>>
  /\ Fails
  /\ UNCHANGED <<kind, pending, receipts, late, up, running>>

\* stop cancels the runtime, then looks at the state.  Turns go on.
Stop ==
  /\ Awake /\ state \notin Terminal \cup {"none"} /\ Happens("stop")
  /\ IF task = "running" THEN task' = "done" /\ slot' = [s \in Slot |-> Idle]
                         ELSE UNCHANGED <<task, slot>>
  /\ CASE state \in {"created", "connecting"} -> Moves("abandoned") /\ UNCHANGED running
       [] state = "in-progress" -> Moves("wrap-up") /\ running' = "stop"
       [] state = "wrap-up" -> Moves("completed") /\ UNCHANGED running
  /\ UNCHANGED <<kind, pending, receipts, late, up>>

\* The rest of a segment that wraps a session up.
WrappedUp ==
  /\ up = "up" /\ running \in {"task", "stop"} /\ state = "wrap-up"
  /\ running' = NoOne
  /\ Moves("completed")
  /\ UNCHANGED <<kind, pending, receipts, late, up, slot, task, left>>

-----------------------------------------------------------------------------
(* Turns of a chat session.                                                *)

Goto(s, pc) == slot' = [slot EXCEPT ![s].pc = pc]
Leave(s)    == slot' = [slot EXCEPT ![s] = Idle]

\* turn_lock: asyncio.Lock is held from the first step of a turn to its end.
TurnLocked == \E s \in Slot : slot[s].pc \notin {"idle", "wait"}

\* A client sends a turn, or sends it again while or after the first is served.
Arrives(s, t) ==
  /\ Awake /\ kind = "chat" /\ state # "none" /\ slot[s] = Idle
  /\ IF \E o \in Slot : slot[o].turn = t \/ Find("human", t) # {}
       THEN Happens("again") ELSE UNCHANGED left
  /\ slot' = [slot EXCEPT ![s] = [Idle EXCEPT !.pc = "wait", !.turn = t]]
  /\ UNCHANGED <<stored, late, up, running, task>>

\* A stored answer is replayed, a session that is over refuses, and one whose
\* time is up fails.
Refused(s) ==
  /\ Awake /\ slot[s].pc = "wait" /\ ~TurnLocked
  /\ Leave(s)
  /\ \/ slot[s].turn \in receipts /\ UNCHANGED <<state, log>>
     \/ ~late /\ state \notin {"created", "in-progress"} /\ UNCHANGED <<state, log>>
     \/ slot[s].turn \notin receipts /\ late /\ Fails
  /\ UNCHANGED <<kind, pending, receipts, late, up, running, task, left>>

Admitted(s) ==
  /\ Awake /\ slot[s].pc = "wait" /\ ~TurnLocked
  /\ slot[s].turn \notin receipts /\ ~late /\ state \in {"created", "in-progress"}
  /\ Goto(s, "say") /\ running' = s
  /\ IF state = "created" THEN Moves("in-progress") ELSE UNCHANGED <<state, log>>
  /\ UNCHANGED <<kind, pending, receipts, late, up, task, left>>

\* The caller's words, once; an answer that is there already is used again.
Heard(s) ==
  /\ up = "up" /\ running = s /\ slot[s].pc = "say"
  /\ log' = With("human", slot[s].turn, "-")
  /\ IF Find("agent", slot[s].turn) = {}
       THEN Goto(s, "think") /\ running' = NoOne
       ELSE Goto(s, "record") /\ UNCHANGED running
  /\ UNCHANGED <<kind, state, pending, receipts, late, up, task, left>>

\* The model answers, however the session fares meanwhile.
Answers(s) ==
  /\ Awake /\ slot[s].pc = "think"
  /\ log' = With("agent", slot[s].turn, "-")
  /\ Goto(s, "record") /\ running' = s
  /\ UNCHANGED <<kind, state, pending, receipts, late, up, task, left>>

Answered(s) ==
  /\ up = "up" /\ running = s /\ slot[s].pc = "record"
  /\ receipts' = receipts \cup {slot[s].turn}
  /\ Leave(s) /\ running' = NoOne
  /\ UNCHANGED <<kind, state, log, pending, late, up, task, left>>

ModelFails(s) ==
  /\ Awake /\ slot[s].pc = "think" /\ Happens("outage")
  /\ Leave(s)
  /\ UNCHANGED <<stored, late, up, running, task>>

-----------------------------------------------------------------------------
(* Tool calls.                                                             *)

Call(key, i) == [key |-> key, input |-> i]

\* The calls of a turn are numbered from its start in every attempt; those of
\* a media session have names of their own.
CallKey(s) == <<slot[s].turn, slot[s].calls>>

\* Mutant: a new call takes the place of the one that waits.
RefusedOnConflict(call) == Conflicting("call", call.key, call.input)

\* create_tool_call: refused while another call waits, or if the same call
\* was made with another input.
CallRefused(call) ==
  \/ pending # NoCall /\ pending # call
  \/ pending = NoCall /\ Conflicting("call", call.key, call.input)

\* A request at "think", or a new handler of the runtime, calls a tool.
Dispatch(s, call) ==
  IF CallRefused(call)
    THEN Leave(s) /\ UNCHANGED <<log, pending>>
    ELSE /\ slot' = [slot EXCEPT ![s].pc = "call", ![s].call = call]
         /\ pending' = call
         /\ log' = IF pending = NoCall THEN With("call", call.key, call.input) ELSE log

TurnCalls(s, i) ==
  /\ Awake /\ slot[s].pc = "think" /\ slot[s].calls < MaxCalls
  /\ Dispatch(s, Call(CallKey(s), i))
  /\ UNCHANGED <<kind, state, receipts, late, up, running, task, left>>

CallsMade == Cardinality({i \in 1..Len(log) : log[i].kind = "call"})

\* tool_lock: one handler of the runtime at a time is between call and result.
RuntimeCalls(s, i) ==
  /\ Awake /\ task = "running"
  /\ \A o \in Slot : slot[o] = Idle
  /\ CallsMade < MaxCalls
  /\ Dispatch(s, Call(<<NoTurn, CallsMade>>, i))
  /\ UNCHANGED <<kind, state, receipts, late, up, running, task, left>>

\* The executor answers, or cannot be reached, or there is no credential to
\* reach it with: a session's is erased when it ends.
Outcome(result) ==
  IF result = "output" \/ state \in Terminal THEN UNCHANGED left ELSE Happens("outage")

\* complete_tool_call.  It refuses a result other than the recorded one, and
\* then the call stays pending.
ResultRefused(call, result) ==
  \/ pending = NoCall /\ ~Recorded("result", call.key, result)
  \/ pending # NoCall /\ (pending.key # call.key \/ Conflicting("result", call.key, result))

Complete(call, result) ==
  IF ResultRefused(call, result)
    THEN UNCHANGED <<log, pending>>
    ELSE pending' = NoCall /\ log' = With("result", call.key, result)

Returns(s, result) ==
  /\ Awake /\ slot[s].pc = "call"
  /\ Outcome(result)
  /\ Complete(slot[s].call, result)
  /\ IF kind = "media" \/ ResultRefused(slot[s].call, result)
       THEN Leave(s)
       ELSE slot' = [slot EXCEPT ![s].pc = "think", ![s].calls = @ + 1, ![s].call = NoCall]
  /\ UNCHANGED <<kind, state, receipts, late, up, running, task>>

\* The runtime cancels a handler when the caller interrupts the agent.
Interrupted(s) ==
  /\ Awake /\ kind = "media" /\ slot[s].pc = "call" /\ Happens("interrupt")
  /\ Leave(s)
  /\ UNCHANGED <<stored, late, up, running, task>>

-----------------------------------------------------------------------------
(* Restarts.                                                               *)

\* The process is killed, or drains: if a runtime is overdue then, every open
\* session is abandoned.
Crash ==
  /\ up # "down" /\ Happens("crash")
  /\ up' = "down" /\ running' = NoOne /\ slot' = [s \in Slot |-> Idle] /\ task' = "none"
  /\ \/ UNCHANGED <<state, log>>
     \/ Awake /\ Moves("abandoned")
  /\ UNCHANGED <<kind, pending, receipts, late>>

\* Mutant: a restart leaves every session without a pending call as it is.
ResumesAll == UNCHANGED <<state, log>>

\* What recover does with an active session that has no pending call.
Resumes ==
  IF kind = "media" THEN Moves("failed") ELSE UNCHANGED <<state, log>>

Boot ==
  /\ up = "down"
  /\ IF state \in Terminal \cup {"none"} THEN up' = "up" /\ UNCHANGED <<state, log>>
     ELSE IF late THEN up' = "up" /\ Moves("failed")
     ELSE IF pending # NoCall THEN up' = "recovering" /\ UNCHANGED <<state, log>>
     ELSE up' = "up" /\ Resumes
  /\ UNCHANGED <<kind, pending, receipts, late, running, slot, task, left>>

\* The pending call is made again.  A result that is refused ends the process.
Redispatched(result) ==
  /\ up = "recovering" /\ pending # NoCall
  /\ Outcome(result)
  /\ Complete(pending, result)
  /\ up' = IF ResultRefused(pending, result) THEN "down" ELSE up
  /\ UNCHANGED <<kind, state, receipts, late, running, slot, task>>

Recovered ==
  /\ up = "recovering" /\ pending = NoCall
  /\ up' = "up" /\ Resumes
  /\ UNCHANGED <<kind, pending, receipts, late, running, slot, task, left>>

-----------------------------------------------------------------------------
RequestStep(s) ==
  \/ Refused(s) \/ Admitted(s) \/ Heard(s) \/ Answers(s) \/ Answered(s)
  \/ \E result \in {"output", "unavailable"} : Returns(s, result)

Next ==
  \/ Start \/ Deadline \/ RuntimeConnects \/ RuntimeStarts \/ Dialled \/ Says
  \/ RuntimeEnds \/ RuntimeTimesOut \/ MediaFails \/ Stop \/ WrappedUp
  \/ \E s \in Slot :
       \/ RequestStep(s) \/ ModelFails(s) \/ Interrupted(s)
       \/ \E t \in Turn : Arrives(s, t)
       \/ \E i \in Input : TurnCalls(s, i) \/ RuntimeCalls(s, i)
  \/ Crash \/ Boot \/ Recovered
  \/ \E result \in {"output", "unavailable"} : Redispatched(result)

Fairness ==
  /\ WF_vars(Deadline) /\ WF_vars(running = "task" /\ RuntimeStarts) /\ WF_vars(WrappedUp)
  /\ WF_vars(RuntimeTimesOut)
  /\ WF_vars(Boot) /\ WF_vars(Recovered)
  /\ WF_vars(\E result \in {"output", "unavailable"} : Redispatched(result))
  /\ \A s \in Slot : WF_vars(RequestStep(s))

Spec == Init /\ [][Next]_vars /\ Fairness

-----------------------------------------------------------------------------
(* What the worker promises.                                               *)

Calls == Made \cup {NoCall}

TypeOK ==
  /\ kind \in {"chat", "media"} /\ state \in States
  /\ \A i \in 1..Len(log) : log[i].kind \in {"life", "human", "agent", "call", "result"}
  /\ pending \in Calls /\ receipts \subseteq Turn
  /\ late \in BOOLEAN /\ up \in {"up", "recovering", "down"}
  /\ running \in {NoOne, "task", "stop"} \cup Slot
  /\ slot \in [Slot -> [pc : {"idle", "wait", "say", "think", "call", "record"},
                        turn : Turn \cup {NoTurn}, calls : 0..MaxCalls, call : Calls]]
  /\ task \in {"none", "running", "done"}
  /\ left \in 0..MaxHappenings

Lives == {i \in 1..Len(log) : log[i].kind = "life"}

\* The last change of state in the log is the session's state, whatever crash
\* came in the middle of a segment (transition).
LogTellsState ==
  IF state = "none" THEN log = <<>>
  ELSE \E i \in Lives : log[i].key = state /\ \A j \in Lives : j <= i

\* A turn is heard once and answered once, in this order, however often it is
\* sent, and its stored answer is in the log (_chat_turn).
TurnsOnce ==
  \A t \in Turn :
    /\ Cardinality(Find("human", t)) <= 1 /\ Cardinality(Find("agent", t)) <= 1
    /\ \A a \in Find("agent", t) : \E h \in Find("human", t) : h < a
    /\ t \in receipts => Find("agent", t) # {}

\* A call without a result in the log is the pending one, so that a restart
\* finds it; there is never a second (create_tool_call, complete_tool_call).
UnansweredIsPending ==
  \A i \in 1..Len(log) :
    log[i].kind = "call" /\ Find("result", log[i].key) = {} =>
      pending = Call(log[i].key, log[i].data)

Inv == TypeOK /\ LogTellsState /\ TurnsOnce

\* To its readers the session is a log that only grows, with one terminal event.
Readable == INSTANCE SessionLog WITH
  session <- IF state = "none" THEN "absent" ELSE IF state \in Terminal THEN "ended" ELSE "live",
  log <- [i \in 1..Len(log) |->
            IF log[i].kind = "life" /\ log[i].key \in Terminal THEN "end" ELSE "turn"]

ImplementsLog == Readable!LogSpec

\* A conversation over a carrier ends, through crashes and restarts (_run_media).
MediaEnds == kind = "media" /\ state = "in-progress" ~> state \in Terminal
=============================================================================
