------------------------- MODULE VoiceWorkerProofs -------------------------
(* Proofs about VoiceWorker, for any turns, inputs, requests, bounds and   *)
(* faults: the log tells the state of its session, a turn is heard and     *)
(* answered once, no call is left behind unseen, and to its readers the    *)
(* session is a SessionLog.                                                *)
EXTENDS VoiceWorker, FiniteSetTheorems, SequenceTheorems, TLAPS

-----------------------------------------------------------------------------
(* The inductive invariant.                                                *)

\* What an event is made of.
Key   == States \cup Turn \cup ((Turn \cup {NoTurn}) \X Nat)
Data  == Input \cup {"-", "output", "unavailable"}
Entry ==
  {e \in [kind : {"life", "human", "agent", "call", "result"}, key : Key, data : Data] :
     e.kind = "call" => Call(e.key, e.data) \in Made}

Typed == TypeOK /\ log \in Seq(Entry)

\* What a request or a handler has seen of the log.
SlotTold(s) ==
  LET r == slot[s]
  IN  /\ kind = "chat" /\ r.pc # "idle" => r.turn \in Turn
      /\ kind = "chat" /\ r.pc \in {"think", "call"} => Find("human", r.turn) # {}
      /\ kind = "media" => r.pc \in {"idle", "call"}
      /\ r.pc = "record" => Find("agent", r.turn) # {}
      /\ r.pc = "call" => r.call \in Made /\ (kind = "chat" => r.calls < MaxCalls)

Slots == \A s \in Slot : SlotTold(s)

\* Before a session is started nothing is known of it.
Begun ==
  state = "none" => task = "none" /\ pending = NoCall /\ \A s \in Slot : slot[s] = Idle

\* A chat session has no runtime, ...
ChatTold == kind = "chat" => task = "none" /\ running # "task"

\* ... a media session no turns: what is said in it has names of its own.
MediaTold ==
  kind = "media" =>
    /\ receipts = {}
    /\ \A i \in 1..Len(log) :
         /\ log[i].kind # "agent"
         /\ log[i].kind = "human" => log[i].key = <<NoTurn, i - 1>>

\* At most one event of a kind and key.
Once(k, key) == \A i, j \in Find(k, key) : i = j

Turns ==
  \A t \in Turn :
    /\ Once("human", t) /\ Once("agent", t)
    /\ \A a \in Find("agent", t) : \E h \in Find("human", t) : h < a
    /\ t \in receipts => Find("agent", t) # {}

IInv ==
  /\ Typed /\ Begun /\ ChatTold /\ Slots
  /\ LogTellsState /\ MediaTold /\ Turns /\ UnansweredIsPending

-----------------------------------------------------------------------------
(* The log grows.                                                          *)

Grows == log' = log \/ \E e \in Entry : log' = Append(log, e)

\* What is in the log stays there.
LEMMA Growth ==
  ASSUME Typed, Grows
  PROVE  /\ log' \in Seq(Entry) /\ Len(log) \in Nat /\ Len(log') \in Nat
         /\ \A i \in 1..Len(log) : i \in 1..Len(log') /\ log'[i] = log[i]
         /\ \A k, key : Find(k, key) \subseteq Find(k, key)'
<1>1. log \in Seq(Entry)
  BY DEF Typed
<1>2. /\ log' \in Seq(Entry) /\ Len(log) \in Nat /\ Len(log') \in Nat
      /\ \A i \in 1..Len(log) : i \in 1..Len(log') /\ log'[i] = log[i]
  BY <1>1 DEF Grows
<1> QED
  BY <1>2 DEF Find

\* An event at the end of the log, and the others.
LEMMA AtTheEnd ==
  ASSUME Typed, NEW e \in Entry, log' = Append(log, e)
  PROVE  /\ Grows /\ log' \in Seq(Entry) /\ Len(log) \in Nat /\ Len(log') = Len(log) + 1
         /\ \A i \in 1..Len(log) : log'[i] = log[i]
         /\ log'[Len(log) + 1] = e
         /\ \A i \in 1..Len(log') : i \in 1..Len(log) \/ i = Len(log) + 1
         /\ \A k, key : Find(k, key)' = Find(k, key) \cup
                          {i \in {Len(log) + 1} : e.kind = k /\ e.key = key}
<1>1. log \in Seq(Entry)
  BY DEF Typed
<1>2. /\ log' \in Seq(Entry) /\ Len(log) \in Nat /\ Len(log') = Len(log) + 1
      /\ \A i \in 1..Len(log) : log'[i] = log[i]
      /\ log'[Len(log) + 1] = e
  BY <1>1
<1>3. /\ \A i \in 1..Len(log') : i \in 1..Len(log) \/ i = Len(log) + 1
      /\ \A i \in 1..Len(log) : i \in 1..Len(log')
      /\ Len(log) + 1 \in 1..Len(log')
  BY <1>2
<1>4. \A k, key : Find(k, key)' = Find(k, key) \cup
                    {i \in {Len(log) + 1} : e.kind = k /\ e.key = key}
  BY <1>2, <1>3 DEF Find
<1> QED
  BY <1>2, <1>3, <1>4 DEF Grows

\* What a request has seen stays there while it rests.
LEMMA SlotRests ==
  ASSUME IInv, Grows, kind' = kind, NEW s \in Slot, slot'[s] \in {slot[s], Idle}
  PROVE  SlotTold(s)'
<1>1. \A k, key : Find(k, key) \subseteq Find(k, key)'
  BY Growth DEF IInv
<1>2. SlotTold(s)
  BY DEF IInv, Slots
<1>3. CASE slot'[s] = Idle
  BY <1>3 DEF SlotTold, Idle
<1>4. CASE slot'[s] = slot[s]
  BY <1>1, <1>2, <1>4 DEF SlotTold
<1> QED
  BY <1>3, <1>4

-----------------------------------------------------------------------------
(* What the log tells.                                                     *)

\* No step but a transition writes a "life" event, and none before the first.
Spoken(e) == state # "none" /\ e.kind # "life" /\ state' = state /\ log' = Append(log, e)

\* The steps of the log.
LogSteps ==
  \/ UNCHANGED <<state, log>>
  \/ \E to : Moves(to)
  \/ \E e \in Entry : Spoken(e)

\* A transition leads to a state the session was not in.
LEMMA Transitions ==
  ASSUME Typed, NEW to, Moves(to)
  PROVE  /\ to \in States \ {"none"} /\ state \notin Terminal
         /\ state' = to /\ log' = Append(log, Event("life", to, "-"))
         /\ Event("life", to, "-") \in Entry
<1>1. to \in States \ {"none"} /\ state \notin Terminal
  BY DEF Moves, Allowed, States, Terminal
<1> QED
  BY <1>1 DEF Moves, Event, Entry, Key, Data

\* The state, its type and its event.
LEMMA StateTold ==
  ASSUME IInv, LogSteps
  PROVE  /\ Grows /\ log' \in Seq(Entry) /\ state' \in States /\ LogTellsState'
         /\ state' = "none" => state = "none"
         /\ \A i \in 1..Len(log') :
              log'[i].kind \in {"life", "human", "agent", "call", "result"}
<1>t. Typed /\ log \in Seq(Entry) /\ state \in States /\ LogTellsState
  BY DEF IInv, Typed, TypeOK
<1>1. ASSUME UNCHANGED <<state, log>>
      PROVE  /\ Grows /\ log' \in Seq(Entry) /\ state' \in States /\ LogTellsState'
             /\ state' = "none" => state = "none"
  BY <1>t, <1>1 DEF Grows, LogTellsState, Lives
<1>2. ASSUME NEW to, Moves(to)
      PROVE  /\ Grows /\ log' \in Seq(Entry) /\ state' \in States /\ LogTellsState'
             /\ state' = "none" => state = "none"
  <2>1. /\ to \in States \ {"none"} /\ state' = to
        /\ log' = Append(log, Event("life", to, "-")) /\ Event("life", to, "-") \in Entry
    BY <1>t, <1>2, Transitions
  <2>2. PICK e \in Entry : e = Event("life", to, "-") /\ e.kind = "life" /\ e.key = to
    BY <2>1 DEF Event
  <2>3. /\ Grows /\ log' \in Seq(Entry) /\ Len(log) \in Nat /\ Len(log') = Len(log) + 1
        /\ log'[Len(log) + 1] = e
    BY <1>t, <2>1, <2>2, AtTheEnd
  <2>4. Len(log) + 1 \in Lives' /\ \A j \in Lives' : j <= Len(log) + 1
    BY <2>2, <2>3 DEF Lives
  <2> QED
    BY <2>1, <2>2, <2>3, <2>4 DEF LogTellsState
<1>3. ASSUME NEW e \in Entry, Spoken(e)
      PROVE  /\ Grows /\ log' \in Seq(Entry) /\ state' \in States /\ LogTellsState'
             /\ state' = "none" => state = "none"
  <2>1. state # "none" /\ e.kind # "life" /\ state' = state /\ log' = Append(log, e)
    BY <1>3 DEF Spoken
  <2>2. /\ Grows /\ log' \in Seq(Entry) /\ Len(log) \in Nat /\ Len(log') = Len(log) + 1
        /\ log'[Len(log) + 1] = e
        /\ \A i \in 1..Len(log) : i \in 1..Len(log') /\ log'[i] = log[i]
        /\ \A i \in 1..Len(log') : i \in 1..Len(log) \/ i = Len(log) + 1
    BY <1>t, <2>1, AtTheEnd, Growth
  <2>3. Lives' = Lives
    BY <2>1, <2>2 DEF Lives
  <2>4. \A i \in Lives : log'[i] = log[i]
    BY <2>2 DEF Lives
  <2> QED
    BY <1>t, <2>1, <2>2, <2>3, <2>4 DEF LogTellsState
<1>4. /\ Grows /\ log' \in Seq(Entry) /\ state' \in States /\ LogTellsState'
      /\ state' = "none" => state = "none"
  <2>1. CASE UNCHANGED <<state, log>>
    BY <1>1, <1>t, <2>1
  <2>2. CASE \E to : Moves(to)
    BY <1>2, <2>2
  <2>3. CASE \E e \in Entry : Spoken(e)
    BY <1>3, <2>3
  <2> QED
    BY <2>1, <2>2, <2>3 DEF LogSteps
<1>5. \A i \in 1..Len(log') :
        log'[i].kind \in {"life", "human", "agent", "call", "result"}
  <2>1. \A i \in 1..Len(log') : log'[i] \in Entry
    BY <1>4
  <2> QED
    BY <2>1 DEF Entry
<1> QED
  BY <1>4, <1>5

\* An event that is neither words nor a call leaves what else the log tells.
LEMMA OthersTold ==
  ASSUME IInv, UNCHANGED <<kind, receipts>>,
         \/ log' = log
         \/ \E e \in Entry : e.kind \in {"life", "call", "result"} /\ log' = Append(log, e)
  PROVE  MediaTold' /\ Turns'
<1>t. Typed /\ MediaTold /\ Turns
  BY DEF IInv
<1>1. CASE log' = log
  BY <1>t, <1>1 DEF MediaTold, Turns, Once, Find
<1>2. ASSUME NEW e \in Entry, e.kind \in {"life", "call", "result"}, log' = Append(log, e)
      PROVE  MediaTold' /\ Turns'
  <2>1. /\ Len(log) \in Nat /\ Len(log') = Len(log) + 1 /\ log'[Len(log) + 1] = e
        /\ \A i \in 1..Len(log) : log'[i] = log[i]
        /\ \A i \in 1..Len(log') : i \in 1..Len(log) \/ i = Len(log) + 1
        /\ \A k, key : Find(k, key)' = Find(k, key) \cup
                         {i \in {Len(log) + 1} : e.kind = k /\ e.key = key}
    BY <1>t, <1>2, AtTheEnd
  <2>2. \A t \in Turn : Find("human", t)' = Find("human", t) /\ Find("agent", t)' = Find("agent", t)
    BY <1>2, <2>1
  <2>3. Turns'
    BY <1>t, <2>2 DEF Turns, Once
  <2>4. MediaTold'
    BY <1>2, <1>t, <2>1 DEF MediaTold
  <2> QED
    BY <2>3, <2>4
<1> QED
  BY <1>1, <1>2

\* An event that is no call leaves no call behind.
LEMMA CallsTold ==
  ASSUME IInv, pending' = pending,
         \/ log' = log
         \/ \E e \in Entry : e.kind # "call" /\ log' = Append(log, e)
  PROVE  UnansweredIsPending'
<1>t. Typed /\ UnansweredIsPending
  BY DEF IInv
<1>1. CASE log' = log
  BY <1>t, <1>1 DEF UnansweredIsPending, Find
<1>2. ASSUME NEW e \in Entry, e.kind # "call", log' = Append(log, e)
      PROVE  UnansweredIsPending'
  <2>1. /\ Len(log) \in Nat /\ Len(log') = Len(log) + 1 /\ log'[Len(log) + 1] = e
        /\ \A i \in 1..Len(log) : log'[i] = log[i]
        /\ \A i \in 1..Len(log') : i \in 1..Len(log) \/ i = Len(log) + 1
        /\ \A k, key : Find(k, key) \subseteq Find(k, key)'
    BY <1>t, <1>2, AtTheEnd
  <2> SUFFICES ASSUME NEW i \in 1..Len(log'),
                      (log[i].kind = "call" /\ Find("result", log[i].key) = {})'
               PROVE  (pending = Call(log[i].key, log[i].data))'
    BY DEF UnansweredIsPending
  <2>2. i \in 1..Len(log) /\ log'[i] = log[i]
    BY <1>2, <2>1
  <2>3. Find("result", log[i].key) = {}
    <3>1. PICK key : key = log[i].key
      OBVIOUS
    <3>2. Find("result", key)' = {}
      BY <2>2, <3>1 DEF Find
    <3> QED
      BY <2>1, <3>1, <3>2
  <2> QED
    BY <1>t, <2>2, <2>3 DEF UnansweredIsPending, Call
<1> QED
  BY <1>1, <1>2

\* An event is appended under a key that is not in the log.
LEMMA WithGrows ==
  ASSUME Typed, NEW k \in {"human", "agent", "call", "result"}, NEW key \in Key, NEW data \in Data,
         k = "call" => Call(key, data) \in Made,
         log' = With(k, key, data)
  PROVE  \/ log' = log /\ Find(k, key) # {}
         \/ \E e \in Entry : /\ e.kind = k /\ e.key = key /\ e.data = data
                             /\ log' = Append(log, e) /\ Find(k, key) = {}
<1>1. PICK e : e = Event(k, key, data)
  OBVIOUS
<1>2. e \in Entry /\ e.kind = k /\ e.key = key /\ e.data = data
  BY <1>1 DEF Event, Entry
<1> QED
  BY <1>1, <1>2 DEF With

\* A turn is heard, or answered after it was heard.
LEMMA TurnTold ==
  ASSUME IInv, kind = "chat", UNCHANGED <<kind, receipts>>, NEW t \in Turn,
         NEW k \in {"human", "agent"}, k = "agent" => Find("human", t) # {},
         log' = With(k, t, "-")
  PROVE  MediaTold' /\ Turns' /\ Find(k, t)' # {}
<1>t. Typed /\ Turns
  BY DEF IInv
<1>1. MediaTold'
  BY DEF MediaTold
<1>2. CASE log' = log /\ Find(k, t) # {}
  BY <1>t, <1>1, <1>2 DEF Turns, Once, Find
<1>3. ASSUME NEW e \in Entry, e.kind = k, e.key = t, log' = Append(log, e), Find(k, t) = {}
      PROVE  Turns' /\ Find(k, t)' # {}
  <2>1. /\ Len(log) \in Nat
        /\ \A i \in 1..Len(log) : i < Len(log) + 1
        /\ \A f, key : Find(f, key)' = Find(f, key) \cup
                         {i \in {Len(log) + 1} : e.kind = f /\ e.key = key}
    BY <1>t, <1>3, AtTheEnd
  <2>2. Find(k, t)' = {Len(log) + 1}
    BY <1>3, <2>1
  <2>3. \A f \in {"human", "agent"}, u \in Turn :
          Find(f, u)' = Find(f, u) \/ (f = k /\ u = t)
    BY <1>3, <2>1
  <2>4. ASSUME NEW u \in Turn
        PROVE  /\ Once("human", u)' /\ Once("agent", u)'
               /\ \A a \in Find("agent", u)' : \E h \in Find("human", u)' : h < a
               /\ u \in receipts => Find("agent", u)' # {}
    <3>1. /\ Once("human", u) /\ Once("agent", u)
          /\ \A a \in Find("agent", u) : \E h \in Find("human", u) : h < a
          /\ u \in receipts => Find("agent", u) # {}
      BY <1>t DEF Turns
    <3>2. CASE u # t
      <4>1. Find("human", u)' = Find("human", u) /\ Find("agent", u)' = Find("agent", u)
        BY <2>3, <3>2
      <4> QED
        BY <3>1, <4>1 DEF Once
    <3>3. CASE u = t /\ k = "human"
      <4>1. Find("human", u)' = {Len(log) + 1} /\ Find("agent", u)' = Find("agent", u)
        BY <2>2, <2>3, <3>3
      <4>2. Find("agent", u) = {}
        BY <1>3, <3>1, <3>3
      <4> QED
        BY <3>1, <4>1, <4>2 DEF Once
    <3>4. CASE u = t /\ k = "agent"
      <4>1. Find("agent", u)' = {Len(log) + 1} /\ Find("human", u)' = Find("human", u)
        BY <2>2, <2>3, <3>4
      <4>2. \E h \in Find("human", u) : h < Len(log) + 1
        BY <2>1, <3>4 DEF Find
      <4> QED
        BY <3>1, <4>1, <4>2 DEF Once
    <3> QED
      BY <3>2, <3>3, <3>4
  <2> QED
    BY <2>2, <2>4 DEF Turns
<1>4. \/ log' = log /\ Find(k, t) # {}
      \/ \E e \in Entry : /\ e.kind = k /\ e.key = t
                          /\ log' = Append(log, e) /\ Find(k, t) = {}
  <2>1. t \in Key /\ "-" \in Data /\ k \in {"human", "agent", "call", "result"} /\ k # "call"
    BY DEF Key, Data
  <2> QED
    BY <1>t, <2>1, WithGrows
<1> QED
  BY <1>1, <1>2, <1>3, <1>4

\* Words of a media session.
LEMMA SaysTold ==
  ASSUME IInv, kind = "media", UNCHANGED <<kind, receipts>>, NEW e \in Entry,
         e.kind = "human", e.key = <<NoTurn, Len(log)>>, log' = Append(log, e)
  PROVE  MediaTold' /\ Turns'
<1>t. Typed /\ MediaTold
  BY DEF IInv
<1>1. /\ Len(log) \in Nat /\ Len(log') = Len(log) + 1 /\ log'[Len(log) + 1] = e
      /\ \A i \in 1..Len(log) : log'[i] = log[i]
      /\ \A i \in 1..Len(log') : i \in 1..Len(log) \/ i = Len(log) + 1
  BY <1>t, AtTheEnd
<1>2. MediaTold'
  BY <1>t, <1>1 DEF MediaTold
<1>3. /\ receipts' = {}
      /\ \A i \in 1..Len(log') :
           log'[i].kind # "agent" /\ (log'[i].kind = "human" => log'[i].key = <<NoTurn, i - 1>>)
  BY <1>2 DEF MediaTold
<1>4. ASSUME NEW t \in Turn
      PROVE  Once("human", t)' /\ Find("agent", t)' = {}
  <2>1. \A i \in Find("human", t)' :
          i \in 1..Len(log') /\ log'[i].kind = "human" /\ log'[i].key = t
    BY DEF Find
  <2>2. \A i \in Find("human", t)' : i \in Nat /\ t = <<NoTurn, i - 1>>
    <3> SUFFICES ASSUME NEW i \in Find("human", t)' PROVE i \in Nat /\ t = <<NoTurn, i - 1>>
      OBVIOUS
    <3>1. i \in 1..Len(log') /\ log'[i].kind = "human" /\ log'[i].key = t
      BY <2>1
    <3>2. log'[i].key = <<NoTurn, i - 1>>
      BY <1>3, <3>1
    <3>3. i \in Nat
      BY <1>1, <3>1
    <3> QED
      BY <3>1, <3>2, <3>3
  <2>3. \A i, j \in Find("human", t)' : i = j
    BY <2>2
  <2> QED
    BY <1>3, <2>3 DEF Once, Find
<1>5. Turns'
  BY <1>3, <1>4 DEF Turns, Once
<1> QED
  BY <1>2, <1>5

\* A call enters the log only when none is waiting, and then it waits.
LEMMA DispatchTold ==
  ASSUME IInv, state # "none", UNCHANGED <<kind, state, receipts>>,
         NEW call \in Made, ~CallRefused(call), pending' = call,
         log' = IF pending = NoCall THEN With("call", call.key, call.input) ELSE log
  PROVE  LogSteps /\ MediaTold' /\ Turns' /\ UnansweredIsPending'
<1>t. Typed /\ UnansweredIsPending /\ NoCall \notin Made
  BY WorkerAssumption DEF IInv
<1>1. call.key \in Key /\ call.input \in Data /\ call = Call(call.key, call.input)
  BY DEF Made, Key, Data, Call
<1>2. CASE pending # NoCall
  <2>1. pending = call /\ log' = log
    BY <1>2 DEF CallRefused
  <2> QED
    BY <2>1, OthersTold, CallsTold DEF LogSteps
<1>3. CASE pending = NoCall
  <2>1. ~Conflicting("call", call.key, call.input) /\ log' = With("call", call.key, call.input)
    BY <1>3 DEF CallRefused
  <2>2. \A i \in 1..Len(log) : log[i] \in Entry
    BY <1>t DEF Typed
  <2>3. \A i \in 1..Len(log) : log[i].kind = "call" => Find("result", log[i].key) # {}
    BY <1>t, <1>3, <2>2 DEF UnansweredIsPending, Entry
  <2>4. \/ log' = log
        \/ \E e \in Entry : /\ e.kind = "call" /\ e.key = call.key /\ e.data = call.input
                            /\ log' = Append(log, e)
    BY <1>t, <1>1, <2>1, WithGrows
  <2>5. CASE log' = log
    <3>1. UnansweredIsPending'
      BY <2>3, <2>5 DEF UnansweredIsPending, Find
    <3> QED
      BY <2>5, <3>1, OthersTold DEF LogSteps
  <2>6. ASSUME NEW e \in Entry, e.kind = "call", e.key = call.key, e.data = call.input,
               log' = Append(log, e)
        PROVE  LogSteps /\ MediaTold' /\ Turns' /\ UnansweredIsPending'
    <3>1. /\ Len(log) \in Nat /\ log'[Len(log) + 1] = e
          /\ \A i \in 1..Len(log) : log'[i] = log[i]
          /\ \A i \in 1..Len(log') : i \in 1..Len(log) \/ i = Len(log) + 1
          /\ \A key : Find("result", key) \subseteq Find("result", key)'
      BY <1>t, <2>6, AtTheEnd
    <3>2. ASSUME NEW i \in 1..Len(log'), NEW f, f = log'[i], f.kind = "call",
                 Find("result", f.key)' = {}
          PROVE  pending' = Call(f.key, f.data)
      <4>1. CASE i \in 1..Len(log)
        BY <2>3, <3>1, <3>2, <4>1
      <4>2. CASE i = Len(log) + 1
        BY <1>1, <2>6, <3>1, <3>2, <4>2
      <4> QED
        BY <3>1, <4>1, <4>2
    <3>3. UnansweredIsPending'
      BY <3>2 DEF UnansweredIsPending
    <3>4. LogSteps
      BY <2>6 DEF LogSteps, Spoken
    <3> QED
      BY <2>6, <3>3, <3>4, OthersTold
  <2> QED
    BY <2>4, <2>5, <2>6
<1> QED
  BY <1>2, <1>3

\* A result takes the call it answers out of those that wait.
LEMMA CompleteTold ==
  ASSUME IInv, state # "none", UNCHANGED <<kind, state, receipts>>,
         NEW call \in Made, NEW result \in {"output", "unavailable"}, Complete(call, result)
  PROVE  /\ LogSteps /\ MediaTold' /\ Turns' /\ UnansweredIsPending'
         /\ pending' \in {pending, NoCall}
<1>t. Typed /\ UnansweredIsPending /\ NoCall \notin Made
  BY WorkerAssumption DEF IInv
<1>1. CASE ResultRefused(call, result)
  <2>1. UNCHANGED <<log, pending>>
    BY <1>1 DEF Complete
  <2> QED
    BY <2>1, OthersTold, CallsTold DEF LogSteps
<1>2. CASE ~ResultRefused(call, result)
  <2>1. pending' = NoCall /\ log' = With("result", call.key, result)
    BY <1>2 DEF Complete
  <2>2. call.key \in Key /\ result \in Data
    BY DEF Made, Key, Data
  <2>3. \/ log' = log /\ Find("result", call.key) # {}
        \/ \E e \in Entry : /\ e.kind = "result" /\ e.key = call.key /\ log' = Append(log, e)
    BY <1>t, <2>1, <2>2, WithGrows
  <2>4. pending # NoCall => pending.key = call.key
    BY <1>2 DEF ResultRefused
  <2>5. \A i \in 1..Len(log) : log[i] \in Entry
    BY <1>t DEF Typed
  <2>6. ASSUME NEW i \in 1..Len(log), log[i].kind = "call", Find("result", log[i].key) = {}
        PROVE  log[i].key = call.key
    <3>1. pending = Call(log[i].key, log[i].data) /\ pending \in Made
      BY <1>t, <2>5, <2>6 DEF UnansweredIsPending, Entry
    <3> QED
      BY <1>t, <2>4, <3>1 DEF Call
  <2>7. CASE log' = log /\ Find("result", call.key) # {}
    <3>1. UnansweredIsPending'
      BY <2>6, <2>7 DEF UnansweredIsPending, Find
    <3> QED
      BY <2>1, <2>7, <3>1, OthersTold DEF LogSteps
  <2>8. ASSUME NEW e \in Entry, e.kind = "result", e.key = call.key, log' = Append(log, e)
        PROVE  LogSteps /\ MediaTold' /\ Turns' /\ UnansweredIsPending'
    <3>1. /\ Len(log) \in Nat /\ log'[Len(log) + 1] = e
          /\ \A i \in 1..Len(log) : log'[i] = log[i]
          /\ \A i \in 1..Len(log') : i \in 1..Len(log) \/ i = Len(log) + 1
          /\ \A key : Find("result", key)' = Find("result", key) \cup
                         {i \in {Len(log) + 1} : e.key = key}
      BY <1>t, <2>8, AtTheEnd
    <3>2. ASSUME NEW i \in 1..Len(log'), NEW f, f = log'[i], f.kind = "call",
                 Find("result", f.key)' = {}
          PROVE  FALSE
      <4>1. i \in 1..Len(log) /\ f = log[i]
        BY <2>8, <3>1, <3>2
      <4>2. Find("result", f.key) = {} /\ f.key # call.key
        BY <2>8, <3>1, <3>2
      <4> QED
        BY <2>6, <3>2, <4>1, <4>2
    <3>3. UnansweredIsPending'
      BY <3>2 DEF UnansweredIsPending
    <3>4. LogSteps
      BY <2>8 DEF LogSteps, Spoken
    <3> QED
      BY <2>8, <3>3, <3>4, OthersTold
  <2> QED
    BY <2>1, <2>3, <2>7, <2>8
<1> QED
  BY <1>1, <1>2

-----------------------------------------------------------------------------
(* Every step keeps the invariant and is a step of the log.                *)

Request == [pc : {"idle", "wait", "say", "think", "call", "record"},
            turn : Turn \cup {NoTurn}, calls : 0..MaxCalls, call : Calls]

\* The process and its budgets have their types.
Scheduled ==
  /\ late \in BOOLEAN /\ up \in {"up", "recovering", "down"}
  /\ running \in {NoOne, "task", "stop"} \cup Slot
  /\ task \in {"none", "running", "done"} /\ left \in 0..MaxHappenings

\* What a step must show once its event is told.
LEMMA Settles ==
  ASSUME IInv, LogSteps, kind' = kind, pending' \in Calls, receipts' \subseteq Turn,
         slot' \in [Slot -> Request], Slots', MediaTold', Turns', UnansweredIsPending',
         Scheduled', ChatTold', Begun'
  PROVE  IInv' /\ LogSteps
<1>1. /\ log' \in Seq(Entry) /\ state' \in States /\ LogTellsState'
      /\ \A i \in 1..Len(log') :
           log'[i].kind \in {"life", "human", "agent", "call", "result"}
  BY StateTold
<1>2. kind' \in {"chat", "media"}
  BY DEF IInv, Typed, TypeOK
<1>3. TypeOK'
  BY <1>1, <1>2 DEF TypeOK, Request, Scheduled
<1> QED
  BY <1>1, <1>3 DEF IInv, Typed

\* A step that at most moves the session and lets requests go.
Quiet ==
  /\ UNCHANGED <<kind, pending, receipts>>
  /\ UNCHANGED <<state, log>> \/ \E to : Moves(to)
  /\ \/ slot' = slot
     \/ slot' = [s \in Slot |-> Idle]
     \/ \E s \in Slot : Leave(s)

\* Requests that rest or are let go keep what is known of them.
LEMMA SlotsRest ==
  ASSUME IInv, Grows, kind' = kind,
         \/ slot' = slot
         \/ slot' = [s \in Slot |-> Idle]
         \/ \E s \in Slot : Leave(s)
  PROVE  /\ slot' \in [Slot -> Request] /\ Slots'
         /\ \A s \in Slot : slot'[s] \in {slot[s], Idle}
<1>1. slot \in [Slot -> Request]
  BY DEF IInv, Typed, TypeOK, Request
<1>2. Idle \in Request
  BY WorkerAssumption DEF Idle, Request, Calls
<1>3. slot' \in [Slot -> Request] /\ \A s \in Slot : slot'[s] \in {slot[s], Idle}
  <2>1. CASE slot' = slot
    BY <1>1, <2>1
  <2>2. CASE slot' = [s \in Slot |-> Idle]
    BY <1>2, <2>2
  <2>3. ASSUME NEW s \in Slot, slot' = [slot EXCEPT ![s] = Idle]
        PROVE  slot' \in [Slot -> Request] /\ \A o \in Slot : slot'[o] \in {slot[o], Idle}
    BY <1>1, <1>2, <2>3
  <2> QED
    BY <2>1, <2>2, <2>3 DEF Leave
<1>4. Slots'
  BY <1>3, SlotRests DEF Slots
<1> QED
  BY <1>3, <1>4

\* One request goes on.
LEMMA SlotGoes ==
  ASSUME IInv, Grows, kind' = kind, NEW s \in Slot, NEW r \in Request,
         slot' = [slot EXCEPT ![s] = r], SlotTold(s)'
  PROVE  slot' \in [Slot -> Request] /\ Slots'
<1>1. slot \in [Slot -> Request]
  BY DEF IInv, Typed, TypeOK, Request
<1>2. slot' \in [Slot -> Request] /\ \A o \in Slot : o # s => slot'[o] = slot[o]
  BY <1>1
<1>3. \A o \in Slot : o # s => SlotTold(o)'
  BY <1>2, SlotRests
<1> QED
  BY <1>2, <1>3 DEF Slots

\* A quiet step keeps the invariant.
LEMMA QuietStep ==
  ASSUME IInv, Quiet, Scheduled', ChatTold', task' \in {task, "none"} \/ state # "none"
  PROVE  IInv' /\ LogSteps
<1>t. /\ Typed /\ Begun
      /\ pending \in Calls /\ receipts \subseteq Turn
  BY DEF IInv, Typed, TypeOK
<1>1. LogSteps
  BY DEF Quiet, LogSteps
<1>2. Grows /\ (state' = "none" => state = "none")
  BY <1>1, StateTold
<1>3. /\ slot' \in [Slot -> Request] /\ Slots'
      /\ \A s \in Slot : slot'[s] \in {slot[s], Idle}
  BY <1>2, SlotsRest DEF Quiet
<1>4. Begun'
  BY <1>t, <1>2, <1>3 DEF Begun, Quiet
<1>5. log' = log \/ \E e \in Entry : e.kind = "life" /\ log' = Append(log, e)
  <2>1. ASSUME NEW to, Moves(to)
        PROVE  \E e \in Entry : e.kind = "life" /\ log' = Append(log, e)
    <3>1. Event("life", to, "-") \in Entry /\ log' = Append(log, Event("life", to, "-"))
      BY <1>t, <2>1, Transitions
    <3> QED
      BY <3>1 DEF Event
  <2> QED
    BY <2>1 DEF Quiet
<1>6. MediaTold' /\ Turns'
  BY <1>5, OthersTold DEF Quiet
<1>7. UnansweredIsPending'
  BY <1>5, CallsTold DEF Quiet
<1> QED
  BY <1>t, <1>1, <1>3, <1>4, <1>6, <1>7, Settles DEF Quiet

\* What the invariant says of the process and its requests.
LEMMA Known ==
  ASSUME IInv
  PROVE  /\ Typed /\ Scheduled /\ ChatTold /\ kind \in {"chat", "media"} /\ state \in States
         /\ pending \in Calls /\ receipts \subseteq Turn /\ slot \in [Slot -> Request]
         /\ running = "task" \/ task # "none" => kind = "media"
         /\ task # "none" => state # "none"
         /\ \A s \in Slot : slot[s].pc # "idle" => state # "none"
         /\ \A s \in Slot : SlotTold(s)
         /\ NoOne \notin Slot /\ "task" \notin Slot /\ "stop" \notin Slot
         /\ MaxHappenings \in Nat /\ MaxCalls \in Nat /\ NoCall \notin Made
<1>1. /\ Typed /\ Scheduled /\ ChatTold /\ kind \in {"chat", "media"} /\ state \in States
      /\ pending \in Calls /\ receipts \subseteq Turn /\ slot \in [Slot -> Request]
      /\ \A s \in Slot : SlotTold(s)
  BY DEF IInv, Typed, TypeOK, Scheduled, Request, Slots
<1>2. /\ running = "task" \/ task # "none" => kind = "media"
      /\ task # "none" => state # "none"
      /\ \A s \in Slot : slot[s].pc # "idle" => state # "none"
  BY <1>1 DEF IInv, ChatTold, Begun, Idle
<1> QED
  BY <1>1, <1>2, WorkerAssumption

\* Something happens.
LEMMA Happened ==
  ASSUME IInv, NEW what, Happens(what)
  PROVE  left' \in 0..MaxHappenings
BY Known DEF Happens, Scheduled

\* The session's life.
LEMMA LifeSteps ==
  ASSUME IInv,
         \/ Start \/ Deadline \/ RuntimeConnects \/ RuntimeStarts \/ Dialled
         \/ RuntimeEnds \/ RuntimeTimesOut \/ MediaFails \/ Stop \/ WrappedUp
  PROVE  IInv' /\ LogSteps
<1> USE Known
<1>1. CASE Start
  BY <1>1, QuietStep DEF Start, Quiet, Scheduled, ChatTold
<1>2. CASE Deadline
  BY <1>2, QuietStep DEF Deadline, stored, Quiet, Scheduled, ChatTold
<1>3. CASE RuntimeConnects
  BY <1>3, QuietStep DEF RuntimeConnects, Quiet, Scheduled, ChatTold
<1>4. CASE RuntimeStarts
  BY <1>4, QuietStep DEF RuntimeStarts, Quiet, Scheduled, ChatTold
<1>5. CASE Dialled
  BY <1>5, QuietStep DEF Dialled, Quiet, Scheduled, ChatTold
<1>6. CASE RuntimeEnds
  <2>1. Quiet
    BY <1>6 DEF RuntimeEnds, Quiet
  <2>2. Scheduled' /\ ChatTold' /\ state # "none"
    BY <1>6 DEF RuntimeEnds, Scheduled, ChatTold
  <2> QED
    BY <2>1, <2>2, QuietStep
<1>7. CASE RuntimeTimesOut
  <2>1. Quiet
    BY <1>7 DEF RuntimeTimesOut, Fails, Quiet
  <2>2. Scheduled' /\ ChatTold' /\ state # "none"
    BY <1>7 DEF RuntimeTimesOut, Scheduled, ChatTold
  <2> QED
    BY <2>1, <2>2, QuietStep
<1>8. CASE MediaFails
  <2>1. Quiet
    BY <1>8 DEF MediaFails, Fails, Quiet
  <2>2. left' \in 0..MaxHappenings
    BY <1>8, Happened DEF MediaFails
  <2>3. Scheduled' /\ ChatTold' /\ state # "none"
    BY <1>8, <2>2 DEF MediaFails, Scheduled, ChatTold
  <2> QED
    BY <2>1, <2>3, QuietStep
<1>9. CASE Stop
  <2>1. /\ state \in {"created", "connecting", "in-progress", "wrap-up"}
        /\ \/ \E to : Moves(to) /\ UNCHANGED running
           \/ \E to : Moves(to) /\ running' = "stop"
    BY <1>9 DEF Stop, States
  <2>2. Quiet
    BY <1>9, <2>1 DEF Stop, Quiet
  <2>3. left' \in 0..MaxHappenings
    BY <1>9, Happened DEF Stop
  <2>4. Scheduled' /\ ChatTold' /\ state # "none"
    BY <1>9, <2>1, <2>3 DEF Stop, Scheduled, ChatTold
  <2> QED
    BY <2>2, <2>4, QuietStep
<1>10. CASE WrappedUp
  <2>1. NoOne # "task"
    BY WorkerAssumption
  <2> QED
    BY <1>10, <2>1, QuietStep DEF WrappedUp, Quiet, Scheduled, ChatTold
<1> QED
  BY <1>1, <1>2, <1>3, <1>4, <1>5, <1>6, <1>7, <1>8, <1>9, <1>10

\* A request is let go, and restarts.
LEMMA LettingGo ==
  ASSUME IInv,
         \/ \E s \in Slot : Refused(s) \/ ModelFails(s) \/ Interrupted(s)
         \/ Crash \/ Boot \/ Recovered
  PROVE  IInv' /\ LogSteps
<1> USE Known
<1>1. ASSUME NEW s \in Slot, Refused(s)
      PROVE  IInv' /\ LogSteps
  <2>1. Quiet
    BY <1>1 DEF Refused, Fails, Quiet
  <2> QED
    BY <1>1, <2>1, QuietStep DEF Refused, Scheduled, ChatTold
<1>2. ASSUME NEW s \in Slot, ModelFails(s) \/ Interrupted(s)
      PROVE  IInv' /\ LogSteps
  <2>1. Quiet
    BY <1>2 DEF ModelFails, Interrupted, stored, Quiet
  <2>2. left' \in 0..MaxHappenings
    BY <1>2, Happened DEF ModelFails, Interrupted
  <2>3. UNCHANGED <<kind, late, up, running, task>>
    BY <1>2 DEF ModelFails, Interrupted, stored
  <2> QED
    BY <2>1, <2>2, <2>3, QuietStep DEF Scheduled, ChatTold
<1>3. CASE Crash
  <2>1. Quiet
    BY <1>3 DEF Crash, Quiet
  <2>2. left' \in 0..MaxHappenings
    BY <1>3, Happened DEF Crash
  <2>3. UNCHANGED <<kind, late>> /\ up' = "down" /\ running' = NoOne /\ task' = "none"
    BY <1>3 DEF Crash
  <2>4. NoOne # "task"
    BY WorkerAssumption
  <2> QED
    BY <2>1, <2>2, <2>3, <2>4, QuietStep DEF Scheduled, ChatTold
<1>4. CASE Boot
  <2>1. Quiet
    BY <1>4 DEF Boot, Resumes, Quiet
  <2>2. UNCHANGED <<kind, late, running, task, left>> /\ up' \in {"up", "recovering"}
    BY <1>4 DEF Boot
  <2> QED
    BY <2>1, <2>2, QuietStep DEF Scheduled, ChatTold
<1>5. CASE Recovered
  <2>1. Quiet
    BY <1>5 DEF Recovered, Resumes, Quiet
  <2>2. UNCHANGED <<kind, late, running, task, left>> /\ up' = "up"
    BY <1>5 DEF Recovered
  <2> QED
    BY <2>1, <2>2, QuietStep DEF Scheduled, ChatTold
<1> QED
  BY <1>1, <1>2, <1>3, <1>4, <1>5

\* An event of a request, and what follows from its being told.
LEMMA TellSteps ==
  ASSUME IInv, LogSteps, UNCHANGED <<kind, late, up, task>>, state # "none", state' = state,
         pending' \in Calls, receipts' \subseteq Turn, MediaTold', Turns', UnansweredIsPending',
         slot' \in [Slot -> Request], Slots', running' \in {running, NoOne} \cup Slot,
         left' \in 0..MaxHappenings
  PROVE  IInv' /\ LogSteps
<1> USE Known
<1>1. NoOne # "task"
  BY WorkerAssumption
<1>2. Scheduled' /\ ChatTold' /\ Begun'
  BY <1>1 DEF Scheduled, ChatTold, Begun
<1> QED
  BY <1>2, Settles

\* The runtime hears the caller.
LEMMA SaysStep ==
  ASSUME IInv, Says
  PROVE  IInv' /\ LogSteps
<1> USE Known
<1>1. /\ task = "running" /\ kind = "media" /\ state # "none"
      /\ UNCHANGED <<kind, state, pending, receipts, late, up, running, slot, task, left>>
  BY DEF Says
<1>2. PICK e : e = Event("human", <<NoTurn, Len(log)>>, "-")
  OBVIOUS
<1>3. /\ e.kind = "human" /\ e.key = <<NoTurn, Len(log)>> /\ e.data = "-"
      /\ log' = Append(log, e)
  BY <1>2 DEF Says, Event
<1>4. Len(log) \in Nat
  BY DEF Typed
<1>5. e \in Entry
  BY <1>2, <1>4 DEF Event, Entry, Key, Data
<1>6. LogSteps
  BY <1>1, <1>3, <1>5 DEF LogSteps, Spoken
<1>7. MediaTold' /\ Turns'
  BY <1>1, <1>3, <1>5, SaysTold
<1>8. UnansweredIsPending'
  BY <1>1, <1>3, <1>5, CallsTold
<1>9. slot' \in [Slot -> Request] /\ Slots'
  BY <1>1, <1>6, StateTold, SlotsRest
<1> QED
  BY <1>1, <1>6, <1>7, <1>8, <1>9, TellSteps DEF Scheduled

\* A turn arrives, and is let in.
LEMMA ComesIn ==
  ASSUME IInv, NEW s \in Slot,
         \/ \E t \in Turn : Arrives(s, t)
         \/ Admitted(s)
  PROVE  IInv' /\ LogSteps
<1> USE Known
<1>s. kind = "chat" \/ SlotTold(s)
  OBVIOUS
<1>1. ASSUME NEW t \in Turn, Arrives(s, t)
      PROVE  IInv' /\ LogSteps
  <2>1. /\ kind = "chat" /\ state # "none"
        /\ UNCHANGED <<kind, state, log, pending, receipts, late, up, running, task>>
    BY <1>1 DEF Arrives, stored
  <2>2. left' \in 0..MaxHappenings
    BY <1>1, Happened DEF Arrives, Scheduled
  <2>3. PICK r : r = [Idle EXCEPT !.pc = "wait", !.turn = t]
    OBVIOUS
  <2>4. /\ r \in Request /\ r.pc = "wait" /\ r.turn = t
        /\ slot' = [slot EXCEPT ![s] = r]
    BY <1>1, <2>3 DEF Arrives, Idle, Request, Calls
  <2>5. LogSteps
    BY <2>1 DEF LogSteps
  <2>6. slot'[s] = r
    BY <2>4
  <2>7. SlotTold(s)'
    BY <2>1, <2>4, <2>6 DEF SlotTold
  <2>8. slot' \in [Slot -> Request] /\ Slots'
    BY <2>1, <2>4, <2>5, <2>7, StateTold, SlotGoes
  <2>9. MediaTold' /\ Turns' /\ UnansweredIsPending'
    BY <2>1, OthersTold, CallsTold
  <2> QED
    BY <2>1, <2>2, <2>5, <2>8, <2>9, TellSteps
<1>2. CASE Admitted(s)
  <2>1. /\ slot[s].pc = "wait" /\ kind = "chat" /\ state # "none" /\ running' = s
        /\ UNCHANGED <<kind, pending, receipts, late, up, task, left>>
    BY <1>2 DEF Admitted, SlotTold
  <2>2. UNCHANGED <<state, log>> \/ Moves("in-progress")
    BY <1>2 DEF Admitted
  <2>3. LogSteps
    BY <2>2 DEF LogSteps
  <2>4. PICK r : r = [slot[s] EXCEPT !.pc = "say"]
    OBVIOUS
  <2>5. /\ r \in Request /\ r.pc = "say" /\ r.turn = slot[s].turn
        /\ slot' = [slot EXCEPT ![s] = r]
    BY <1>2, <2>4 DEF Admitted, Goto, Request
  <2>6. slot'[s] = r
    BY <2>5
  <2>7. SlotTold(s)'
    BY <2>1, <2>5, <2>6 DEF SlotTold
  <2>8. slot' \in [Slot -> Request] /\ Slots'
    BY <2>1, <2>3, <2>5, <2>7, StateTold, SlotGoes
  <2>9. log' = log \/ \E e \in Entry : e.kind = "life" /\ log' = Append(log, e)
    <3>1. ASSUME Moves("in-progress")
          PROVE  \E e \in Entry : e.kind = "life" /\ log' = Append(log, e)
      BY <3>1, Transitions DEF Event
    <3> QED
      BY <2>2, <3>1
  <2>10. MediaTold' /\ Turns' /\ UnansweredIsPending'
    BY <2>1, <2>9, OthersTold, CallsTold
  <2>11. Scheduled' /\ ChatTold' /\ Begun'
    <3>1. state' # "none"
      BY <2>1, <2>3, StateTold
    <3> QED
      BY <2>1, <3>1 DEF Scheduled, ChatTold, Begun
  <2> QED
    BY <2>1, <2>3, <2>8, <2>10, <2>11, Settles
<1> QED
  BY <1>1, <1>2

\* A turn is heard, answered, and its answer stored.
LEMMA TurnSteps ==
  ASSUME IInv, NEW s \in Slot, Heard(s) \/ Answers(s) \/ Answered(s)
  PROVE  IInv' /\ LogSteps
<1> USE Known
<1>1. /\ slot[s].pc \in {"say", "think", "record"}
      /\ UNCHANGED <<kind, state, pending, late, up, task, left>>
  BY DEF Heard, Answers, Answered
<1>2. SlotTold(s) /\ kind = "chat" /\ state # "none" /\ slot[s].turn \in Turn
  BY <1>1 DEF SlotTold
<1>3. PICK t \in Turn : t = slot[s].turn
  BY <1>2
<1>4. ASSUME NEW k \in {"human", "agent"}, UNCHANGED receipts, log' = With(k, t, "-"),
             k = "agent" => Find("human", t) # {},
             NEW pc \in {"think", "record"}, Goto(s, pc),
             pc = "think" => k = "human",
             pc = "record" => k = "agent" \/ Find("agent", t) # {},
             running' \in {running, NoOne} \cup Slot
      PROVE  IInv' /\ LogSteps
  <2>1. MediaTold' /\ Turns' /\ Find(k, t)' # {}
    BY <1>1, <1>2, <1>4, TurnTold
  <2>2. log' = log \/ \E e \in Entry : e.kind = k /\ log' = Append(log, e)
    <3>1. t \in Key /\ "-" \in Data /\ k \in {"human", "agent", "call", "result"} /\ k # "call"
      BY DEF Key, Data
    <3> QED
      BY <1>4, <3>1, WithGrows
  <2>3. LogSteps
    BY <1>1, <1>2, <2>2 DEF LogSteps, Spoken
  <2>4. UnansweredIsPending'
    BY <1>1, <2>2, CallsTold
  <2>5. PICK r : r = [slot[s] EXCEPT !.pc = pc]
    OBVIOUS
  <2>6. r \in Request /\ r.pc = pc /\ r.turn = t /\ slot' = [slot EXCEPT ![s] = r]
    BY <1>3, <1>4, <2>5 DEF Goto, Request
  <2>7. slot'[s] = r
    BY <2>6
  <2>8. Grows /\ Find("human", t) \subseteq Find("human", t)'
             /\ Find("agent", t) \subseteq Find("agent", t)'
    BY <2>3, StateTold, Growth
  <2>9. SlotTold(s)'
    BY <1>1, <1>2, <1>4, <2>1, <2>6, <2>7, <2>8 DEF SlotTold
  <2>10. slot' \in [Slot -> Request] /\ Slots'
    BY <1>1, <2>6, <2>8, <2>9, SlotGoes
  <2> QED
    BY <1>1, <1>2, <1>4, <2>1, <2>3, <2>4, <2>10, TellSteps DEF Scheduled
<1>5. CASE Heard(s)
  <2>1. CASE Find("agent", t) = {}
    BY <1>3, <1>4, <1>5, <2>1 DEF Heard
  <2>2. CASE Find("agent", t) # {}
    BY <1>3, <1>4, <1>5, <2>2 DEF Heard
  <2> QED
    BY <2>1, <2>2
<1>6. CASE Answers(s)
  <2>1. Find("human", t) # {}
    BY <1>2, <1>3, <1>6 DEF Answers, SlotTold
  <2> QED
    BY <1>3, <1>4, <1>6, <2>1 DEF Answers
<1>7. CASE Answered(s)
  <2>1. log' = log /\ receipts' = receipts \cup {t} /\ Leave(s) /\ running' = NoOne
    BY <1>3, <1>7 DEF Answered
  <2>2. LogSteps
    BY <1>1, <2>1 DEF LogSteps
  <2>3. slot' \in [Slot -> Request] /\ Slots'
    BY <1>1, <2>1, <2>2, StateTold, SlotsRest
  <2>4. Find("agent", t) # {}
    BY <1>2, <1>3, <1>7 DEF Answered, SlotTold
  <2>5. Turns'
    BY <2>1, <2>4 DEF IInv, Turns, Once, Find
  <2>6. MediaTold'
    BY <1>1, <1>2 DEF MediaTold
  <2>7. UnansweredIsPending'
    BY <1>1, <2>1, CallsTold
  <2> QED
    BY <1>1, <1>2, <2>1, <2>2, <2>3, <2>5, <2>6, <2>7, TellSteps DEF Scheduled
<1> QED
  BY <1>5, <1>6, <1>7

\* A tool is called.
LEMMA CallSteps ==
  ASSUME IInv, NEW s \in Slot, NEW i \in Input, TurnCalls(s, i) \/ RuntimeCalls(s, i)
  PROVE  IInv' /\ LogSteps
<1> USE Known
<1>1. UNCHANGED <<kind, state, receipts, late, up, running, task, left>> /\ state # "none"
  BY DEF TurnCalls, RuntimeCalls
<1>2. SlotTold(s) /\ kind \in {"chat", "media"}
  OBVIOUS
<1>3. CallsMade \in Nat
  <2>1. IsFiniteSet({n \in 1..Len(log) : log[n].kind = "call"})
    <3>1. Len(log) \in Nat
      BY DEF Typed
    <3>2. IsFiniteSet(1..Len(log))
      BY <3>1, FS_Interval
    <3> QED
      BY <3>2, FS_Subset
  <2> QED
    BY <2>1, FS_CardinalityType DEF CallsMade
<1>4. PICK call : /\ call \in Made /\ Dispatch(s, call)
                  /\ kind = "chat" => slot[s].calls < MaxCalls /\ Find("human", slot[s].turn) # {}
                                        /\ slot[s].turn \in Turn
  <2>1. CASE TurnCalls(s, i)
    <3>1. slot[s] \in Request /\ slot[s].pc = "think" /\ slot[s].calls < MaxCalls
      BY <2>1 DEF TurnCalls
    <3>2. kind = "chat" /\ slot[s].turn \in Turn /\ Find("human", slot[s].turn) # {}
      BY <1>2, <3>1 DEF SlotTold
    <3>3. slot[s].calls \in Nat
      BY <3>1 DEF Request
    <3>4. Call(CallKey(s), i) \in Made
      BY <3>2, <3>3 DEF Call, CallKey, Made
    <3> QED
      BY <2>1, <3>1, <3>2, <3>4 DEF TurnCalls
  <2>2. CASE RuntimeCalls(s, i)
    <3>1. kind = "media" /\ Call(<<NoTurn, CallsMade>>, i) \in Made
      BY <1>3, <2>2 DEF RuntimeCalls, Call, Made
    <3> QED
      BY <2>2, <3>1 DEF RuntimeCalls
  <2> QED
    BY <2>1, <2>2
<1>5. CASE CallRefused(call)
  <2>1. Leave(s) /\ UNCHANGED <<log, pending>>
    BY <1>4, <1>5 DEF Dispatch
  <2>2. LogSteps /\ MediaTold' /\ Turns' /\ UnansweredIsPending'
    BY <1>1, <2>1, OthersTold, CallsTold DEF LogSteps
  <2>3. slot' \in [Slot -> Request] /\ Slots'
    BY <1>1, <2>1, <2>2, StateTold, SlotsRest
  <2> QED
    BY <1>1, <2>1, <2>2, <2>3, TellSteps DEF Scheduled
<1>6. CASE ~CallRefused(call)
  <2>1. /\ slot' = [slot EXCEPT ![s].pc = "call", ![s].call = call]
        /\ pending' = call
        /\ log' = IF pending = NoCall THEN With("call", call.key, call.input) ELSE log
    BY <1>4, <1>6 DEF Dispatch
  <2>2. LogSteps /\ MediaTold' /\ Turns' /\ UnansweredIsPending'
    BY <1>1, <1>4, <1>6, <2>1, DispatchTold
  <2>3. PICK r : r = [slot[s] EXCEPT !.pc = "call", !.call = call]
    OBVIOUS
  <2>4. /\ r \in Request /\ r.pc = "call" /\ r.call = call /\ r.turn = slot[s].turn
        /\ r.calls = slot[s].calls
    BY <1>4, <2>3 DEF Request, Calls
  <2>5. slot' = [slot EXCEPT ![s] = r]
    BY <2>1, <2>3
  <2>6. slot'[s] = r
    BY <2>5
  <2>7. Grows /\ \A t : Find("human", t) \subseteq Find("human", t)'
    BY <2>2, StateTold, Growth
  <2>8. SlotTold(s)'
    BY <1>1, <1>4, <2>4, <2>6, <2>7 DEF SlotTold
  <2>9. slot' \in [Slot -> Request] /\ Slots'
    BY <1>1, <2>4, <2>5, <2>7, <2>8, SlotGoes
  <2>10. pending' \in Calls
    BY <1>4, <2>1 DEF Calls
  <2> QED
    BY <1>1, <2>2, <2>9, <2>10, TellSteps DEF Scheduled
<1> QED
  BY <1>5, <1>6

\* A call is answered.
LEMMA ResultSteps ==
  ASSUME IInv, NEW result \in {"output", "unavailable"},
         (\E s \in Slot : Returns(s, result)) \/ Redispatched(result)
  PROVE  IInv' /\ LogSteps
<1> USE Known
<1>1. ASSUME NEW s \in Slot, Returns(s, result)
      PROVE  IInv' /\ LogSteps
  <2>1. /\ slot[s].pc = "call" /\ Complete(slot[s].call, result)
        /\ UNCHANGED <<kind, state, receipts, late, up, running, task>>
    BY <1>1 DEF Returns
  <2>2. SlotTold(s) /\ slot[s].call \in Made /\ state # "none"
    BY <2>1 DEF SlotTold
  <2>3. left' \in 0..MaxHappenings
    BY <1>1, Happened DEF Returns, Outcome, Scheduled
  <2>4. /\ LogSteps /\ MediaTold' /\ Turns' /\ UnansweredIsPending'
        /\ pending' \in {pending, NoCall}
    BY <2>1, <2>2, CompleteTold
  <2>5. Grows /\ \A t : Find("human", t) \subseteq Find("human", t)'
    BY <2>4, StateTold, Growth
  <2>6. slot' \in [Slot -> Request] /\ Slots'
    <3>1. CASE kind = "media" \/ ResultRefused(slot[s].call, result)
      BY <1>1, <2>1, <2>5, <3>1, SlotsRest DEF Returns
    <3>2. CASE ~(kind = "media" \/ ResultRefused(slot[s].call, result))
      <4>1. /\ slot' = [slot EXCEPT ![s].pc = "think", ![s].calls = @ + 1, ![s].call = NoCall]
            /\ kind = "chat"
        BY <1>1, <3>2 DEF Returns
      <4>2. slot[s].calls \in 0..MaxCalls /\ slot[s].calls < MaxCalls
        BY <2>1, <2>2, <4>1 DEF SlotTold, Request
      <4>3. slot[s].calls + 1 \in 0..MaxCalls
        BY <4>2
      <4>4. PICK r : r = [slot[s] EXCEPT !.pc = "think", !.calls = @ + 1, !.call = NoCall]
        OBVIOUS
      <4>5. r \in Request /\ r.pc = "think" /\ r.turn = slot[s].turn
        BY <4>3, <4>4 DEF Request, Calls
      <4>6. slot' = [slot EXCEPT ![s] = r]
        BY <4>1, <4>4
      <4>7. slot'[s] = r
        BY <4>6
      <4>8. SlotTold(s)'
        BY <2>1, <2>2, <2>5, <4>1, <4>5, <4>7 DEF SlotTold
      <4> QED
        BY <2>1, <2>5, <4>5, <4>6, <4>8, SlotGoes
    <3> QED
      BY <3>1, <3>2
  <2>7. pending' \in Calls
    BY <2>4 DEF Calls
  <2> QED
    BY <2>1, <2>2, <2>3, <2>4, <2>6, <2>7, TellSteps DEF Scheduled
<1>2. CASE Redispatched(result)
  <2>1. /\ pending \in Made /\ Complete(pending, result) /\ up' \in {"down", up}
        /\ UNCHANGED <<kind, state, receipts, late, running, slot, task>>
    BY <1>2 DEF Redispatched, Calls
  <2>2. state # "none"
    BY <1>2 DEF Redispatched, IInv, Begun
  <2>3. left' \in 0..MaxHappenings
    BY <1>2, Happened DEF Redispatched, Outcome, Scheduled
  <2>4. /\ LogSteps /\ MediaTold' /\ Turns' /\ UnansweredIsPending'
        /\ pending' \in {pending, NoCall}
    BY <2>1, <2>2, CompleteTold
  <2>5. slot' \in [Slot -> Request] /\ Slots'
    BY <2>1, <2>4, StateTold, SlotsRest
  <2>6. Scheduled' /\ ChatTold' /\ Begun'
    BY <2>1, <2>2, <2>3 DEF Scheduled, ChatTold, Begun
  <2>7. pending' \in Calls
    BY <2>4 DEF Calls
  <2> QED
    BY <2>1, <2>4, <2>5, <2>6, <2>7, Settles
<1> QED
  BY <1>1, <1>2

-----------------------------------------------------------------------------
(* The theorems.                                                           *)

\* Nothing is known of a session that was not started.
LEMMA InitInvariant ==
  ASSUME Init
  PROVE  IInv
<1>1. slot = [s \in Slot |-> Idle] /\ Idle \in Request /\ Idle.pc = "idle" /\ log = <<>>
  BY WorkerAssumption DEF Init, Idle, Request, Calls
<1>2. slot \in [Slot -> Request] /\ \A s \in Slot : slot[s] = Idle
  BY <1>1
<1>3. Len(log) = 0 /\ log \in Seq(Entry)
  BY <1>1
<1>4. Typed
  <2>1. kind \in {"chat", "media"} /\ left \in 0..MaxHappenings
    BY WorkerAssumption DEF Init
  <2>2. \A i \in 1..Len(log) : log[i].kind \in {"life", "human", "agent", "call", "result"}
    BY <1>3
  <2>3. /\ state \in States /\ pending \in Calls /\ receipts \subseteq Turn
        /\ late \in BOOLEAN /\ up \in {"up", "recovering", "down"}
        /\ running \in {NoOne, "task", "stop"} \cup Slot
        /\ task \in {"none", "running", "done"}
    BY DEF Init, States, Calls
  <2> QED
    BY <1>2, <1>3, <2>1, <2>2, <2>3 DEF Typed, TypeOK, Request
<1>5. Slots
  BY <1>1, <1>2 DEF Slots, SlotTold
<1>6. \A k, key : Find(k, key) = {}
  BY <1>3 DEF Find
<1>7. Turns /\ MediaTold /\ UnansweredIsPending
  BY <1>3, <1>6 DEF Init, Turns, Once, MediaTold, UnansweredIsPending
<1>8. Begun /\ ChatTold /\ LogTellsState
  BY <1>2, WorkerAssumption DEF Init, Begun, ChatTold, LogTellsState
<1> QED
  BY <1>4, <1>5, <1>7, <1>8 DEF IInv

\* Every step keeps the invariant, and all the log sees of it is a change of
\* state or an event of the session.
LEMMA NextInvariant ==
  ASSUME IInv, [Next]_vars
  PROVE  IInv' /\ LogSteps
<1>1. CASE UNCHANGED vars
  <2>1. UNCHANGED <<kind, state, log, pending, receipts, late, up, running, slot, task, left>>
    BY <1>1 DEF vars, stored
  <2>2. Quiet /\ Scheduled' /\ ChatTold' /\ task' = task
    BY <2>1, Known DEF Quiet, Scheduled, ChatTold
  <2> QED
    BY <2>2, QuietStep
<1>2. CASE Next
  <2>1. CASE \/ Start \/ Deadline \/ RuntimeConnects \/ RuntimeStarts \/ Dialled
             \/ RuntimeEnds \/ RuntimeTimesOut \/ MediaFails \/ Stop \/ WrappedUp
    BY <2>1, LifeSteps
  <2>2. CASE Says
    BY <2>2, SaysStep
  <2>3. ASSUME NEW s \in Slot,
               \/ RequestStep(s) \/ ModelFails(s) \/ Interrupted(s)
               \/ \E t \in Turn : Arrives(s, t)
        PROVE  IInv' /\ LogSteps
    BY <2>3, LettingGo, ComesIn, TurnSteps, ResultSteps DEF RequestStep
  <2>4. ASSUME NEW s \in Slot, NEW i \in Input, TurnCalls(s, i) \/ RuntimeCalls(s, i)
        PROVE  IInv' /\ LogSteps
    BY <2>4, CallSteps
  <2>5. CASE Crash \/ Boot \/ Recovered
    BY <2>5, LettingGo
  <2>6. ASSUME NEW result \in {"output", "unavailable"}, Redispatched(result)
        PROVE  IInv' /\ LogSteps
    BY <2>6, ResultSteps
  <2> QED
    BY <1>2, <2>1, <2>2, <2>3, <2>4, <2>5, <2>6 DEF Next
<1> QED
  BY <1>1, <1>2

\* The invariant holds of every state of a session.
THEOREM Invariance == Spec => []IInv
<1>1. Init => IInv
  BY InitInvariant
<1>2. IInv /\ [Next]_vars => IInv'
  BY NextInvariant
<1> QED
  BY <1>1, <1>2, PTL DEF Spec

\* Finite sets without two elements.
LEMMA AtMostOne ==
  ASSUME NEW S, IsFiniteSet(S), \A i, j \in S : i = j
  PROVE  Cardinality(S) <= 1
<1>1. CASE S = {}
  BY <1>1, FS_EmptySet
<1>2. ASSUME NEW i \in S
      PROVE  Cardinality(S) <= 1
  <2>1. S = {i}
    BY <1>2
  <2> QED
    BY <2>1, FS_Singleton
<1> QED
  BY <1>1, <1>2

\* Whatever crashes, is repeated or comes late: the session is in the state
\* its log tells last, and a turn is heard once and answered once, in this
\* order (transition, _append_event, _chat_turn).
THEOREM SessionIsSafe == Spec => []Inv
<1>1. IInv => Inv
  <2> SUFFICES ASSUME IInv
               PROVE  Inv
    OBVIOUS
  <2>1. Typed /\ Turns /\ LogTellsState
    BY DEF IInv
  <2>2. ASSUME NEW k, NEW key, Once(k, key)
        PROVE  Cardinality(Find(k, key)) <= 1
    <3>1. IsFiniteSet(1..Len(log))
      <4>1. Len(log) \in Nat
        BY <2>1 DEF Typed
      <4> QED
        BY <4>1, FS_Interval
    <3>2. IsFiniteSet(Find(k, key))
      BY <3>1, FS_Subset DEF Find
    <3> QED
      BY <2>2, <3>2, AtMostOne DEF Once
  <2>3. TurnsOnce
    BY <2>1, <2>2 DEF Turns, TurnsOnce
  <2> QED
    BY <2>1, <2>3 DEF Inv, Typed
<1> QED
  BY <1>1, Invariance, PTL

\* A call whose result is not in the log is the one that waits, so that a
\* restart finds it (create_tool_call, complete_tool_call, recover).
THEOREM NoCallIsLost == Spec => []UnansweredIsPending
<1>1. IInv => UnansweredIsPending
  BY DEF IInv
<1> QED
  BY <1>1, Invariance, PTL

-----------------------------------------------------------------------------
(* What readers see.                                                       *)

Seen == IF state = "none" THEN "absent" ELSE IF state \in Terminal THEN "ended" ELSE "live"
Read(e) == IF e.kind = "life" /\ e.key \in Terminal THEN "end" ELSE "turn"
SeenLog == [i \in 1..Len(log) |-> Read(log[i])]

\* An event is read where it was written.
LEMMA ReadAtTheEnd ==
  ASSUME Typed, NEW e \in Entry, log' = Append(log, e)
  PROVE  SeenLog' = Append(SeenLog, Read(e))
<1>1. /\ Len(log) \in Nat /\ Len(log') = Len(log) + 1 /\ log'[Len(log) + 1] = e
      /\ \A i \in 1..Len(log) : log'[i] = log[i]
  BY AtTheEnd
<1>2. SeenLog \in Seq({"end", "turn"}) /\ Len(SeenLog) = Len(log) /\ Read(e) \in {"end", "turn"}
  BY <1>1 DEF SeenLog, Read
<1>3. /\ Append(SeenLog, Read(e)) \in Seq({"end", "turn"})
      /\ Len(Append(SeenLog, Read(e))) = Len(log) + 1
      /\ \A i \in 1..Len(log) : Append(SeenLog, Read(e))[i] = Read(log[i])
      /\ Append(SeenLog, Read(e))[Len(log) + 1] = Read(e)
  BY <1>1, <1>2 DEF SeenLog
<1>4. /\ SeenLog' \in Seq({"end", "turn"}) /\ Len(SeenLog') = Len(log) + 1
      /\ \A i \in 1..(Len(log) + 1) : SeenLog'[i] = Read(log'[i])
  BY <1>1 DEF SeenLog, Read
<1>5. \A i \in 1..(Len(log) + 1) : i \in 1..Len(log) \/ i = Len(log) + 1
  BY <1>1
<1>6. \A i \in 1..Len(SeenLog') : SeenLog'[i] = Append(SeenLog, Read(e))[i]
  BY <1>1, <1>3, <1>4, <1>5
<1> QED
  BY <1>3, <1>4, <1>6, SeqEqual

\* A step of the session is a step of the log its readers know.
LEMMA ReadSteps ==
  ASSUME IInv, LogSteps
  PROVE  [Readable!LogNext]_<<Seen, SeenLog>>
<1>t. Typed /\ LogTellsState
  BY DEF IInv
<1>d. /\ Readable!Created <=> Seen = "absent" /\ Seen' = "live" /\ SeenLog' = <<"turn">>
      /\ Readable!Appended <=> Seen = "live" /\ SeenLog' = Append(SeenLog, "turn") /\ Seen' = Seen
      /\ Readable!AppendedLate <=>
           Seen = "ended" /\ SeenLog' = Append(SeenLog, "turn") /\ Seen' = Seen
      /\ Readable!Ended <=> Seen = "live" /\ Seen' = "ended" /\ SeenLog' = Append(SeenLog, "end")
  BY DEF Readable!Created, Readable!Appended, Readable!AppendedLate, Readable!Ended,
         Seen, SeenLog, Read
<1>1. CASE UNCHANGED <<state, log>>
  BY <1>1 DEF Seen, SeenLog, Read
<1>2. ASSUME NEW to, Moves(to)
      PROVE  Readable!LogNext
  <2>1. /\ to \in States \ {"none"} /\ state \notin Terminal
        /\ state' = to /\ log' = Append(log, Event("life", to, "-"))
        /\ Event("life", to, "-") \in Entry
    BY <1>t, <1>2, Transitions
  <2>2. PICK e \in Entry : e = Event("life", to, "-") /\ e.kind = "life" /\ e.key = to
    BY <2>1 DEF Event
  <2>3. SeenLog' = Append(SeenLog, Read(e))
    BY <1>t, <2>1, <2>2, ReadAtTheEnd
  <2>4. CASE state = "none"
    <3>1. to = "created"
      BY <1>2, <2>4 DEF Moves, Allowed
    <3>2. SeenLog = <<>>
      BY <1>t, <2>4 DEF LogTellsState, SeenLog
    <3>3. Read(e) = "turn" /\ Seen = "absent" /\ Seen' = "live"
      BY <2>1, <2>2, <2>4, <3>1 DEF Read, Seen, Terminal
    <3> QED
      BY <1>d, <2>3, <3>2, <3>3 DEF Readable!LogNext
  <2>5. CASE state # "none" /\ to \in Terminal
    BY <1>d, <2>1, <2>2, <2>3, <2>5 DEF Readable!LogNext, Seen, Read
  <2>6. CASE state # "none" /\ to \notin Terminal
    BY <1>d, <2>1, <2>2, <2>3, <2>6 DEF Readable!LogNext, Seen, Read
  <2> QED
    BY <2>4, <2>5, <2>6
<1>3. ASSUME NEW e \in Entry, Spoken(e)
      PROVE  Readable!LogNext
  <2>1. SeenLog' = Append(SeenLog, Read(e)) /\ Read(e) = "turn"
    BY <1>t, <1>3, ReadAtTheEnd DEF Spoken, Read
  <2>2. Seen' = Seen /\ Seen \in {"live", "ended"}
    BY <1>3 DEF Spoken, Seen
  <2> QED
    BY <1>d, <2>1, <2>2 DEF Readable!LogNext
<1> QED
  BY <1>1, <1>2, <1>3 DEF LogSteps

\* To its readers the session is a SessionLog: its log only grows, by one
\* event a step, and exactly one of them ends it, whatever is written after
\* the session has ended.
THEOREM ReadersSeeALog == Spec => ImplementsLog
<1>1. Init => Readable!LogInit
  BY DEF Init, Readable!LogInit
<1>2. IInv /\ [Next]_vars => [Readable!LogNext]_<<Seen, SeenLog>>
  BY NextInvariant, ReadSteps
<1> QED
  BY <1>1, <1>2, Invariance, PTL DEF Spec, ImplementsLog, Readable!LogSpec, Seen, SeenLog, Read
=============================================================================
