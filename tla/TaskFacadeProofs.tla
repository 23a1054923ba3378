-------------------------- MODULE TaskFacadeProofs --------------------------
(* Proofs about TaskFacade, for any jobs, requests and kinds of store: what *)
(* callers are told is true, follow-ups are admitted, and a process that is *)
(* closed leaves nothing behind.                                            *)
EXTENDS TaskFacade, TLAPS

-----------------------------------------------------------------------------
(* Types.                                                                  *)

CallRecord == [job : Job \cup {"none"}, shares : Caller \cup {"none"},
               at : {"unused", "sent", "applied", "accepted", "failed"}, seen : RowState]
RunRecord  == [at : {"none", "working", "waiting", "writing", "written"}, result : Result]
TickRecord == [at : {"none", "news", "claim", "begin"}, jobs : SUBSET Job]
Promises   == {"none", "open", "resolved", "failed", "error", "handed"}

\* Whoever has submitted has a job, and shares somebody's deferred.
Placed == \A c \in Caller : call[c].at # "unused" => call[c].job \in Job /\ call[c].shares \in Caller

LEMMA InitTypes == Init => TypeOK /\ Placed
<1> SUFFICES ASSUME Init PROVE TypeOK /\ Placed
  OBVIOUS
<1>1. NoCall \in CallRecord /\ NoRun \in RunRecord /\ NoTick \in TickRecord
  BY DEF NoCall, NoRun, NoTick, CallRecord, RunRecord, TickRecord, RowState, Result
<1>2. call \in [Caller -> CallRecord] /\ run \in [Job -> RunRecord] /\ tick \in TickRecord
  BY <1>1 DEF Init
<1>3. row \in [Job -> RowState] /\ attached \in [Job -> Caller \cup {"none"}] /\ promise \in [Caller -> Promises]
  BY DEF Init, RowState, Promises
<1>4. durable \in BOOLEAN /\ left \in Nat
  BY FacadeAssumption DEF Init
<1>5. Placed
  BY DEF Init, Placed, NoCall
<1> QED
  BY <1>2, <1>3, <1>4, <1>5 DEF Init, TypeOK, CallRecord, RunRecord, TickRecord, Promises

\* A submission changes one call, one deferred and what is attached to one job.
LEMMA SubmitTypes ==
  ASSUME TypeOK, NEW c \in Caller, NEW j \in Job, Submits(c, j)
  PROVE  /\ call' \in [Caller -> CallRecord] /\ attached' \in [Job -> Caller \cup {"none"}]
         /\ promise' \in [Caller -> Promises] /\ (Placed => Placed')
<1> DEFINE maker == IF attached[j] = "none" THEN c ELSE attached[j]
<1>1. maker \in Caller
  BY DEF TypeOK
<1>2. /\ call' = [call EXCEPT ![c] = [job |-> j, shares |-> maker, at |-> "sent", seen |-> "absent"]]
      /\ attached' = [attached EXCEPT ![j] = maker]
      /\ promise' = [promise EXCEPT ![maker] = "open"]
  BY DEF Submits
<1> HIDE DEF maker
<1> QED
  BY <1>1, <1>2 DEF TypeOK, CallRecord, RowState, Promises, Placed

\* What a settlement tells is an outcome.
LEMMA SettleTypes ==
  ASSUME TypeOK, NEW S \in SUBSET Job, NEW st, Settle(S, st)
  PROVE  attached' \in [Job -> Caller \cup {"none"}] /\ promise' \in [Caller -> Promises]
<1>1. \A s : Outcome(s) \in Promises
  BY DEF Outcome, Promises
<1>2. attached' \in [Job -> Caller \cup {"none"}]
  BY DEF Settle, TypeOK
<1>3. promise' \in [Caller -> Promises]
  BY <1>1 DEF Settle, TypeOK, Promises
<1> QED
  BY <1>2, <1>3

LEMMA EndsTypes ==
  ASSUME TypeOK, NEW j \in Job, NEW s \in Result, Ends(j, s)
  PROVE  run' \in [Job -> RunRecord]
  BY DEF Ends, TypeOK, RunRecord

LEMMA RefusalType == \A j \in Job : Refusal(j) \in Result
  BY DEF Refusal, Result, Terminal

LEMMA CallTypes ==
  ASSUME TypeOK, Placed, NEW c \in Caller, CallStep(c) \/ EnsureFails(c)
  PROVE  TypeOK' /\ Placed'
<1>1. CASE Ensured(c)
  <2>1. call[c].job \in Job
    BY <1>1 DEF Ensured, Placed
  <2>2. row' \in [Job -> RowState]
    BY <1>1 DEF Ensured, TypeOK, RowState
  <2>3. row'[call[c].job] \in RowState
    BY <2>1, <2>2
  <2>4. PICK s \in RowState : call' = [call EXCEPT ![c].at = "applied", ![c].seen = s]
    BY <1>1, <2>3 DEF Ensured
  <2>5. call' \in [Caller -> CallRecord]
    <3>1. call \in [Caller -> CallRecord]
      BY DEF TypeOK, CallRecord
    <3>2. [call[c] EXCEPT !.at = "applied", !.seen = s] \in CallRecord
      BY <3>1 DEF CallRecord
    <3>3. call' = [call EXCEPT ![c] = [call[c] EXCEPT !.at = "applied", !.seen = s]]
      BY <2>4, <3>1
    <3> QED
      BY <3>1, <3>2, <3>3
  <2>6. Placed'
    <3>1. \A d \in Caller : call'[d].job = call[d].job /\ call'[d].shares = call[d].shares
                           /\ (d # c => call'[d].at = call[d].at)
      BY <2>4 DEF TypeOK
    <3>2. call[c].at # "unused"
      BY <1>1 DEF Ensured
    <3> QED
      BY <3>1, <3>2 DEF Placed
  <2> QED
    BY <1>1, <2>2, <2>5, <2>6 DEF Ensured, TypeOK, CallRecord, flags, keys, told, spare
<1>2. CASE Accepted(c)
  <2>1. call' = [call EXCEPT ![c].at = "accepted"] /\ call[c].at = "applied"
        /\ Settle({call[c].job}, [row EXCEPT ![call[c].job] = call[c].seen])
        /\ UNCHANGED <<row, flags, run, keys, tick, spare>>
    BY <1>2 DEF Accepted
  <2>2. call[c].job \in Job
    BY <2>1 DEF Placed
  <2>3. attached' \in [Job -> Caller \cup {"none"}] /\ promise' \in [Caller -> Promises]
    BY <2>1, <2>2, SettleTypes
  <2>4. call' \in [Caller -> CallRecord] /\ Placed'
    BY <2>1 DEF TypeOK, CallRecord, Placed
  <2> QED
    BY <2>1, <2>3, <2>4 DEF TypeOK, CallRecord, Promises, flags, keys, spare
<1>3. CASE EnsureFails(c)
  <2>1. call' = [call EXCEPT ![c].at = "failed"] /\ call[c].at # "unused"
        /\ promise' = [promise EXCEPT ![call[c].shares] = IF @ = "open" THEN "error" ELSE @]
        /\ attached' = [attached EXCEPT ![call[c].job] = "none"]
        /\ left > 0 /\ left' = left - 1 /\ threw' = TRUE
        /\ UNCHANGED <<row, flags, run, keys, tick>>
    BY <1>3 DEF EnsureFails
  <2>2. call' \in [Caller -> CallRecord] /\ Placed'
    BY <2>1 DEF TypeOK, CallRecord, Placed
  <2>3. promise' \in [Caller -> Promises] /\ attached' \in [Job -> Caller \cup {"none"}]
    BY <2>1 DEF TypeOK, Promises
  <2>4. left' \in Nat
    BY <2>1 DEF TypeOK
  <2> QED
    BY <2>1, <2>2, <2>3, <2>4 DEF TypeOK, CallRecord, Promises, flags, keys
<1> QED
  BY <1>1, <1>2, <1>3 DEF CallStep

LEMMA RunTypes ==
  ASSUME TypeOK, Placed, NEW j \in Job, RunStep(j)
  PROVE  TypeOK' /\ Placed'
<1>1. CASE Works(j)
  <2>1. \E s \in Result : Ends(j, s)
    BY <1>1 DEF Works, Result, Terminal
  <2>2. run' \in [Job -> RunRecord] /\ left' \in Nat
    BY <1>1, <2>1, EndsTypes DEF Works, TypeOK
  <2> QED
    BY <1>1, <2>2 DEF Works, TypeOK, Placed, RunRecord, flags, keys, told
<1>2. CASE FollowsUp(j)
  <2>1. CASE ~accepting /\ Ends(j, Refusal(j)) /\ UNCHANGED <<call, told>>
    <3>1. run' \in [Job -> RunRecord]
      BY <2>1, EndsTypes, RefusalType
    <3> QED
      BY <1>2, <2>1, <3>1 DEF FollowsUp, TypeOK, Placed, RunRecord, flags, keys, told, spare
  <2>2. CASE Submits(j, Follow[j]) /\ run' = [run EXCEPT ![j].at = "waiting"]
    <3>1. j \in Caller /\ Follow[j] \in Job
      BY <1>2, FacadeAssumption DEF FollowsUp, Caller
    <3>2. /\ call' \in [Caller -> CallRecord] /\ attached' \in [Job -> Caller \cup {"none"}]
          /\ promise' \in [Caller -> Promises] /\ Placed'
      BY <2>2, <3>1, SubmitTypes
    <3>3. run' \in [Job -> RunRecord]
      BY <2>2 DEF TypeOK, RunRecord
    <3> QED
      BY <1>2, <3>2, <3>3 DEF FollowsUp, TypeOK, CallRecord, RunRecord, Promises, flags, keys, spare
  <2> QED
    BY <1>2, <2>1, <2>2 DEF FollowsUp
<1>3. CASE Waits(j)
  <2>1. \E s \in Result : Ends(j, s)
    BY <1>3, RefusalType DEF Waits, Result, Terminal
  <2>2. run' \in [Job -> RunRecord]
    BY <2>1, EndsTypes
  <2> QED
    BY <1>3, <2>2 DEF Waits, TypeOK, Placed, RunRecord, flags, keys, told, spare
<1>4. CASE Writes(j)
  <2>1. run[j].result \in Result
    BY DEF TypeOK
  <2>2. row' \in [Job -> RowState]
    BY <1>4, <2>1 DEF Writes, TypeOK, RowState, Result
  <2>3. run' \in [Job -> RunRecord]
    BY <1>4 DEF Writes, TypeOK, RunRecord
  <2> QED
    BY <1>4, <2>2, <2>3 DEF Writes, TypeOK, Placed, RunRecord, flags, keys, told, spare
<1>5. CASE Finishes(j)
  <2>1. Settle({j}, [row EXCEPT ![j] = run[j].result]) /\ run' = [run EXCEPT ![j] = NoRun]
        /\ active' = active \ {j} /\ awaited' = awaited \ {j} /\ doubled' \in {doubled, doubled \ {j}}
        /\ UNCHANGED <<row, flags, call, behind, tick, spare>>
    BY <1>5 DEF Finishes
  <2>2. attached' \in [Job -> Caller \cup {"none"}] /\ promise' \in [Caller -> Promises]
    BY <2>1, SettleTypes
  <2>3. NoRun \in RunRecord
    BY DEF NoRun, RunRecord, Result
  <2>4. run' \in [Job -> RunRecord]
    BY <2>1, <2>3 DEF TypeOK, RunRecord
  <2> QED
    BY <2>1, <2>2, <2>4 DEF TypeOK, Placed, RunRecord, Promises, flags, keys, spare
<1>6. CASE FinishesBehind(j)
  <2>1. behind' \in [Job -> Nat]
    BY <1>6 DEF FinishesBehind, TypeOK
  <2>2. active' = active \ {j} /\ doubled' \in {doubled, doubled \ {j}}
        /\ UNCHANGED <<row, flags, told, call, run, awaited, tick, spare>>
    BY <1>6 DEF FinishesBehind
  <2> QED
    BY <2>1, <2>2 DEF TypeOK, Placed, flags, told, spare
<1> QED
  BY <1>1, <1>2, <1>3, <1>4, <1>5, <1>6 DEF RunStep

LEMMA WorldTypes ==
  ASSUME TypeOK, Placed, NEW j \in Job, Elsewhere(j) \/ CancelPending(j)
  PROVE  TypeOK' /\ Placed'
<1>1. row' \in [Job -> RowState]
  <2>1. CASE Elsewhere(j)
    BY <2>1 DEF Elsewhere, TypeOK, RowState
  <2>2. CASE CancelPending(j)
    BY <2>2 DEF CancelPending, TypeOK, RowState, Terminal
  <2> QED
    BY <2>1, <2>2
<1> QED
  BY <1>1 DEF Elsewhere, CancelPending, TypeOK, Placed, flags, keys, told, spare

LEMMA TickTypes ==
  ASSUME TypeOK, Placed, TickStep
  PROVE  TypeOK' /\ Placed'
<1>1. CASE Looks
  BY <1>1 DEF Looks, TypeOK, Placed, flags, keys, told, spare
<1>2. CASE Observes
  <2>1. Settle(tick.jobs, row) /\ UNCHANGED <<row, flags, call, run, keys, spare>>
    BY <1>2 DEF Observes
  <2>2. attached' \in [Job -> Caller \cup {"none"}] /\ promise' \in [Caller -> Promises]
    BY <2>1, SettleTypes DEF TypeOK
  <2>3. tick' \in TickRecord
    BY <1>2 DEF Observes, TickRecord, NoTick
  <2> QED
    BY <2>1, <2>2, <2>3 DEF TypeOK, Placed, TickRecord, Promises, flags, keys, spare
<1>3. CASE Claims
  <2>1. row' \in [Job -> RowState]
    BY <1>3 DEF Claims, TypeOK, RowState
  <2>2. tick' \in TickRecord
    BY <1>3 DEF Claims, TickRecord, Due
  <2> QED
    BY <1>3, <2>1, <2>2 DEF Claims, TypeOK, Placed, TickRecord, flags, keys, told, spare
<1>4. CASE Begins
  <2>1. [NoRun EXCEPT !.at = "working"] \in RunRecord /\ NoTick \in TickRecord
    BY DEF NoRun, NoTick, RunRecord, TickRecord, Result
  <2>2. run' \in [Job -> RunRecord]
    BY <1>4, <2>1 DEF Begins, TypeOK, RunRecord
  <2>3. behind' \in [Job -> Nat]
    BY <1>4 DEF Begins, TypeOK
  <2>4. active' \subseteq Job /\ doubled' \subseteq Job /\ awaited' \subseteq Job
    BY <1>4 DEF Begins, TypeOK
  <2> QED
    BY <1>4, <2>1, <2>2, <2>3, <2>4 DEF Begins, TypeOK, Placed, RunRecord, TickRecord, flags, keys, told, spare
<1> QED
  BY <1>1, <1>2, <1>3, <1>4 DEF TickStep

LEMMA CloseTypes ==
  ASSUME TypeOK, Placed, StopClaiming \/ CloseStep
  PROVE  TypeOK' /\ Placed'
<1>1. CASE HandsOff
  <2>1. attached' \in [Job -> Caller \cup {"none"}] /\ promise' \in [Caller -> Promises]
    <3>1. attached \in [Job -> Caller \cup {"none"}] /\ promise \in [Caller -> Promises]
      BY DEF TypeOK, Promises
    <3>2. CASE durable
      <4>1. attached' = [j \in Job |-> "none"]
        BY <1>1, <3>2 DEF HandsOff
      <4>2. promise' = [c \in Caller |-> IF \E j \in Job : attached[j] = c
                                        THEN "handed" ELSE promise[c]]
        BY <1>1, <3>2 DEF HandsOff
      <4> QED
        BY <3>1, <4>1, <4>2 DEF Promises
    <3>3. CASE ~durable
      BY <1>1, <3>1, <3>3 DEF HandsOff, told
    <3> QED
      BY <3>2, <3>3
  <2> QED
    BY <1>1, <2>1 DEF HandsOff, TypeOK, Placed, Promises, told, keys, spare
<1>2. CASE StopClaiming \/ Stopped \/ Closes
  BY <1>2 DEF StopClaiming, Stopped, Closes, TypeOK, Placed, told, keys, spare
<1> QED
  BY <1>1, <1>2 DEF CloseStep

\* Every step keeps the types.
LEMMA NextTypes == TypeOK /\ Placed /\ [Next]_vars => TypeOK' /\ Placed'
<1> SUFFICES ASSUME TypeOK, Placed, [Next]_vars PROVE TypeOK' /\ Placed'
  OBVIOUS
<1>1. ASSUME NEW c \in Client, NEW j \in Job, ClientSubmits(c, j) PROVE TypeOK' /\ Placed'
  <2>1. Submits(c, j) /\ c \in Caller /\ UNCHANGED <<row, flags, run, keys, tick, spare>>
    BY <1>1 DEF ClientSubmits, Caller
  <2>2. /\ call' \in [Caller -> CallRecord] /\ attached' \in [Job -> Caller \cup {"none"}]
        /\ promise' \in [Caller -> Promises] /\ Placed'
    BY <2>1, SubmitTypes
  <2> QED
    BY <2>1, <2>2 DEF TypeOK, CallRecord, Promises, flags, keys, spare
<1>2. CASE UNCHANGED vars
  BY <1>2 DEF TypeOK, Placed, vars, flags, keys, told, spare
<1> QED
  BY <1>1, <1>2, CallTypes, RunTypes, WorldTypes, TickTypes, CloseTypes DEF Next

-----------------------------------------------------------------------------
(* The inductive invariant.                                                *)

Busy   == {"working", "waiting", "writing"}
Worked == {"succeeded", "cancelled"}

\* What a run says of its row, and of the row of its follow-up.
RunTold(j) ==
  /\ run[j].at \in Busy => row[j] = "running"
  /\ run[j].at = "written" /\ run[j].result # "again" => row[j] = run[j].result
  /\ run[j].at \in {"writing", "written"} /\ run[j].result \in Worked /\ Follow[j] # "none"
       => row[Follow[j]] # "absent"
  /\ run[j].at = "waiting" => Follow[j] # "none" /\ call[j].at # "unused"

Runs == \A j \in Job : RunTold(j)

\* A run in flight has its key, unless an older run of its job was; and that
\* happens over a durable store only.
Keys ==
  \A j \in Job :
    /\ run[j].at # "none" /\ j \notin doubled => j \in active
    /\ behind[j] > 0 => j \in doubled
    /\ j \in doubled => durable

\* What a tick has claimed nobody here is working on, though a run of it may
\* wait for the answer to its write-back.
Ticks == tick.at = "begin" =>
           \A j \in tick.jobs : /\ row[j] = "running" /\ run[j].at \notin Busy
                                /\ run[j].at # "none" => durable

\* What a submission says of its row.
Calls ==
  \A c \in Caller :
    /\ call[c].at # "unused" /\ c \in Job => call[c].job = Follow[c]
    /\ call[c].at \in {"applied", "accepted"} => row[call[c].job] # "absent"
    /\ call[c].at = "applied" /\ call[c].seen \in Terminal => row[call[c].job] = call[c].seen

\* A deferred is attached to the job its maker submitted; an open one stays
\* attached unless an ensure throws.
Waiters ==
  /\ \A j \in Job : attached[j] # "none" =>
       call[attached[j]].at # "unused" /\ call[attached[j]].job = j
  /\ \A c \in Caller : promise[c] # "none" => call[c].at # "unused"
  /\ ~threw => \A c \in Caller : promise[c] = "open" => attached[call[c].job] = c

\* In memory somebody waits for every job that is, or is about to be, unfinished.
Kept ==
  ~durable =>
    /\ \A j \in Job : row[j] \in {"pending", "running"} => attached[j] # "none"
    /\ \A c \in Caller : call[c].at = "sent" /\ row[call[c].job] = "absent"
         => attached[call[c].job] # "none"

\* How far the shutdown has come tells what may still happen.
Closing ==
  /\ phase # "open" => ~accepting
  /\ phase \in {"stopping", "draining", "closed"} => ~claiming
  /\ phase = "draining" => tick = NoTick /\ active \subseteq awaited
  /\ phase = "idling" => ~durable
  /\ phase = "closed" =>
       /\ active = {} /\ \A j \in Job : attached[j] = "none"
       /\ tick.at = "begin" => tick.jobs = {}
       /\ durable => tick = NoTick
       /\ ~durable => \A j \in Job : row[j] \notin {"pending", "running"}

Consistent == Runs /\ Keys /\ Ticks /\ Calls /\ Waiters /\ Kept /\ Closing /\ CompletionTruthful

IInv == TypeOK /\ Placed /\ Consistent


LEMMA InitConsistent == Init => Consistent
<1> SUFFICES ASSUME Init PROVE Consistent
  OBVIOUS
<1>1. /\ \A j \in Job : run[j].at = "none" /\ row[j] = "absent" /\ attached[j] = "none"
      /\ \A c \in Caller : call[c].at = "unused" /\ promise[c] = "none"
      /\ tick.at = "none" /\ phase = "open" /\ doubled = {} /\ \A j \in Job : behind[j] = 0
  BY DEF Init, NoRun, NoCall, NoTick
<1>2. Runs /\ Keys /\ Ticks /\ Calls
  BY <1>1 DEF Runs, RunTold, Keys, Ticks, Calls, Busy
<1>3. Waiters /\ Kept /\ Closing /\ CompletionTruthful
  BY <1>1 DEF Waiters, Kept, Closing, CompletionTruthful
<1> QED
  BY <1>2, <1>3 DEF Consistent

-----------------------------------------------------------------------------
(* What keeps the parts of the invariant.                                  *)

\* Rows end for good, and do not vanish.
Grows == \A j \in Job : /\ row[j] \in Terminal => row'[j] = row[j]
                        /\ row[j] # "absent" => row'[j] # "absent"

\* Who has submitted stays one who has.
Remembers == \A c \in Caller : call[c].at # "unused" => call'[c].at # "unused"

\* A step that leaves a run and what is busy of its row alone.
LEMMA RunStays ==
  ASSUME IInv, Grows, Remembers, NEW j \in Job, run'[j] = run[j],
         run[j].at \in Busy => row'[j] = "running"
  PROVE  RunTold(j)'
<1>1. RunTold(j) /\ j \in Caller /\ (Follow[j] # "none" => Follow[j] \in Job)
  BY FacadeAssumption DEF IInv, Consistent, Runs, Caller
<1>2. run[j].result # "again" => run[j].result \in Terminal
  BY DEF IInv, TypeOK, Result
<1>3. run[j].at = "written" /\ run[j].result # "again" => row'[j] = run[j].result
  BY <1>1, <1>2 DEF RunTold, Grows
<1>4. Follow[j] # "none" /\ row[Follow[j]] # "absent" => row'[Follow[j]] # "absent"
  BY <1>1 DEF Grows
<1>5. call[j].at # "unused" => call'[j].at # "unused"
  BY <1>1 DEF Remembers
<1> QED
  BY <1>1, <1>3, <1>4, <1>5 DEF RunTold

\* A step that begins no run, and leaves the keys alone.
LEMMA KeysStay ==
  ASSUME IInv, UNCHANGED <<durable, keys>>,
         \A j \in Job : run'[j].at # "none" => run[j].at # "none"
  PROVE  Keys'
  BY DEF IInv, Consistent, Keys, keys

\* A step that leaves callers and completions alone.
LEMMA CallsStay ==
  ASSUME IInv, Grows, UNCHANGED <<attached, promise, call, threw>>
  PROVE  Calls' /\ Waiters' /\ CompletionTruthful' /\ Remembers
<1>1. \A c \in Caller : call[c].at # "unused" => call[c].job \in Job
  BY DEF IInv, Placed
<1>2. Calls'
  <2> SUFFICES ASSUME NEW c \in Caller
               PROVE  /\ call[c].at # "unused" /\ c \in Job => call[c].job = Follow[c]
                      /\ call[c].at \in {"applied", "accepted"} => row'[call[c].job] # "absent"
                      /\ call[c].at = "applied" /\ call[c].seen \in Terminal
                           => row'[call[c].job] = call[c].seen
    BY DEF Calls
  <2>1. /\ call[c].at # "unused" /\ c \in Job => call[c].job = Follow[c]
        /\ call[c].at \in {"applied", "accepted"} => row[call[c].job] # "absent"
        /\ call[c].at = "applied" /\ call[c].seen \in Terminal => row[call[c].job] = call[c].seen
    BY DEF IInv, Consistent, Calls
  <2> QED
    BY <1>1, <2>1 DEF Grows
<1>3. Waiters' /\ Remembers
  BY DEF IInv, Consistent, Waiters, Remembers
<1>4. CompletionTruthful'
  <2> SUFFICES ASSUME NEW c \in Caller
               PROVE  /\ promise[c] = "resolved" => row'[call[c].job] \in {"succeeded", "cancelled"}
                      /\ promise[c] = "failed" => row'[call[c].job] = "failed"
    BY DEF CompletionTruthful
  <2>1. /\ promise[c] = "resolved" => row[call[c].job] \in {"succeeded", "cancelled"}
        /\ promise[c] = "failed" => row[call[c].job] = "failed"
        /\ promise[c] # "none" => call[c].job \in Job
    BY <1>1 DEF IInv, Consistent, CompletionTruthful, Waiters
  <2> QED
    BY <2>1 DEF Grows, Terminal
<1> QED
  BY <1>2, <1>3, <1>4

\* A submission: the deferred it shares is one of its job.
LEMMA SubmitKeeps ==
  ASSUME IInv, NEW c \in Caller, NEW j \in Job, Submits(c, j),
         UNCHANGED <<row, durable, threw>>,
         c \in Job => j = Follow[c], c \notin Job => call[c].at = "unused"
  PROVE  Calls' /\ Waiters' /\ Kept' /\ CompletionTruthful' /\ Remembers /\ call'[c].at # "unused"
<1> DEFINE maker == IF attached[j] = "none" THEN c ELSE attached[j]
<1>1. maker \in Caller
  BY DEF IInv, TypeOK
<1>2. maker # c => call[maker].at # "unused" /\ call[maker].job = j
  BY DEF IInv, Consistent, Waiters
<1>3. attached[j] # "none" => maker = attached[j]
  OBVIOUS
<1>4. /\ call' = [call EXCEPT ![c] = [job |-> j, shares |-> maker, at |-> "sent", seen |-> "absent"]]
      /\ attached' = [attached EXCEPT ![j] = maker]
      /\ promise' = [promise EXCEPT ![maker] = "open"]
  BY DEF Submits
<1> HIDE DEF maker
<1>5. /\ call'[c].job = j /\ call'[c].at = "sent"
      /\ \A d \in Caller : d # c => call'[d] = call[d]
      /\ attached'[j] = maker /\ \A i \in Job : i # j => attached'[i] = attached[i]
      /\ promise'[maker] = "open" /\ \A d \in Caller : d # maker => promise'[d] = promise[d]
  BY <1>1, <1>4 DEF IInv, TypeOK
<1>6. call[c].at # "unused" => call[c].job = j
  BY DEF IInv, Consistent, Calls
<1>7. call'[maker].at # "unused" /\ call'[maker].job = j
  BY <1>1, <1>2, <1>5
<1>8. maker # "none"
  BY <1>1, FacadeAssumption DEF Caller
<1>9. \A i \in Job : attached[i] # "none" => attached[i] \in Caller
  BY DEF IInv, TypeOK
<1>10. Remembers
  BY <1>5 DEF Remembers
<1>11. Calls'
  BY <1>5 DEF IInv, Consistent, Calls
<1>12. \A i \in Job : attached'[i] # "none" =>
         call'[attached'[i]].at # "unused" /\ call'[attached'[i]].job = i
  <2> SUFFICES ASSUME NEW i \in Job, attached'[i] # "none"
               PROVE  call'[attached'[i]].at # "unused" /\ call'[attached'[i]].job = i
    OBVIOUS
  <2>1. CASE i = j
    BY <2>1, <1>5, <1>7
  <2>2. CASE i # j
    <3>1. attached'[i] = attached[i] /\ call[attached[i]].at # "unused" /\ call[attached[i]].job = i
      BY <2>2, <1>5 DEF IInv, Consistent, Waiters
    <3> QED
      BY <3>1, <2>2, <1>5, <1>6, <1>9
  <2> QED
    BY <2>1, <2>2
<1>13. \A d \in Caller : promise'[d] # "none" => call'[d].at # "unused"
  BY <1>5, <1>7, <1>10 DEF IInv, Consistent, Waiters, Remembers
<1>14. ~threw => \A d \in Caller : promise'[d] = "open" => attached'[call'[d].job] = d
  <2> SUFFICES ASSUME ~threw, NEW d \in Caller, promise'[d] = "open"
               PROVE  attached'[call'[d].job] = d
    OBVIOUS
  <2>1. CASE d = maker
    BY <2>1, <1>5, <1>7
  <2>2. CASE d # maker
    <3>1. promise[d] = "open" /\ call[d].at # "unused" /\ attached[call[d].job] = d /\ call[d].job \in Job
      BY <2>2, <1>5 DEF IInv, Consistent, Waiters, Placed
    <3>2. d # "none"
      BY FacadeAssumption DEF Caller
    <3>3. call[d].job # j
      BY <3>1, <3>2, <2>2, <1>3
    <3> QED
      BY <3>1, <3>3, <1>5, <1>6
  <2> QED
    BY <2>1, <2>2
<1>15. Waiters'
  BY <1>12, <1>13, <1>14 DEF Waiters
<1>16. Kept'
  <2> SUFFICES ASSUME ~durable PROVE
      /\ \A i \in Job : row[i] \in {"pending", "running"} => attached'[i] # "none"
      /\ \A d \in Caller : call'[d].at = "sent" /\ row[call'[d].job] = "absent"
           => attached'[call'[d].job] # "none"
    BY DEF Kept
  <2>1. \A i \in Job : attached[i] # "none" => attached'[i] # "none"
    BY <1>5, <1>8
  <2>2. \A d \in Caller : call[d].at = "sent" => call[d].job \in Job
    BY DEF IInv, Placed
  <2> QED
    BY <2>1, <2>2, <1>5, <1>8 DEF IInv, Consistent, Kept
<1>17. CompletionTruthful'
  <2> SUFFICES ASSUME NEW d \in Caller
               PROVE  /\ promise'[d] = "resolved" => row[call'[d].job] \in {"succeeded", "cancelled"}
                      /\ promise'[d] = "failed" => row[call'[d].job] = "failed"
    BY DEF CompletionTruthful
  <2>1. CASE d = maker
    BY <2>1, <1>5
  <2>2. CASE d # maker
    <3>1. promise'[d] = promise[d] /\ (promise[d] # "none" => call[d].at # "unused")
      BY <2>2, <1>5 DEF IInv, Consistent, Waiters
    <3>2. promise[d] # "none" => call'[d].job = call[d].job
      BY <3>1, <1>5, <1>6
    <3> QED
      BY <3>1, <3>2 DEF IInv, Consistent, CompletionTruthful
  <2> QED
    BY <2>1, <2>2
<1> QED
  BY <1>5, <1>10, <1>11, <1>15, <1>16, <1>17

\* A settlement that knows the truth about its rows tells it.
LEMMA SettleKeeps ==
  ASSUME IInv, NEW S \in SUBSET Job, NEW st, \A j \in S : st[j] \in Terminal => row[j] = st[j],
         Settle(S, st), UNCHANGED <<row, durable, threw>>,
         \A c \in Caller : /\ call'[c].job = call[c].job
                           /\ call[c].at # "unused" => call'[c].at # "unused"
                           /\ call'[c].at = "sent" => call[c].at = "sent"
  PROVE  /\ Waiters' /\ Kept' /\ CompletionTruthful'
         /\ \A j \in Job : attached[j] = "none" => attached'[j] = "none"
<1> DEFINE ended == {j \in S : st[j] \in Terminal /\ attached[j] # "none"}
<1>1. /\ attached' = [j \in Job |-> IF j \in ended THEN "none" ELSE attached[j]]
      /\ promise' = [c \in Caller |-> IF \E j \in ended : attached[j] = c
                                      THEN Outcome(st[CHOOSE j \in ended : attached[j] = c])
                                      ELSE promise[c]]
  BY DEF Settle
<1>2. \A j \in ended : j \in Job /\ st[j] \in Terminal /\ row[j] = st[j] /\ attached[j] # "none"
  OBVIOUS
<1> HIDE DEF ended
<1>3. \A j \in Job : attached[j] # "none" =>
        attached[j] \in Caller /\ call[attached[j]].at # "unused" /\ call[attached[j]].job = j
  BY DEF IInv, Consistent, Waiters, TypeOK
<1>4. \A j \in Job : /\ attached'[j] \in {attached[j], "none"}
                     /\ attached'[j] # attached[j] => j \in ended
  BY <1>1
<1>5. ASSUME NEW c \in Caller, NEW j \in ended, attached[j] = c
      PROVE  promise'[c] = Outcome(row[j]) /\ call[c].job = j /\ call[c].at # "unused"
  <2>1. \A i \in ended : attached[i] = c => i = j
    BY <1>2, <1>3, <1>5
  <2>2. (CHOOSE i \in ended : attached[i] = c) = j
    BY <2>1, <1>5
  <2>3. promise'[c] = Outcome(st[j])
    BY <2>2, <1>1, <1>5
  <2> QED
    BY <2>3, <1>2, <1>3, <1>5
<1>6. \A c \in Caller : (\A j \in ended : attached[j] # c) => promise'[c] = promise[c]
  BY <1>1
<1>7. \A s : Outcome(s) \in {"resolved", "failed"} /\ (Outcome(s) = "failed" <=> s = "failed")
  BY DEF Outcome
<1>8. Waiters'
  <2>1. \A j \in Job : attached'[j] # "none" =>
          call'[attached'[j]].at # "unused" /\ call'[attached'[j]].job = j
    BY <1>3, <1>4
  <2>2. \A c \in Caller : promise'[c] # "none" => call'[c].at # "unused"
    <3> SUFFICES ASSUME NEW c \in Caller, promise'[c] # "none" PROVE call[c].at # "unused"
      OBVIOUS
    <3>1. CASE \E j \in ended : attached[j] = c
      BY <3>1, <1>5
    <3>2. CASE \A j \in ended : attached[j] # c
      BY <3>2, <1>6 DEF IInv, Consistent, Waiters
    <3> QED
      BY <3>1, <3>2
  <2>3. ~threw => \A c \in Caller : promise'[c] = "open" => attached'[call'[c].job] = c
    <3> SUFFICES ASSUME ~threw, NEW c \in Caller, promise'[c] = "open"
                 PROVE  attached'[call[c].job] = c
      OBVIOUS
    <3>1. \A j \in ended : attached[j] # c
      BY <1>5, <1>7
    <3>2. attached[call[c].job] = c /\ call[c].job \in Job
      BY <3>1, <1>6 DEF IInv, Consistent, Waiters, Placed
    <3> QED
      BY <3>1, <3>2, <1>4
  <2> QED
    BY <2>1, <2>2, <2>3 DEF Waiters
<1>9. Kept'
  <2> SUFFICES ASSUME ~durable PROVE
      /\ \A j \in Job : row[j] \in {"pending", "running"} => attached'[j] # "none"
      /\ \A c \in Caller : call'[c].at = "sent" /\ row[call[c].job] = "absent"
           => attached'[call[c].job] # "none"
    BY DEF Kept
  <2>1. \A j \in Job : attached'[j] # attached[j] => row[j] \in Terminal
    BY <1>2, <1>4
  <2>2. \A c \in Caller : call[c].at = "sent" => call[c].job \in Job
    BY DEF IInv, Placed
  <2> QED
    BY <2>1, <2>2 DEF IInv, Consistent, Kept, Terminal
<1>10. CompletionTruthful'
  <2> SUFFICES ASSUME NEW c \in Caller
               PROVE  /\ promise'[c] = "resolved" => row[call[c].job] \in {"succeeded", "cancelled"}
                      /\ promise'[c] = "failed" => row[call[c].job] = "failed"
    BY DEF CompletionTruthful
  <2>1. ASSUME NEW j \in ended, attached[j] = c
        PROVE  /\ promise'[c] = "resolved" => row[call[c].job] \in {"succeeded", "cancelled"}
               /\ promise'[c] = "failed" => row[call[c].job] = "failed"
    BY <2>1, <1>2, <1>5, <1>7 DEF Terminal
  <2>2. CASE \A j \in ended : attached[j] # c
    BY <2>2, <1>6 DEF IInv, Consistent, CompletionTruthful
  <2> QED
    BY <2>1, <2>2
<1> QED
  BY <1>4, <1>8, <1>9, <1>10
-----------------------------------------------------------------------------
(* The steps of submissions.                                               *)

\* The whole of a step that leaves rows, runs, tick and shutdown alone.
LEMMA RestStays ==
  ASSUME IInv, Remembers, UNCHANGED <<row, durable, accepting, claiming, phase, run, keys, tick>>,
         \A j \in Job : attached[j] = "none" /\ ~accepting => attached'[j] = "none"
  PROVE  Runs' /\ Keys' /\ Ticks' /\ Closing'
<1>1. Grows
  BY DEF Grows
<1>2. Runs'
  <2>1. ASSUME NEW j \in Job PROVE RunTold(j)'
    <3>1. run[j].at \in Busy => row'[j] = "running"
      BY DEF IInv, Consistent, Runs, RunTold
    <3> QED
      BY <3>1, <1>1, RunStays
  <2> QED
    BY <2>1 DEF Runs
<1>3. Ticks'
  BY DEF IInv, Consistent, Ticks
<1>4. Closing'
  BY DEF IInv, Consistent, Closing, keys
<1> QED
  BY <1>2, <1>3, <1>4, KeysStay

LEMMA ClientSubmitsKeeps ==
  ASSUME IInv, NEW c \in Client, NEW j \in Job, ClientSubmits(c, j)
  PROVE  Consistent'
<1>1. /\ Submits(c, j) /\ call[c].at = "unused" /\ accepting
      /\ UNCHANGED <<row, durable, accepting, claiming, phase, run, keys, tick, left, threw>>
  BY DEF ClientSubmits, Submits, flags, spare
<1>2. c \in Caller /\ c \notin Job
  BY FacadeAssumption DEF Caller
<1>3. Calls' /\ Waiters' /\ Kept' /\ CompletionTruthful' /\ Remembers
  BY <1>1, <1>2, SubmitKeeps
<1>4. Runs' /\ Keys' /\ Ticks' /\ Closing'
  BY <1>1, <1>3, RestStays
<1> QED
  BY <1>3, <1>4 DEF Consistent

LEMMA EnsuredKeeps ==
  ASSUME IInv, NEW c \in Caller, Ensured(c)
  PROVE  Consistent'
<1> DEFINE j == call[c].job
<1>1. /\ call[c].at = "sent" /\ j \in Job
      /\ row' = [row EXCEPT ![j] = IF @ = "absent" THEN "pending" ELSE @]
      /\ call' = [call EXCEPT ![c].at = "applied", ![c].seen = row'[j]]
      /\ UNCHANGED <<durable, accepting, claiming, phase, attached, promise, run, keys, tick, left, threw>>
  BY DEF Ensured, flags, told, spare, IInv, Placed
<1>2. /\ row'[j] = IF row[j] = "absent" THEN "pending" ELSE row[j]
      /\ \A i \in Job : i # j => row'[i] = row[i]
  BY <1>1 DEF IInv, TypeOK
<1>3. /\ call'[c].job = j /\ call'[c].at = "applied" /\ call'[c].seen = row'[j]
      /\ \A d \in Caller : d # c => call'[d] = call[d]
      /\ \A d \in Caller : call'[d].job = call[d].job
  BY <1>1 DEF IInv, TypeOK
<1> HIDE DEF j
<1>4. j = call[c].job
  BY DEF j
<1>5. Grows /\ Remembers
  BY <1>1, <1>2, <1>3 DEF Grows, Remembers, Terminal
<1>6. Runs'
  <2>1. ASSUME NEW i \in Job PROVE RunTold(i)'
    <3>1. run[i].at \in Busy => row[i] = "running"
      BY DEF IInv, Consistent, Runs, RunTold
    <3> QED
      BY <1>1, <1>2, <1>5, <3>1, RunStays
  <2> QED
    BY <2>1 DEF Runs
<1>7. Ticks'
  <2>1. tick.jobs \subseteq Job
    BY DEF IInv, TypeOK
  <2> QED
    BY <1>1, <1>2, <2>1 DEF IInv, Consistent, Ticks
<1>8. Calls'
  <2> SUFFICES ASSUME NEW d \in Caller
               PROVE  /\ call'[d].at # "unused" /\ d \in Job => call'[d].job = Follow[d]
                      /\ call'[d].at \in {"applied", "accepted"} => row'[call'[d].job] # "absent"
                      /\ call'[d].at = "applied" /\ call'[d].seen \in Terminal
                           => row'[call'[d].job] = call'[d].seen
    BY DEF Calls
  <2>1. CASE d = c
    BY <2>1, <1>1, <1>2, <1>3, <1>4 DEF IInv, Consistent, Calls
  <2>2. CASE d # c
    <3>1. /\ call[d].at # "unused" => call[d].job \in Job
          /\ call[d].at # "unused" /\ d \in Job => call[d].job = Follow[d]
          /\ call[d].at \in {"applied", "accepted"} => row[call[d].job] # "absent"
          /\ call[d].at = "applied" /\ call[d].seen \in Terminal => row[call[d].job] = call[d].seen
      BY DEF IInv, Placed, Consistent, Calls
    <3> QED
      BY <2>2, <3>1, <1>3, <1>5 DEF Grows
  <2> QED
    BY <2>1, <2>2
<1>9. Waiters'
  BY <1>1, <1>3, <1>5 DEF IInv, Consistent, Waiters, Remembers, TypeOK
<1>10. Kept'
  <2> SUFFICES ASSUME ~durable PROVE
      /\ \A i \in Job : row'[i] \in {"pending", "running"} => attached[i] # "none"
      /\ \A d \in Caller : call'[d].at = "sent" /\ row'[call'[d].job] = "absent"
           => attached[call'[d].job] # "none"
    BY <1>1 DEF Kept
  <2>1. /\ \A i \in Job : row[i] \in {"pending", "running"} => attached[i] # "none"
        /\ \A d \in Caller : call[d].at = "sent" /\ row[call[d].job] = "absent"
             => attached[call[d].job] # "none"
    BY DEF IInv, Consistent, Kept
  <2>2. row[j] = "absent" => attached[j] # "none"
    BY <2>1, <1>1, <1>4
  <2>3. \A d \in Caller : call[d].at = "sent" => call[d].job \in Job
    BY DEF IInv, Placed
  <2> QED
    BY <2>1, <2>2, <2>3, <1>2, <1>3, <1>5 DEF Grows
<1>11. Closing'
  <2>1. phase = "closed" /\ ~durable => row' = row
    <3>1. phase = "closed" /\ ~durable => row[j] # "absent"
      BY <1>1, <1>4 DEF IInv, Consistent, Closing, Kept
    <3> QED
      BY <3>1, <1>1, <1>2 DEF IInv, TypeOK
  <2> QED
    BY <2>1, <1>1 DEF IInv, Consistent, Closing, keys
<1>12. Keys'
  BY <1>1, KeysStay
<1>13. CompletionTruthful'
  <2> SUFFICES ASSUME NEW d \in Caller
               PROVE  /\ promise[d] = "resolved" => row'[call[d].job] \in {"succeeded", "cancelled"}
                      /\ promise[d] = "failed" => row'[call[d].job] = "failed"
    BY <1>1, <1>3 DEF CompletionTruthful
  <2>1. /\ promise[d] = "resolved" => row[call[d].job] \in {"succeeded", "cancelled"}
        /\ promise[d] = "failed" => row[call[d].job] = "failed"
        /\ promise[d] # "none" => call[d].job \in Job
    BY DEF IInv, Consistent, CompletionTruthful, Waiters, Placed
  <2> QED
    BY <2>1, <1>5 DEF Grows, Terminal
<1> QED
  BY <1>6, <1>7, <1>8, <1>9, <1>10, <1>11, <1>12, <1>13 DEF Consistent

LEMMA AcceptedKeeps ==
  ASSUME IInv, NEW c \in Caller, Accepted(c)
  PROVE  Consistent'
<1> DEFINE st == [row EXCEPT ![call[c].job] = call[c].seen]
<1>1. /\ call[c].at = "applied" /\ call' = [call EXCEPT ![c].at = "accepted"]
      /\ Settle({call[c].job}, st)
      /\ UNCHANGED <<row, durable, accepting, claiming, phase, run, keys, tick, left, threw>>
  BY DEF Accepted, flags, spare
<1>2. call[c].job \in Job /\ st[call[c].job] = call[c].seen
  BY <1>1 DEF IInv, Placed, TypeOK
<1>3. \A j \in {call[c].job} : st[j] \in Terminal => row[j] = st[j]
  BY <1>1, <1>2 DEF IInv, Consistent, Calls
<1> HIDE DEF st
<1>4. /\ call'[c].at = "accepted" /\ \A d \in Caller : call'[d].job = call[d].job
      /\ \A d \in Caller : d # c => call'[d] = call[d]
  BY <1>1 DEF IInv, TypeOK
<1>5. Remembers /\ \A d \in Caller : call'[d].at = "sent" => call[d].at = "sent"
  BY <1>4 DEF Remembers
<1>6. /\ Waiters' /\ Kept' /\ CompletionTruthful'
      /\ \A j \in Job : attached[j] = "none" => attached'[j] = "none"
  BY <1>1, <1>2, <1>3, <1>4, <1>5, SettleKeeps DEF Remembers
<1>7. Calls'
  BY <1>1, <1>4 DEF IInv, Consistent, Calls
<1>8. Runs' /\ Keys' /\ Ticks' /\ Closing'
  BY <1>1, <1>5, <1>6, RestStays
<1> QED
  BY <1>6, <1>7, <1>8 DEF Consistent

LEMMA EnsureFailsKeeps ==
  ASSUME IInv, NEW c \in Caller, EnsureFails(c)
  PROVE  Consistent'
<1>1. /\ durable /\ call[c].at \in {"sent", "applied"} /\ threw'
      /\ call' = [call EXCEPT ![c].at = "failed"]
      /\ promise' = [promise EXCEPT ![call[c].shares] = IF @ = "open" THEN "error" ELSE @]
      /\ attached' = [attached EXCEPT ![call[c].job] = "none"]
      /\ UNCHANGED <<row, durable, accepting, claiming, phase, run, keys, tick>>
  BY DEF EnsureFails, flags
<1>2. /\ call'[c].at = "failed" /\ \A d \in Caller : call'[d].job = call[d].job
      /\ \A d \in Caller : d # c => call'[d] = call[d]
  BY <1>1 DEF IInv, TypeOK
<1>3. /\ \A j \in Job : attached'[j] \in {attached[j], "none"}
      /\ \A j \in Job : attached[j] # "none" => attached[j] \in Caller
      /\ \A d \in Caller : promise'[d] # promise[d] => promise[d] = "open" /\ promise'[d] = "error"
  BY <1>1 DEF IInv, TypeOK
<1>4. Remembers
  BY <1>1, <1>2 DEF Remembers
<1>5. Calls'
  BY <1>1, <1>2 DEF IInv, Consistent, Calls
<1>6. Waiters'
  <2>1. \A j \in Job : attached'[j] # "none" =>
          call'[attached'[j]].at # "unused" /\ call'[attached'[j]].job = j
    BY <1>2, <1>3, <1>4 DEF IInv, Consistent, Waiters, Remembers
  <2>2. \A d \in Caller : promise'[d] # "none" => call'[d].at # "unused"
    BY <1>3, <1>4 DEF IInv, Consistent, Waiters, Remembers
  <2> QED
    BY <2>1, <2>2, <1>1 DEF Waiters
<1>7. Kept'
  BY <1>1 DEF Kept
<1>8. CompletionTruthful'
  BY <1>1, <1>2, <1>3 DEF IInv, Consistent, CompletionTruthful
<1>9. Runs' /\ Keys' /\ Ticks' /\ Closing'
  BY <1>1, <1>3, <1>4, RestStays
<1> QED
  BY <1>5, <1>6, <1>7, <1>8, <1>9 DEF Consistent
-----------------------------------------------------------------------------
(* The steps of runs.                                                      *)

\* A run in progress is in nobody's claim, and a process that is closed before
\* its end leaves its job to a durable store.
LEMMA BusyFacts ==
  ASSUME IInv, NEW j \in Job, run[j].at \in Busy
  PROVE  row[j] = "running" /\ (phase = "closed" => durable) /\ (tick.at = "begin" => j \notin tick.jobs)
<1>1. row[j] = "running"
  BY DEF IInv, Consistent, Runs, RunTold
<1>2. run[j].at # "none"
  BY DEF Busy
<1> QED
  BY <1>1, <1>2 DEF IInv, Consistent, Closing, Keys, Ticks

\* A run that ends with a result: a good one only behind its follow-up.
LEMMA EndsKeeps ==
  ASSUME IInv, NEW j \in Job, run[j].at \in {"working", "waiting"}, NEW s \in Result, Ends(j, s),
         s \in Worked /\ Follow[j] # "none" => row[Follow[j]] # "absent",
         UNCHANGED <<row, durable, accepting, claiming, phase, attached, promise, call, keys, tick, threw>>
  PROVE  Consistent'
<1>1. run[j].at \in Busy
  BY DEF Busy
<1>2. row[j] = "running" /\ (phase = "closed" => durable) /\ (tick.at = "begin" => j \notin tick.jobs)
  BY <1>1, BusyFacts
<1>3. /\ run'[j].at = "writing" /\ run'[j].result = s
      /\ \A i \in Job : i # j => run'[i] = run[i]
  BY DEF Ends, IInv, TypeOK
<1>4. Grows /\ Calls' /\ Waiters' /\ CompletionTruthful' /\ Remembers
  BY CallsStay DEF Grows
<1>5. Runs'
  <2>1. ASSUME NEW i \in Job, i # j PROVE RunTold(i)'
    <3>1. run[i].at \in Busy => row'[i] = "running"
      BY DEF IInv, Consistent, Runs, RunTold
    <3> QED
      BY <2>1, <3>1, <1>3, <1>4, RunStays
  <2>2. RunTold(j)'
    BY <1>2, <1>3 DEF RunTold
  <2> QED
    BY <2>1, <2>2 DEF Runs
<1>6. Ticks'
  <2>1. tick.jobs \subseteq Job
    BY DEF IInv, TypeOK
  <2> QED
    BY <2>1, <1>2, <1>3 DEF IInv, Consistent, Ticks
<1>7. Kept' /\ Closing'
  BY <1>2 DEF IInv, Consistent, Kept, Closing, keys
<1>8. Keys'
  BY <1>1, <1>3, KeysStay DEF Busy
<1> QED
  BY <1>4, <1>5, <1>6, <1>7, <1>8 DEF Consistent

LEMMA WorksKeeps ==
  ASSUME IInv, NEW j \in Job, Works(j)
  PROVE  Consistent'
<1>1. run[j].at = "working"
      /\ UNCHANGED <<row, durable, accepting, claiming, phase, attached, promise, call, keys, tick, threw>>
  BY DEF Works, flags, told
<1>2. \E s \in Result : Ends(j, s) /\ (s \in Worked => Follow[j] = "none")
  BY DEF Works, Result, Terminal, Worked
<1> QED
  BY <1>1, <1>2, EndsKeeps

\* A refusal is no good end.
LEMMA RefusalEnds == \A j \in Job : Refusal(j) \in Result /\ Refusal(j) \notin Worked
  BY DEF Refusal, Result, Terminal, Worked

LEMMA FollowsUpKeeps ==
  ASSUME IInv, NEW j \in Job, FollowsUp(j)
  PROVE  Consistent'
<1>1. run[j].at = "working" /\ Follow[j] # "none"
      /\ UNCHANGED <<row, durable, accepting, claiming, phase, keys, tick, left, threw>>
  BY DEF FollowsUp, flags, spare
<1>2. CASE Ends(j, Refusal(j)) /\ UNCHANGED <<call, told>>
  BY <1>1, <1>2, RefusalEnds, EndsKeeps DEF told
<1>3. CASE Submits(j, Follow[j]) /\ run' = [run EXCEPT ![j].at = "waiting"]
  <2>1. j \in Caller /\ Follow[j] \in Job /\ j \in Job
    BY <1>1, FacadeAssumption DEF Caller
  <2>2. /\ Calls' /\ Waiters' /\ Kept' /\ CompletionTruthful' /\ Remembers
        /\ call'[j].at # "unused"
    BY <1>1, <1>3, <2>1, SubmitKeeps
  <2>3. run'[j].at = "waiting" /\ \A i \in Job : i # j => run'[i] = run[i]
    BY <1>3 DEF IInv, TypeOK
  <2>4. run[j].at \in Busy
    BY <1>1 DEF Busy
  <2>5. row[j] = "running" /\ (phase = "closed" => durable) /\ (tick.at = "begin" => j \notin tick.jobs)
    BY <2>4, BusyFacts
  <2>6. Runs'
    <3>1. ASSUME NEW i \in Job, i # j PROVE RunTold(i)'
      <4>1. run[i].at \in Busy => row'[i] = "running"
        BY <1>1 DEF IInv, Consistent, Runs, RunTold
      <4>2. Grows
        BY <1>1 DEF Grows
      <4> QED
        BY <3>1, <4>1, <4>2, <2>2, <2>3, RunStays
    <3>2. RunTold(j)'
      BY <1>1, <2>2, <2>3, <2>5 DEF RunTold
    <3> QED
      BY <3>1, <3>2 DEF Runs
  <2>7. Ticks'
    <3>1. tick.jobs \subseteq Job
      BY DEF IInv, TypeOK
    <3> QED
      BY <3>1, <1>1, <2>3, <2>5 DEF IInv, Consistent, Ticks
  <2>8. Closing'
    <3>1. phase = "open"
      BY <1>3 DEF Submits, IInv, Consistent, Closing
    <3> QED
      BY <3>1, <1>1 DEF Closing
  <2>9. Keys'
    BY <1>1, <2>3, KeysStay
  <2> QED
    BY <2>2, <2>6, <2>7, <2>8, <2>9 DEF Consistent
<1> QED
  BY <1>2, <1>3 DEF FollowsUp

LEMMA WaitsKeeps ==
  ASSUME IInv, NEW j \in Job, Waits(j)
  PROVE  Consistent'
<1>1. run[j].at = "waiting"
      /\ UNCHANGED <<row, durable, accepting, claiming, phase, attached, promise, call, keys, tick, left, threw>>
  BY DEF Waits, flags, told, spare
<1>2. CASE call[j].at = "failed" /\ Ends(j, Refusal(j))
  BY <1>1, <1>2, RefusalEnds, EndsKeeps
<1>3. ASSUME call[j].at = "accepted", NEW s \in {"succeeded", "cancelled"}, Ends(j, s)
      PROVE  Consistent'
  <2>1. j \in Caller
    BY DEF Caller
  <2>2. call[j].job = Follow[j] /\ row[call[j].job] # "absent"
    BY <1>3, <2>1 DEF IInv, Consistent, Calls
  <2>3. s \in Result
    BY DEF Result, Terminal
  <2> QED
    BY <1>1, <1>3, <2>2, <2>3, EndsKeeps
<1> QED
  BY <1>2, <1>3 DEF Waits

LEMMA WritesKeeps ==
  ASSUME IInv, NEW j \in Job, Writes(j)
  PROVE  Consistent'
<1> DEFINE s == IF run[j].result = "again" THEN "pending" ELSE run[j].result
<1>1. /\ run[j].at = "writing"
      /\ row' = [row EXCEPT ![j] = s]
      /\ run' = [run EXCEPT ![j].at = "written"]
      /\ UNCHANGED <<durable, accepting, claiming, phase, attached, promise, call, keys, tick, left, threw>>
  BY DEF Writes, flags, told, spare
<1>2. s # "absent" /\ s # "running" /\ (run[j].result # "again" => s = run[j].result)
  BY DEF IInv, TypeOK, Result, Terminal
<1> HIDE DEF s
<1>3. run[j].at \in Busy
  BY <1>1 DEF Busy
<1>4. row[j] = "running" /\ (phase = "closed" => durable) /\ (tick.at = "begin" => j \notin tick.jobs)
  BY <1>3, BusyFacts
<1>5. /\ row'[j] = s /\ \A i \in Job : i # j => row'[i] = row[i]
      /\ run'[j].at = "written" /\ run'[j].result = run[j].result
      /\ \A i \in Job : i # j => run'[i] = run[i]
  BY <1>1 DEF IInv, TypeOK
<1>6. Grows
  BY <1>2, <1>4, <1>5 DEF Grows, Terminal
<1>7. Calls' /\ Waiters' /\ CompletionTruthful' /\ Remembers
  BY <1>1, <1>6, CallsStay
<1>8. Runs'
  <2>1. ASSUME NEW i \in Job, i # j PROVE RunTold(i)'
    <3>1. run[i].at \in Busy => row'[i] = "running"
      BY <2>1, <1>5 DEF IInv, Consistent, Runs, RunTold
    <3> QED
      BY <2>1, <3>1, <1>5, <1>6, <1>7, RunStays
  <2>2. RunTold(j)'
    <3>1. run[j].result \in Worked /\ Follow[j] # "none" => row[Follow[j]] # "absent" /\ Follow[j] \in Job
      BY <1>1, FacadeAssumption DEF IInv, Consistent, Runs, RunTold
    <3>2. run[j].result \in Worked /\ Follow[j] # "none" => row'[Follow[j]] # "absent"
      BY <3>1, <1>6 DEF Grows
    <3> QED
      BY <1>2, <1>5, <3>2 DEF RunTold, Busy
  <2> QED
    BY <2>1, <2>2 DEF Runs
<1>9. Ticks'
  <2>1. tick.jobs \subseteq Job
    BY DEF IInv, TypeOK
  <2> QED
    BY <2>1, <1>1, <1>4, <1>5 DEF IInv, Consistent, Ticks
<1>10. Kept'
  <2> SUFFICES ASSUME ~durable PROVE
      /\ \A i \in Job : row'[i] \in {"pending", "running"} => attached[i] # "none"
      /\ \A d \in Caller : call[d].at = "sent" /\ row'[call[d].job] = "absent"
           => attached[call[d].job] # "none"
    BY <1>1 DEF Kept
  <2>1. /\ \A i \in Job : row[i] \in {"pending", "running"} => attached[i] # "none"
        /\ \A d \in Caller : call[d].at = "sent" /\ row[call[d].job] = "absent"
             => attached[call[d].job] # "none"
    BY DEF IInv, Consistent, Kept
  <2>2. \A d \in Caller : call[d].at = "sent" => call[d].job \in Job
    BY DEF IInv, Placed
  <2> QED
    BY <2>1, <2>2, <1>4, <1>5, <1>6 DEF Grows
<1>11. Closing'
  BY <1>1, <1>4 DEF IInv, Consistent, Closing, keys
<1>12. Keys'
  BY <1>1, <1>5, KeysStay
<1> QED
  BY <1>7, <1>8, <1>9, <1>10, <1>11, <1>12 DEF Consistent

LEMMA FinishesKeeps ==
  ASSUME IInv, NEW j \in Job, Finishes(j)
  PROVE  Consistent'
<1> DEFINE st == [row EXCEPT ![j] = run[j].result]
<1>1. /\ run[j].at = "written" /\ Settle({j}, st)
      /\ run' = [run EXCEPT ![j] = NoRun]
      /\ active' = active \ {j} /\ awaited' = awaited \ {j}
      /\ doubled' = IF behind[j] = 0 THEN doubled \ {j} ELSE doubled
      /\ UNCHANGED <<row, durable, accepting, claiming, phase, call, behind, tick, left, threw>>
  BY DEF Finishes, flags, spare
<1>2. \A i \in {j} : st[i] \in Terminal => row[i] = st[i]
  <2>1. st[j] = run[j].result
    BY DEF IInv, TypeOK
  <2>2. run[j].result \in Terminal => run[j].result # "again"
    BY DEF Terminal
  <2> QED
    BY <2>1, <2>2, <1>1 DEF IInv, Consistent, Runs, RunTold
<1> HIDE DEF st
<1>3. /\ Waiters' /\ Kept' /\ CompletionTruthful'
      /\ \A i \in Job : attached[i] = "none" => attached'[i] = "none"
  BY <1>1, <1>2, SettleKeeps
<1>4. run'[j].at = "none" /\ \A i \in Job : i # j => run'[i] = run[i]
  BY <1>1 DEF IInv, TypeOK, NoRun
<1>5. Grows /\ Remembers
  BY <1>1 DEF Grows, Remembers
<1>6. Runs'
  <2>1. ASSUME NEW i \in Job, i # j PROVE RunTold(i)'
    <3>1. run[i].at \in Busy => row'[i] = "running"
      BY <1>1 DEF IInv, Consistent, Runs, RunTold
    <3> QED
      BY <2>1, <3>1, <1>4, <1>5, RunStays
  <2>2. RunTold(j)'
    BY <1>4 DEF RunTold, Busy
  <2> QED
    BY <2>1, <2>2 DEF Runs
<1>7. Ticks'
  <2>1. tick.jobs \subseteq Job
    BY DEF IInv, TypeOK
  <2> QED
    BY <2>1, <1>1, <1>4 DEF IInv, Consistent, Ticks, Busy
<1>8. Calls'
  BY <1>1 DEF IInv, Consistent, Calls
<1>9. Closing'
  BY <1>1, <1>3 DEF IInv, Consistent, Closing
<1>10. Keys'
  <2>1. behind \in [Job -> Nat]
    BY DEF IInv, TypeOK
  <2> QED
    BY <2>1, <1>1, <1>4 DEF IInv, Consistent, Keys
<1> QED
  BY <1>3, <1>6, <1>7, <1>8, <1>9, <1>10 DEF Consistent

\* Rows move under runs that are not busy with them, and nothing else does.
LEMMA RowsMove ==
  ASSUME IInv, Grows, \A j \in Job : row[j] = "running" => row'[j] = "running",
         UNCHANGED <<durable, attached, promise, call, run, threw>>
  PROVE  Runs' /\ Calls' /\ Waiters' /\ CompletionTruthful'
<1>1. Calls' /\ Waiters' /\ CompletionTruthful' /\ Remembers
  BY CallsStay
<1>2. ASSUME NEW j \in Job PROVE RunTold(j)'
  <2>1. run[j].at \in Busy => row'[j] = "running"
    BY DEF IInv, Consistent, Runs, RunTold
  <2> QED
    BY <2>1, <1>1, RunStays
<1> QED
  BY <1>1, <1>2 DEF Runs

LEMMA FinishesBehindKeeps ==
  ASSUME IInv, NEW j \in Job, FinishesBehind(j)
  PROVE  Consistent'
<1>1. /\ behind[j] > 0 /\ behind' = [behind EXCEPT ![j] = @ - 1]
      /\ active' = active \ {j}
      /\ doubled' = IF behind[j] = 1 /\ run[j].at = "none" THEN doubled \ {j} ELSE doubled
      /\ UNCHANGED <<row, durable, accepting, claiming, phase, attached, promise, call, run, awaited, tick, threw>>
  BY DEF FinishesBehind, flags, told, spare
<1>2. Runs' /\ Calls' /\ Waiters' /\ CompletionTruthful'
  BY <1>1, RowsMove DEF Grows
<1>3. Ticks' /\ Kept'
  BY <1>1 DEF IInv, Consistent, Ticks, Kept
<1>4. Closing'
  BY <1>1 DEF IInv, Consistent, Closing
<1>5. Keys'
  <2>1. behind \in [Job -> Nat]
    BY DEF IInv, TypeOK
  <2>2. behind'[j] = behind[j] - 1 /\ \A i \in Job : i # j => behind'[i] = behind[i]
    BY <2>1, <1>1
  <2> QED
    BY <2>1, <2>2, <1>1 DEF IInv, Consistent, Keys
<1> QED
  BY <1>2, <1>3, <1>4, <1>5 DEF Consistent
-----------------------------------------------------------------------------
(* The steps of the world, the tick and the shutdown.                      *)

LEMMA ElsewhereKeeps ==
  ASSUME IInv, NEW j \in Job, Elsewhere(j)
  PROVE  Consistent'
<1>1. /\ durable /\ row[j] = "pending"
      /\ UNCHANGED <<durable, accepting, claiming, phase, attached, promise, call, run, keys, tick, left, threw>>
  BY DEF Elsewhere, flags, told, spare
<1>2. \A i \in Job : row'[i] # row[i] =>
        \/ row[i] = "pending" /\ row'[i] \in Terminal
        \/ row[i] = "absent" /\ row'[i] = "pending"
  BY DEF Elsewhere
<1>3. Grows /\ \A i \in Job : row[i] = "running" => row'[i] = "running"
  BY <1>2 DEF Grows, Terminal
<1>4. Runs' /\ Calls' /\ Waiters' /\ CompletionTruthful'
  BY <1>1, <1>3, RowsMove
<1>5. Ticks'
  <2>1. tick.jobs \subseteq Job
    BY DEF IInv, TypeOK
  <2> QED
    BY <2>1, <1>1, <1>3 DEF IInv, Consistent, Ticks
<1>6. Kept' /\ Closing'
  BY <1>1 DEF IInv, Consistent, Kept, Closing, keys
<1>7. Keys'
  BY <1>1, KeysStay
<1> QED
  BY <1>4, <1>5, <1>6, <1>7 DEF Consistent

LEMMA CancelPendingKeeps ==
  ASSUME IInv, NEW j \in Job, CancelPending(j)
  PROVE  Consistent'
<1>1. /\ row[j] = "pending"
      /\ UNCHANGED <<durable, accepting, claiming, phase, attached, promise, call, run, keys, tick, left, threw>>
  BY DEF CancelPending, flags, told, spare
<1>2. row'[j] = "cancelled" /\ \A i \in Job : i # j => row'[i] = row[i]
  BY DEF CancelPending, IInv, TypeOK
<1>3. Grows /\ \A i \in Job : row[i] = "running" => row'[i] = "running"
  BY <1>1, <1>2 DEF Grows, Terminal
<1>4. Runs' /\ Calls' /\ Waiters' /\ CompletionTruthful'
  BY <1>1, <1>3, RowsMove
<1>5. Ticks'
  <2>1. tick.jobs \subseteq Job
    BY DEF IInv, TypeOK
  <2> QED
    BY <2>1, <1>1, <1>3 DEF IInv, Consistent, Ticks
<1>6. \A i \in Job : row'[i] \in {"absent", "pending", "running"} => row'[i] = row[i]
  BY <1>2
<1>7. \A c \in Caller : call[c].at = "sent" => call[c].job \in Job
  BY DEF IInv, Placed
<1>8. Kept'
  BY <1>1, <1>6, <1>7 DEF IInv, Consistent, Kept
<1>9. Closing'
  BY <1>1, <1>6 DEF IInv, Consistent, Closing, keys
<1>10. Keys'
  BY <1>1, KeysStay
<1> QED
  BY <1>4, <1>5, <1>8, <1>9, <1>10 DEF Consistent

LEMMA LooksKeeps ==
  ASSUME IInv, Looks
  PROVE  Consistent'
<1>1. /\ claiming /\ tick'.at = "news"
      /\ UNCHANGED <<row, durable, accepting, claiming, phase, attached, promise, call, run, keys, left, threw>>
  BY DEF Looks, flags, told, spare
<1>2. Runs' /\ Calls' /\ Waiters' /\ CompletionTruthful'
  BY <1>1, RowsMove DEF Grows
<1>3. Ticks'
  BY <1>1 DEF Ticks
<1>4. Kept'
  BY <1>1 DEF IInv, Consistent, Kept
<1>5. Closing'
  BY <1>1 DEF IInv, Consistent, Closing, keys
<1>6. Keys'
  BY <1>1, KeysStay
<1> QED
  BY <1>2, <1>3, <1>4, <1>5, <1>6 DEF Consistent

LEMMA ObservesKeeps ==
  ASSUME IInv, Observes
  PROVE  Consistent'
<1>1. /\ tick.at = "news" /\ tick'.at # "begin" /\ Settle(tick.jobs, row)
      /\ UNCHANGED <<row, durable, accepting, claiming, phase, call, run, keys, left, threw>>
  BY DEF Observes, flags, spare, NoTick
<1>2. tick.jobs \in SUBSET Job
  BY DEF IInv, TypeOK
<1>3. /\ Waiters' /\ Kept' /\ CompletionTruthful'
      /\ \A i \in Job : attached[i] = "none" => attached'[i] = "none"
  BY <1>1, <1>2, SettleKeeps
<1>4. Calls'
  BY <1>1 DEF IInv, Consistent, Calls
<1>5. Runs'
  <2>1. ASSUME NEW i \in Job PROVE RunTold(i)'
    <3>1. run[i].at \in Busy => row'[i] = "running"
      BY <1>1 DEF IInv, Consistent, Runs, RunTold
    <3> QED
      BY <3>1, <1>1, RunStays DEF Grows, Remembers
  <2> QED
    BY <2>1 DEF Runs
<1>6. Ticks'
  BY <1>1 DEF Ticks
<1>7. Closing'
  <2>1. tick # NoTick
    BY <1>1 DEF NoTick
  <2> QED
    BY <2>1, <1>1, <1>3 DEF IInv, Consistent, Closing, keys
<1>8. Keys'
  BY <1>1, KeysStay
<1> QED
  BY <1>3, <1>4, <1>5, <1>6, <1>7, <1>8 DEF Consistent

LEMMA ClaimsKeeps ==
  ASSUME IInv, Claims
  PROVE  Consistent'
<1>1. /\ tick.at = "claim"
      /\ UNCHANGED <<durable, accepting, claiming, phase, attached, promise, call, run, keys, left, threw>>
  BY DEF Claims, flags, told, spare
<1>2. PICK S \in SUBSET Due :
        /\ row' = [j \in Job |-> IF j \in S THEN "running" ELSE row[j]]
        /\ tick' = [at |-> "begin", jobs |-> S]
  BY DEF Claims
<1>3. /\ \A j \in S : j \in Job /\ row[j] = "pending" /\ row'[j] = "running"
      /\ \A j \in S : run[j].at # "none" => durable
      /\ \A j \in Job : j \notin S => row'[j] = row[j]
  BY <1>2 DEF Due
<1>4. Grows /\ \A i \in Job : row[i] = "running" => row'[i] = "running"
  BY <1>3 DEF Grows, Terminal
<1>5. Runs' /\ Calls' /\ Waiters' /\ CompletionTruthful'
  BY <1>1, <1>4, RowsMove
<1>6. Ticks'
  <2>1. \A j \in S : run[j].at \notin Busy
    BY <1>3 DEF IInv, Consistent, Runs, RunTold
  <2> QED
    BY <2>1, <1>1, <1>2, <1>3 DEF Ticks
<1>7. \A c \in Caller : call[c].at = "sent" => call[c].job \in Job
  BY DEF IInv, Placed
<1>8. Kept'
  <2> SUFFICES ASSUME ~durable PROVE
      /\ \A i \in Job : row'[i] \in {"pending", "running"} => attached[i] # "none"
      /\ \A d \in Caller : call[d].at = "sent" /\ row'[call[d].job] = "absent"
           => attached[call[d].job] # "none"
    BY <1>1 DEF Kept
  <2>1. /\ \A i \in Job : row[i] \in {"pending", "running"} => attached[i] # "none"
        /\ \A d \in Caller : call[d].at = "sent" /\ row[call[d].job] = "absent"
             => attached[call[d].job] # "none"
    BY DEF IInv, Consistent, Kept
  <2> QED
    BY <2>1, <1>3, <1>7
<1>9. Closing'
  <2>1. tick # NoTick
    BY <1>1 DEF NoTick
  <2>2. phase = "closed" => ~durable /\ S = {}
    BY <2>1, <1>3 DEF IInv, Consistent, Closing
  <2>3. phase = "closed" => row' = row
    BY <2>2, <1>2 DEF IInv, TypeOK
  <2> QED
    BY <2>1, <2>2, <2>3, <1>1, <1>2 DEF IInv, Consistent, Closing, keys
<1>10. Keys'
  BY <1>1, KeysStay
<1> QED
  BY <1>5, <1>6, <1>8, <1>9, <1>10 DEF Consistent

LEMMA BeginsKeeps ==
  ASSUME IInv, Begins
  PROVE  Consistent'
<1>1. /\ tick.at = "begin" /\ tick' = NoTick
      /\ run' = [j \in Job |-> IF j \in tick.jobs THEN [NoRun EXCEPT !.at = "working"] ELSE run[j]]
      /\ active' = active \cup tick.jobs
      /\ UNCHANGED <<row, durable, accepting, claiming, phase, attached, promise, call, awaited, left, threw>>
  BY DEF Begins, flags, told, spare
<1>2. \A j \in Job : /\ j \in tick.jobs => run'[j].at = "working" /\ row[j] = "running"
                     /\ j \notin tick.jobs => run'[j] = run[j]
  BY <1>1 DEF NoRun, IInv, Consistent, Ticks
<1>3. Grows /\ Calls' /\ Waiters' /\ CompletionTruthful' /\ Remembers
  BY <1>1, CallsStay DEF Grows
<1>4. Runs'
  <2>1. ASSUME NEW j \in Job, j \notin tick.jobs PROVE RunTold(j)'
    <3>1. run[j].at \in Busy => row'[j] = "running"
      BY <1>1 DEF IInv, Consistent, Runs, RunTold
    <3> QED
      BY <2>1, <3>1, <1>2, <1>3, RunStays
  <2>2. ASSUME NEW j \in Job, j \in tick.jobs PROVE RunTold(j)'
    BY <2>2, <1>1, <1>2 DEF RunTold
  <2> QED
    BY <2>1, <2>2 DEF Runs
<1>5. Ticks' /\ Kept'
  BY <1>1 DEF IInv, Consistent, Ticks, Kept, NoTick
<1>6. Closing'
  <2>1. tick # NoTick /\ tick'.at # "begin"
    BY <1>1 DEF NoTick
  <2>2. phase = "closed" => active' = active
    BY <1>1 DEF IInv, Consistent, Closing
  <2> QED
    BY <2>1, <2>2, <1>1 DEF IInv, Consistent, Closing
<1>7. Keys'
  <2>1. behind \in [Job -> Nat]
    BY DEF IInv, TypeOK
  <2> SUFFICES ASSUME NEW j \in Job
               PROVE  /\ run'[j].at # "none" /\ j \notin doubled' => j \in active'
                      /\ behind'[j] > 0 => j \in doubled'
                      /\ j \in doubled' => durable'
    BY DEF Keys
  <2>2. /\ j \in doubled' <=>
             (j \in doubled \/ (j \in tick.jobs /\ (run[j].at # "none" \/ behind[j] > 0)))
        /\ behind'[j] = behind[j] + IF j \in tick.jobs /\ run[j].at # "none" THEN 1 ELSE 0
    BY DEF Begins
  <2>3. /\ run[j].at # "none" /\ j \notin doubled => j \in active
        /\ behind[j] > 0 => j \in doubled
        /\ j \in doubled => durable
        /\ j \in tick.jobs /\ run[j].at # "none" => durable
    BY <1>1 DEF IInv, Consistent, Keys, Ticks
  <2> QED
    BY <2>1, <2>2, <2>3, <1>1, <1>2
<1> QED
  BY <1>3, <1>4, <1>5, <1>6, <1>7 DEF Consistent

LEMMA CloseKeeps ==
  ASSUME IInv, StopClaiming \/ CloseStep
  PROVE  Consistent'
<1>1. UNCHANGED <<durable, row, call, run, behind, active, doubled, tick, left, threw>>
  BY DEF StopClaiming, CloseStep, Stopped, HandsOff, Closes, keys, spare
<1>2. Grows /\ Remembers
  BY <1>1 DEF Grows, Remembers
<1>3. Runs'
  <2>1. ASSUME NEW j \in Job PROVE RunTold(j)'
    <3>1. run[j].at \in Busy => row'[j] = "running"
      BY <1>1 DEF IInv, Consistent, Runs, RunTold
    <3> QED
      BY <3>1, <1>1, <1>2, RunStays
  <2> QED
    BY <2>1 DEF Runs
<1>4. Keys' /\ Ticks' /\ Calls'
  BY <1>1 DEF IInv, Consistent, Keys, Ticks, Calls
<1>5. ASSUME UNCHANGED <<attached, promise>> PROVE Waiters' /\ Kept' /\ CompletionTruthful'
  BY <1>1, <1>5 DEF IInv, Consistent, Waiters, Kept, CompletionTruthful
<1>6. CASE StopClaiming
  <2>1. Closing'
    BY <1>1, <1>6 DEF StopClaiming, Closing
  <2> QED
    BY <2>1, <1>3, <1>4, <1>5, <1>6 DEF StopClaiming, told, Consistent
<1>7. CASE Stopped
  <2>1. Closing'
    BY <1>1, <1>7 DEF Stopped, IInv, Consistent, Closing
  <2> QED
    BY <2>1, <1>3, <1>4, <1>5, <1>7 DEF Stopped, told, Consistent
<1>8. CASE Closes
  <2>1. ~durable /\ ~accepting /\ active = {} /\ \A j \in Job : attached[j] = "none"
    BY <1>8 DEF Closes, IInv, Consistent, Closing
  <2>2. \A j \in Job : row[j] \notin {"pending", "running"}
    BY <2>1 DEF IInv, Consistent, Kept
  <2>3. tick.jobs \subseteq Job
    BY DEF IInv, TypeOK
  <2>4. tick.at = "begin" => tick.jobs = {}
    BY <2>2, <2>3 DEF IInv, Consistent, Ticks
  <2>5. Closing'
    BY <2>1, <2>2, <2>4, <1>1, <1>8 DEF Closes, Closing, told
  <2> QED
    BY <2>5, <1>3, <1>4, <1>5, <1>8 DEF Closes, told, Consistent
<1>9. CASE HandsOff /\ ~durable
  <2>1. Closing'
    BY <1>1, <1>9 DEF HandsOff, IInv, Consistent, Closing
  <2> QED
    BY <2>1, <1>3, <1>4, <1>5, <1>9 DEF HandsOff, told, Consistent
<1>10. CASE HandsOff /\ durable
  <2>1. /\ phase = "draining" /\ phase' = "closed" /\ awaited = {} /\ UNCHANGED <<accepting, claiming>>
        /\ attached' = [j \in Job |-> "none"]
        /\ promise' = [c \in Caller |-> IF \E j \in Job : attached[j] = c THEN "handed" ELSE promise[c]]
    BY <1>10 DEF HandsOff, Drained
  <2>2. ~accepting /\ ~claiming /\ tick = NoTick /\ active = {}
    BY <2>1 DEF IInv, Consistent, Closing
  <2>3. Closing'
    BY <2>1, <2>2, <1>1, <1>10 DEF Closing, NoTick
  <2>4. \A c \in Caller : promise'[c] # promise[c] =>
          promise'[c] = "handed" /\ \E j \in Job : attached[j] = c
    BY <2>1
  <2>5. \A c \in Caller : promise'[c] # "none" => call[c].at # "unused"
    BY <2>4, FacadeAssumption DEF IInv, Consistent, Waiters, Caller
  <2>6. ~threw => \A c \in Caller : promise'[c] # "open"
    <3> SUFFICES ASSUME ~threw, NEW c \in Caller, promise'[c] = "open" PROVE FALSE
      OBVIOUS
    <3>1. promise[c] = "open" /\ \A j \in Job : attached[j] # c
      BY <2>1
    <3>2. attached[call[c].job] = c /\ call[c].job \in Job
      BY <3>1 DEF IInv, Consistent, Waiters, Placed
    <3> QED
      BY <3>1, <3>2
  <2>7. Waiters' /\ Kept'
    BY <2>1, <2>5, <2>6, <1>1, <1>10 DEF Waiters, Kept
  <2>8. CompletionTruthful'
    BY <2>4, <1>1 DEF IInv, Consistent, CompletionTruthful
  <2> QED
    BY <2>3, <2>7, <2>8, <1>3, <1>4 DEF Consistent
<1> QED
  BY <1>6, <1>7, <1>8, <1>9, <1>10 DEF CloseStep

-----------------------------------------------------------------------------
(* Theorems.                                                               *)

LEMMA NextConsistent == IInv /\ [Next]_vars => Consistent'
<1> SUFFICES ASSUME IInv, [Next]_vars PROVE Consistent'
  OBVIOUS
<1>1. ASSUME NEW c \in Caller, CallStep(c) \/ EnsureFails(c) PROVE Consistent'
  BY <1>1, EnsuredKeeps, AcceptedKeeps, EnsureFailsKeeps DEF CallStep
<1>2. ASSUME NEW j \in Job, RunStep(j) \/ Elsewhere(j) \/ CancelPending(j) PROVE Consistent'
  BY <1>2, WorksKeeps, FollowsUpKeeps, WaitsKeeps, WritesKeeps, FinishesKeeps, FinishesBehindKeeps,
     ElsewhereKeeps, CancelPendingKeeps DEF RunStep
<1>3. CASE TickStep
  BY <1>3, LooksKeeps, ObservesKeeps, ClaimsKeeps, BeginsKeeps DEF TickStep
<1>4. CASE UNCHANGED vars
  <2>1. UNCHANGED <<row, durable, accepting, claiming, phase, attached, promise, call, run, keys, tick, left, threw>>
    BY <1>4 DEF vars, flags, told, spare
  <2>2. Runs' /\ Calls' /\ Waiters' /\ CompletionTruthful'
    BY <2>1, RowsMove DEF Grows
  <2> QED
    BY <2>1, <2>2, KeysStay DEF IInv, Consistent, Ticks, Kept, Closing, keys
<1> QED
  BY <1>1, <1>2, <1>3, <1>4, ClientSubmitsKeeps, CloseKeeps DEF Next

\* The invariant behind the others: rows, runs, submissions, deferreds and the
\* shutdown agree at every step.
THEOREM Invariance == Spec => []IInv
<1>1. Init => IInv
  BY InitTypes, InitConsistent DEF IInv
<1>2. IInv /\ [Next]_vars => IInv'
  BY NextTypes, NextConsistent DEF IInv
<1> QED
  BY <1>1, <1>2, PTL DEF Spec

\* Inv: types, and completions that tell the truth about their job, for any
\* number of requests that share deferreds, ticks and handlers that race.
THEOREM CompletionsAreTrue == Spec => []Inv
<1>1. IInv => Inv
  BY DEF IInv, Consistent, Inv
<1> QED
  BY <1>1, Invariance, PTL

\* FollowUpAdmitted: a job that ended well has admitted its follow-up.
THEOREM FollowUps == Spec => []FollowUpAdmitted
<1>1. IInv => FollowUpAdmitted
  BY DEF IInv, Consistent, Runs, RunTold, FollowUpAdmitted, Worked
<1> QED
  BY <1>1, Invariance, PTL

\* ClosedLeavesNothing: behind a closed process nothing is about to run, and what
\* still runs are jobs of a durable store that were begun again while an older run
\* waited for its answer; as long as no ensure threw, nobody is left waiting.
THEOREM Closed == Spec => []ClosedLeavesNothing
<1>1. IInv => ClosedLeavesNothing
  <2> SUFFICES ASSUME IInv, phase = "closed"
               PROVE  /\ \A j \in Job : InFlight(j) => durable /\ j \in doubled
                      /\ tick.at = "begin" => tick.jobs = {}
                      /\ ~threw => \A c \in Caller : promise[c] # "open"
                      /\ ~durable => \A j \in Job : row[j] \notin {"pending", "running"}
    BY DEF ClosedLeavesNothing
  <2>1. /\ active = {} /\ \A j \in Job : attached[j] = "none"
        /\ tick.at = "begin" => tick.jobs = {}
        /\ ~durable => \A j \in Job : row[j] \notin {"pending", "running"}
    BY DEF IInv, Consistent, Closing
  <2>2. \A j \in Job : InFlight(j) => durable /\ j \in doubled
    BY <2>1 DEF IInv, Consistent, Keys, InFlight
  <2>3. ~threw => \A c \in Caller : promise[c] # "open"
    <3> SUFFICES ASSUME ~threw, NEW c \in Caller, promise[c] = "open" PROVE FALSE
      OBVIOUS
    <3>1. attached[call[c].job] = c /\ call[c].job \in Job
      BY DEF IInv, Consistent, Waiters, Placed
    <3>2. c # "none"
      BY FacadeAssumption DEF Caller
    <3> QED
      BY <3>1, <3>2, <2>1
  <2> QED
    BY <2>1, <2>2, <2>3
<1> QED
  BY <1>1, Invariance, PTL
=============================================================================
