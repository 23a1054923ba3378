-------------------------- MODULE ExecutionProofs --------------------------
(***************************************************************************)
(* Proofs about Execution, for every set of threads and replicas, every    *)
(* catalog skew, metering mode, and any number and kind of faults.         *)
(***************************************************************************)
EXTENDS Execution, TLAPS

\* The roles a thread has, written out.
LEMMA Roles == Role = {"idle", "async", "sync", "job", "cancel", "replay", "boot"}
BY DEF Role, Pc

\* A thread inside #runAllocated may go on to any of its places, and reconcile.
LEMMA RunningPc ==
  ASSUME NEW r \in Role, NEW pc \in Pc[r], pc \in Running
  PROVE  r \in {"sync", "job"} /\ Running \cup Reconciling \subseteq Pc[r]
BY Roles DEF Pc, Running, Reconciling

\* A thread that reconciles stays among the places its role knows.
LEMMA ReconcilingPc ==
  ASSUME NEW r \in Role, NEW pc \in Pc[r], pc \in Reconciling
  PROVE  /\ Reconciling \subseteq Pc[r]
         /\ r \in {"sync", "job"} => Running \subseteq Pc[r]
         /\ r \in {"cancel", "boot"} => "withdraw" \in Pc[r]
BY Roles DEF Pc, Running, Reconciling

-----------------------------------------------------------------------------
(* The inductive invariant: what the shared state says of itself, and what *)
(* the place of each thread says of the shared state.                      *)

\* The usage row tells of the dispatch.
Metered == Begun /\ Metering # "off" => outbox = "report"

\* A call was made only behind the marker, and a cancellation remembers it.
CallMarked == calls \in {0, 1} /\ (calls = 1 => marked)
FenceTold  == status = "cancelled" => fence = marked

\* The outbox follows the terminal record, and finalized usage is in it.
OutboxTold == /\ Metering = "off" => outbox = "none"
              /\ outbox = "report" => status \in Terminal /\ Begun
              /\ usageDone => status \in Terminal /\ Metered

\* The event carries the terminal status, and is published after usage.
EventTold == /\ event # "none" => status \in Terminal /\ event = status
             /\ published => usageDone /\ event # "none"

\* A job ends well only once its execution is settled, and is granted to a claim.
QueueTold == /\ queue \in {"succeeded", "cancelled"} => published
             /\ queue = "granted" => epoch > 0

Ledger == CallMarked /\ FenceTold /\ OutboxTold /\ EventTold /\ QueueTold

\* What a thread's place says of the shared state.
PlaceTold(t) ==
  /\ At(t, "call") => marked /\ calls = 0
  /\ At(t, "release") => Metering = "reserved"
  /\ At(t, "abort") => status = "cancelled"
  /\ th[t].pc \in Reconciling => status \in Terminal
  /\ At(t, "usageMark") => Metered
  /\ th[t].pc \in {"publish", "publishMark"} => usageDone
  /\ At(t, "publishMark") => event # "none"
  /\ th[t].pc \in {"withdraw", "done"} => published

\* Claims are told apart by their number.
ClaimTold(t) == th[t].epoch # 0 => th[t].role = "job" /\ th[t].epoch <= epoch

Distinct(s, t) == /\ ~(At(s, "call") /\ At(t, "call"))
                  /\ th[s].epoch = th[t].epoch => th[s].epoch = 0

IInv == /\ TypeOK
        /\ Ledger
        /\ \A t \in Thread : PlaceTold(t) /\ ClaimTold(t)
        /\ \A s, t \in Thread : s # t => Distinct(s, t)

-----------------------------------------------------------------------------
(* How a thread moves.                                                     *)

\* Only thread t moves, to a place of its role or out of it, and its claim is
\* kept or dropped.
Moved(t) ==
  /\ th' \in [Thread -> ThreadState]
  /\ th'[t].pc \in Pc[th'[t].role]
  /\ th'[t].ctx # "outer" => th'[t].role \in {"sync", "job"}
  /\ \A s \in Thread \ {t} : th'[s] = th[s]
  /\ \/ th'[t].epoch = 0
     \/ th'[t].epoch = th[t].epoch /\ th'[t].role = th[t].role

LEMMA IdleType == /\ Idle \in ThreadState /\ Idle.pc = "idle" /\ Idle.role = "idle"
                  /\ Idle.epoch = 0 /\ Idle.ctx = "outer"
BY Roles DEF Idle, Fresh, ThreadState, Pc

\* A step that replaces one thread by another state of it.
LEMMA ThreadMoves ==
  ASSUME TypeOK, NEW t \in Thread, NEW s \in ThreadState, th' = [th EXCEPT ![t] = s],
         s.pc \in Pc[s.role], s.ctx # "outer" => s.role \in {"sync", "job"},
         s.epoch = 0 \/ (s.epoch = th[t].epoch /\ s.role = th[t].role)
  PROVE  Moved(t) /\ th'[t] = s
BY DEF TypeOK, Moved

LEMMA PcType == ASSUME NEW r \in Role, NEW pc \in Pc[r] PROVE pc \in UNION {Pc[q] : q \in Role}
OBVIOUS

\* A thread that goes to a place its role knows.
LEMMA GotoMoves ==
  ASSUME TypeOK, NEW t \in Thread, NEW pc \in Pc[th[t].role], Goto(t, pc)
  PROVE  Moved(t) /\ th'[t].pc = pc
<1>1. th[t].role \in Role
  BY DEF TypeOK, ThreadState
<1>2. pc \in UNION {Pc[q] : q \in Role}
  BY <1>1, PcType
<1> QED
  BY <1>1, <1>2 DEF TypeOK, ThreadState, Goto, Moved

\* A thread that ends.
LEMMA EndMoves ==
  ASSUME TypeOK, NEW t \in Thread, End(t)
  PROVE  Moved(t) /\ th'[t] = Idle /\ th'[t].pc = "idle"
<1>1. "idle" \in Pc["idle"]
  BY DEF Pc
<1> QED
  BY <1>1, IdleType DEF TypeOK, End, Moved

\* A run that goes to its catch.
LEMMA CatchMoves ==
  ASSUME TypeOK, NEW t \in Thread, th[t].pc \in Running \cup Reconciling,
         th[t].role \in {"sync", "job"},
         NEW e \in {"conflict", "fenced", "other"}, Catch(t, e)
  PROVE  Moved(t) /\ th'[t].pc = "catch"
<1>1. th[t].role \in Role /\ th[t].pc \in Pc[th[t].role]
  BY DEF TypeOK, ThreadState
<1>2. "catch" \in Pc[th[t].role]
  BY <1>1, RunningPc, ReconcilingPc DEF Running
<1>3. "catch" \in UNION {Pc[q] : q \in Role}
  BY <1>1, <1>2, PcType
<1> DEFINE s == [th[t] EXCEPT !.pc = "catch", !.error = e]
<1>4. /\ s \in ThreadState /\ s.pc = "catch" /\ s.role = th[t].role
      /\ s.epoch = th[t].epoch /\ s.ctx = th[t].ctx
  BY <1>3 DEF TypeOK, ThreadState
<1>5. th' = [th EXCEPT ![t] = s]
  BY DEF TypeOK, ThreadState, Catch
<1> HIDE DEF s
<1>6. s.pc \in Pc[s.role] /\ (s.ctx # "outer" => s.role \in {"sync", "job"})
  BY <1>2, <1>4
<1>7. Moved(t) /\ th'[t] = s
  BY <1>4, <1>5, <1>6, ThreadMoves
<1> QED
  BY <1>4, <1>7

\* A thread that begins to reconcile.
LEMMA ReconcileMoves ==
  ASSUME TypeOK, NEW t \in Thread, "usage" \in Pc[th[t].role],
         NEW c \in {"run", "catch", "outer"}, Reconcile(t, c),
         c # "outer" => th[t].role \in {"sync", "job"}
  PROVE  Moved(t) /\ th'[t].pc = "usage"
<1>1. th[t].role \in Role /\ "usage" \in UNION {Pc[q] : q \in Role}
  BY PcType DEF TypeOK, ThreadState
<1> DEFINE s == [th[t] EXCEPT !.pc = "usage", !.ctx = c]
<1>2. /\ s \in ThreadState /\ s.pc = "usage" /\ s.role = th[t].role
      /\ s.epoch = th[t].epoch /\ s.ctx = c
  BY <1>1 DEF TypeOK, ThreadState
<1>3. th' = [th EXCEPT ![t] = s]
  BY DEF TypeOK, ThreadState, Reconcile
<1> HIDE DEF s
<1> QED
  BY <1>2, <1>3, ThreadMoves

\* A run that throws ends, or its handler looks again.
LEMMA RethrowMoves ==
  ASSUME TypeOK, NEW t \in Thread, Rethrow(t)
  PROVE  Moved(t) /\ th'[t].pc \in {"recheck", "idle"}
<1>1. CASE th[t].role = "job"
  <2>1. "recheck" \in Pc[th[t].role]
    BY <1>1 DEF Pc
  <2> QED
    BY <1>1, <2>1, GotoMoves DEF Rethrow
<1>2. CASE th[t].role # "job"
  BY <1>2, EndMoves DEF Rethrow
<1> QED
  BY <1>1, <1>2

\* Places that say nothing of the shared state.
Free == {"idle", "submit", "start", "resume", "resolve", "dispatch", "succeed", "fail",
         "catch", "load", "recheck", "interrupt", "again", "rejected", "wait", "scan", "sweep"}

\* Wherever a failing call leads, nothing is claimed there.
LEMMA ThrowsMoves ==
  ASSUME TypeOK, NEW t \in Thread, Throws(t), th[t].pc # "idle"
  PROVE  Moved(t) /\ th'[t].pc \in Free /\ up' \in [Replica -> {"down", "booting", "up"}]
<1>1. th[t].role \in Role /\ th[t].pc \in Pc[th[t].role]
  BY DEF TypeOK, ThreadState
<1> DEFINE ctx == IF th[t].pc \in Reconciling THEN th[t].ctx ELSE "none"
<1>2. ctx # "none" => th[t].pc \in Reconciling
  BY DEF TypeOK, ThreadState
<1>3. CASE th[t].pc \in {"resolve", "dispatch", "succeed"} /\ Goto(t, "fail")
  <2>1. "fail" \in Pc[th[t].role]
    BY <1>1, <1>3, RunningPc DEF Running
  <2> QED
    BY <1>3, <2>1, GotoMoves DEF Throws, TypeOK, Free
<1>4. CASE Catch(t, "other") /\ th[t].pc \in Running
  <2>1. th[t].role \in {"sync", "job"}
    BY <1>1, <1>4, RunningPc
  <2> QED
    BY <1>4, <2>1, CatchMoves DEF Throws, TypeOK, Free
<1>5. CASE Catch(t, "other") /\ ctx = "run"
  BY <1>2, <1>5, CatchMoves DEF Throws, TypeOK, Free
<1>6. CASE Rethrow(t)
  BY <1>6, RethrowMoves DEF Throws, TypeOK, Free
<1>7. CASE th[t].pc = "load" /\ Goto(t, "rejected")
  <2>1. "rejected" \in Pc[th[t].role]
    BY <1>1, <1>7, Roles DEF Pc, Running, Reconciling
  <2> QED
    BY <1>7, <2>1, GotoMoves DEF Throws, TypeOK, Free
<1>8. CASE /\ th[t].pc \in {"recheck", "interrupt", "done"} \/ (ctx = "outer" /\ th[t].role = "job")
           /\ Goto(t, "again")
  <2>1. "again" \in Pc[th[t].role]
    BY <1>1, <1>8, Roles DEF Pc, Running, Reconciling
  <2> QED
    BY <1>8, <2>1, GotoMoves DEF Throws, TypeOK, Free
<1>9. CASE End(t)
  BY <1>9, EndMoves DEF Throws, TypeOK, Free
<1> QED
  BY <1>2, <1>3, <1>4, <1>5, <1>6, <1>7, <1>8, <1>9 DEF Throws, Running

-----------------------------------------------------------------------------
(* How the shared state moves.                                             *)

SharedOK == /\ status \in {"absent"} \cup Live \cup Terminal
            /\ {async, marked, fence, usageDone, published} \subseteq BOOLEAN
            /\ outbox \in {"none", "report", "release"}
            /\ event \in {"none"} \cup Terminal
            /\ queue \in {"absent", "open", "granted"} \cup Terminal

\* What is decided stays decided.
Advance == /\ status \in Terminal => UNCHANGED <<status, fence, marked>>
           /\ marked => marked'
           /\ usageDone => usageDone'
           /\ published => published'
           /\ outbox = "report" => outbox' = "report"
           /\ event # "none" => event' = event

\* Whatever a thread writes to the store, the ledger stays truthful.
LEMMA WrittenKeeps ==
  ASSUME IInv, NEW t \in Thread, UNCHANGED <<calls, epoch>>,
         Written(t) \/ UNCHANGED <<record, effects, queue>>
  PROVE  SharedOK' /\ Ledger' /\ Advance
<1> USE DEF IInv, TypeOK, SharedOK, Advance, Ledger, CallMarked, FenceTold, OutboxTold,
        EventTold, QueueTold, Metered, Begun, record, effects, Terminal, Live
<1>1. PlaceTold(t)
  OBVIOUS
<1>2. CASE UNCHANGED <<record, effects, queue>>
  BY <1>2
<1>3. CASE UNCHANGED <<async, marked, fence, effects, queue>> /\ (ToRunning \/ ToSucceeded \/ ToFailed)
  BY <1>3 DEF ToRunning, ToSucceeded, ToFailed
<1>4. CASE UNCHANGED <<status, async, fence, effects, queue>> /\ ToMarked
  BY <1>4 DEF ToMarked
<1>5. CASE UNCHANGED <<record, usageDone, published, event, queue>> /\ At(t, "release") /\ Enqueue("release")
  BY <1>1, <1>5 DEF Enqueue, Refused, PlaceTold
<1>6. CASE /\ UNCHANGED <<record, usageDone, published, event, queue>>
           /\ At(t, "usage") /\ ~usageDone /\ \E p \in Payloads : Enqueue(p)
  <2>1. status \in Terminal
    BY <1>1, <1>6 DEF PlaceTold, At, Reconciling
  <2> QED
    BY <1>6, <2>1 DEF Enqueue, Refused, Payloads
<1>7. CASE /\ At(t, "usageMark") /\ usageDone' = TRUE
           /\ UNCHANGED <<record, published, outbox, event, queue>>
  BY <1>1, <1>7 DEF PlaceTold, At, Reconciling
<1>8. CASE /\ At(t, "publish") /\ ~published /\ Admitted
           /\ UNCHANGED <<record, usageDone, published, outbox, queue>>
  BY <1>1, <1>8 DEF PlaceTold, At, Reconciling, Admitted
<1>9. CASE /\ At(t, "publishMark") /\ published' = TRUE
           /\ UNCHANGED <<record, usageDone, outbox, event, queue>>
  BY <1>1, <1>9 DEF PlaceTold, At, Reconciling
<1>10. CASE /\ \/ At(t, "submit") /\ queue = "absent" /\ queue' = "open"
               \/ At(t, "sweep") /\ Offered
               \/ At(t, "withdraw") /\ queue = "open" /\ queue' = "cancelled"
            /\ UNCHANGED <<record, effects>>
  BY <1>1, <1>10 DEF PlaceTold, At, Offered
<1> QED
  BY <1>2, <1>3, <1>4, <1>5, <1>6, <1>7, <1>8, <1>9, <1>10 DEF Written

\* A place without a claim on the shared state.
LEMMA FreePlace ==
  ASSUME NEW t \in Thread, th'[t].pc \in Free
  PROVE  PlaceTold(t)' /\ th'[t].pc # "call"
BY DEF PlaceTold, Free, At, Reconciling

\* The other threads lose nothing when the shared state advances and one moves.
LEMMA StepKeeps ==
  ASSUME IInv, NEW t \in Thread, Moved(t), SharedOK', Ledger', Advance,
         up' \in [Replica -> {"down", "booting", "up"}], asks' \in Nat, faults' \in Nat,
         epoch' = epoch, PlaceTold(t)', calls' \in Nat,
         calls' = calls \/ At(t, "call"),
         th'[t].pc = "call" => \A s \in Thread \ {t} : th[s].pc # "call"
  PROVE  IInv'
<1>1. TypeOK'
  <2>1. \A s \in Thread : /\ th'[s].pc \in Pc[th'[s].role]
                          /\ th'[s].ctx # "outer" => th'[s].role \in {"sync", "job"}
    BY DEF IInv, TypeOK, Moved
  <2> QED
    BY <2>1 DEF IInv, TypeOK, SharedOK, Moved
<1>2. ASSUME NEW s \in Thread \ {t} PROVE PlaceTold(s)' /\ ClaimTold(s)'
  <2>1. th'[s] = th[s] /\ PlaceTold(s) /\ ClaimTold(s) /\ Distinct(s, t)
    BY DEF IInv, Moved
  <2>2. status \in Terminal => (Begun' <=> Begun)
    BY DEF Advance, Begun
  <2>3. ClaimTold(s)'
    BY <2>1 DEF ClaimTold
  <2>4. At(s, "call")' => marked' /\ calls' = 0
    BY <2>1 DEF PlaceTold, Advance, At, Distinct
  <2>5. At(s, "usageMark")' => Metered'
    BY <2>1, <2>2 DEF PlaceTold, Advance, At, Metered, Reconciling
  <2>6. (At(s, "abort")' => status' = "cancelled") /\ (th'[s].pc \in Reconciling => status' \in Terminal)
    BY <2>1 DEF PlaceTold, Advance, At, Terminal
  <2>7. /\ At(s, "release")' => Metering = "reserved"
        /\ th'[s].pc \in {"publish", "publishMark"} => usageDone'
        /\ At(s, "publishMark")' => event' # "none"
        /\ th'[s].pc \in {"withdraw", "done"} => published'
    BY <2>1 DEF PlaceTold, Advance, At
  <2> QED
    BY <2>3, <2>4, <2>5, <2>6, <2>7 DEF PlaceTold
<1>3. ClaimTold(t)'
  BY DEF IInv, ClaimTold, Moved
<1>4. ASSUME NEW r \in Thread, NEW s \in Thread, r # s PROVE Distinct(r, s)'
  <2>1. Distinct(r, s) /\ Distinct(s, r)
    BY <1>4 DEF IInv
  <2> QED
    BY <1>4, <2>1 DEF Distinct, At, Moved
<1> QED
  BY <1>1, <1>2, <1>3, <1>4 DEF IInv

\* A thread writes, or not, and goes on.
LEMMA WriteStep ==
  ASSUME IInv, NEW t \in Thread, Moved(t),
         Written(t) \/ UNCHANGED <<record, effects, queue>>, UNCHANGED <<calls, epoch>>,
         up' \in [Replica -> {"down", "booting", "up"}], asks' \in Nat, faults' \in Nat,
         PlaceTold(t)',
         th'[t].pc = "call" => \A s \in Thread \ {t} : th[s].pc # "call"
  PROVE  IInv'
<1>1. SharedOK' /\ Ledger' /\ Advance
  BY WrittenKeeps
<1> QED
  BY <1>1, StepKeeps DEF IInv, TypeOK

\* A thread writes, or not, and goes on to a place without a claim.
LEMMA FreeStep ==
  ASSUME IInv, NEW t \in Thread, Moved(t), th'[t].pc \in Free,
         Written(t) \/ UNCHANGED <<record, effects, queue>>, UNCHANGED <<calls, epoch>>,
         up' \in [Replica -> {"down", "booting", "up"}], asks' \in Nat, faults' \in Nat
  PROVE  IInv'
BY FreePlace, WriteStep

\* A thread that finds, or makes, the record terminal goes on to reconcile.
LEMMA UsageStep ==
  ASSUME IInv, NEW t \in Thread, "usage" \in Pc[th[t].role],
         NEW c \in {"run", "catch", "outer"}, Reconcile(t, c),
         c # "outer" => th[t].role \in {"sync", "job"},
         Written(t) \/ UNCHANGED <<record, effects, queue>>, UNCHANGED <<calls, epoch, env>>,
         status' \in Terminal
  PROVE  IInv'
<1>1. Moved(t) /\ th'[t].pc = "usage"
  BY ReconcileMoves DEF IInv
<1>2. PlaceTold(t)' /\ th'[t].pc # "call"
  BY <1>1 DEF PlaceTold, At
<1> QED
  BY <1>1, <1>2, WriteStep DEF IInv, TypeOK, env

\* The places of a thread's role, as the invariant gives them.
LEMMA PlaceOfRole ==
  ASSUME IInv, NEW t \in Thread
  PROVE  /\ th[t].role \in Role /\ th[t].pc \in Pc[th[t].role]
         /\ th[t].pc \in Running => /\ th[t].role \in {"sync", "job"}
                                    /\ Running \cup Reconciling \subseteq Pc[th[t].role]
         /\ th[t].pc \in Reconciling => Reconciling \subseteq Pc[th[t].role]
BY RunningPc, ReconcilingPc DEF IInv, TypeOK, ThreadState

-----------------------------------------------------------------------------
(* Each step of a thread keeps the invariant.                              *)

\* What #runAllocated does up to the provider.
LEMMA RunKeeps ==
  ASSUME IInv, NEW t \in Thread,
         Start(t) \/ Resume(t) \/ Resolve(t) \/ Dispatch(t)
  PROVE  IInv'
<1>1. th[t].pc \in Running
  BY DEF Start, Resume, Resolve, Dispatch, At, Running
<1>2. th[t].role \in {"sync", "job"} /\ Running \subseteq Pc[th[t].role]
  BY <1>1, PlaceOfRole
<1>3. UNCHANGED <<calls, epoch, env>>
  BY DEF Start, Resume, Resolve, Dispatch, job
<1>4. up' \in [Replica -> {"down", "booting", "up"}] /\ asks' \in Nat /\ faults' \in Nat
  BY <1>3 DEF env, IInv, TypeOK
<1>5. Written(t) \/ UNCHANGED <<record, effects, queue>>
  BY DEF Start, Resume, Resolve, Dispatch, Written, record, job, effects, At
<1>6. CASE \E pc \in Running \ {"call", "release"} : Goto(t, pc)
  <2>1. PICK pc \in Running \ {"call", "release"} : Goto(t, pc)
    BY <1>6
  <2>2. Moved(t) /\ th'[t].pc \in Free
    BY <1>2, <2>1, GotoMoves DEF IInv, Running, Free
  <2> QED
    BY <1>3, <1>4, <1>5, <2>2, FreeStep
<1>7. CASE \E e \in {"conflict", "fenced", "other"} : Catch(t, e)
  <2>1. Moved(t) /\ th'[t].pc \in Free
    BY <1>1, <1>2, <1>7, CatchMoves DEF IInv, Free
  <2> QED
    BY <1>3, <1>4, <1>5, <2>1, FreeStep
<1>8. CASE ToMarked /\ th' = [th EXCEPT ![t].pc = "call", ![t].attempted = TRUE]
  <2> DEFINE s == [th[t] EXCEPT !.pc = "call", !.attempted = TRUE]
  <2>1. "call" \in UNION {Pc[q] : q \in Role}
    BY <1>2, PlaceOfRole, PcType DEF Running
  <2>2. /\ s \in ThreadState /\ s.pc = "call" /\ s.role = th[t].role
        /\ s.epoch = th[t].epoch /\ s.ctx = th[t].ctx
    BY <2>1 DEF IInv, TypeOK, ThreadState
  <2>3. th' = [th EXCEPT ![t] = s]
    BY <1>8 DEF IInv, TypeOK, ThreadState
  <2> HIDE DEF s
  <2>4. s.pc \in Pc[s.role] /\ (s.ctx # "outer" => s.role \in {"sync", "job"})
    BY <1>2, <2>2 DEF Running
  <2>5. Moved(t) /\ th'[t].pc = "call"
    BY <2>2, <2>3, <2>4, ThreadMoves DEF IInv
  <2>6. calls = 0 /\ \A r \in Thread : th[r].pc # "call"
    BY <1>8 DEF ToMarked, IInv, Ledger, CallMarked, PlaceTold, At
  <2>7. PlaceTold(t)'
    BY <1>3, <1>8, <2>5, <2>6 DEF PlaceTold, At, ToMarked, Reconciling
  <2> QED
    BY <1>3, <1>4, <1>5, <2>5, <2>6, <2>7, WriteStep
<1> QED
  BY <1>6, <1>7, <1>8 DEF Start, Resume, Resolve, Dispatch, Running

\* The call itself: the only step that counts a call.
LEMMA CallKeeps == ASSUME IInv, NEW t \in Thread, CallProvider(t) PROVE IInv'
<1>1. At(t, "call") /\ marked /\ calls = 0
  BY DEF CallProvider, IInv, PlaceTold
<1>2. PICK pc \in {"succeed", "fail"} : Goto(t, pc)
  BY DEF CallProvider
<1>3. pc \in Pc[th[t].role]
  BY <1>1, <1>2, PlaceOfRole DEF At, Running
<1>4. Moved(t) /\ th'[t].pc \in Free
  BY <1>2, <1>3, GotoMoves DEF IInv, Free
<1>5. UNCHANGED <<record, effects, job, env>> /\ calls' = 1
  BY <1>1 DEF CallProvider
<1>6. SharedOK' /\ Ledger' /\ Advance
  BY <1>1, <1>5 DEF IInv, TypeOK, SharedOK, Ledger, CallMarked, FenceTold, OutboxTold, EventTold,
     QueueTold, Metered, Begun, Advance, record, effects, job
<1>7. PlaceTold(t)' /\ th'[t].pc # "call"
  BY <1>4, FreePlace
<1> QED
  BY <1>1, <1>4, <1>5, <1>6, <1>7, StepKeeps DEF IInv, TypeOK, job, env

\* How a run ends.
LEMMA RunEndKeeps ==
  ASSUME IInv, NEW t \in Thread, Succeed(t) \/ Fail(t) \/ CatchRun(t) \/ Release(t)
  PROVE  IInv'
<1>1. th[t].pc \in Running
  BY DEF Succeed, Fail, CatchRun, Release, At, Running
<1>2. th[t].role \in {"sync", "job"} /\ Running \cup Reconciling \subseteq Pc[th[t].role]
  BY <1>1, PlaceOfRole
<1>3. UNCHANGED <<calls, epoch, env>>
  BY DEF Succeed, Fail, CatchRun, Release, job
<1>4. up' \in [Replica -> {"down", "booting", "up"}] /\ asks' \in Nat /\ faults' \in Nat
  BY <1>3 DEF env, IInv, TypeOK
<1>5. Written(t) \/ UNCHANGED <<record, effects, queue>>
  BY DEF Succeed, Fail, CatchRun, Release, Written, record, job, effects, At
<1>6. CASE \/ Goto(t, "fail")
           \/ Catch(t, "conflict")
           \/ Rethrow(t)
  <2>1. Moved(t) /\ th'[t].pc \in Free
    BY <1>1, <1>2, <1>6, GotoMoves, CatchMoves, RethrowMoves DEF IInv, Free, Running
  <2> QED
    BY <1>3, <1>4, <1>5, <2>1, FreeStep
<1>7. CASE Metering = "reserved" /\ Goto(t, "release")
  <2>1. Moved(t) /\ th'[t].pc = "release"
    BY <1>2, <1>7, GotoMoves DEF IInv, Running
  <2>2. PlaceTold(t)' /\ th'[t].pc # "call"
    BY <1>7, <2>1 DEF PlaceTold, At, Reconciling
  <2> QED
    BY <1>3, <1>4, <1>5, <2>1, <2>2, WriteStep
<1>8. CASE /\ Reconcile(t, "run") \/ Reconcile(t, "catch")
           /\ status' \in Terminal
  BY <1>2, <1>3, <1>5, <1>8, UsageStep DEF Reconciling
<1> QED
  BY <1>6, <1>7, <1>8 DEF Succeed, Fail, CatchRun, Release, ToSucceeded, ToFailed, Terminal, record

\* Reconciliation: usage, then the event, then back to the caller.
LEMMA ReconcileKeeps ==
  ASSUME IInv, NEW t \in Thread, Usage(t) \/ UsageMark(t) \/ Publish(t) \/ PublishMark(t)
  PROVE  IInv'
<1>1. th[t].pc \in Reconciling
  BY DEF Usage, UsageMark, Publish, PublishMark, At, Reconciling
<1>2. status \in Terminal /\ PlaceTold(t)
  BY <1>1 DEF IInv, PlaceTold
<1>3. Reconciling \subseteq Pc[th[t].role]
  BY <1>1, PlaceOfRole
<1>4. UNCHANGED <<record, calls, epoch, asks, faults>>
  BY DEF Usage, UsageMark, Publish, PublishMark, job, env
<1>5. Written(t) \/ UNCHANGED <<record, effects, queue>>
  BY DEF Usage, UsageMark, Publish, PublishMark, Written, job, effects, At
<1>6. asks' \in Nat /\ faults' \in Nat /\ (UNCHANGED up => up' \in [Replica -> {"down", "booting", "up"}])
  BY <1>4 DEF IInv, TypeOK
<1>7. status' \in Terminal /\ (Begun' <=> Begun)
  BY <1>2, <1>4 DEF record, Begun
<1>8. CASE Usage(t) /\ Throws(t)
  <2>1. Moved(t) /\ th'[t].pc \in Free /\ up' \in [Replica -> {"down", "booting", "up"}]
    BY <1>1, <1>8, ThrowsMoves DEF IInv, Reconciling
  <2> QED
    BY <1>4, <1>5, <1>6, <2>1, FreeStep
<1>9. CASE Usage(t) /\ usageDone /\ Goto(t, "publish") /\ UNCHANGED up
  <2>1. Moved(t) /\ th'[t].pc = "publish" /\ usageDone'
    BY <1>3, <1>9, GotoMoves DEF IInv, Reconciling, Usage
  <2>2. PlaceTold(t)'
    BY <1>7, <2>1 DEF PlaceTold, At, Reconciling
  <2> QED
    BY <1>4, <1>5, <1>6, <1>9, <2>1, <2>2, WriteStep
<1>10. CASE Usage(t) /\ Goto(t, "usageMark") /\ UNCHANGED up
  <2>1. Moved(t) /\ th'[t].pc = "usageMark"
    BY <1>3, <1>10, GotoMoves DEF IInv, Reconciling
  <2>2. Metered'
    <3>1. CASE UNCHANGED outbox /\ Payloads = {}
      BY <1>7, <3>1 DEF Metered, Payloads
    <3>2. CASE \E p \in Payloads : Enqueue(p)
      BY <1>7, <3>2 DEF Metered, Payloads, Enqueue
    <3>3. \/ UNCHANGED outbox /\ Payloads = {}
          \/ \E p \in Payloads : Enqueue(p)
          \/ Goto(t, "publish")
          \/ Throws(t)
      BY <1>10 DEF Usage
    <3>4. ~Goto(t, "publish")
      BY <2>1 DEF Goto, IInv, TypeOK, ThreadState
    <3>5. ~Throws(t)
      BY <1>1, <2>1, ThrowsMoves DEF IInv, Free, Reconciling
    <3> QED
      BY <3>1, <3>2, <3>3, <3>4, <3>5
  <2>3. PlaceTold(t)'
    BY <1>7, <2>1, <2>2 DEF PlaceTold, At, Reconciling
  <2> QED
    BY <1>4, <1>5, <1>6, <1>10, <2>1, <2>3, WriteStep
<1>11. CASE UsageMark(t)
  <2>1. Moved(t) /\ th'[t].pc = "publish" /\ usageDone'
    BY <1>3, <1>11, GotoMoves DEF IInv, Reconciling, UsageMark
  <2>2. PlaceTold(t)'
    BY <1>7, <2>1 DEF PlaceTold, At, Reconciling
  <2> QED
    BY <1>4, <1>5, <1>6, <1>11, <2>1, <2>2, WriteStep DEF UsageMark, env
<1>12. CASE Publish(t)
  <2>1. Moved(t) /\ th'[t].pc = "publishMark"
    BY <1>3, <1>12, GotoMoves DEF IInv, Reconciling, Publish
  <2>2. usageDone' /\ event' # "none"
    BY <1>2, <1>12 DEF PlaceTold, Publish, At, Admitted, IInv, Ledger, EventTold, Terminal
  <2>3. PlaceTold(t)'
    BY <1>7, <2>1, <2>2 DEF PlaceTold, At, Reconciling
  <2> QED
    BY <1>4, <1>5, <1>6, <1>12, <2>1, <2>3, WriteStep DEF Publish, env
<1>13. CASE PublishMark(t)
  <2>1. published' /\ UNCHANGED up
    BY <1>13 DEF PublishMark, env
  <2>2. Moved(t) /\ th'[t].pc \in {"done", "withdraw", "idle"}
    <3>1. th[t].role = "job" => "done" \in Pc[th[t].role]
      BY DEF Pc
    <3>2. th[t].role \in {"cancel", "boot"} => "withdraw" \in Pc[th[t].role]
      BY DEF Pc
    <3> QED
      BY <1>13, <3>1, <3>2, GotoMoves, EndMoves DEF IInv, PublishMark
  <2>3. PlaceTold(t)' /\ th'[t].pc # "call"
    BY <2>1, <2>2 DEF PlaceTold, At, Reconciling
  <2> QED
    BY <1>4, <1>5, <1>6, <2>1, <2>2, <2>3, WriteStep
<1> QED
  BY <1>8, <1>9, <1>10, <1>11, <1>12, <1>13 DEF Usage

\* What the job's handler does around its run.
LEMMA HandlerKeeps ==
  ASSUME IInv, NEW t \in Thread, Load(t) \/ Interrupt(t) \/ Recheck(t)
  PROVE  IInv'
<1>1. th[t].pc \in {"load", "interrupt", "recheck"}
  BY DEF Load, Interrupt, Recheck, At
<1>2. Pc[th[t].role] = Pc["job"]
  BY <1>1, PlaceOfRole, Roles DEF Pc, Running, Reconciling
<1>3. UNCHANGED <<calls, epoch, env>>
  BY DEF Load, Interrupt, Recheck, job
<1>4. up' \in [Replica -> {"down", "booting", "up"}] /\ asks' \in Nat /\ faults' \in Nat
  BY <1>3 DEF env, IInv, TypeOK
<1>5. Written(t) \/ UNCHANGED <<record, effects, queue>>
  BY DEF Load, Interrupt, Recheck, Written, record, job, effects, At
<1>6. CASE \E pc \in {"interrupt", "again", "start", "resume"} : Goto(t, pc)
  <2>1. PICK pc \in {"interrupt", "again", "start", "resume"} : Goto(t, pc)
    BY <1>6
  <2>2. Moved(t) /\ th'[t].pc \in Free
    BY <1>2, <2>1, GotoMoves DEF IInv, Pc, Running, Free
  <2> QED
    BY <1>3, <1>4, <1>5, <2>2, FreeStep
<1>7. CASE Reconcile(t, "outer") /\ status' \in Terminal
  <2>1. "usage" \in Pc[th[t].role]
    BY <1>2 DEF Pc, Reconciling
  <2> QED
    BY <1>3, <1>5, <1>7, <2>1, UsageStep
<1> QED
  BY <1>6, <1>7 DEF Load, Interrupt, Recheck, ToFailed, Terminal, record

\* An acknowledgement: "complete" and "cancelled" come from settled runs only.
LEMMA AcknowledgeKeeps == ASSUME IInv, NEW t \in Thread, Acknowledge(t) PROVE IInv'
<1>1. Moved(t) /\ th'[t].pc \in Free
  BY EndMoves DEF IInv, Acknowledge, Free
<1>2. UNCHANGED <<record, effects, calls, epoch, env>>
  BY DEF Acknowledge
<1>3. queue' \in {"absent", "open", "granted"} \cup Terminal
  BY DEF Acknowledge, Verdict, At, IInv, TypeOK, Terminal
<1>4. /\ queue' \in {"succeeded", "cancelled"} => published
      /\ queue' = "granted" => queue = "granted"
  BY DEF Acknowledge, Verdict, At, IInv, PlaceTold, Ledger, QueueTold
<1>5. SharedOK' /\ Ledger' /\ Advance
  BY <1>2, <1>3, <1>4 DEF IInv, TypeOK, SharedOK, Ledger, CallMarked, FenceTold, OutboxTold, EventTold,
     QueueTold, Metered, Begun, Advance, record, effects
<1> QED
  BY <1>1, <1>2, <1>5, FreePlace, StepKeeps DEF IInv, TypeOK, env

\* Submission, withdrawal, waiting, and the boot's sweep.
LEMMA ServeKeeps ==
  ASSUME IInv, NEW t \in Thread, Submit(t) \/ Withdraw(t) \/ Await(t) \/ Scan(t) \/ Sweep(t)
  PROVE  IInv'
<1>1. UNCHANGED <<calls, epoch, asks, faults>>
  BY DEF Submit, Withdraw, Await, Scan, Sweep, job, env
<1>2. up' \in [Replica -> {"down", "booting", "up"}] /\ asks' \in Nat /\ faults' \in Nat
  BY <1>1 DEF Submit, Withdraw, Await, Scan, Sweep, Serve, env, IInv, TypeOK
<1>3. Written(t) \/ UNCHANGED <<record, effects, queue>>
  BY DEF Submit, Withdraw, Await, Scan, Sweep, Written, record, job, effects, At
<1>4. CASE End(t)
  <2>1. Moved(t) /\ th'[t].pc \in Free
    BY <1>4, EndMoves DEF IInv, Free
  <2> QED
    BY <1>1, <1>2, <1>3, <2>1, FreeStep
<1>5. CASE At(t, "scan") /\ Goto(t, "sweep")
  <2>1. "sweep" \in Pc[th[t].role]
    BY <1>5, PlaceOfRole, Roles DEF At, Pc, Running, Reconciling
  <2>2. Moved(t) /\ th'[t].pc \in Free
    BY <1>5, <2>1, GotoMoves DEF IInv, Free
  <2> QED
    BY <1>1, <1>2, <1>3, <2>2, FreeStep
<1>6. CASE /\ th[t].pc \in {"scan", "wait"} /\ status' \in Terminal /\ UNCHANGED env
           /\ Goto(t, "usage") \/ Reconcile(t, "outer")
  <2>1. "usage" \in Pc[th[t].role]
    BY <1>6, PlaceOfRole, Roles DEF Pc, Running, Reconciling
  <2>2. Moved(t) /\ th'[t].pc = "usage"
    BY <1>6, <2>1, GotoMoves, ReconcileMoves DEF IInv
  <2>3. PlaceTold(t)' /\ th'[t].pc # "call"
    BY <1>6, <2>2 DEF PlaceTold, At
  <2> QED
    BY <1>1, <1>2, <1>3, <2>2, <2>3, WriteStep
<1> QED
  BY <1>4, <1>5, <1>6 DEF Submit, Withdraw, Await, Scan, Sweep, Serve, At, Terminal, record, env

\* An abort sets signals of other threads of its replica, and goes on.
LEMMA AbortKeeps == ASSUME IInv, NEW t \in Thread, Abort(t) PROVE IInv'
<1>1. UNCHANGED <<record, effects, calls, job, env>>
  BY DEF Abort
<1>2. status = "cancelled" /\ th[t].role = "cancel"
  BY PlaceOfRole, Roles DEF IInv, Abort, PlaceTold, At, Pc, Running, Reconciling
<1>3. "usage" \in Pc["cancel"] /\ "usage" \in UNION {Pc[q] : q \in Role}
  BY <1>2, PlaceOfRole, PcType DEF Pc, Reconciling
<1>4. \A s \in Thread : /\ th'[s] \in ThreadState
                        /\ th'[s].role = th[s].role /\ th'[s].epoch = th[s].epoch
                        /\ th'[s].ctx = th[s].ctx
                        /\ th'[s].pc = IF s = t THEN "usage" ELSE th[s].pc
  <2> TAKE s \in Thread
  <2>1. th[s] \in ThreadState
    BY DEF IInv, TypeOK
  <2>2. [th[s] EXCEPT !.pc = "usage"] \in ThreadState /\ [th[s] EXCEPT !.aborted = TRUE] \in ThreadState
    BY <1>3, <2>1 DEF ThreadState
  <2> QED
    BY <2>1, <2>2 DEF Abort, ThreadState
<1>5. th' \in [Thread -> ThreadState]
  <2>1. th' = [s \in Thread |-> th'[s]]
    BY DEF Abort
  <2> QED
    BY <1>4, <2>1
<1>6. TypeOK'
  BY <1>1, <1>2, <1>3, <1>4, <1>5 DEF IInv, TypeOK, record, effects, job, env
<1>7. Ledger'
  BY <1>1 DEF IInv, Ledger, CallMarked, FenceTold, OutboxTold, EventTold, QueueTold, Metered, Begun,
     record, effects, job
<1>8. ASSUME NEW s \in Thread PROVE PlaceTold(s)' /\ ClaimTold(s)'
  <2>1. PlaceTold(s) /\ ClaimTold(s)
    BY DEF IInv
  <2>2. CASE s = t
    BY <1>1, <1>2, <1>4, <2>1, <2>2 DEF PlaceTold, ClaimTold, At, Terminal, record, job
  <2>3. CASE s # t
    BY <1>1, <1>4, <2>1, <2>3 DEF PlaceTold, ClaimTold, At, Metered, Begun, record, effects, job
  <2> QED
    BY <2>2, <2>3
<1>9. \A r, s \in Thread : r # s => Distinct(r, s)'
  BY <1>4 DEF IInv, Distinct, At
<1> QED
  BY <1>6, <1>7, <1>8, <1>9 DEF IInv

\* A call that throws, its write applied or not, leaves nothing claimed.
LEMMA StoreFailsKeeps == ASSUME IInv, NEW t \in Thread, StoreFails(t) PROVE IInv'
<1>1. /\ Moved(t) /\ th'[t].pc \in Free
      /\ up' \in [Replica -> {"down", "booting", "up"}]
  BY ThrowsMoves DEF IInv, StoreFails
<1>2. asks' \in Nat /\ faults' \in Nat
  BY DEF StoreFails, Costs, IInv, TypeOK
<1> QED
  BY <1>1, <1>2, FreeStep DEF StoreFails

\* Each step of a thread keeps the invariant.
LEMMA ThreadKeeps == ASSUME IInv, NEW t \in Thread, Step(t) PROVE IInv'
BY RunKeeps, CallKeeps, RunEndKeeps, ReconcileKeeps, HandlerKeeps, AcknowledgeKeeps,
   ServeKeeps, AbortKeeps DEF Step

-----------------------------------------------------------------------------
(* What comes from outside the threads.                                    *)

\* A thread that starts: nobody was there, and its claim is not yet told.
LEMMA SpawnMoves ==
  ASSUME TypeOK, NEW t \in Thread, NEW q \in Role, NEW r \in Replica, NEW pc \in Pc[q],
         Spawn(t, Fresh(q, r, pc))
  PROVE  Moved(t) /\ th'[t].pc = pc
<1> DEFINE s == Fresh(q, r, pc)
<1>1. /\ s \in ThreadState /\ s.pc = pc /\ s.role = q
      /\ s.epoch = 0 /\ s.ctx = "outer"
  BY PcType DEF Fresh, ThreadState
<1>2. th' = [th EXCEPT ![t] = s]
  BY DEF Spawn
<1> HIDE DEF s
<1> QED
  BY <1>1, <1>2, ThreadMoves

\* Requests and boots.  Only an allocation and a cancellation write, and what
\* they write is what the ledger tells.
LEMMA RequestKeeps ==
  ASSUME IInv, NEW t \in Thread, NEW r \in Replica, Request(t, r) \/ Boot(t, r)
  PROVE  IInv'
<1>1. UNCHANGED <<calls, epoch>>
  BY DEF Request, Boot, Allocate, CancelExecution, Replay, job
<1>2. up' \in [Replica -> {"down", "booting", "up"}] /\ asks' \in Nat /\ faults' \in Nat
  BY DEF Request, Boot, Allocate, CancelExecution, Replay, env, IInv, TypeOK
<1>3. SharedOK' /\ Ledger' /\ Advance
  <2> USE DEF IInv, TypeOK, SharedOK, Ledger, CallMarked, FenceTold, OutboxTold, EventTold, QueueTold,
          Metered, Begun, Advance, Terminal, Live
  <2>1. CASE UNCHANGED <<record, effects, queue>>
    BY <1>1, <2>1 DEF record, effects
  <2>2. CASE \E a \in BOOLEAN : Allocate(t, r, a)
    BY <1>1, <2>2 DEF Allocate, effects, job
  <2>3. CASE CancelExecution(t, r)
    BY <1>1, <2>3 DEF CancelExecution, effects, job
  <2> QED
    BY <2>1, <2>2, <2>3 DEF Request, Boot, Replay, record, job
<1>4. CASE \E q \in Role : \E pc \in Pc[q] \cap Free : Spawn(t, Fresh(q, r, pc))
  BY <1>1, <1>2, <1>3, <1>4, SpawnMoves, FreePlace, StepKeeps DEF IInv, TypeOK
<1>5. CASE /\ Spawn(t, Fresh("cancel", r, "abort")) /\ status' = "cancelled"
  <2>1. "abort" \in Pc["cancel"] /\ "cancel" \in Role
    BY Roles DEF Pc
  <2>2. Moved(t) /\ th'[t].pc = "abort"
    BY <1>5, <2>1, SpawnMoves DEF IInv
  <2>3. PlaceTold(t)'
    BY <1>5, <2>2 DEF PlaceTold, At, Reconciling
  <2> QED
    BY <1>1, <1>2, <1>3, <2>2, <2>3, StepKeeps DEF IInv, TypeOK
<1>6. CASE Spawn(t, Fresh("replay", r, "usage")) /\ status' \in Terminal
  <2>1. "usage" \in Pc["replay"] /\ "replay" \in Role
    BY Roles DEF Pc, Reconciling
  <2>2. Moved(t) /\ th'[t].pc = "usage"
    BY <1>6, <2>1, SpawnMoves DEF IInv
  <2>3. PlaceTold(t)'
    BY <1>6, <2>2 DEF PlaceTold, At
  <2> QED
    BY <1>1, <1>2, <1>3, <2>2, <2>3, StepKeeps DEF IInv, TypeOK
<1>7. /\ "submit" \in Pc["async"] \cap Pc["replay"] \cap Free /\ "start" \in Pc["sync"] \cap Free
      /\ "wait" \in Pc["replay"] \cap Free /\ "scan" \in Pc["boot"] \cap Free
      /\ {"async", "sync", "replay", "boot"} \subseteq Role
  BY Roles DEF Pc, Free, Running
<1>8. CASE \E a \in BOOLEAN : Allocate(t, r, a)
  BY <1>4, <1>7, <1>8 DEF Allocate
<1>9. CASE CancelExecution(t, r)
  BY <1>5, <1>9 DEF CancelExecution
<1>10. CASE Replay(t, r)
  BY <1>4, <1>6, <1>7, <1>10 DEF Replay, record
<1>11. CASE Boot(t, r)
  BY <1>4, <1>7, <1>11 DEF Boot
<1> QED
  BY <1>8, <1>9, <1>10, <1>11 DEF Request

\* A claim takes the next number, which no thread has.
LEMMA ClaimKeeps ==
  ASSUME IInv, NEW t \in Thread, NEW r \in Replica, Claim(t, r)
  PROVE  IInv'
<1> DEFINE s == [Fresh("job", r, "load") EXCEPT !.epoch = epoch + 1]
<1>1. "load" \in Pc["job"] /\ "job" \in Role
  BY Roles DEF Pc
<1>2. /\ s \in ThreadState /\ s.pc = "load" /\ s.role = "job"
      /\ s.epoch = epoch + 1 /\ s.ctx = "outer"
  <2>1. "load" \in UNION {Pc[q] : q \in Role} /\ epoch + 1 \in Nat
    BY <1>1, PcType DEF IInv, TypeOK
  <2> DEFINE f == Fresh("job", r, "load")
  <2>2. f \in ThreadState /\ f.pc = "load" /\ f.role = "job" /\ f.ctx = "outer"
    BY <1>1, <2>1 DEF Fresh, ThreadState
  <2> HIDE DEF f
  <2>3. s = [f EXCEPT !.epoch = epoch + 1]
    BY DEF f
  <2> QED
    BY <2>1, <2>2, <2>3 DEF ThreadState
<1>3. th' = [th EXCEPT ![t] = s]
  BY DEF Spawn, Claim
<1> HIDE DEF s
<1>4. UNCHANGED <<record, effects, calls, env>> /\ queue' = "granted" /\ epoch' = epoch + 1
  BY DEF Claim
<1>5. th' \in [Thread -> ThreadState] /\ th'[t] = s /\ \A q \in Thread \ {t} : th'[q] = th[q]
  BY <1>2, <1>3 DEF IInv, TypeOK
<1>6. TypeOK'
  BY <1>1, <1>2, <1>4, <1>5 DEF IInv, TypeOK, record, effects, env
<1>7. Ledger'
  BY <1>4 DEF IInv, TypeOK, Ledger, CallMarked, FenceTold, OutboxTold, EventTold, QueueTold, Metered,
     Begun, record, effects
<1>8. ASSUME NEW q \in Thread PROVE PlaceTold(q)' /\ ClaimTold(q)'
  <2>1. CASE q = t
    BY <1>2, <1>4, <1>5, <2>1 DEF PlaceTold, ClaimTold, At, Reconciling, IInv, TypeOK
  <2>2. CASE q # t
    <3>1. PlaceTold(q) /\ ClaimTold(q) /\ th'[q] = th[q] /\ epoch \in Nat /\ th[q].epoch \in Nat
      BY <1>5, <2>2 DEF IInv, TypeOK, ThreadState
    <3>2. PlaceTold(q)'
      BY <1>4, <3>1 DEF PlaceTold, At, Metered, Begun, record, effects
    <3> QED
      BY <1>4, <3>1, <3>2 DEF ClaimTold
  <2> QED
    BY <2>1, <2>2
<1>9. ASSUME NEW p \in Thread, NEW q \in Thread, p # q PROVE Distinct(p, q)'
  <2>1. \A u \in Thread : th[u].epoch \in Nat /\ th[u].epoch <= epoch
    BY DEF IInv, TypeOK, ThreadState, ClaimTold
  <2>2. CASE p = t
    BY <1>2, <1>5, <1>9, <2>1, <2>2 DEF Distinct, At, IInv, TypeOK
  <2>3. CASE q = t
    BY <1>2, <1>5, <1>9, <2>1, <2>3 DEF Distinct, At, IInv, TypeOK
  <2>4. CASE p # t /\ q # t
    BY <1>5, <1>9, <2>4 DEF Distinct, At, IInv
  <2> QED
    BY <2>2, <2>3, <2>4
<1> QED
  BY <1>6, <1>7, <1>8, <1>9 DEF IInv

\* A lease that is lost, or passes.
LEMMA LeaseKeeps ==
  ASSUME IInv, (\E t \in Thread : LoseLease(t)) \/ TakeBack
  PROVE  IInv'
<1>1. CASE TakeBack
  BY <1>1 DEF TakeBack, IInv, TypeOK, Ledger, CallMarked, FenceTold, OutboxTold, EventTold, QueueTold,
     Metered, Begun, PlaceTold, ClaimTold, Distinct, At, record, effects
<1>2. ASSUME NEW t \in Thread, LoseLease(t) PROVE IInv'
  <2> DEFINE s == [th[t] EXCEPT !.aborted = TRUE, !.epoch = 0]
  <2>1. /\ s \in ThreadState /\ s.pc = th[t].pc /\ s.role = th[t].role
        /\ s.epoch = 0 /\ s.ctx = th[t].ctx
    BY DEF IInv, TypeOK, ThreadState
  <2>2. th' = [th EXCEPT ![t] = s]
    BY <1>2 DEF LoseLease, IInv, TypeOK, ThreadState
  <2> HIDE DEF s
  <2>3. Moved(t) /\ th'[t] = s
    BY <2>1, <2>2, ThreadMoves DEF IInv, TypeOK
  <2>4. UNCHANGED <<record, effects, calls, job, up, asks>> /\ faults' \in Nat
    BY <1>2 DEF LoseLease, IInv, TypeOK
  <2>5. PlaceTold(t)'
    BY <2>1, <2>3, <2>4 DEF IInv, PlaceTold, At, Metered, Begun, record, effects
  <2>6. SharedOK' /\ Ledger' /\ Advance
    BY <2>4, WrittenKeeps DEF job
  <2>7. th'[t].pc = "call" => \A q \in Thread \ {t} : th[q].pc # "call"
    BY <2>1, <2>3 DEF IInv, Distinct, At
  <2> QED
    BY <2>3, <2>4, <2>5, <2>6, <2>7, StepKeeps DEF IInv, TypeOK, job
<1> QED
  BY <1>1, <1>2

\* A crash takes threads away; what they wrote stays.
LEMMA CrashKeeps == ASSUME IInv, NEW r \in Replica, Crash(r) PROVE IInv'
<1>1. UNCHANGED <<record, effects, calls, job>>
  BY DEF Crash
<1>2. \A t \in Thread : th'[t] = th[t] \/ th'[t] = Idle
  BY DEF Crash
<1>3. th' \in [Thread -> ThreadState]
  BY <1>2, IdleType DEF Crash, IInv, TypeOK
<1>4. "idle" \in Pc["idle"]
  BY DEF Pc
<1>5. TypeOK'
  BY <1>1, <1>2, <1>3, <1>4, IdleType DEF Crash, Costs, IInv, TypeOK, record, effects, job
<1>6. Ledger'
  BY <1>1 DEF IInv, Ledger, CallMarked, FenceTold, OutboxTold, EventTold, QueueTold, Metered, Begun,
     record, effects, job
<1>7. ASSUME NEW t \in Thread PROVE PlaceTold(t)' /\ ClaimTold(t)'
  <2>1. CASE th'[t] = Idle
    BY <2>1, IdleType DEF PlaceTold, ClaimTold, At, Reconciling
  <2>2. CASE th'[t] = th[t]
    BY <1>1, <2>2 DEF IInv, PlaceTold, ClaimTold, At, Metered, Begun, record, effects, job
  <2> QED
    BY <1>2, <2>1, <2>2
<1>8. \A p, q \in Thread : p # q => Distinct(p, q)'
  BY <1>2, IdleType DEF IInv, Distinct, At
<1> QED
  BY <1>5, <1>6, <1>7, <1>8 DEF IInv

-----------------------------------------------------------------------------
(* The theorems.                                                           *)

\* Initially nothing is claimed.
LEMMA InitKeeps == Init => IInv
<1> SUFFICES ASSUME Init PROVE IInv
  OBVIOUS
<1>1. th \in [Thread -> ThreadState] /\ \A t \in Thread : th[t] = Idle
  BY IdleType DEF Init
<1>2. "idle" \in Pc["idle"]
  BY DEF Pc
<1>3. TypeOK
  BY <1>1, <1>2, IdleType, ExecutionAssumption DEF Init, TypeOK
<1>4. Ledger
  BY DEF Init, Ledger, CallMarked, FenceTold, OutboxTold, EventTold, QueueTold, Terminal
<1>5. \A t \in Thread : PlaceTold(t) /\ ClaimTold(t)
  BY <1>1, IdleType DEF PlaceTold, ClaimTold, At, Reconciling
<1>6. \A s, t \in Thread : s # t => Distinct(s, t)
  BY <1>1, IdleType DEF Distinct, At
<1> QED
  BY <1>3, <1>4, <1>5, <1>6 DEF IInv

\* Every step keeps the invariant.
LEMMA NextKeeps == IInv /\ [Next]_vars => IInv'
<1> SUFFICES ASSUME IInv, [Next]_vars PROVE IInv'
  OBVIOUS
<1>1. CASE UNCHANGED vars
  BY <1>1 DEF vars, record, effects, job, env, IInv, TypeOK, Ledger, CallMarked, FenceTold, OutboxTold,
     EventTold, QueueTold, Metered, Begun, PlaceTold, ClaimTold, Distinct, At
<1>2. CASE Next
  BY <1>2, ThreadKeeps, LeaseKeeps, StoreFailsKeeps, RequestKeeps, ClaimKeeps, CrashKeeps DEF Next
<1> QED
  BY <1>1, <1>2

\* The inductive invariant holds of every behaviour: what the shared state and
\* each thread's place tell of the others is always true.
THEOREM Invariance == Spec => []IInv
<1>1. Init => IInv
  BY InitKeeps
<1>2. IInv /\ [Next]_vars => IInv'
  BY NextKeeps
<1> QED
  BY <1>1, <1>2, PTL DEF Spec

\* Every variable keeps its type (engine.ts, store.ts and the job queue).
THEOREM TypeCorrect == Spec => []TypeOK
<1>1. IInv => TypeOK
  BY DEF IInv
<1> QED
  BY <1>1, Invariance, PTL

\* The provider is called at most once for an execution: markDispatchStarted
\* lets one owner through, whatever crashes, retries and second claims do.
THEOREM OneCall == Spec => []AtMostOneCall
<1>1. IInv => AtMostOneCall
  BY DEF IInv, Ledger, CallMarked, AtMostOneCall
<1> QED
  BY <1>1, Invariance, PTL

\* dispatchMayHaveBegun = false on a cancelled record is kept: no call was made,
\* and nobody is about to make one (store.cancelExecution against the marker).
THEOREM Fence == Spec => []CancelFence
<1>1. IInv => CancelFence
  BY DEF IInv, TypeOK, Ledger, CallMarked, FenceTold, PlaceTold, CancelFence
<1> QED
  BY <1>1, Invariance, PTL

\* Inv: every variable keeps its type, and what a cancelled record says of the
\* dispatch stays true.
THEOREM Invariants == Spec => []Inv
<1>1. TypeOK /\ CancelFence <=> Inv
  BY DEF Inv
<1> QED
  BY <1>1, TypeCorrect, Fence, PTL

\* Finalized usage tells of the dispatch: a call is reported, a reservation is
\* given back only where there was none (reconcileTerminalExecution).
THEOREM UsageTold == Spec => []UsageTruthful
<1>1. IInv => UsageTruthful
  <2> SUFFICES ASSUME IInv, usageDone PROVE UsageTruthful
    BY DEF UsageTruthful
  <2>1. status \in Terminal /\ (Begun /\ Metering # "off" => outbox = "report")
    BY DEF IInv, Ledger, OutboxTold, Metered
  <2>2. outbox = "report" => Begun
    BY DEF IInv, Ledger, OutboxTold
  <2>3. calls \in {0, 1} /\ (calls = 1 => marked) /\ (status = "cancelled" => fence = marked)
    BY DEF IInv, Ledger, CallMarked, FenceTold
  <2>4. Metering = "off" => outbox = "none"
    BY DEF IInv, Ledger, OutboxTold
  <2>5. calls > 0 => Begun
    BY <2>1, <2>3 DEF Begun, Terminal
  <2>6. outbox = "release" => calls = 0
    BY <2>1, <2>3, <2>4, <2>5
  <2>7. status = "cancelled" /\ ~fence => ~Begun
    BY DEF Begun
  <2> QED
    BY <2>1, <2>2, <2>5, <2>6, <2>7 DEF UsageTruthful
<1> QED
  BY <1>1, Invariance, PTL

\* A job acknowledged as complete or cancelled leaves nothing behind: its run is
\* terminal, its usage finalized, its event admitted (runExecutionJob's result).
THEOREM AcknowledgedSettled == Spec => []AcknowledgedIsSettled
<1>1. IInv => AcknowledgedIsSettled
  BY DEF IInv, Ledger, QueueTold, EventTold, OutboxTold, AcknowledgedIsSettled
<1> QED
  BY <1>1, Invariance, PTL

-----------------------------------------------------------------------------
(* What the engine does with its job is what JobLease allows.              *)

JobStatus  == [e \in {Exec} |-> queue]
JobEpoch   == [e \in {Exec} |-> epoch]
ClaimOf(t) == [by |-> th[t].at, job |-> Exec, epoch |-> th[t].epoch]
ClaimSet   == {ClaimOf(t) : t \in {s \in Thread : th[s].epoch # 0}}

\* Threads keep their claims or drop them.
Sheds == \A s \in Thread : \/ th'[s].epoch = 0
                           \/ th'[s].epoch = th[s].epoch /\ th'[s].at = th[s].at

LEMMA GotoSheds == ASSUME TypeOK, NEW t \in Thread, NEW pc, Goto(t, pc) PROVE Sheds
BY DEF TypeOK, ThreadState, Goto, Sheds

LEMMA ReconcileSheds == ASSUME TypeOK, NEW t \in Thread, NEW c, Reconcile(t, c) PROVE Sheds
BY DEF TypeOK, ThreadState, Reconcile, Sheds

LEMMA CatchSheds == ASSUME TypeOK, NEW t \in Thread, NEW e, Catch(t, e) PROVE Sheds
BY DEF TypeOK, ThreadState, Catch, Sheds

LEMMA EndSheds == ASSUME TypeOK, NEW t \in Thread, End(t) PROVE Sheds
BY IdleType DEF TypeOK, End, Sheds

LEMMA SpawnSheds ==
  ASSUME TypeOK, NEW t \in Thread, NEW q, NEW r, NEW pc, Spawn(t, Fresh(q, r, pc)) PROVE Sheds
<1>1. Fresh(q, r, pc).epoch = 0
  BY DEF Fresh
<1> QED
  BY <1>1 DEF TypeOK, Spawn, Sheds

LEMMA RethrowSheds == ASSUME TypeOK, NEW t \in Thread, Rethrow(t) PROVE Sheds
BY GotoSheds, EndSheds DEF Rethrow

LEMMA ThrowsSheds == ASSUME TypeOK, NEW t \in Thread, Throws(t) PROVE Sheds
BY GotoSheds, CatchSheds, RethrowSheds, EndSheds DEF Throws

\* Every step of a thread keeps or drops claims.
LEMMA StepSheds == ASSUME TypeOK, NEW t \in Thread, Step(t) PROVE Sheds
<1>1. CASE Submit(t) \/ Withdraw(t) \/ Await(t) \/ Acknowledge(t) \/ Sweep(t) \/ Scan(t)
  BY <1>1, EndSheds, GotoSheds, ReconcileSheds
     DEF Submit, Withdraw, Await, Acknowledge, Sweep, Scan, Serve
<1>2. CASE Load(t) \/ Interrupt(t) \/ Recheck(t) \/ Succeed(t) \/ Fail(t) \/ CatchRun(t) \/ Release(t)
  BY <1>2, GotoSheds, ReconcileSheds, CatchSheds, RethrowSheds
     DEF Load, Interrupt, Recheck, Succeed, Fail, CatchRun, Release
<1>3. CASE Start(t) \/ Resume(t) \/ Resolve(t) \/ CallProvider(t)
  BY <1>3, GotoSheds, CatchSheds DEF Start, Resume, Resolve, CallProvider
<1>4. CASE Usage(t) \/ UsageMark(t) \/ Publish(t) \/ PublishMark(t)
  BY <1>4, GotoSheds, EndSheds, ThrowsSheds DEF Usage, UsageMark, Publish, PublishMark
<1>5. CASE Dispatch(t)
  <2>1. CASE th' = [th EXCEPT ![t].pc = "call", ![t].attempted = TRUE]
    BY <2>1 DEF TypeOK, ThreadState, Sheds
  <2> QED
    BY <1>5, <2>1, GotoSheds, CatchSheds DEF Dispatch
<1>6. CASE Abort(t)
  BY <1>6 DEF Abort, TypeOK, ThreadState, Sheds
<1> QED
  BY <1>1, <1>2, <1>3, <1>4, <1>5, <1>6 DEF Step

\* Shedding leaves a part of the claims, all of them if no claim was dropped.
LEMMA ClaimsShed ==
  ASSUME Sheds
  PROVE  /\ ClaimSet' \subseteq ClaimSet
         /\ (\A t \in Thread : th[t].epoch # 0 => th'[t] = th[t]) => ClaimSet' = ClaimSet
BY DEF Sheds, ClaimSet, ClaimOf

\* A thread that submits, withdraws or sweeps has no claim.
LEMMA OfferersClaimNothing ==
  ASSUME IInv, NEW t \in Thread, th[t].pc \in {"submit", "withdraw", "sweep"}
  PROVE  th[t].epoch = 0
BY PlaceOfRole, Roles DEF IInv, ClaimTold, Pc, Running, Reconciling

\* What a decision, or none, leaves of the claims.
LEMMA AcknowledgeImplements ==
  ASSUME IInv, NEW t \in Thread, Acknowledge(t)
  PROVE  [Queue!ANext]_(Queue!avars)
<1> USE DEF JobStatus, JobEpoch, ClaimOf, ClaimSet
<1>1. Sheds
  BY StepSheds DEF IInv, Step
<1>2. ClaimSet' \subseteq ClaimSet /\ JobEpoch' = JobEpoch
  BY <1>1, ClaimsShed DEF Acknowledge
<1>3. CASE ~Holds(t)
  BY <1>2, <1>3 DEF Acknowledge, Queue!ANext, Queue!WalkAway, Queue!Fewer
<1>4. CASE Holds(t)
  <2> DEFINE c == ClaimOf(t)
  <2>1. th[t].epoch = epoch /\ queue = "granted" /\ epoch # 0
    BY <1>4 DEF Holds, IInv, TypeOK, Ledger, QueueTold
  <2>2. c \in ClaimSet /\ c.job = Exec /\ c.epoch = epoch /\ queue = "granted"
    BY <2>1
  <2>3. queue' \in Queue!Closed \cup {"open"}
    BY <1>4 DEF Acknowledge, Verdict, At, Queue!Closed
  <2>4. JobStatus' = [JobStatus EXCEPT ![c.job] = queue']
    BY <2>2
  <2>5. c \notin ClaimSet'
    <3> SUFFICES ASSUME c \in ClaimSet' PROVE FALSE
      OBVIOUS
    <3>1. PICK s \in Thread : th'[s].epoch # 0 /\ c.epoch = th'[s].epoch
      OBVIOUS
    <3>2. th'[t].epoch = 0
      BY IdleType DEF Acknowledge, End, IInv, TypeOK
    <3>3. s # t /\ th'[s] = th[s]
      BY <3>1, <3>2 DEF Acknowledge, End
    <3> QED
      BY <2>2, <3>1, <3>3 DEF IInv, Distinct
  <2> HIDE DEF c
  <2>6. PICK d \in ClaimSet : d = c
    BY <2>2
  <2>7. ClaimSet' \in SUBSET (ClaimSet \ {c})
    BY <1>2, <2>5
  <2>8. JobStatus[c.job] = "granted" /\ c.epoch = JobEpoch[c.job]
    BY <2>2
  <2> HIDE DEF JobStatus, JobEpoch, ClaimSet
  <2>9. Queue!Decide(d)
    BY <1>2, <2>3, <2>4, <2>6, <2>7, <2>8 DEF Queue!Decide, JobStatus, JobEpoch, ClaimSet, ClaimOf
  <2> QED
    BY <2>9 DEF Queue!ANext, ClaimSet, ClaimOf
<1> QED
  BY <1>3, <1>4

\* A thread offers the job, or withdraws it, without a claim of its own.
LEMMA OfferImplements ==
  ASSUME IInv, NEW t \in Thread, th[t].pc \in {"submit", "withdraw", "sweep"},
         Sheds, \A s \in Thread \ {t} : th'[s] = th[s], epoch' = epoch,
         \/ queue = "absent" /\ queue' = "open"
         \/ queue = "open" /\ queue' = "cancelled"
         \/ Offered
         \/ queue' = queue
  PROVE  [Queue!ANext]_(Queue!avars)
<1>1. th[t].epoch = 0
  BY OfferersClaimNothing
<1>2. ClaimSet' = ClaimSet
  BY <1>1, ClaimsShed
<1>3. UNCHANGED <<JobEpoch, ClaimSet>> /\ Exec \in {Exec} /\ JobStatus[Exec] = queue
  BY <1>2 DEF JobEpoch, JobStatus
<1>4. CASE queue' = queue
  BY <1>3, <1>4 DEF JobStatus, JobEpoch, ClaimSet, ClaimOf, Queue!avars
<1>5. JobStatus' = [JobStatus EXCEPT ![Exec] = queue']
  BY DEF JobStatus
<1>6. CASE queue = "absent" /\ queue' = "open"
  BY <1>3, <1>5, <1>6 DEF JobStatus, JobEpoch, ClaimSet, ClaimOf, Queue!ANext, Queue!Offer
<1>7. CASE queue = "open" /\ queue' = "cancelled"
  BY <1>3, <1>5, <1>7 DEF JobStatus, JobEpoch, ClaimSet, ClaimOf, Queue!ANext, Queue!Withdraw
<1>8. CASE queue \in {"succeeded", "failed"} /\ queue' = "open"
  BY <1>3, <1>5, <1>8 DEF JobStatus, JobEpoch, ClaimSet, ClaimOf, Queue!ANext, Queue!Reopen
<1> QED
  BY <1>4, <1>6, <1>7, <1>8 DEF Offered

\* A claim is the next one.
LEMMA ClaimImplements ==
  ASSUME IInv, NEW t \in Thread, NEW r \in Replica, Claim(t, r)
  PROVE  [Queue!ANext]_(Queue!avars)
<1> DEFINE s == [Fresh("job", r, "load") EXCEPT !.epoch = epoch + 1]
<1>1. s.at = r /\ s.epoch = epoch + 1 /\ epoch \in Nat
  BY DEF Fresh, IInv, TypeOK
<1>2. th' = [th EXCEPT ![t] = s] /\ th \in [Thread -> ThreadState]
  BY DEF Spawn, Claim, IInv, TypeOK
<1> HIDE DEF s
<1>3. th[t].epoch = 0
  BY DEF Claim, Spawn, IInv, ClaimTold
<1> DEFINE c == [by |-> r, job |-> Exec, epoch |-> epoch + 1]
<1>4. th'[t].epoch # 0 /\ ClaimOf(t)' = c
  BY <1>1, <1>2 DEF ClaimOf
<1>5. \A q \in Thread \ {t} : th'[q] = th[q]
  BY <1>2
<1>6. ClaimSet' = ClaimSet \cup {c}
  BY <1>3, <1>4, <1>5 DEF ClaimSet, ClaimOf
<1>7. JobStatus' = [JobStatus EXCEPT ![Exec] = "granted"] /\ JobStatus[Exec] = "open"
  BY DEF JobStatus, Claim
<1>8. JobEpoch' = [JobEpoch EXCEPT ![Exec] = @ + 1] /\ JobEpoch[Exec] = epoch
  BY DEF JobEpoch, Claim
<1>9. Queue!Grant(Exec, r)
  BY <1>6, <1>7, <1>8 DEF Queue!Grant, JobStatus, JobEpoch, ClaimSet, ClaimOf
<1> QED
  BY <1>9 DEF Queue!ANext

\* What the engine, its requests and its recovery do with the job is what the
\* store's contract allows: the lease decides who may end it.
THEOREM LeaseContract == Spec => KeepsLeaseContract
<1>1. Init => Queue!AInit
  <2> SUFFICES ASSUME Init PROVE Queue!AInit
    OBVIOUS
  <2>1. \A t \in Thread : th[t].epoch = 0
    BY IdleType DEF Init
  <2> QED
    BY <2>1 DEF Init, Queue!AInit
<1>2. IInv /\ [Next]_vars => [Queue!ANext]_(Queue!avars)
  <2> SUFFICES ASSUME IInv, [Next]_vars PROVE [Queue!ANext]_(Queue!avars)
    OBVIOUS
  <2> USE DEF job
  <2>1. ASSUME Sheds, queue' = queue, epoch' = epoch PROVE [Queue!ANext]_(Queue!avars)
    <3>1. ClaimSet' \subseteq ClaimSet
      BY <2>1, ClaimsShed
    <3> QED
      BY <2>1, <3>1 DEF Queue!ANext, Queue!WalkAway, Queue!Fewer, ClaimSet, ClaimOf
  <2>2. ASSUME NEW t \in Thread, Step(t) PROVE [Queue!ANext]_(Queue!avars)
    <3>1. Sheds /\ epoch' = epoch
      BY <2>2, StepSheds DEF IInv, Step, Submit, Abort, Withdraw, Await, Load, Interrupt, Recheck,
         Acknowledge, Start, Resume, Resolve, Dispatch, CallProvider, Succeed, Fail, CatchRun, Release,
         Usage, UsageMark, Publish, PublishMark, Scan, Sweep
    <3>2. CASE Acknowledge(t)
      BY <3>2, AcknowledgeImplements
    <3>3. CASE Submit(t) \/ Withdraw(t) \/ Sweep(t)
      <4>1. End(t) /\ th[t].pc \in {"submit", "withdraw", "sweep"}
        BY <3>3 DEF Submit, Withdraw, Sweep, Serve, At
      <4>2. \A s \in Thread \ {t} : th'[s] = th[s]
        BY <4>1 DEF End, IInv, TypeOK
      <4> QED
        BY <3>1, <3>3, <4>1, <4>2, OfferImplements DEF Submit, Withdraw, Sweep
    <3>4. CASE queue' = queue
      BY <2>1, <3>1, <3>4
    <3> QED
      BY <2>2, <3>2, <3>3, <3>4 DEF Step, Abort, Await, Load, Interrupt, Recheck, Start, Resume,
         Resolve, Dispatch, CallProvider, Succeed, Fail, CatchRun, Release, Usage, UsageMark, Publish,
         PublishMark, Scan
  <2>3. ASSUME NEW t \in Thread, StoreFails(t) PROVE [Queue!ANext]_(Queue!avars)
    <3>1. Sheds /\ epoch' = epoch
      BY <2>3, ThrowsSheds DEF StoreFails, IInv
    <3>2. CASE th[t].pc \in {"submit", "withdraw", "sweep"}
      <4>1. \A s \in Thread \ {t} : th'[s] = th[s]
        BY <2>3, ThrowsMoves DEF StoreFails, IInv, Moved
      <4> QED
        BY <2>3, <3>1, <3>2, <4>1, OfferImplements DEF StoreFails, Written, At
    <3>3. CASE queue' = queue
      BY <2>1, <3>1, <3>3
    <3> QED
      BY <2>3, <3>2, <3>3 DEF StoreFails, Written, At
  <2>4. ASSUME NEW t \in Thread, LoseLease(t) PROVE [Queue!ANext]_(Queue!avars)
    <3>1. Sheds
      BY <2>4 DEF LoseLease, Sheds, IInv, TypeOK, ThreadState
    <3> QED
      BY <2>1, <2>4, <3>1 DEF LoseLease
  <2>5. ASSUME NEW t \in Thread, NEW r \in Replica, Request(t, r) \/ Boot(t, r)
        PROVE  [Queue!ANext]_(Queue!avars)
    <3>1. Sheds
      BY <2>5, SpawnSheds DEF Request, Boot, Allocate, CancelExecution, Replay, IInv
    <3> QED
      BY <2>1, <2>5, <3>1 DEF Request, Boot, Allocate, CancelExecution, Replay
  <2>6. ASSUME NEW r \in Replica, Crash(r) PROVE [Queue!ANext]_(Queue!avars)
    <3>1. Sheds
      BY <2>6, IdleType DEF Crash, Sheds
    <3> QED
      BY <2>1, <2>6, <3>1 DEF Crash
  <2>7. CASE TakeBack
    <3>1. th' = th /\ queue = "granted" /\ queue' = "open" /\ epoch' = epoch
      BY <2>7 DEF TakeBack
    <3>2. Queue!TakeBack({Exec})
      BY <3>1 DEF Queue!TakeBack
    <3> QED
      BY <3>2 DEF Queue!ANext
  <2>8. CASE UNCHANGED vars
    <3>1. Sheds /\ queue' = queue /\ epoch' = epoch
      BY <2>8 DEF vars, Sheds
    <3> QED
      BY <2>1, <3>1
  <2> QED
    BY <2>2, <2>3, <2>4, <2>5, <2>6, <2>7, <2>8, ClaimImplements DEF Next
<1> QED
  BY <1>1, <1>2, Invariance, PTL DEF Spec, KeepsLeaseContract, Queue!ASpec

\* A terminal record never changes again: every write of the store is a
\* compare-and-set on the record (assertExecutionTransition).
THEOREM RecordFinal == Spec => TerminalRecordIsFinal
<1>1. IInv /\ [Next]_vars => [(status \in Terminal) => UNCHANGED <<status, fence, marked>>]_vars
  <2> SUFFICES ASSUME Next, status \in Terminal PROVE UNCHANGED <<status, fence, marked>>
    OBVIOUS
  <2> USE DEF record, Terminal, Live
  <2>1. ASSUME NEW t \in Thread, Step(t) PROVE UNCHANGED <<status, fence, marked>>
    BY <2>1 DEF Step, Submit, Abort, Withdraw, Await, Load, Interrupt, Recheck, Acknowledge, Start, Resume,
       Resolve, Dispatch, CallProvider, Succeed, Fail, CatchRun, Release, Usage, UsageMark, Publish,
       PublishMark, Scan, Sweep, ToRunning, ToMarked, ToSucceeded, ToFailed
  <2>2. ASSUME NEW t \in Thread, StoreFails(t) PROVE UNCHANGED <<status, fence, marked>>
    BY <2>2 DEF StoreFails, Written, ToRunning, ToMarked, ToSucceeded, ToFailed
  <2>3. ASSUME NEW t \in Thread, NEW r \in Replica, Request(t, r) \/ Claim(t, r) \/ Boot(t, r)
        PROVE  UNCHANGED <<status, fence, marked>>
    BY <2>3 DEF Request, Claim, Boot, Allocate, CancelExecution, Replay
  <2>4. ASSUME NEW r \in Replica, Crash(r) PROVE UNCHANGED <<status, fence, marked>>
    BY <2>4 DEF Crash
  <2> QED
    BY <2>1, <2>2, <2>3, <2>4 DEF Next, LoseLease, TakeBack
<1> QED
  BY <1>1, Invariance, PTL DEF Spec, TerminalRecordIsFinal
=============================================================================
