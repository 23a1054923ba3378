--------------------------- MODULE JobQueueProofs ---------------------------
(***************************************************************************)
(* Proofs about JobQueue for every set of jobs and replicas, every lease,  *)
(* clock skew, concurrency and number of faults.                           *)
(***************************************************************************)
EXTENDS JobQueue, TLAPS

Safe == TypeOK /\ LeasesConsistent

\* What TypeOK says of the runs.
RunsOK == /\ runs \in SUBSET Run
          /\ \A r \in runs : r.phase # "handling" => r.result \in Result

-----------------------------------------------------------------------------
(* Lemmas about the helpers the actions are built from.                    *)

\* Counting a timer down keeps it a natural number.
LEMMA LessNat == ASSUME NEW n \in Nat PROVE Less(n) \in Nat
BY DEF Less

\* The run a claim starts is a run, and holds the number of that claim.
LEMMA NewRunType ==
  ASSUME NEW w \in Worker, NEW j \in Job, TypeOK
  PROVE  NewRun(w, j) \in Run
BY DEF NewRun, Run, Result, TypeOK

\* An answered heartbeat leaves a run its identity.
LEMMA AnsweredType ==
  ASSUME NEW r \in Run, NEW l \in BOOLEAN
  PROVE  /\ Answered(r, l) \in Run
         /\ Answered(r, l).by = r.by
         /\ Answered(r, l).job = r.job
         /\ Answered(r, l).token = r.token
BY DEF Answered, Run, Result

\* A result becomes a state of the row.
LEMMA OutcomeType ==
  ASSUME NEW res \in Result
  PROVE  Outcome(res) \in Terminal \cup {"pending"}
BY DEF Outcome, Result, Terminal

\* A renewal changes how long a lease lasts, and nothing else.
LEMMA RenewType ==
  ASSUME TypeOK, NEW r \in Run, Renew(r)
  PROVE  /\ lease' \in [Job -> Lease]
         /\ \A j \in Job : lease'[j].by = lease[j].by /\ lease'[j].token = lease[j].token
         /\ \A j \in Job : j # r.job => lease'[j] = lease[j]
BY DEF TypeOK, Renew, Longer, Lease, Run

\* A step that only drops runs keeps what is known of the others.
LEMMA FewerRuns ==
  ASSUME TypeOK, RunsClaimed, ClaimsDistinct, runs' \subseteq runs, UNCHANGED attempts
  PROVE  RunsOK' /\ RunsClaimed' /\ ClaimsDistinct'
BY DEF RunsOK, TypeOK, RunsClaimed, ClaimsDistinct

\* A run that goes on keeps its identity, and stays the only one with it.
LEMMA SameRun ==
  ASSUME TypeOK, RunsClaimed, ClaimsDistinct, UNCHANGED attempts,
         NEW r \in runs, NEW s \in Run, s.job = r.job, s.token = r.token,
         s.phase # "handling" => s.result \in Result, Becomes(r, s)
  PROVE  RunsOK' /\ RunsClaimed' /\ ClaimsDistinct'
BY DEF RunsOK, TypeOK, RunsClaimed, ClaimsDistinct, Becomes

\* The final write of a holder leaves a consistent row.
LEMMA WriteSafe ==
  ASSUME Safe, NEW r \in runs, r.result \in Result, Write(r), QueueAssumption
  PROVE  /\ state' \in [Job -> State] /\ sequence' \in Nat /\ seq' \in [Job -> Nat]
         /\ attempts' = attempts /\ lease' \in [Job -> Lease] /\ delay' \in [Job -> Nat]
         /\ HolderIffRunning'
<1> r.job \in Job
  BY DEF Safe, TypeOK, Run
<1>1. Outcome(r.result) \in State \ {"running"}
  BY OutcomeType DEF Terminal, State, Live
<1>2. NoLease \in Lease
  BY DEF NoLease, Lease
<1> QED
  BY <1>1, <1>2 DEF Safe, TypeOK, LeasesConsistent, HolderIffRunning, Write, QueueAssumption

-----------------------------------------------------------------------------
(* Type correctness and lease consistency, together an inductive           *)
(* invariant.                                                              *)

LEMMA SafeInit == ASSUME QueueAssumption PROVE Init => Safe
BY DEF QueueAssumption, Init, Safe, TypeOK, LeasesConsistent, HolderIffRunning,
   RunsClaimed, ClaimsDistinct, State, Live, Terminal, NoLease, Lease, Mode, Run

\* Each step of a run keeps the invariant.
LEMMA SafeRunStep ==
  ASSUME QueueAssumption, Safe, NEW r \in runs, RunStep(r)
  PROVE  Safe'
<1> USE DEF Safe, LeasesConsistent
<1>0. r \in Run /\ r.job \in Job /\ r.by \in Worker /\ r.ttl \in Nat
      /\ (r.phase # "handling" => r.result \in Result)
  BY DEF TypeOK, Run
<1>1. FullLease(r.by) \in Nat
  BY <1>0 DEF QueueAssumption, FullLease
<1>2. CASE SendRenewal(r)
  <2> DEFINE s == [r EXCEPT !.beat = "sent", !.fresh = Leased(r), !.ttl = FullLease(r.by)]
  <2>1. Leased(r) \in BOOLEAN
    BY DEF Leased, Current
  <2>2. s \in Run /\ s.job = r.job /\ s.token = r.token /\ s.phase = "handling"
    BY <1>0, <1>1, <1>2, <2>1 DEF SendRenewal, Run
  <2>3. Becomes(r, s) /\ UNCHANGED attempts
    BY <1>2 DEF SendRenewal, store
  <2>4. RunsOK' /\ RunsClaimed' /\ ClaimsDistinct'
    BY <2>2, <2>3, SameRun
  <2> QED
    BY <1>2, <2>4 DEF SendRenewal, store, procs, TypeOK, RunsOK, HolderIffRunning
<1>3. CASE RenewalLands(r) \/ RenewalFails(r)
  <2>1. UNCHANGED <<state, sequence, seq, attempts, delay, procs, reopened>> /\ faults' \in Nat
    <3>1. CASE RenewalLands(r)
      BY <3>1 DEF RenewalLands, TypeOK
    <3>2. CASE RenewalFails(r)
      BY <3>2 DEF RenewalFails, TypeOK
    <3> QED
      BY <1>3, <3>1, <3>2
  <2>2. UNCHANGED lease \/ Renew(r)
    BY <1>3 DEF RenewalLands, RenewalFails
  <2>3. PICK l \in BOOLEAN : Becomes(r, Answered(r, l))
    BY <1>3 DEF RenewalLands, RenewalFails
  <2>4. Answered(r, l).phase = r.phase /\ Answered(r, l).result = r.result
    BY <1>0 DEF Answered, Run
  <2>5. RunsOK' /\ RunsClaimed' /\ ClaimsDistinct'
    BY <1>0, <2>1, <2>3, <2>4, AnsweredType, SameRun
  <2>6. lease' \in [Job -> Lease] /\ HolderIffRunning'
    <3>1. CASE UNCHANGED lease
      BY <2>1, <3>1 DEF TypeOK, HolderIffRunning
    <3>2. CASE Renew(r) /\ Current(r)
      <4>1. /\ lease' \in [Job -> Lease]
            /\ \A j \in Job : lease'[j].by = lease[j].by /\ lease'[j].token = lease[j].token
            /\ \A j \in Job : j # r.job => lease'[j] = lease[j]
        BY <1>0, <3>2, RenewType
      <4>2. state[r.job] = "running"
        BY <3>2 DEF Current
      <4> QED
        BY <2>1, <4>1, <4>2 DEF HolderIffRunning
    <3> QED
      BY <1>3, <3>1, <3>2 DEF RenewalLands, RenewalFails
  <2> QED
    BY <2>1, <2>5, <2>6 DEF procs, TypeOK, RunsOK
<1>4. CASE \E res \in Result : HandlerReturns(r, res)
  <2>1. PICK res \in Result : HandlerReturns(r, res)
    BY <1>4
  <2> DEFINE s == [r EXCEPT !.phase = "returned", !.result = res]
  <2>2. s \in Run /\ s.job = r.job /\ s.token = r.token /\ s.result \in Result
    BY <1>0 DEF Run
  <2>3. Becomes(r, s) /\ UNCHANGED attempts
    BY <2>1 DEF HandlerReturns, store
  <2>4. RunsOK' /\ RunsClaimed' /\ ClaimsDistinct'
    BY <2>2, <2>3, SameRun
  <2> QED
    BY <2>1, <2>4 DEF HandlerReturns, store, procs, TypeOK, RunsOK, HolderIffRunning
<1>5. CASE GiveUp(r)
  <2>1. RunsOK' /\ RunsClaimed' /\ ClaimsDistinct'
    BY <1>5, FewerRuns DEF GiveUp, Leave, store
  <2> QED
    BY <1>5, <2>1 DEF GiveUp, Leave, store, procs, TypeOK, RunsOK, HolderIffRunning
<1>6. CASE SendResult(r)
  <2> DEFINE s == [r EXCEPT !.phase = "settling", !.fresh = Leased(r)]
  <2>1. Leased(r) \in BOOLEAN
    BY DEF Leased, Current
  <2>2. s \in Run /\ s.job = r.job /\ s.token = r.token /\ s.result \in Result
    BY <1>0, <1>6, <2>1 DEF SendResult, Run
  <2>3. Becomes(r, s) /\ UNCHANGED attempts
    BY <1>6 DEF SendResult, store
  <2>4. RunsOK' /\ RunsClaimed' /\ ClaimsDistinct'
    BY <2>2, <2>3, SameRun
  <2> QED
    BY <1>6, <2>4 DEF SendResult, store, procs, TypeOK, RunsOK, HolderIffRunning
<1>7. CASE ResultLands(r)
  <2>1. r.result \in Result
    BY <1>0, <1>7 DEF ResultLands
  <2>2. RunsOK' /\ RunsClaimed' /\ ClaimsDistinct'
    BY <1>7, FewerRuns DEF ResultLands, Leave, store, Write
  <2>3. active' \in [Worker -> SUBSET Job] /\ UNCHANGED <<mode, todo, reopened, faults>>
    BY <1>7 DEF ResultLands, Leave, TypeOK
  <2>4. CASE Write(r)
    BY <2>1, <2>2, <2>3, <2>4, WriteSafe DEF TypeOK, RunsOK
  <2>5. CASE UNCHANGED store
    BY <2>2, <2>3, <2>5 DEF store, TypeOK, RunsOK, HolderIffRunning
  <2> QED
    BY <1>7, <2>4, <2>5 DEF ResultLands
<1>8. CASE ResultFails(r)
  <2>1. r.result \in Result
    BY <1>0, <1>8 DEF ResultFails
  <2>2. runs' \subseteq runs /\ UNCHANGED attempts /\ (Write(r) \/ UNCHANGED store)
    BY <1>8 DEF ResultFails, Leave, Dies, store, Write
  <2>3. RunsOK' /\ RunsClaimed' /\ ClaimsDistinct'
    BY <1>8, FewerRuns DEF ResultFails, Leave, Dies, store, Write
  <2>4. /\ active' \in [Worker -> SUBSET Job] /\ mode' \in [Worker -> Mode]
        /\ todo' \in [Worker -> SUBSET Job] /\ reopened' = reopened /\ faults' \in Nat
    BY <1>8 DEF ResultFails, Leave, Dies, TypeOK, Mode
  <2>5. CASE Write(r)
    BY <2>1, <2>3, <2>4, <2>5, WriteSafe DEF TypeOK, RunsOK
  <2>6. CASE UNCHANGED store
    BY <2>3, <2>4, <2>6 DEF store, TypeOK, RunsOK, HolderIffRunning
  <2> QED
    BY <1>8, <2>5, <2>6 DEF ResultFails
<1> QED
  BY <1>2, <1>3, <1>4, <1>5, <1>6, <1>7, <1>8 DEF RunStep

\* A claim grants the row for some time, whether or not its answer arrives and
\* the job is begun.
LEMMA ClaimGrants ==
  ASSUME QueueAssumption, Safe, NEW w \in Worker, NEW j \in Job, Claim(w, j)
  PROVE  /\ \E left \in Nat : Grant(w, j, left)
         /\ Begin(w, j) \/ UNCHANGED <<runs, active>>
         /\ faults' \in Nat
<1>1. FullLease(w) \in Nat /\ Skew[w] \in Nat
  BY DEF QueueAssumption, FullLease
<1>2. \A left \in Skew[w] .. FullLease(w) - 1 : left \in Nat
  BY <1>1
<1>3. faults \in Nat
  BY DEF Safe, TypeOK
<1> QED
  BY <1>1, <1>2, <1>3 DEF Claim

\* Each step a replica takes on one job keeps the invariant.
LEMMA SafeJobStep ==
  ASSUME QueueAssumption, Safe, NEW w \in Worker, NEW j \in Job, JobStep(w, j)
  PROVE  Safe'
<1> USE DEF Safe, LeasesConsistent
<1>0. NoLease \in Lease
  BY DEF NoLease, Lease
<1>1. CASE Submit(w, j) \/ CancelPending(w, j) \/ RecoverJob(w, j)
  <2>1. /\ UNCHANGED <<mode, active, runs, attempts, faults>>
        /\ todo' \in [Worker -> SUBSET Job] /\ reopened' \in SUBSET Job
        /\ delay' \in [Job -> Nat] /\ seq' \in [Job -> Nat] /\ sequence' \in Nat
    <3>0. RunAfter(j) \subseteq Nat
      BY DEF RunAfter, QueueAssumption
    <3>1. CASE Submit(w, j)
      BY <3>1 DEF Submit, Insert, procs, TypeOK
    <3>2. CASE CancelPending(w, j)
      BY <3>2 DEF CancelPending, procs, TypeOK
    <3>3. CASE RecoverJob(w, j)
      BY <3>0, <3>3 DEF RecoverJob, Insert, ReopenForRecovery, store, TypeOK
    <3> QED
      BY <1>1, <3>1, <3>2, <3>3
  <2>2. state' \in [Job -> State] /\ lease' \in [Job -> Lease] /\ HolderIffRunning'
    <3>1. CASE Submit(w, j)
      BY <3>1 DEF Submit, Insert, TypeOK, HolderIffRunning, State, Live
    <3>2. CASE CancelPending(w, j)
      BY <1>0, <3>2 DEF CancelPending, TypeOK, HolderIffRunning, State, Terminal
    <3>3. CASE RecoverJob(w, j)
      BY <1>0, <3>3 DEF RecoverJob, Insert, ReopenForRecovery, store, TypeOK,
         HolderIffRunning, State, Live
    <3> QED
      BY <1>1, <3>1, <3>2, <3>3
  <2>3. RunsOK' /\ RunsClaimed' /\ ClaimsDistinct'
    BY <2>1, FewerRuns
  <2> QED
    BY <2>1, <2>2, <2>3 DEF TypeOK, RunsOK
<1>2. CASE Claim(w, j)
  <2>0. PICK left \in Nat : Grant(w, j, left)
    BY <1>2, ClaimGrants
  <2>1. NewRun(w, j) \in Run /\ attempts[j] \in Nat
    BY NewRunType DEF TypeOK
  <2>2. /\ faults' \in Nat
        /\ \/ Begin(w, j)
           \/ UNCHANGED <<runs, active>>
    BY <1>2, ClaimGrants
  <2>3. /\ NewRun(w, j).job = j /\ NewRun(w, j).token = attempts[j] + 1
        /\ NewRun(w, j).phase = "handling"
    BY DEF NewRun
  <2>4. RunsOK'
    BY <2>1, <2>2, <2>3 DEF Begin, RunsOK, TypeOK
  <2>5. RunsClaimed' /\ ClaimsDistinct'
    <3>1. \A r \in runs : r.job \in Job /\ r.token \in Nat /\ attempts[r.job] \in Nat
      BY DEF TypeOK, Run
    <3>2. \A k \in Job : attempts'[k] = IF k = j THEN attempts[j] + 1 ELSE attempts[k]
      BY <2>0 DEF Grant, TypeOK
    <3>3. runs' = runs \cup {NewRun(w, j)} \/ runs' = runs
      BY <2>2 DEF Begin
    <3> QED
      BY <2>1, <2>3, <3>1, <3>2, <3>3 DEF RunsClaimed, ClaimsDistinct
  <2>6. lease' \in [Job -> Lease]
    BY <2>0, <2>1 DEF Grant, TypeOK, Lease
  <2>7. HolderIffRunning'
    BY <2>0, <2>1 DEF Grant, Claimable, TypeOK, HolderIffRunning
  <2>8. active' \in [Worker -> SUBSET Job]
    BY <2>2 DEF Begin, TypeOK
  <2> QED
    BY <2>0, <2>1, <2>2, <2>4, <2>5, <2>6, <2>7, <2>8 DEF Grant, TypeOK, RunsOK, State, Live
<1> QED
  BY <1>1, <1>2 DEF JobStep

\* Each step in a replica's life keeps the invariant.
LEMMA SafeProcessStep ==
  ASSUME QueueAssumption, Safe, NEW w \in Worker, ProcessStep(w)
  PROVE  Safe'
<1> USE DEF Safe, LeasesConsistent
<1>1. CASE ExpireLeases(w)
  <2>1. NoLease \in Lease
    BY DEF NoLease, Lease
  <2>2. RunsOK' /\ RunsClaimed' /\ ClaimsDistinct'
    BY <1>1, FewerRuns DEF ExpireLeases
  <2> QED
    BY <1>1, <2>1, <2>2 DEF ExpireLeases, ExpiredFor, procs, TypeOK, RunsOK,
       HolderIffRunning, State, Live
<1>2. CASE ~ExpireLeases(w)
  <2>1. UNCHANGED <<store, reopened>> /\ runs' \subseteq runs
    BY <1>2 DEF ProcessStep, Crash, Boot, Start, StopClaiming, PollEnds, Handoff, Exit,
       Dies, procs
  <2>2. RunsOK' /\ RunsClaimed' /\ ClaimsDistinct'
    BY <2>1, FewerRuns DEF store
  <2>3. /\ active' \in [Worker -> SUBSET Job] /\ mode' \in [Worker -> Mode]
        /\ todo' \in [Worker -> SUBSET Job] /\ faults' \in Nat
    BY <1>2 DEF ProcessStep, Crash, Boot, Start, StopClaiming, PollEnds, Handoff, Exit,
       Dies, procs, TypeOK, Mode
  <2> QED
    BY <2>1, <2>2, <2>3 DEF store, TypeOK, RunsOK, HolderIffRunning
<1> QED
  BY <1>1, <1>2

\* Time passing keeps the invariant: it only shortens what is left.
LEMMA SafeElapse ==
  ASSUME QueueAssumption, Safe, Elapse, faults' \in Nat
  PROVE  Safe'
<1> USE DEF Safe, LeasesConsistent
<1>1. lease' \in [Job -> Lease] /\ HolderIffRunning'
  <2>1. \A l \in Lease : /\ [l EXCEPT !.left = Less(@)] \in Lease
                         /\ [l EXCEPT !.left = Less(@)].by = l.by
                         /\ [l EXCEPT !.left = Less(@)].token = l.token
    BY LessNat DEF Lease
  <2>2. [NoLease EXCEPT !.left = Less(@)] = NoLease
    BY DEF NoLease, Less
  <2> QED
    BY <2>1, <2>2 DEF Elapse, TypeOK, HolderIffRunning
<1>2. delay' \in [Job -> Nat]
  BY LessNat DEF Elapse, TypeOK
<1> DEFINE Aged(r) == [r EXCEPT !.ttl = Less(@)]
<1>3. \A r \in Run : /\ Aged(r) \in Run /\ Aged(r).job = r.job /\ Aged(r).token = r.token
                    /\ Aged(r).phase = r.phase /\ Aged(r).result = r.result
  BY LessNat DEF Run
<1>4. RunsOK' /\ RunsClaimed' /\ ClaimsDistinct'
  <2>1. runs' = {Aged(r) : r \in runs} /\ UNCHANGED attempts
    BY DEF Elapse
  <2> HIDE DEF Aged
  <2> QED
    BY <1>3, <2>1 DEF TypeOK, RunsOK, RunsClaimed, ClaimsDistinct
<1> QED
  BY <1>1, <1>2, <1>4 DEF Elapse, procs, TypeOK, RunsOK

LEMMA SafeNext == ASSUME QueueAssumption PROVE Safe /\ [Next]_vars => Safe'
<1> SUFFICES ASSUME Safe, [Next]_vars PROVE Safe'
  OBVIOUS
<1>1. CASE \E r \in runs : RunStep(r)
  BY <1>1, SafeRunStep
<1>2. CASE \E w \in Worker, j \in Job : JobStep(w, j)
  BY <1>2, SafeJobStep
<1>3. CASE \E w \in Worker : ProcessStep(w)
  BY <1>3, SafeProcessStep
<1>4. CASE Tick
  BY <1>4, SafeElapse DEF Tick, Safe, TypeOK
<1>5. CASE Stall
  <2>1. faults' \in Nat
    BY <1>5 DEF Stall, Safe, TypeOK
  <2> QED
    BY <1>5, <2>1, SafeElapse DEF Stall
<1>6. CASE UNCHANGED vars
  BY <1>6 DEF vars, store, procs, Safe, TypeOK, LeasesConsistent, HolderIffRunning,
     RunsClaimed, ClaimsDistinct
<1> QED
  BY <1>1, <1>2, <1>3, <1>4, <1>5, <1>6 DEF Next

\* Whatever faults, skews and interleavings occur, every variable keeps its
\* type and the rows agree with the runs in flight.
THEOREM Invariance == Spec => []Safe
<1>1. QueueAssumption
  BY QueueAssumption
<1>2. Init => Safe
  BY <1>1, SafeInit
<1>3. Safe /\ [Next]_vars => Safe'
  BY <1>1, SafeNext
<1> QED
  BY <1>2, <1>3, PTL DEF Spec

\* TypeOK: every variable keeps its type.
THEOREM TypeCorrect == Spec => []TypeOK
BY Invariance, PTL DEF Safe

\* LeasesConsistent: rows and runs in flight agree.
THEOREM LeaseConsistency == Spec => []LeasesConsistent
BY Invariance, PTL DEF Safe

\* Inv: every variable keeps its type, and rows and runs in flight agree.
THEOREM Invariants == Spec => []Inv
<1>1. Safe => Inv
  BY DEF Safe, Inv
<1> QED
  BY <1>1, Invariance, PTL

\* AtMostOneHolder: two runs that could both write an outcome would hold the
\* token of the same claim, and so be one run.
THEOREM SingleHolder == Spec => []AtMostOneHolder
<1>1. Safe => AtMostOneHolder
  BY DEF Safe, LeasesConsistent, ClaimsDistinct, AtMostOneHolder, Current
<1> QED
  BY <1>1, Invariance, PTL

-----------------------------------------------------------------------------
(* What ended stays ended, and groups keep their order.  Both follow from  *)
(* what a step may do to one row.                                          *)

\* Recovery offers what had ended again.
Reopens(j) == \E after \in RunAfter(j) : ReopenForRecovery(j, after)

\* What a step does to the row of job j: nothing, insert it, move it on or back
\* to the queue, claim it, or reopen it.
RowStep(j) ==
  \/ state'[j] = state[j] /\ seq'[j] = seq[j]
  \/ state[j] = "absent" /\ state'[j] = "pending" /\ seq'[j] = sequence + 1
  \/ state[j] \in Live /\ state'[j] # "running" /\ seq'[j] = seq[j]
  \/ \E w \in Worker, left \in Nat : Grant(w, j, left) /\ state'[j] = "running" /\ seq' = seq
  \/ /\ \E w \in Worker : RecoverJob(w, j) /\ Reopens(j)
     /\ state'[j] = "pending" /\ seq'[j] = seq[j]

\* Every step moves each row in one of these ways.
LEMMA RowSteps ==
  ASSUME QueueAssumption, Safe, [Next]_vars, NEW j \in Job
  PROVE  RowStep(j)
<1> USE DEF Safe
<1>1. CASE \E r \in runs : RunStep(r)
  <2>1. PICK r \in runs : RunStep(r)
    BY <1>1
  <2>2. UNCHANGED <<state, seq>> \/ (Write(r) /\ r.result \in Result)
    BY <2>1 DEF RunStep, SendRenewal, RenewalLands, RenewalFails, HandlerReturns, GiveUp,
       SendResult, ResultLands, ResultFails, store, TypeOK
  <2>3. CASE Write(r) /\ r.result \in Result
    <3>1. Outcome(r.result) # "running" /\ r.job \in Job
      BY <2>3, OutcomeType DEF Terminal, TypeOK, Run
    <3> QED
      BY <2>3, <3>1 DEF Write, Current, RowStep, Live, TypeOK
  <2> QED
    BY <2>2, <2>3 DEF RowStep
<1>2. CASE \E w \in Worker, k \in Job : JobStep(w, k)
  <2>1. PICK w \in Worker, k \in Job : JobStep(w, k)
    BY <1>2
  <2>2. CASE k # j
    <3>1. CASE Claim(w, k)
      <4>1. PICK left \in Nat : Grant(w, k, left)
        BY <3>1, ClaimGrants
      <4> QED
        BY <2>2, <4>1 DEF Grant, RowStep, TypeOK
    <3>2. CASE ~Claim(w, k)
      BY <2>1, <2>2, <3>2 DEF JobStep, Submit, CancelPending, RecoverJob, Insert,
         ReopenForRecovery, store, RowStep, TypeOK
    <3> QED
      BY <3>1, <3>2
  <2>3. CASE k = j
    <3>1. CASE Submit(w, j)
      BY <3>1 DEF Submit, Insert, RowStep, TypeOK
    <3>2. CASE CancelPending(w, j)
      BY <3>2 DEF CancelPending, RowStep, Live, TypeOK
    <3>3. CASE Claim(w, j)
      <4>1. PICK left \in Nat : Grant(w, j, left)
        BY <3>3, ClaimGrants
      <4>2. state'[j] = "running" /\ seq' = seq
        BY <4>1 DEF Grant, TypeOK
      <4> QED
        BY <4>1, <4>2 DEF RowStep
    <3>4. CASE RecoverJob(w, j)
      <4>1. \/ state[j] = "absent" /\ state'[j] = "pending" /\ seq'[j] = sequence + 1
            \/ Reopens(j) /\ state'[j] = "pending" /\ seq'[j] = seq[j]
            \/ state'[j] = state[j] /\ seq'[j] = seq[j]
        BY <3>4 DEF RecoverJob, Insert, Reopens, ReopenForRecovery, store, TypeOK
      <4> QED
        BY <3>4, <4>1 DEF RowStep
    <3> QED
      BY <2>1, <2>3, <3>1, <3>2, <3>3, <3>4 DEF JobStep
  <2> QED
    BY <2>2, <2>3
<1>3. CASE \E w \in Worker : ProcessStep(w)
  BY <1>3 DEF ProcessStep, ExpireLeases, ExpiredFor, Crash, Boot, Start, StopClaiming,
     PollEnds, Handoff, Exit, store, RowStep, Live, TypeOK
<1>4. CASE Tick \/ Stall \/ UNCHANGED vars
  BY <1>4 DEF Tick, Stall, Elapse, vars, store, RowStep
<1> QED
  BY <1>1, <1>2, <1>3, <1>4 DEF Next

\* TerminalIsFinal: a finished row moves again only through recovery, and a
\* cancelled one never does.
THEOREM FinalStates == Spec => TerminalIsFinal
<1> DEFINE Final(j) ==
      state[j] \in Terminal /\ state'[j] # state[j] =>
       /\ state[j] # "cancelled"
       /\ state'[j] = "pending"
       /\ \E w \in Worker : mode[w] = "booting" /\ j \in todo[w] \ todo'[w]
<1>1. Safe /\ [Next]_vars => [\A j \in Job : Final(j)]_vars
  <2> SUFFICES ASSUME Safe, [Next]_vars, NEW j \in Job PROVE Final(j)
    OBVIOUS
  <2>1. RowStep(j)
    BY RowSteps, QueueAssumption
  <2>2. ASSUME NEW w \in Worker, RecoverJob(w, j), Reopens(j), state'[j] = "pending"
        PROVE  Final(j)
    BY <2>2 DEF RecoverJob, Reopens, ReopenForRecovery, Safe, TypeOK
  <2>3. ASSUME NEW w \in Worker, NEW left \in Nat, Grant(w, j, left)
        PROVE  state[j] \notin Terminal
    BY <2>3 DEF Grant, Claimable, Terminal
  <2>4. state[j] \in Live \cup {"absent"} => state[j] \notin Terminal
    BY DEF Live, Terminal
  <2> QED
    BY <2>1, <2>2, <2>3, <2>4 DEF RowStep
<1> QED
  BY <1>1, Invariance, PTL DEF Spec, TerminalIsFinal

\* No row was inserted after the last insertion.
SeqBounded == \A j \in Job : seq[j] <= sequence

\* Insertions are numbered upwards, and what was reopened stays on record.
LEMMA Counters ==
  ASSUME QueueAssumption, Safe, [Next]_vars
  PROVE  /\ reopened \subseteq reopened'
         /\ sequence' = sequence \/ sequence' = sequence + 1
         /\ \A j \in Job : seq'[j] # seq[j] => seq'[j] = sequence'
<1> USE DEF Safe
<1>1. CASE \E r \in runs : RunStep(r)
  BY <1>1 DEF RunStep, SendRenewal, RenewalLands, RenewalFails, HandlerReturns, GiveUp,
     SendResult, ResultLands, ResultFails, Write, store, TypeOK
<1>2. CASE \E w \in Worker, j \in Job : JobStep(w, j)
  <2>1. PICK w \in Worker, j \in Job : JobStep(w, j)
    BY <1>2
  <2>2. CASE Claim(w, j)
    <3>1. PICK left \in Nat : Grant(w, j, left)
      BY <2>2, ClaimGrants
    <3> QED
      BY <3>1 DEF Grant
  <2>3. CASE ~Claim(w, j)
    BY <2>1, <2>3 DEF JobStep, Submit, CancelPending, RecoverJob, Insert, ReopenForRecovery,
       store, TypeOK
  <2> QED
    BY <2>2, <2>3
<1>3. CASE \E w \in Worker : ProcessStep(w)
  BY <1>3 DEF ProcessStep, ExpireLeases, Crash, Boot, Start, StopClaiming, PollEnds,
     Handoff, Exit, store, TypeOK
<1>4. CASE Tick \/ Stall \/ UNCHANGED vars
  BY <1>4 DEF Tick, Stall, Elapse, vars, store
<1> QED
  BY <1>1, <1>2, <1>3, <1>4 DEF Next

\* The order of a group survives every step: a claim looks for earlier work,
\* and earlier work can appear beside a running job only by a later insertion
\* or by recovery.
LEMMA GroupStep ==
  ASSUME QueueAssumption, Safe, SeqBounded, GroupOrderKept, [Next]_vars
  PROVE  SeqBounded' /\ GroupOrderKept'
<1>1. seq \in [Job -> Nat] /\ sequence \in Nat /\ OrderOf \in [Job -> Nat]
  BY DEF Safe, TypeOK, QueueAssumption
<1>2. SeqBounded'
  BY <1>1, Counters DEF SeqBounded
<1>3. GroupOrderKept'
  <2> SUFFICES ASSUME NEW j \in Job, NEW k \in Job, SameGroup(j, k), Before(j, k)',
                      state'[j] \in Live, state'[k] = "running"
               PROVE  seq'[j] > seq'[k] \/ j \in reopened'
    BY DEF GroupOrderKept, SameGroup
  <2>1. RowStep(j) /\ RowStep(k)
    BY RowSteps
  <2>2. CASE \E w \in Worker, left \in Nat : Grant(w, k, left) /\ seq' = seq
    <3>1. state[j] \in Live /\ Before(j, k)
      BY <2>2 DEF Grant, SameGroup, Before, Safe, TypeOK
    <3> QED
      BY <2>2, <3>1 DEF Grant, Claimable, HasEarlierGroupJob
  <2>3. CASE state[k] = "running" /\ seq'[k] = seq[k]
    <3>1. CASE state[j] \in Live /\ seq'[j] = seq[j]
      BY <2>3, <3>1, Counters DEF Before, GroupOrderKept
    <3>2. CASE seq'[j] = sequence + 1
      BY <1>1, <2>3, <3>2 DEF SeqBounded
    <3>3. CASE Reopens(j)
      BY <3>3 DEF Reopens, ReopenForRecovery
    <3>4. \A w \in Worker, left \in Nat : Grant(w, j, left) => state[j] \in Live
      BY DEF Grant, Claimable, Live
    <3> QED
      BY <2>1, <3>1, <3>2, <3>3, <3>4 DEF RowStep
  <2> QED
    BY <2>1, <2>2, <2>3 DEF RowStep
<1> QED
  BY <1>2, <1>3

\* GroupOrderKept: no claim overtakes earlier unfinished work of its group.
THEOREM GroupOrder == Spec => []GroupOrderKept
<1>1. Init => SeqBounded /\ GroupOrderKept
  BY QueueAssumption DEF Init, SeqBounded, GroupOrderKept
<1>2. Safe /\ SeqBounded /\ GroupOrderKept /\ [Next]_vars => SeqBounded' /\ GroupOrderKept'
  BY QueueAssumption, GroupStep
<1> QED
  BY <1>1, <1>2, Invariance, PTL DEF Spec

-----------------------------------------------------------------------------
(* The queue implements the contract of JobLease.                          *)

\* A run, as the contract sees it.
ClaimOf(r) == [by |-> r.by, job |-> r.job, epoch |-> r.token]

\* The three state functions the contract is instantiated with.
Status == [j \in Job |-> IF state[j] = "pending" THEN "open"
                         ELSE IF state[j] = "running" THEN "granted"
                         ELSE state[j]]
ClaimSet == {ClaimOf(r) : r \in runs}

\* A run that goes on is still the same claim.
LEMMA SameClaim ==
  ASSUME NEW r \in runs, NEW s, s.by = r.by, s.job = r.job, s.token = r.token, Becomes(r, s)
  PROVE  ClaimSet' = ClaimSet
BY DEF ClaimSet, ClaimOf, Becomes

\* A run that ends takes its claim with it: no other run has the same.
LEMMA EndedClaim ==
  ASSUME ClaimsDistinct, NEW r \in runs, runs' \subseteq runs \ {r}
  PROVE  ClaimSet' \in SUBSET (ClaimSet \ {ClaimOf(r)})
<1> SUFFICES ASSUME NEW s \in runs', s \in runs, s # r
             PROVE  ClaimOf(s) \in ClaimSet \ {ClaimOf(r)}
  BY DEF ClaimSet
<1> QED
  BY DEF ClaimsDistinct, ClaimSet, ClaimOf

\* A final write that lands is the decision of the claim the job is granted to.
LEMMA WriteDecides ==
  ASSUME QueueAssumption, Safe, NEW r \in runs, r.result \in Result, Write(r),
         runs' \subseteq runs \ {r}
  PROVE  Contract!Decide(ClaimOf(r))
<1> USE DEF Safe, LeasesConsistent
<1>1. r.job \in Job /\ ClaimOf(r).job = r.job /\ ClaimOf(r).epoch = r.token
  BY DEF TypeOK, Run, ClaimOf
<1>2. state[r.job] = "running" /\ r.token = attempts[r.job]
  BY <1>1 DEF Write, Current, HolderIffRunning
<1>3. Outcome(r.result) \in Terminal \cup {"pending"}
  BY OutcomeType
<1>4. PICK s \in {"succeeded", "failed", "cancelled", "open"} : Status' = [Status EXCEPT ![r.job] = s]
  <2>1. CASE Outcome(r.result) = "pending"
    <3>1. Status' = [Status EXCEPT ![r.job] = "open"]
      BY <1>1, <2>1 DEF Write, Status, TypeOK
    <3> QED
      BY <3>1
  <2>2. CASE Outcome(r.result) \in Terminal
    <3>1. Status' = [Status EXCEPT ![r.job] = Outcome(r.result)]
      BY <1>1, <2>2 DEF Write, Status, Terminal, TypeOK
    <3> QED
      BY <2>2, <3>1 DEF Terminal
  <2> QED
    BY <1>3, <2>1, <2>2
<1>5. ClaimSet' \in SUBSET (ClaimSet \ {ClaimOf(r)}) /\ UNCHANGED attempts
  BY EndedClaim DEF Write
<1> QED
  BY <1>1, <1>2, <1>4, <1>5 DEF Contract!Decide, Contract!Closed, Status, ClaimSet, ClaimOf

\* The steps of a run decide its claim, walk away from it, or do not show.
LEMMA RunImplements ==
  ASSUME QueueAssumption, Safe, NEW r \in runs, RunStep(r)
  PROVE  Contract!ANext \/ UNCHANGED <<Status, attempts, ClaimSet>>
<1> USE DEF Safe, LeasesConsistent
<1>1. r \in Run /\ r.job \in Job /\ (r.phase # "handling" => r.result \in Result)
  BY DEF TypeOK, Run
<1>2. ASSUME Write(r), r.result \in Result, runs' \subseteq runs \ {r}
      PROVE  Contract!ANext
  <2>1. ClaimOf(r) \in ClaimSet
    BY DEF ClaimSet
  <2> QED
    BY <1>2, <2>1, WriteDecides DEF Contract!ANext, ClaimSet, ClaimOf
<1>3. ASSUME UNCHANGED store, runs' \subseteq runs
      PROVE  Contract!ANext
  <2>1. ClaimSet' \in SUBSET ClaimSet /\ UNCHANGED <<Status, attempts>>
    BY <1>3 DEF ClaimSet, Status, store
  <2> QED
    BY <2>1 DEF Contract!ANext, Contract!WalkAway, Contract!Fewer, ClaimSet, Status, ClaimOf
<1>4. ASSUME NEW s, s.by = r.by, s.job = r.job, s.token = r.token, Becomes(r, s),
             UNCHANGED <<state, attempts>>
      PROVE  UNCHANGED <<Status, attempts, ClaimSet>>
  BY <1>4, SameClaim DEF Status
<1>5. CASE SendRenewal(r)
  BY <1>1, <1>4, <1>5 DEF SendRenewal, store, Run
<1>6. CASE RenewalLands(r) \/ RenewalFails(r)
  <2>1. \A l \in BOOLEAN : /\ Answered(r, l).by = r.by /\ Answered(r, l).job = r.job
                           /\ Answered(r, l).token = r.token
    BY <1>1, AnsweredType
  <2> QED
    BY <1>4, <1>6, <2>1 DEF RenewalLands, RenewalFails
<1>7. CASE \E res \in Result : HandlerReturns(r, res)
  <2>1. PICK res \in Result : HandlerReturns(r, res)
    BY <1>7
  <2> DEFINE s == [r EXCEPT !.phase = "returned", !.result = res]
  <2>2. s.by = r.by /\ s.job = r.job /\ s.token = r.token
    BY <1>1 DEF Run
  <2>3. Becomes(r, s) /\ UNCHANGED <<state, attempts>>
    BY <2>1 DEF HandlerReturns, store
  <2> QED
    BY <1>4, <2>2, <2>3
<1>8. CASE GiveUp(r)
  BY <1>3, <1>8 DEF GiveUp, Leave
<1>9. CASE SendResult(r)
  BY <1>1, <1>4, <1>9 DEF SendResult, store, Run
<1>10. CASE ResultLands(r)
  BY <1>1, <1>2, <1>3, <1>10 DEF ResultLands, Leave
<1>11. CASE ResultFails(r)
  <2>1. runs' \subseteq runs \ {r}
    BY <1>11 DEF ResultFails, Leave, Dies
  <2> QED
    BY <1>1, <1>2, <1>3, <1>11, <2>1 DEF ResultFails
<1> QED
  BY <1>5, <1>6, <1>7, <1>8, <1>9, <1>10, <1>11 DEF RunStep

\* The steps a replica takes on one job are offers, withdrawals, grants and
\* reopenings of the contract.
LEMMA JobImplements ==
  ASSUME QueueAssumption, Safe, NEW w \in Worker, NEW j \in Job, JobStep(w, j)
  PROVE  Contract!ANext \/ UNCHANGED <<Status, attempts, ClaimSet>>
<1> USE DEF Safe, ClaimSet, ClaimOf
<1>1. ASSUME \E after \in {0} \cup RunAfter(j) : Insert(j, after),
             state[j] = "absent", UNCHANGED runs
      PROVE  Contract!Offer(j)
  <2>1. Status' = [Status EXCEPT ![j] = "open"]
    BY <1>1 DEF Insert, Status, TypeOK
  <2> QED
    BY <1>1, <2>1 DEF Insert, Status, Contract!Offer
<1>2. CASE Submit(w, j)
  BY <1>1, <1>2 DEF Submit, Contract!ANext
<1>3. CASE CancelPending(w, j)
  <2>1. Status' = [Status EXCEPT ![j] = "cancelled"]
    BY <1>3 DEF CancelPending, Status, TypeOK
  <2>2. Contract!Withdraw(j)
    BY <1>3, <2>1 DEF CancelPending, Status, Contract!Withdraw
  <2> QED
    BY <2>2 DEF Contract!ANext
<1>4. CASE Claim(w, j)
  <2>0. PICK left \in Nat : Grant(w, j, left)
    BY <1>4, ClaimGrants
  <2>1. Status' = [Status EXCEPT ![j] = "granted"]
    BY <2>0 DEF Grant, Status, TypeOK
  <2>2. attempts' = [attempts EXCEPT ![j] = attempts[j] + 1]
    BY <2>0 DEF Grant
  <2>3. ClaimSet' \in {ClaimSet, ClaimSet \cup {[by |-> w, job |-> j, epoch |-> attempts[j] + 1]}}
    <3>1. ClaimOf(NewRun(w, j)) = [by |-> w, job |-> j, epoch |-> attempts[j] + 1]
      BY DEF NewRun
    <3> HIDE DEF ClaimOf
    <3>2. runs' = runs \cup {NewRun(w, j)} \/ runs' = runs
      BY <1>4, ClaimGrants DEF Begin
    <3> QED
      BY <3>1, <3>2
  <2>4. Contract!Grant(j, w)
    BY <2>0, <2>1, <2>2, <2>3 DEF Grant, Claimable, Status, Contract!Grant
  <2> QED
    BY <2>4 DEF Contract!ANext
<1>5. CASE RecoverJob(w, j)
  <2>1. CASE Reopens(j)
    <3>1. Status' = [Status EXCEPT ![j] = "open"]
      BY <2>1 DEF Reopens, ReopenForRecovery, Status, TypeOK
    <3>2. Contract!Reopen(j)
      BY <1>5, <2>1, <3>1 DEF RecoverJob, Reopens, ReopenForRecovery, Status, Contract!Reopen
    <3> QED
      BY <3>2 DEF Contract!ANext
  <2>2. CASE UNCHANGED store
    BY <1>5, <2>2 DEF RecoverJob, store, Status
  <2> QED
    BY <1>1, <1>5, <2>1, <2>2 DEF RecoverJob, Reopens, Contract!ANext
<1> QED
  BY <1>2, <1>3, <1>4, <1>5 DEF JobStep

\* A replica's own steps take leases back or walk away from claims.
LEMMA ProcessImplements ==
  ASSUME QueueAssumption, Safe, NEW w \in Worker, ProcessStep(w)
  PROVE  Contract!ANext
<1> USE DEF Safe, ClaimSet, ClaimOf
<1>1. CASE ExpireLeases(w)
  <2>0. PICK S \in SUBSET Job : S = ExpiredFor(w)
    BY DEF ExpiredFor
  <2>1. S # {} /\ \A j \in S : state[j] = "running"
    BY <1>1, <2>0 DEF ExpireLeases, ExpiredFor
  <2>2. Status' = [j \in Job |-> IF j \in S THEN "open" ELSE Status[j]]
    BY <1>1, <2>0, <2>1 DEF ExpireLeases, Status, TypeOK
  <2>3. Contract!TakeBack(S)
    BY <1>1, <2>1, <2>2 DEF ExpireLeases, Status, Contract!TakeBack
  <2> QED
    BY <2>3 DEF Contract!ANext
<1>2. CASE ~ExpireLeases(w)
  <2>1. UNCHANGED store /\ runs' \subseteq runs
    BY <1>2 DEF ProcessStep, Crash, Boot, Start, StopClaiming, PollEnds, Handoff, Exit,
       Dies, procs
  <2>2. UNCHANGED <<Status, attempts>> /\ ClaimSet' \in SUBSET ClaimSet
    BY <2>1 DEF store, Status
  <2> QED
    BY <2>2 DEF Contract!ANext, Contract!WalkAway, Contract!Fewer, Status
<1> QED
  BY <1>1, <1>2

\* ImplementsContract: the queue implements the lease contract, whatever the
\* clocks, the heartbeats and the faults do.
THEOREM Refinement == Spec => ImplementsContract
<1>1. Init => Contract!AInit
  BY DEF Init, Contract!AInit
<1>2. Safe /\ [Next]_vars => [Contract!ANext]_(Contract!avars)
  <2> SUFFICES ASSUME Safe, [Next]_vars
               PROVE  Contract!ANext \/ UNCHANGED <<Status, attempts, ClaimSet>>
    BY DEF Contract!avars, Status, ClaimSet, ClaimOf
  <2>1. CASE \E r \in runs : RunStep(r)
    BY <2>1, RunImplements, QueueAssumption
  <2>2. CASE \E w \in Worker, j \in Job : JobStep(w, j)
    BY <2>2, JobImplements, QueueAssumption
  <2>3. CASE \E w \in Worker : ProcessStep(w)
    BY <2>3, ProcessImplements, QueueAssumption
  <2>4. CASE Tick \/ Stall
    <3> DEFINE Aged(r) == [r EXCEPT !.ttl = Less(@)]
    <3>1. runs' = {Aged(r) : r \in runs} /\ UNCHANGED <<state, attempts>>
      BY <2>4 DEF Tick, Stall, Elapse
    <3>2. \A r \in runs : ClaimOf(Aged(r)) = ClaimOf(r)
      BY DEF ClaimOf, Safe, TypeOK, Run
    <3> HIDE DEF Aged
    <3> QED
      BY <3>1, <3>2 DEF Status, ClaimSet
  <2>5. CASE UNCHANGED vars
    BY <2>5 DEF vars, store, Status, ClaimSet
  <2> QED
    BY <2>1, <2>2, <2>3, <2>4, <2>5 DEF Next
<1> QED
  BY <1>1, <1>2, Invariance, PTL DEF Spec, ImplementsContract, Contract!ASpec
=============================================================================
