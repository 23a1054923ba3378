-------------------------- MODULE AdmissionProofs --------------------------
(* Proofs about Limits, for any number of callers, any policy and any walk *)
(* of the clock (types, permits, the token bucket and the daily quota), and *)
(* about Triggers, for any set of events and replicas: an event is entered *)
(* in the history once, and none is passed over unseen.                    *)
EXTENDS Limits, Triggers, FiniteSetTheorems, SequenceTheorems,
        WellFoundedInduction, TLAPS

-----------------------------------------------------------------------------
(* Limits.  Arithmetic of the policies.                                    *)

\* A product of natural numbers is one (tokens refilled, a full bucket).
LEMMA Products == \A m, n \in Nat : m * n \in Nat
  OBVIOUS

\* Refills of two stretches of time add up.
LEMMA Refills == \A m, n, k \in Int : (m + n) * k = m * k + n * k
  OBVIOUS

LEMMA FullIsNat == Full \in Nat
  BY LimitsAssumption, Products DEF Full

\* A window starts at a natural number.
LEMMA StartIsNat == \A t \in Nat : WindowStart(t) \in Nat
<1> SUFFICES ASSUME NEW t \in Nat PROVE WindowStart(t) \in Nat
  OBVIOUS
<1>1. t \div WindowMs \in Nat
  BY LimitsAssumption
<1> QED
  BY <1>1, LimitsAssumption, Products DEF WindowStart

-----------------------------------------------------------------------------
(* Types.                                                                  *)

LEMMA InitTypes == LimitsInit => LimitsTypeOK
  BY LimitsAssumption, FullIsNat DEF LimitsInit, LimitsTypeOK

\* The lowest of two naturals under a bound stays under it, and so on.
LEMMA Bounds == \A m, n \in Nat : Lower(m, n) \in 0..m /\ Lower(m, n) <= n /\ Higher(m, n) \in Nat
  BY DEF Lower, Higher

LEMMA BucketTypes ==
  ASSUME LimitsTypeOK, NEW c \in Caller, CheckBucket(c)
  PROVE  LimitsTypeOK'
<1> DEFINE then    == IF bucket.kept THEN bucket.updatedAt ELSE clock
           elapsed == IF then < clock THEN clock - then ELSE 0
           tokens  == Lower(Full, bucket.tokens + elapsed * RefillLimit)
<1>1. then \in Nat /\ elapsed \in Nat
  BY DEF LimitsTypeOK
<1>2. tokens \in 0..Full
  <2>1. bucket.tokens + elapsed * RefillLimit \in Nat
    BY <1>1, Products, LimitsAssumption, FullIsNat DEF LimitsTypeOK
  <2> QED
    BY <2>1, FullIsNat, Bounds
<1>3. Latest(then, clock) \in Nat
  BY <1>1, Bounds DEF Latest, LimitsTypeOK
<1>4. /\ bucket' = [kept |-> TRUE, updatedAt |-> Latest(then, clock),
                    tokens |-> IF tokens >= IntervalMs THEN tokens - IntervalMs ELSE tokens]
      /\ first' \in {first, clock} /\ passed' \in {passed, passed + 1} /\ pc' \in {pc, [pc EXCEPT ![c] = "quota"]}
      /\ UNCHANGED <<time, window, slots, charged>>
  BY DEF CheckBucket, Moves
<1> HIDE DEF then, elapsed, tokens
<1>5. bucket' \in [kept : BOOLEAN, tokens : 0..Full, updatedAt : Nat]
  BY <1>2, <1>3, <1>4, LimitsAssumption, FullIsNat
<1> QED
  BY <1>4, <1>5 DEF LimitsTypeOK, time, slots

LEMMA QuotaTypes ==
  ASSUME LimitsTypeOK, NEW c \in Caller, CheckQuota(c)
  PROVE  LimitsTypeOK'
<1> DEFINE w == IF Current THEN window ELSE [kept |-> TRUE, used |-> 0, start |-> WindowStart(clock)]
<1>1. w \in [kept : BOOLEAN, used : 0..Quota, start : Nat]
  <2>1. WindowStart(clock) \in Nat
    BY StartIsNat DEF LimitsTypeOK
  <2> QED
    BY <2>1, LimitsAssumption DEF LimitsTypeOK
<1>2. /\ \/ w.used < Quota /\ window' = [w EXCEPT !.used = @ + 1]
         \/ window' = w
      /\ pc' \in {[pc EXCEPT ![c] = "enter"], [pc EXCEPT ![c] = "idle"]}
      /\ charged' \in {charged, [charged EXCEPT ![w.start] = @ + 1]}
      /\ UNCHANGED <<time, bucket, slots, first, passed>>
  BY DEF CheckQuota, Moves
<1> HIDE DEF w
<1>3. window' \in [kept : BOOLEAN, used : 0..Quota, start : Nat]
  BY <1>1, <1>2, LimitsAssumption
<1>4. charged' \in [0..MaxTime -> Nat]
  BY <1>1, <1>2 DEF LimitsTypeOK
<1> QED
  BY <1>2, <1>3, <1>4 DEF LimitsTypeOK, time, slots

LEMMA ReleaseTypes ==
  ASSUME LimitsTypeOK, NEW c \in Caller, NEW next \in {"idle", "unwinds"}, Release(c, next),
         UNCHANGED <<time, rates, past>>
  PROVE  LimitsTypeOK'
<1> USE DEF LimitsTypeOK, time, rates, past, slots
<1>1. CASE ~Holds(c)
  BY <1>1 DEF Release, Moves
<1>2. CASE Holds(c) /\ waiters = <<>>
  BY <1>2 DEF Release, Moves
<1>3. CASE Holds(c) /\ waiters # <<>>
  <2>1. Head(waiters) \in Caller /\ Tail(waiters) \in Seq(Caller)
    BY <1>3, HeadTailProperties
  <2>2. /\ waiters' = Tail(waiters) /\ active' = active
        /\ permit' = [[permit EXCEPT ![c] = "released"] EXCEPT ![Head(waiters)] = "held"]
        /\ pc' = [pc EXCEPT ![c] = next, ![Head(waiters)] = "async"]
    BY <1>3 DEF Release
  <2> QED
    BY <2>1, <2>2
<1> QED
  BY <1>1, <1>2, <1>3

\* Every variable keeps its type.
LEMMA NextTypes == LimitsTypeOK /\ [LimitsNext]_LimitsVars => LimitsTypeOK'
<1> SUFFICES ASSUME LimitsTypeOK, [LimitsNext]_LimitsVars PROVE LimitsTypeOK'
  OBVIOUS
<1>1. CASE Tick \/ SetBack
  BY <1>1 DEF LimitsTypeOK, Tick, SetBack, rates, slots, past
<1>2. ASSUME NEW c \in Caller, EnterSync(c) \/ EnterAsync(c) PROVE LimitsTypeOK'
  <2>1. Append(waiters, c) \in Seq(Caller)
    BY AppendProperties DEF LimitsTypeOK
  <2>2. /\ active' \in {active, active + 1} /\ waiters' \in {waiters, Append(waiters, c)}
        /\ permit' \in {permit, [permit EXCEPT ![c] = "held"]}
        /\ \E place \in {"sync", "async", "waits", "idle"} : pc' = [pc EXCEPT ![c] = place]
        /\ UNCHANGED <<time, rates, past>>
    BY <1>2 DEF EnterSync, EnterAsync, Takes, Moves
  <2>3. pc' \in [Caller -> {"idle", "quota", "enter", "sync", "async", "waits", "unwinds"}]
    BY <2>2 DEF LimitsTypeOK
  <2>4. permit' \in [Caller -> {"none", "held", "released"}]
    BY <2>2 DEF LimitsTypeOK
  <2>5. waiters' \in Seq(Caller)
    <3>1. waiters \in Seq(Caller)
      BY DEF LimitsTypeOK
    <3> QED
      BY <2>1, <2>2, <3>1
  <2>6. active' \in Int
    BY <2>2 DEF LimitsTypeOK
  <2> QED
    BY <2>2, <2>3, <2>4, <2>5, <2>6 DEF LimitsTypeOK, time, rates, past
<1>3. ASSUME NEW c \in Caller, Run(c) \/ Unwind(c) PROVE LimitsTypeOK'
  BY <1>3, ReleaseTypes DEF Run, Unwind
<1>4. CASE UNCHANGED LimitsVars
  BY <1>4 DEF LimitsTypeOK, LimitsVars, time, rates, slots, past
<1> QED
  BY <1>1, <1>2, <1>3, <1>4, BucketTypes, QuotaTypes DEF LimitsNext

\* LimitsTypeOK: every variable keeps its type.
THEOREM TypeCorrect == LimitsSpec => []LimitsTypeOK
  BY InitTypes, NextTypes, PTL DEF LimitsSpec

-----------------------------------------------------------------------------
(* Permits.                                                                *)

\* The callers that run under a permit.
Out == {c \in Caller : Stands(c, "sync") \/ Stands(c, "async")}

\* PermitsHold, and why: a permit is held by whoever runs, and by nobody else,
\* and everyone in line waits there once.
Slots ==
  /\ PermitsHold
  /\ \A c \in Caller : Holds(c) <=> c \in Out
  /\ \A i \in 1..Len(waiters) : pc[waiters[i]] = "waits"
  /\ \A i, j \in 1..Len(waiters) : waiters[i] = waiters[j] => i = j

\* At the beginning nobody has a permit.
LEMMA InitSlots == LimitsInit => Slots
<1> SUFFICES ASSUME LimitsInit PROVE Slots
  OBVIOUS
<1>1. Out = {} /\ waiters = <<>> /\ active = 0
  BY DEF LimitsInit, Out, Stands
<1>2. active = Cardinality(Out) /\ Cap > 0
  BY <1>1, FS_EmptySet, LimitsAssumption
<1>3. PermitsHold
  <2>1. Out = {c \in Caller : Stands(c, "sync") \/ Stands(c, "async")}
    BY DEF Out
  <2>2. /\ active = Cardinality({c \in Caller : Stands(c, "sync") \/ Stands(c, "async")})
        /\ active <= Cap /\ waiters = <<>>
    BY <1>1, <1>2, <2>1, LimitsAssumption
  <2> QED
    BY <2>2 DEF PermitsHold
<1>4. \A c \in Caller : ~Holds(c) /\ c \notin Out
  BY <1>1 DEF Holds, LimitsInit
<1>5. Len(waiters) = 0
  BY <1>1
<1> QED
  BY <1>3, <1>4, <1>5 DEF Slots

\* A caller that takes a free permit is one more.
LEMMA TakeSlots ==
  ASSUME LimitsTypeOK, Slots, NEW c \in Caller, Stands(c, "enter"), Free, Takes(c),
         NEW place \in {"sync", "async"}, Moves(c, place), UNCHANGED waiters
  PROVE  Slots'
<1>1. Out' = Out \cup {c} /\ c \notin Out
  BY DEF Out, Stands, Moves, LimitsTypeOK
<1>2. IsFiniteSet(Out) /\ Cardinality(Out) = active /\ active < Cap /\ active \in Int
  BY FS_Subset, LimitsAssumption DEF Out, Slots, PermitsHold, Free, LimitsTypeOK
<1>3. Cardinality(Out') = active'
  BY <1>1, <1>2, FS_AddElement DEF Takes
<1>4. PermitsHold'
  BY <1>2, <1>3, LimitsAssumption DEF PermitsHold, Out, Takes, Free
<1>5. \A d \in Caller : Holds(d)' <=> d \in Out'
  BY <1>1 DEF Slots, Holds, Takes, LimitsTypeOK
<1> QED
  BY <1>4, <1>5 DEF Slots, Free

\* A caller that gets in line is the only entry of its own.
LEMMA WaitSlots ==
  ASSUME LimitsTypeOK, Slots, NEW c \in Caller, Stands(c, "enter"), ~Free,
         waiters' = Append(waiters, c), Moves(c, "waits"), UNCHANGED <<active, permit>>
  PROVE  Slots'
<1>1. Out' = Out
  BY DEF Out, Stands, Moves, LimitsTypeOK
<1>2. active = Cap
  BY LimitsAssumption DEF Free, Slots, PermitsHold, LimitsTypeOK
<1>3. PermitsHold'
  BY <1>1, <1>2 DEF PermitsHold, Out, Slots
<1>4. \A d \in Caller : Holds(d)' <=> d \in Out'
  BY <1>1 DEF Slots, Holds
<1>5. /\ Len(waiters') = Len(waiters) + 1 /\ Len(waiters) \in Nat
      /\ \A i \in 1..Len(waiters) : waiters'[i] = waiters[i] /\ waiters[i] \in Caller
      /\ waiters'[Len(waiters) + 1] = c
  BY AppendProperties, LenProperties, ElementOfSeq DEF LimitsTypeOK
<1>6. \A i \in 1..Len(waiters) : waiters[i] # c
  BY DEF Slots, Stands
<1>7. \A i \in 1..Len(waiters') : pc'[waiters'[i]] = "waits"
  BY <1>5, <1>6 DEF Slots, Moves, LimitsTypeOK
<1>8. \A i, j \in 1..Len(waiters') : waiters'[i] = waiters'[j] => i = j
  BY <1>5, <1>6 DEF Slots
<1> QED
  BY <1>3, <1>4, <1>7, <1>8 DEF Slots

\* A permit that is given back is handed to the first in line, or free.
LEMMA ReleaseSlots ==
  ASSUME LimitsTypeOK, Slots, NEW c \in Caller, NEW next \in {"idle", "unwinds"}, Release(c, next),
         c \in Out \/ Stands(c, "unwinds")
  PROVE  Slots'
<1>1. CASE Stands(c, "unwinds")
  <2>1. ~Holds(c) /\ c \notin Out
    BY <1>1 DEF Slots, Out, Stands
  <2>2. UNCHANGED <<active, waiters, permit>> /\ pc' = [pc EXCEPT ![c] = next]
    BY <2>1 DEF Release, Moves, slots
  <2>3. Out' = Out
    BY <2>1, <2>2 DEF Out, Stands, LimitsTypeOK
  <2>4. \A i \in 1..Len(waiters) : waiters[i] \in Caller /\ waiters[i] # c
    BY <1>1, ElementOfSeq DEF Slots, Stands, LimitsTypeOK
  <2>5. PermitsHold'
    BY <2>2, <2>3 DEF Slots, PermitsHold, Out
  <2>6. \A d \in Caller : Holds(d)' <=> d \in Out'
    BY <2>2, <2>3 DEF Slots, Holds
  <2>7. \A i \in 1..Len(waiters') : pc'[waiters'[i]] = "waits"
    BY <2>2, <2>4 DEF Slots, LimitsTypeOK
  <2> QED
    BY <2>2, <2>5, <2>6, <2>7 DEF Slots
<1>2. CASE c \in Out
  <2> DEFINE freed == [permit EXCEPT ![c] = "released"]
  <2>1. Holds(c) /\ IsFiniteSet(Out) /\ Cardinality(Out) = active /\ active \in Int
    BY <1>2, FS_Subset, LimitsAssumption DEF Slots, PermitsHold, Out, LimitsTypeOK
  <2>2. CASE waiters = <<>>
    <3>1. active' = active - 1 /\ permit' = freed /\ Moves(c, next) /\ UNCHANGED waiters
      BY <2>1, <2>2 DEF Release
    <3>2. Out' = Out \ {c}
      BY <3>1 DEF Out, Stands, Moves, LimitsTypeOK
    <3>3. Cardinality(Out') = active'
      BY <1>2, <2>1, <3>1, <3>2, FS_RemoveElement
    <3>4. PermitsHold'
      BY <2>1, <2>2, <3>1, <3>3, LimitsAssumption DEF PermitsHold, Out, Slots
    <3>5. \A d \in Caller : Holds(d)' <=> d \in Out'
      BY <3>1, <3>2 DEF Slots, Holds, LimitsTypeOK
    <3> QED
      BY <2>2, <3>1, <3>4, <3>5 DEF Slots
  <2>3. CASE waiters # <<>>
    <3> DEFINE n == Head(waiters)
    <3>1. /\ n \in Caller /\ n = waiters[1] /\ 1 \in 1..Len(waiters)
          /\ Len(Tail(waiters)) = Len(waiters) - 1 /\ Len(waiters) \in Nat
          /\ \A i \in 1..Len(Tail(waiters)) : Tail(waiters)[i] = waiters[i + 1]
          /\ \A i \in 1..Len(waiters) : waiters[i] \in Caller
      BY <2>3, HeadTailProperties, LenProperties, ElementOfSeq, EmptySeq DEF LimitsTypeOK
    <3>2. /\ waiters' = Tail(waiters) /\ active' = active
          /\ permit' = [freed EXCEPT ![n] = "held"]
          /\ pc' = [pc EXCEPT ![c] = next, ![n] = "async"]
      BY <2>1, <2>3 DEF Release
    <3> HIDE DEF n
    <3>3. Stands(n, "waits") /\ n \notin Out /\ n # c
      BY <1>2, <3>1 DEF Slots, Out, Stands
    <3>4. Out' = (Out \ {c}) \cup {n}
      BY <3>1, <3>2, <3>3 DEF Out, Stands, LimitsTypeOK
    <3>5. Cardinality(Out') = active'
      <4>1. IsFiniteSet(Out \ {c}) /\ Cardinality(Out \ {c}) = active - 1
        BY <1>2, <2>1, FS_RemoveElement
      <4>2. Cardinality((Out \ {c}) \cup {n}) = Cardinality(Out \ {c}) + 1
        BY <3>3, <4>1, FS_AddElement
      <4> QED
        BY <2>1, <3>2, <3>4, <4>1, <4>2
    <3>6. PermitsHold'
      BY <2>3, <3>2, <3>5 DEF PermitsHold, Out, Slots
    <3>7. \A d \in Caller : Holds(d)' <=> d \in Out'
      BY <3>1, <3>2, <3>3, <3>4 DEF Slots, Holds, LimitsTypeOK
    <3>8. \A i \in 1..Len(waiters') : pc'[waiters'[i]] = "waits"
      <4> SUFFICES ASSUME NEW i \in 1..Len(waiters') PROVE pc'[waiters'[i]] = "waits"
        OBVIOUS
      <4>1. i + 1 \in 1..Len(waiters) /\ waiters'[i] = waiters[i + 1] /\ i + 1 # 1
        BY <3>1, <3>2
      <4>2. waiters[i + 1] # n /\ waiters[i + 1] # c /\ waiters[i + 1] \in Caller /\ pc[waiters[i + 1]] = "waits"
        BY <1>2, <3>1, <4>1 DEF Slots, Stands, Out
      <4> QED
        BY <3>2, <4>1, <4>2 DEF LimitsTypeOK
    <3>9. \A i, j \in 1..Len(waiters') : waiters'[i] = waiters'[j] => i = j
      <4> SUFFICES ASSUME NEW i \in 1..Len(waiters'), NEW j \in 1..Len(waiters'),
                          waiters'[i] = waiters'[j]
                   PROVE  i = j
        OBVIOUS
      <4>1. i + 1 \in 1..Len(waiters) /\ j + 1 \in 1..Len(waiters) /\ waiters[i + 1] = waiters[j + 1]
        BY <3>1, <3>2
      <4>2. i + 1 = j + 1
        BY <4>1 DEF Slots
      <4> QED
        BY <4>2
    <3> QED
      BY <3>6, <3>7, <3>8, <3>9 DEF Slots
  <2> QED
    BY <2>2, <2>3
<1> QED
  BY <1>1, <1>2

\* Steps of the time and of the rates leave the permits alone.
LEMMA OtherSlots ==
  ASSUME LimitsTypeOK, Slots, UNCHANGED slots,
         \A d \in Caller : /\ Stands(d, "waits") <=> Stands(d, "waits")'
                           /\ Stands(d, "sync") <=> Stands(d, "sync")'
                           /\ Stands(d, "async") <=> Stands(d, "async")'
  PROVE  Slots'
<1>1. Out' = Out
  BY DEF Out
<1>2. \A i \in 1..Len(waiters) : waiters[i] \in Caller
  BY ElementOfSeq DEF LimitsTypeOK
<1>3. UNCHANGED <<active, waiters, permit>>
  BY DEF slots
<1>4. PermitsHold'
  BY <1>1, <1>3 DEF Slots, PermitsHold, Out
<1>5. \A d \in Caller : Holds(d)' <=> d \in Out'
  BY <1>1, <1>3 DEF Slots, Holds
<1>6. \A i \in 1..Len(waiters') : pc'[waiters'[i]] = "waits"
  BY <1>2, <1>3 DEF Slots, Stands
<1>7. \A i, j \in 1..Len(waiters') : waiters'[i] = waiters'[j] => i = j
  BY <1>3 DEF Slots
<1> QED
  BY <1>4, <1>5, <1>6, <1>7 DEF Slots

LEMMA NextSlots == LimitsTypeOK /\ Slots /\ [LimitsNext]_LimitsVars => Slots'
<1> SUFFICES ASSUME LimitsTypeOK, Slots, [LimitsNext]_LimitsVars PROVE Slots'
  OBVIOUS
<1>1. CASE Tick \/ SetBack \/ UNCHANGED LimitsVars
  BY <1>1, OtherSlots DEF Tick, SetBack, LimitsVars, Stands
<1>2. ASSUME NEW c \in Caller, CheckBucket(c) \/ CheckQuota(c) PROVE Slots'
  <2>1. UNCHANGED slots /\ pc[c] \in {"idle", "quota"}
        /\ (pc' = pc \/ \E place \in {"idle", "quota", "enter"} : pc' = [pc EXCEPT ![c] = place])
    BY <1>2 DEF CheckBucket, CheckQuota, Stands, Moves
  <2> QED
    BY <2>1, OtherSlots DEF Stands, LimitsTypeOK
<1>3. ASSUME NEW c \in Caller, EnterSync(c) PROVE Slots'
  <2>1. CASE Free
    BY <1>3, <2>1, TakeSlots DEF EnterSync
  <2>2. CASE ~Free
    <3>1. UNCHANGED slots /\ pc[c] = "enter" /\ pc' = [pc EXCEPT ![c] = "idle"]
      BY <1>3, <2>2 DEF EnterSync, Stands, Moves, slots
    <3> QED
      BY <3>1, OtherSlots DEF Stands, LimitsTypeOK
  <2> QED
    BY <2>1, <2>2
<1>4. ASSUME NEW c \in Caller, EnterAsync(c) PROVE Slots'
  <2>1. CASE Free
    BY <1>4, <2>1, TakeSlots DEF EnterAsync
  <2>2. CASE ~Free
    BY <1>4, <2>2, WaitSlots DEF EnterAsync
  <2> QED
    BY <2>1, <2>2
<1>5. ASSUME NEW c \in Caller, Run(c) \/ Unwind(c) PROVE Slots'
  BY <1>5, ReleaseSlots DEF Run, Unwind, Out, Stands
<1> QED
  BY <1>1, <1>2, <1>3, <1>4, <1>5 DEF LimitsNext

\* LimitsInv: types, and permits that are out as often as they are counted, never
\* beyond the cap, and never idle while an execution waits.
THEOREM Permits == LimitsSpec => []LimitsInv
<1>1. LimitsTypeOK /\ Slots => LimitsInv
  BY DEF Slots, LimitsInv
<1>2. LimitsInit => Slots
  BY InitSlots
<1>3. LimitsTypeOK /\ Slots /\ [LimitsNext]_LimitsVars => Slots'
  BY NextSlots
<1> QED
  BY <1>1, <1>2, <1>3, TypeCorrect, PTL DEF LimitsSpec

-----------------------------------------------------------------------------
(* The token bucket.                                                       *)

\* RateHolds, and that the bucket's time starts at its first check.
Filled ==
  /\ RateHolds
  /\ bucket.kept => first <= bucket.updatedAt
  /\ ~bucket.kept => passed = 0

\* A refill is what the time that has gone by allows, less where the bucket is
\* full, and none where the clock is behind it.
LEMMA CheckFills ==
  ASSUME LimitsTypeOK, Filled, NEW c \in Caller, CheckBucket(c)
  PROVE  Filled'
<1> DEFINE then    == IF bucket.kept THEN bucket.updatedAt ELSE clock
           elapsed == IF then < clock THEN clock - then ELSE 0
           tokens  == Lower(Full, bucket.tokens + elapsed * RefillLimit)
           updated == Latest(then, clock)
           from    == IF bucket.kept THEN first ELSE clock
<1>1. /\ then \in Nat /\ elapsed \in Nat /\ updated = then + elapsed
      /\ from \in Nat /\ from <= then /\ passed \in Nat
  BY DEF LimitsTypeOK, Latest, Higher, Filled
<1>2. bucket.tokens \in Nat /\ bucket.tokens <= Full
  BY FullIsNat DEF LimitsTypeOK
<1>3. passed * IntervalMs + bucket.tokens <= Full + (then - from) * RefillLimit
  <2>1. CASE bucket.kept
    BY <2>1 DEF Filled, RateHolds
  <2>2. CASE ~bucket.kept
    <3>1. passed = 0 /\ then = from
      BY <2>2 DEF Filled
    <3>2. passed * IntervalMs = 0 /\ (then - from) * RefillLimit = 0
      BY <1>1, <3>1, LimitsAssumption
    <3> QED
      BY <1>2, <3>2, FullIsNat
  <2> QED
    BY <2>1, <2>2
<1>4. tokens \in Int /\ tokens <= bucket.tokens + elapsed * RefillLimit
  <2>1. elapsed * RefillLimit \in Nat
    BY <1>1, Products, LimitsAssumption
  <2> QED
    BY <1>2, <2>1, FullIsNat DEF Lower
<1>5. /\ bucket' = [kept |-> TRUE, updatedAt |-> updated,
                    tokens |-> IF tokens >= IntervalMs THEN tokens - IntervalMs ELSE tokens]
      /\ first' = from /\ passed' = IF tokens >= IntervalMs THEN passed + 1 ELSE passed
  BY DEF CheckBucket
<1> HIDE DEF then, elapsed, tokens, updated, from
<1>6. (updated - from) * RefillLimit = (then - from) * RefillLimit + elapsed * RefillLimit
  <2>1. updated - from = (then - from) + elapsed /\ then - from \in Int
    BY <1>1
  <2> QED
    BY <1>1, <2>1, Refills, LimitsAssumption
<1>7. (passed + 1) * IntervalMs = passed * IntervalMs + IntervalMs
  BY <1>1, Refills, LimitsAssumption
<1>8. passed' * IntervalMs + bucket'.tokens <= Full + (updated - from) * RefillLimit
  <2> DEFINE p == passed * IntervalMs
             r == elapsed * RefillLimit
             t == (then - from) * RefillLimit
  <2>1. p \in Nat /\ r \in Nat /\ t \in Nat
    BY <1>1, Products, LimitsAssumption
  <2>2. passed' * IntervalMs = IF tokens >= IntervalMs THEN p + IntervalMs ELSE p
    BY <1>5, <1>7
  <2>3. bucket'.tokens = IF tokens >= IntervalMs THEN tokens - IntervalMs ELSE tokens
    BY <1>5
  <2>4. p + bucket.tokens <= Full + t /\ tokens <= bucket.tokens + r
    BY <1>3, <1>4
  <2>5. (updated - from) * RefillLimit = t + r
    BY <1>6
  <2> HIDE DEF p, r, t
  <2> QED
    BY <1>2, <1>4, <2>1, <2>2, <2>3, <2>4, <2>5, FullIsNat, LimitsAssumption
<1>9. from <= updated
  BY <1>1
<1> QED
  BY <1>5, <1>8, <1>9 DEF Filled, RateHolds

\* RateHolds: the bucket lets no more pass than its burst and the refill of the
\* time it has seen go by, however the clock is set back and on again.
THEOREM Rate == LimitsSpec => []RateHolds
<1>1. LimitsInit => Filled
  BY DEF LimitsInit, Filled, RateHolds
<1>2. LimitsTypeOK /\ Filled /\ [LimitsNext]_LimitsVars => Filled'
  <2> SUFFICES ASSUME LimitsTypeOK, Filled, [LimitsNext]_LimitsVars PROVE Filled'
    OBVIOUS
  <2>1. CASE \E c \in Caller : CheckBucket(c)
    BY <2>1, CheckFills
  <2>2. CASE UNCHANGED <<bucket, first, passed>>
    BY <2>2 DEF Filled, RateHolds
  <2> QED
    BY <2>1, <2>2 DEF LimitsNext, Tick, SetBack, CheckQuota, EnterSync, EnterAsync, Run, Unwind,
       LimitsVars, rates, past
<1>3. Filled => RateHolds
  BY DEF Filled
<1> QED
  BY <1>1, <1>2, <1>3, TypeCorrect, PTL DEF LimitsSpec

-----------------------------------------------------------------------------
(* The daily quota.                                                        *)

\* QuotaHolds, and why: the window that is kept has been charged what it says,
\* and no window after it has been charged yet.
Counted ==
  /\ QuotaHolds
  /\ window.kept => \A n \in 0..MaxTime : charged[n] > 0 => n <= window.start
  /\ window.kept => (window.start \in 0..MaxTime => charged[window.start] = window.used)
  /\ ~window.kept => \A n \in 0..MaxTime : charged[n] = 0

\* A window is charged while it is below the quota, and a fresh one lies after
\* every window that has been charged.
LEMMA CheckCounts ==
  ASSUME LimitsTypeOK, Counted, NEW c \in Caller, CheckQuota(c)
  PROVE  Counted'
<1> DEFINE w == IF Current THEN window ELSE [kept |-> TRUE, used |-> 0, start |-> WindowStart(clock)]
<1>1. WindowStart(clock) \in Nat
  BY StartIsNat DEF LimitsTypeOK
<1>2. w \in [kept : BOOLEAN, used : 0..Quota, start : Nat] /\ w.kept
  BY <1>1, LimitsAssumption DEF LimitsTypeOK, Current
<1>3. \A n \in 0..MaxTime : charged[n] > 0 => n <= w.start
  BY <1>1, LimitsAssumption DEF Counted, Current, LimitsTypeOK
<1>4. w.start \in 0..MaxTime => charged[w.start] = w.used
  BY <1>1, LimitsAssumption DEF Counted, Current, LimitsTypeOK
<1>5. \/ w.used < Quota /\ window' = [w EXCEPT !.used = @ + 1] /\ charged' = [charged EXCEPT ![w.start] = @ + 1]
      \/ window' = w /\ charged' = charged
  BY DEF CheckQuota
<1> HIDE DEF w
<1>6. charged \in [0..MaxTime -> Nat] /\ QuotaHolds
  BY DEF LimitsTypeOK, Counted
<1>7. CASE window' = w /\ charged' = charged
  BY <1>2, <1>3, <1>4, <1>6, <1>7 DEF Counted, QuotaHolds
<1>8. CASE /\ w.used < Quota /\ window' = [w EXCEPT !.used = @ + 1]
           /\ charged' = [charged EXCEPT ![w.start] = @ + 1]
  <2>1. window'.start = w.start /\ window'.used = w.used + 1 /\ window'.kept
    BY <1>2, <1>8
  <2>2. \A n \in 0..MaxTime : charged'[n] = IF n = w.start THEN w.used + 1 ELSE charged[n]
    BY <1>4, <1>6, <1>8
  <2>3. QuotaHolds'
    BY <1>2, <1>6, <1>8, <2>2, LimitsAssumption DEF QuotaHolds
  <2>4. \A n \in 0..MaxTime : charged'[n] > 0 => n <= window'.start
    BY <1>2, <1>3, <2>1, <2>2, LimitsAssumption
  <2> QED
    BY <2>1, <2>2, <2>3, <2>4 DEF Counted
<1> QED
  BY <1>5, <1>7, <1>8

\* QuotaHolds: no window is charged above the quota, whatever the clock does.
THEOREM DailyQuota == LimitsSpec => []QuotaHolds
<1>1. LimitsInit => Counted
  BY LimitsAssumption DEF LimitsInit, Counted, QuotaHolds
<1>2. LimitsTypeOK /\ Counted /\ [LimitsNext]_LimitsVars => Counted'
  <2> SUFFICES ASSUME LimitsTypeOK, Counted, [LimitsNext]_LimitsVars PROVE Counted'
    OBVIOUS
  <2>1. CASE \E c \in Caller : CheckQuota(c)
    BY <2>1, CheckCounts
  <2>2. CASE UNCHANGED <<window, charged>>
    BY <2>2 DEF Counted, QuotaHolds
  <2> QED
    BY <2>1, <2>2 DEF LimitsNext, Tick, SetBack, CheckBucket, EnterSync, EnterAsync, Run, Unwind,
       LimitsVars, rates, past
<1>3. Counted => QuotaHolds
  BY DEF Counted
<1> QED
  BY <1>1, <1>2, <1>3, TypeCorrect, PTL DEF LimitsSpec

\* LimitsHold: the rate and the quota both hold.
THEOREM Policies == LimitsSpec => []LimitsHold
  BY Rate, DailyQuota, PTL DEF LimitsHold

-----------------------------------------------------------------------------
(* Triggers.  The inductive invariant.                                     *)

\* A cursor is never ahead of the provider.
Reached(n) == n = 0 \/ \E e \in Event : n <= label[e]

\* An event that will not be brought again need not be.
Accounted(e) ==
  \/ e \in admitted \cup lost
  \/ \E w \in Worker : At(w, "admit") /\ Head(run[w].queue) = e

\* What lies behind a cursor is accounted for.
Behind(n) == Reached(n) /\ \A e \in Happened : label[e] <= n => Accounted(e)

\* What a run found and emits, in the order of its queue.
Emits(r, e) == mode = "push" \/ (r.cursor < label[e] /\ label[e] <= r.mark)
Owes(r, e)  == \E i \in 1..Len(r.queue) : r.queue[i] = e

RunTold(w) ==
  LET r == run[w]
  IN  /\ Behind(r.cursor) /\ Reached(r.mark)
      /\ r.pc \in {"get", "list", "fetch"} => mode = "polling"
      /\ r.pc \in {"emit", "admit", "note"} =>
           \A e \in r.found : Emits(r, e) => Accounted(e) \/ Owes(r, e)
      /\ r.pc \in {"admit", "note"} => r.queue # <<>>
      /\ r.pc = "note" => Head(r.queue) \in admitted /\ noted[Head(r.queue)] = 0

Runs == \A w \in Worker : RunTold(w)

\* An event is entered in the history by one run.
OneNotes ==
  \A v, w \in Worker :
    At(v, "note") /\ At(w, "note") /\ Head(run[v].queue) = Head(run[w].queue) => v = w

Kept == Behind(row.cursor) /\ \A e \in claims \cup answered : Accounted(e)

IInv == TypeOK /\ AdmittedOnce /\ OneNotes /\ Kept /\ Runs

-----------------------------------------------------------------------------
(* Labels of events.                                                       *)

\* A finite set of numbers has a greatest one.
LEMMA Greatest ==
  ASSUME NEW S \in SUBSET Nat, IsFiniteSet(S), S # {}
  PROVE  Max(S) \in S /\ \A n \in S : n <= Max(S)
<1> DEFINE Above(n) == {m \in S : n < m}
<1> DEFINE T == {Above(n) : n \in S}
<1>1. IsWellFoundedOn(StrictSubsetOrdering(S), FiniteSubsetsOf(S))
  BY FS_StrictSubsetOrderingWellFounded
<1>2. T \subseteq FiniteSubsetsOf(S) /\ T # {}
  <2>1. FiniteSubsetsOf(S) = SUBSET S
    BY FS_FiniteSubsetsOfFinite
  <2>2. \A X \in T : X \subseteq S
    OBVIOUS
  <2>3. \E X : X \in T
    OBVIOUS
  <2> HIDE DEF T
  <2> QED
    BY <2>1, <2>2, <2>3
<1>3. PICK X \in T : \A Y \in T : <<Y, X>> \notin StrictSubsetOrdering(S)
  <2> HIDE DEF T
  <2>1. \E X \in T : \A Y \in T : ~(<<Y, X>> \in StrictSubsetOrdering(S))
    BY <1>1, <1>2, WFMin
  <2> QED
    BY <2>1
<1>4. PICK x \in S : X = Above(x)
  OBVIOUS
<1>5. \A n \in S : n <= x
  <2> SUFFICES ASSUME NEW n \in S, x < n
               PROVE  FALSE
    OBVIOUS
  <2>1. n \in Nat /\ x \in Nat /\ \A m \in S : m \in Nat
    OBVIOUS
  <2>2. n \in Above(x) /\ n \notin Above(n)
    BY <2>1
  <2>3. \A m \in S : n < m => x < m
    BY <2>1
  <2>4. Above(n) \subseteq Above(x)
    BY <2>3
  <2>5. <<Above(n), Above(x)>> \in StrictSubsetOrdering(S)
    BY <2>2, <2>4 DEF StrictSubsetOrdering
  <2> QED
    BY <1>3, <1>4, <2>5
<1>6. \A n \in S : x >= n
  BY <1>5
<1> QED
  BY <1>6 DEF Max

\* Events have finitely many labels.
LEMMA FewLabels ==
  ASSUME NEW D \in SUBSET Event, NEW n
  PROVE  IsFiniteSet({label[e] : e \in D} \cup {n})
<1> DEFINE T == {label[e] : e \in D}
<1>1. [e \in D |-> label[e]] \in Surjection(D, T)
  BY DEF Surjection
<1>2. IsFiniteSet(T)
  <2>1. IsFiniteSet(D)
    BY TriggerAssumption, FS_Subset
  <2> HIDE DEF T
  <2> QED
    BY <1>1, <2>1, FS_Surjection
<1> HIDE DEF T
<1>3. IsFiniteSet(T \cup {n})
  BY <1>2, FS_AddElement
<1> QED
  BY <1>3 DEF T

\* The next label is greater than all.
LEMMA Labels ==
  ASSUME TypeOK
  PROVE  NextLabel \in Nat /\ \A e \in Event : label[e] \in Nat /\ label[e] < NextLabel
<1> DEFINE S == {label[e] : e \in Event} \cup {0}
<1>1. \A e \in Event : label[e] \in Nat
  BY DEF TypeOK
<1>2. IsFiniteSet(S)
  BY FewLabels
<1>3. S \in SUBSET Nat /\ S # {} /\ \A e \in Event : label[e] \in S
  BY <1>1
<1>4. NextLabel = 1 + Max(S)
  BY DEF NextLabel
<1>5. Max(S) \in S /\ \A n \in S : n <= Max(S)
  <2> HIDE DEF S
  <2> QED
    BY <1>2, <1>3, Greatest
<1> HIDE DEF S
<1>6. Max(S) \in Nat
  BY <1>3, <1>5
<1> QED
  BY <1>1, <1>3, <1>4, <1>5, <1>6

RunRecord ==
  [pc     : {"idle", "get", "list", "fetch", "emit", "admit", "note", "catch"},
   cursor : Nat, found : SUBSET Event, queue : Seq(Event), mark : Nat]

\* The mark of a poll is its cursor or the greatest label it found.
LEMMA Marks ==
  ASSUME TypeOK, NEW r \in RunRecord, NEW m, m = Max({label[e] : e \in r.found} \cup {r.cursor})
  PROVE  /\ m \in Nat
         /\ m = r.cursor \/ \E e \in Event : m = label[e]
         /\ \A e \in r.found : label[e] <= m
<1> DEFINE S == {label[e] : e \in r.found} \cup {r.cursor}
<1>1. r.found \subseteq Event /\ r.cursor \in Nat /\ \A e \in Event : label[e] \in Nat
  BY DEF TypeOK, RunRecord
<1>2. IsFiniteSet(S)
  BY <1>1, FewLabels
<1>3. S \in SUBSET Nat /\ S # {} /\ \A e \in r.found : label[e] \in S
  BY <1>1
<1>4. Max(S) \in S /\ \A n \in S : n <= Max(S)
  <2> HIDE DEF S
  <2> QED
    BY <1>2, <1>3, Greatest
<1>5. m \in S /\ \A e \in r.found : label[e] <= m
  BY <1>3, <1>4
<1> QED
  BY <1>1, <1>5

-----------------------------------------------------------------------------
(* What no step takes back.                                                *)

Forward ==
  /\ mode' = mode
  /\ \A e \in Event : label'[e] \in {label[e], NextLabel}
  /\ admitted \subseteq admitted' /\ lost \subseteq lost'
  /\ \A w \in Worker :
       At(w, "admit") => run'[w] = run[w] \/ Head(run[w].queue) \in admitted' \cup lost'

\* Nothing is behind the first cursor.
LEMMA BehindNone ==
  ASSUME TypeOK
  PROVE  Behind(0)
<1>1. \A e \in Happened : label[e] \in Nat /\ label[e] > 0
  BY DEF TypeOK, Happened
<1> QED
  BY <1>1 DEF Behind, Reached

\* What is accounted for stays so, and what is behind a cursor: a new label is
\* ahead of every cursor.
LEMMA Stays ==
  ASSUME TypeOK, Forward
  PROVE  /\ \A e \in Event : Accounted(e) => Accounted(e)'
         /\ \A n \in Nat : Reached(n) => n < NextLabel /\ Reached(n)'
         /\ \A n \in Nat : Behind(n) => Behind(n)'
<1>1. ASSUME NEW e \in Event, Accounted(e)
      PROVE  Accounted(e)'
  <2>1. CASE e \in admitted \cup lost
    BY <2>1 DEF Forward, Accounted
  <2>2. ASSUME NEW w \in Worker, At(w, "admit"), Head(run[w].queue) = e
        PROVE  Accounted(e)'
    BY <2>2 DEF Forward, Accounted, At
  <2> QED
    BY <1>1, <2>1, <2>2 DEF Accounted
<1>2. ASSUME NEW n \in Nat, Reached(n)
      PROVE  n < NextLabel /\ Reached(n)'
  <2>1. /\ NextLabel \in Nat
        /\ \A e \in Event : label[e] \in Nat /\ label[e] < NextLabel
    BY Labels
  <2>2. CASE n = 0
    <3>1. 0 < NextLabel
      <4>1. NextLabel = 1 + Max({label[e] : e \in Event} \cup {0})
        BY DEF NextLabel
      <4>2. CASE Event = {}
        <5>1. Max({label[e] : e \in Event} \cup {0}) = 0
          <6>1. {label[e] : e \in Event} \cup {0} = {0}
            BY <4>2
          <6> QED
            BY <6>1 DEF Max
        <5> QED
          BY <4>1, <5>1
      <4>3. CASE \E e \in Event : TRUE
        BY <2>1, <4>3
      <4> QED
        BY <4>2, <4>3
    <3> QED
      BY <2>2, <3>1 DEF Reached
  <2>3. ASSUME NEW e \in Event, n <= label[e]
        PROVE  n < NextLabel /\ Reached(n)'
    <3>1. label[e] \in Nat /\ label[e] < NextLabel /\ label'[e] \in {label[e], NextLabel}
      BY <2>1 DEF Forward
    <3>2. n < NextLabel /\ n <= label'[e]
      BY <2>1, <2>3, <3>1
    <3> QED
      BY <3>2 DEF Reached
  <2> QED
    BY <1>2, <2>2, <2>3 DEF Reached
<1>3. ASSUME NEW n \in Nat, Behind(n)
      PROVE  Behind(n)'
  <2>1. n < NextLabel /\ Reached(n)'
    BY <1>2, <1>3 DEF Behind
  <2>2. ASSUME NEW e \in Event, label'[e] > 0, label'[e] <= n
        PROVE  Accounted(e)'
    <3>1. NextLabel \in Nat /\ label'[e] \in {label[e], NextLabel}
      BY Labels DEF Forward
    <3>2. label'[e] = label[e]
      BY <2>1, <2>2, <3>1
    <3>3. Accounted(e)
      BY <1>3, <2>2, <3>2 DEF Behind, Happened
    <3> QED
      BY <1>1, <3>3
  <2> QED
    BY <2>1, <2>2 DEF Behind, Happened
<1> QED
  BY <1>1, <1>2, <1>3

\* What is told of a run that goes on.  Its queue shrinks only by what is
\* accounted for.
LEMMA RunGoesOn ==
  ASSUME IInv, Forward, NEW w \in Worker,
         run'[w].cursor = run[w].cursor, run'[w].mark = run[w].mark,
         run'[w].pc \in {"emit", "admit", "note"} =>
           /\ run[w].pc \in {"emit", "admit", "note"} /\ run'[w].found = run[w].found
           /\ \A e \in Event : Owes(run[w], e) => Accounted(e)' \/ Owes(run'[w], e),
         run'[w].pc \in {"get", "list", "fetch"} => mode = "polling",
         run'[w].pc \in {"admit", "note"} => run'[w].queue # <<>>,
         run'[w].pc = "note" =>
           Head(run'[w].queue) \in admitted' /\ noted'[Head(run'[w].queue)] = 0
  PROVE  RunTold(w)'
<1>1. TypeOK /\ RunTold(w) /\ run[w] \in RunRecord
  BY DEF IInv, Runs, TypeOK, RunRecord
<1>2. /\ run[w].cursor \in Nat /\ run[w].mark \in Nat /\ run[w].found \subseteq Event
      /\ Behind(run[w].cursor) /\ Reached(run[w].mark)
  BY <1>1 DEF RunTold, RunRecord
<1>3. PICK c \in Nat, m \in Nat : c = run[w].cursor /\ m = run[w].mark
  BY <1>2
<1>4. Behind(c)' /\ Reached(m)' /\ m < NextLabel
  BY <1>1, <1>2, <1>3, Stays
<1>5. ASSUME run'[w].pc \in {"emit", "admit", "note"}, NEW e \in run'[w].found, Emits(run[w], e)'
      PROVE  Accounted(e)' \/ Owes(run'[w], e)
  <2>1. e \in run[w].found /\ e \in Event /\ run[w].pc \in {"emit", "admit", "note"}
    BY <1>2, <1>5
  <2>2. Emits(run[w], e)
    <3>1. CASE mode = "push"
      BY <3>1 DEF Emits
    <3>2. CASE mode # "push"
      <4>1. c < label'[e] /\ label'[e] <= m
        BY <1>3, <1>5, <3>2 DEF Emits, Forward
      <4>2. label'[e] = label[e]
        <5>1. label'[e] \in {label[e], NextLabel} /\ NextLabel \in Nat
          BY <1>1, <2>1, Labels DEF Forward
        <5> QED
          BY <1>4, <4>1, <5>1
      <4> QED
        BY <1>3, <4>1, <4>2 DEF Emits
    <3> QED
      BY <3>1, <3>2
  <2>3. Accounted(e) \/ Owes(run[w], e)
    BY <1>1, <2>1, <2>2 DEF RunTold
  <2>4. Accounted(e) => Accounted(e)'
    BY <1>1, <2>1, Stays
  <2> QED
    BY <1>5, <2>1, <2>3, <2>4
<1>6. Behind(run[w].cursor)' /\ Reached(run[w].mark)'
  BY <1>3, <1>4
<1> QED
  BY <1>5, <1>6 DEF RunTold, Emits, Owes, Forward

\* What else a step must show.
LEMMA StepSettles ==
  ASSUME IInv, Forward, TypeOK', AdmittedOnce', Kept',
         \/ UNCHANGED <<run, noted>>
         \/ \E w \in Worker, r \in RunRecord :
              /\ run' = [run EXCEPT ![w] = r] /\ RunTold(w)'
              /\ \A v \in Worker \ {w} : At(v, "note") =>
                   /\ noted'[Head(run[v].queue)] = 0
                   /\ r.pc = "note" => Head(r.queue) # Head(run[v].queue)
  PROVE  IInv'
<1>1. TypeOK /\ OneNotes /\ Runs /\ run \in [Worker -> RunRecord]
  BY DEF IInv, TypeOK, RunRecord
<1>2. ASSUME NEW v \in Worker, run'[v] = run[v],
             At(v, "note") => noted'[Head(run[v].queue)] = 0
      PROVE  RunTold(v)'
  <2>1. RunTold(v)
    BY <1>1 DEF Runs
  <2>2. /\ run'[v].pc \in {"get", "list", "fetch"} => mode = "polling"
        /\ run'[v].pc \in {"admit", "note"} => run'[v].queue # <<>>
    BY <1>2, <2>1 DEF RunTold
  <2>3. run'[v].pc = "note" =>
          Head(run'[v].queue) \in admitted' /\ noted'[Head(run'[v].queue)] = 0
    BY <1>2, <2>1 DEF RunTold, Forward, At
  <2> QED
    BY <1>2, <2>2, <2>3, RunGoesOn
<1>3. CASE UNCHANGED <<run, noted>>
  <2>1. ASSUME NEW v \in Worker
        PROVE  RunTold(v)'
    <3>1. At(v, "note") => noted'[Head(run[v].queue)] = 0
      BY <1>1, <1>3 DEF Runs, RunTold, At
    <3> QED
      BY <1>2, <1>3, <3>1
  <2>2. OneNotes'
    BY <1>1, <1>3 DEF OneNotes, At
  <2> QED
    BY <2>1, <2>2 DEF IInv, Runs
<1>4. ASSUME NEW w \in Worker, NEW r \in RunRecord, run' = [run EXCEPT ![w] = r], RunTold(w)',
             \A v \in Worker \ {w} : At(v, "note") =>
               /\ noted'[Head(run[v].queue)] = 0
               /\ r.pc = "note" => Head(r.queue) # Head(run[v].queue)
      PROVE  IInv'
  <2>1. run'[w] = r /\ \A v \in Worker \ {w} : run'[v] = run[v]
    BY <1>1, <1>4
  <2>2. ASSUME NEW v \in Worker
        PROVE  RunTold(v)'
    <3>1. CASE v = w
      BY <1>4, <3>1
    <3>2. CASE v # w
      BY <1>2, <1>4, <2>1, <3>2
    <3> QED
      BY <3>1, <3>2
  <2>3. OneNotes'
    BY <1>1, <1>4, <2>1 DEF OneNotes, At
  <2> QED
    BY <2>2, <2>3 DEF IInv, Runs
<1> QED
  BY <1>3, <1>4

-----------------------------------------------------------------------------
(* The steps.                                                              *)

\* What the invariant says of one run.
LEMMA Knows ==
  ASSUME IInv
  PROVE  /\ TypeOK /\ AdmittedOnce /\ OneNotes /\ Kept /\ run \in [Worker -> RunRecord]
         /\ \A w \in Worker : RunTold(w) /\ run[w] \in RunRecord
         /\ \A w \in Worker : At(w, "note") => noted[Head(run[w].queue)] = 0
         /\ row.cursor \in Nat /\ MaxHappenings \in Nat
BY TriggerAssumption DEF IInv, Runs, RunTold, TypeOK, RunRecord, At

\* The left-over budget.
LEMMA Spends ==
  ASSUME TypeOK, NEW k, Happens(k) \/ UNCHANGED left
  PROVE  left' \in 0..MaxHappenings
BY TriggerAssumption DEF TypeOK, Happens

\* The row, the claims and what was answered are told of again.
LEMMA KeptStays ==
  ASSUME IInv, Forward, row'.cursor \in {row.cursor, 0},
         claims' \subseteq claims, answered' \subseteq answered
  PROVE  Kept'
<1>1. /\ Kept /\ TypeOK /\ row.cursor \in Nat
      /\ claims \subseteq Event /\ answered \subseteq Event
  BY Knows DEF TypeOK
<1>2. PICK n \in Nat : n = row'.cursor /\ Behind(n)
  BY <1>1, BehindNone DEF Kept
<1>3. Behind(n)' /\ \A e \in Event : Accounted(e) => Accounted(e)'
  BY <1>1, <1>2, Stays
<1>4. Behind(row.cursor)'
  BY <1>2, <1>3
<1> QED
  BY <1>1, <1>3, <1>4 DEF Kept

\* The provider and the clock.
LEMMA WorldSteps ==
  ASSUME IInv,
         \/ Due
         \/ \E e \in Event : Arrives(e) \/ Again(e) \/ Expires(e)
  PROVE  IInv'
<1> USE Knows
<1>1. CASE Due
  <2>1. Forward
    BY <1>1 DEF Due, world, sink, Forward
  <2>2. TypeOK'
    BY <1>1 DEF Due, world, sink, TypeOK
  <2>3. AdmittedOnce'
    BY <1>1 DEF Due, sink, AdmittedOnce
  <2>4. Kept'
    BY <1>1, <2>1, KeptStays DEF Due, world, TypeOK
  <2> QED
    BY <1>1, <2>1, <2>2, <2>3, <2>4, StepSettles DEF Due, sink
<1>2. ASSUME NEW e \in Event, Arrives(e) \/ Again(e)
      PROVE  IInv'
  <2>1. /\ UNCHANGED <<mode, sub, row, claims, admitted, noted, run, lost>>
        /\ label' = [label EXCEPT ![e] = NextLabel] \/ label' = label
        /\ answered' \subseteq answered
        /\ Happens("again") \/ UNCHANGED left
    BY <1>2 DEF Arrives, Again, state, sink
  <2>2. Forward
    BY <2>1 DEF Forward, TypeOK
  <2>3. TypeOK'
    <3>1. left' \in 0..MaxHappenings
      BY <2>1, Spends
    <3>2. label' \in [Event -> Nat]
      BY <2>1, Labels DEF TypeOK
    <3> QED
      BY <2>1, <3>1, <3>2 DEF TypeOK
  <2>4. AdmittedOnce'
    BY <2>1 DEF AdmittedOnce
  <2>5. Kept'
    BY <2>1, <2>2, KeptStays
  <2> QED
    BY <2>1, <2>2, <2>3, <2>4, <2>5, StepSettles
<1>3. ASSUME NEW e \in Event, Expires(e)
      PROVE  IInv'
  <2>1. /\ UNCHANGED <<mode, sub, row, admitted, noted, label, answered, run, lost>>
        /\ claims' \subseteq claims /\ Happens("expiry")
    BY <1>3 DEF Expires, sink, world
  <2>2. Forward
    BY <2>1 DEF Forward
  <2>3. TypeOK'
    <3>1. left' \in 0..MaxHappenings
      BY <2>1, Spends
    <3> QED
      BY <2>1, <3>1 DEF TypeOK
  <2>4. AdmittedOnce'
    BY <2>1 DEF AdmittedOnce
  <2>5. Kept'
    BY <2>1, <2>2, KeptStays
  <2> QED
    BY <2>1, <2>2, <2>3, <2>4, <2>5, StepSettles
<1> QED
  BY <1>1, <1>2, <1>3

\* Creation and deletion.
LEMMA SubscriptionSteps ==
  ASSUME IInv, Create \/ CreateState \/ CreateUndone \/ Delete \/ DeleteState
  PROVE  IInv'
<1> USE Knows
<1>1. UNCHANGED <<mode, admitted, noted, label, answered, run, lost>>
  BY DEF Create, CreateState, CreateUndone, Delete, DeleteState, sink, world
<1>2. claims' \in {claims, {}}
  BY DEF Create, CreateState, CreateUndone, Delete, DeleteState, state
<1>s. sub' \in {"made", "active", "undo", "gone", "deleting"}
  BY DEF Create, CreateState, CreateUndone, Delete, DeleteState
<1>3. row' \in {row, NoRow, [put |-> TRUE, cursor |-> 0, due |-> FALSE]}
  BY DEF Create, CreateState, CreateUndone, Delete, DeleteState, state
<1>4. \E k : Happens(k) \/ UNCHANGED left
  BY DEF Create, CreateState, CreateUndone, Delete, DeleteState
<1>5. left' \in 0..MaxHappenings
  BY <1>4, Spends
<1>6. row' \in [put : BOOLEAN, cursor : Nat, due : BOOLEAN] /\ row'.cursor \in {row.cursor, 0}
  <2>1. CASE row' = row
    BY <2>1 DEF TypeOK
  <2>2. CASE row' = NoRow
    BY <2>2 DEF NoRow
  <2>3. CASE row' = [put |-> TRUE, cursor |-> 0, due |-> FALSE]
    BY <2>3
  <2> QED
    BY <1>3, <2>1, <2>2, <2>3
<1>7. Forward
  BY <1>1 DEF Forward
<1>8. TypeOK'
  BY <1>1, <1>2, <1>5, <1>6, <1>s DEF TypeOK, Live
<1>9. AdmittedOnce'
  BY <1>1 DEF AdmittedOnce
<1>10. Kept'
  BY <1>1, <1>2, <1>6, <1>7, KeptStays
<1> QED
  BY <1>1, <1>7, <1>8, <1>9, <1>10, StepSettles

\* A run that emits nothing is told of by its cursor and its mark.
LEMMA RestsTold ==
  ASSUME IInv, Forward, NEW w \in Worker,
         run'[w].pc \notin {"emit", "admit", "note"},
         run'[w].pc \in {"get", "list", "fetch"} => mode = "polling",
         run'[w].cursor \in {0, row.cursor, run[w].cursor},
         run'[w].mark \in {0, run[w].mark}
  PROVE  RunTold(w)'
<1>1. /\ TypeOK /\ Kept /\ RunTold(w) /\ row.cursor \in Nat
      /\ run[w].cursor \in Nat /\ run[w].mark \in Nat
  BY Knows DEF RunRecord
<1>2. PICK c \in Nat : c = run'[w].cursor /\ Behind(c)
  BY <1>1, BehindNone DEF Kept, RunTold
<1>3. PICK m \in Nat : m = run'[w].mark /\ Reached(m)
  BY <1>1 DEF Reached, RunTold
<1>4. Behind(c)' /\ Reached(m)'
  BY <1>1, <1>2, <1>3, Stays
<1>5. Behind(run[w].cursor)' /\ Reached(run[w].mark)'
  BY <1>2, <1>3, <1>4
<1> QED
  BY <1>5 DEF RunTold, Forward

\* The head of a queue, and the rest.
LEMMA Tails ==
  ASSUME NEW q \in Seq(Event), q # <<>>
  PROVE  /\ Head(q) \in Event /\ Tail(q) \in Seq(Event)
         /\ \A i \in 1..Len(q) : q[i] = Head(q) \/ \E j \in 1..Len(Tail(q)) : Tail(q)[j] = q[i]
<1>1. Head(q) \in Event /\ Tail(q) \in Seq(Event) /\ Len(q) \in Nat /\ Len(Tail(q)) = Len(q) - 1
  OBVIOUS
<1>2. ASSUME NEW i \in 1..Len(q), i # 1
      PROVE  \E j \in 1..Len(Tail(q)) : Tail(q)[j] = q[i]
  <2>1. i - 1 \in 1..Len(Tail(q)) /\ Tail(q)[i - 1] = q[i]
    BY <1>1, <1>2
  <2> QED
    BY <2>1
<1>3. q[1] = Head(q)
  OBVIOUS
<1> QED
  BY <1>1, <1>2, <1>3

\* The steps of a poll up to its events, and failures.
LEMMA ListSteps ==
  ASSUME IInv, NEW w \in Worker,
         List(w) \/ Get(w) \/ Messages(w) \/ FetchFails(w)
  PROVE  IInv'
<1> USE Knows
<1>1. UNCHANGED <<mode, sub, row, claims, admitted, noted, label, answered, lost>>
  BY DEF List, Get, Messages, FetchFails, state, sink, world
<1>2. \E k : Happens(k) \/ UNCHANGED left
  BY DEF List, Get, Messages, FetchFails
<1>3. PICK r \in RunRecord :
        /\ run' = [run EXCEPT ![w] = r] /\ r.pc \notin {"emit", "admit", "note"}
        /\ r.pc \in {"get", "list", "fetch"} => mode = "polling"
        /\ r.cursor \in {0, row.cursor, run[w].cursor} /\ r.mark \in {0, run[w].mark}
  <2>1. /\ run[w] \in RunRecord /\ RunTold(w) /\ Happened \subseteq Event /\ row.cursor \in Nat
        /\ run[w].pc \in {"get", "list", "fetch"} => mode = "polling"
    BY DEF RunTold, Happened
  <2>2. Idle \in RunRecord /\ Idle.pc = "idle" /\ Idle.cursor = 0 /\ Idle.mark = 0
    BY DEF Idle, RunRecord
  <2>3. CASE List(w)
    <3>1. [run[w] EXCEPT !.pc = "get"] \in RunRecord
      BY <2>1 DEF RunRecord
    <3> QED
      BY <2>1, <2>3, <3>1 DEF List, Goto, RunRecord
  <2>4. CASE Get(w)
    <3>1. [Idle EXCEPT !.pc = "list", !.cursor = row.cursor] \in RunRecord
      BY <2>1, <2>2 DEF RunRecord
    <3>2. \/ run' = [run EXCEPT ![w] = [Idle EXCEPT !.pc = "list", !.cursor = row.cursor]]
          \/ run' = [run EXCEPT ![w] = Idle]
      BY <2>4 DEF Get, Ends
    <3>3. mode = "polling"
      BY <2>1, <2>4 DEF Get, At
    <3> QED
      BY <2>2, <3>1, <3>2, <3>3 DEF Idle
  <2>5. CASE Messages(w)
    <3>1. [run[w] EXCEPT !.pc = "fetch", !.found = Happened] \in RunRecord
      BY <2>1 DEF RunRecord
    <3>2. run' = [run EXCEPT ![w] = [run[w] EXCEPT !.pc = "fetch", !.found = Happened]]
      BY <2>5 DEF Messages
    <3>3. mode = "polling"
      BY <2>1, <2>5 DEF Messages, At
    <3> QED
      BY <2>1, <3>1, <3>2, <3>3 DEF RunRecord
  <2>6. CASE FetchFails(w)
    <3>1. [run[w] EXCEPT !.pc = "catch"] \in RunRecord
      BY <2>1 DEF RunRecord
    <3> QED
      BY <2>1, <2>6, <3>1 DEF FetchFails, Goto, RunRecord
  <2> QED
    BY <2>3, <2>4, <2>5, <2>6
<1>4. run'[w] = r /\ \A v \in Worker \ {w} : run'[v] = run[v]
  BY <1>3
<1>5. Forward
  <2>1. ~At(w, "admit")
    BY DEF List, Get, Messages, FetchFails, At
  <2> QED
    BY <1>1, <1>4, <2>1 DEF Forward
<1>6. RunTold(w)'
  BY <1>3, <1>4, <1>5, RestsTold
<1>7. TypeOK'
  <2>1. left' \in 0..MaxHappenings
    BY <1>2, Spends
  <2>2. run' \in [Worker -> RunRecord]
    BY <1>3
  <2> QED
    BY <1>1, <2>1, <2>2 DEF TypeOK, RunRecord
<1>8. AdmittedOnce' /\ Kept'
  BY <1>1, <1>5, KeptStays DEF AdmittedOnce
<1>9. \A v \in Worker \ {w} : At(v, "note") => noted'[Head(run[v].queue)] = 0
  BY <1>1
<1> QED
  BY <1>3, <1>5, <1>6, <1>7, <1>8, <1>9, StepSettles

\* The messages are read, or a callback comes in.
LEMMA EventsCome ==
  ASSUME IInv, NEW w \in Worker,
         Fetch(w) \/ \E e \in Event : Callback(w, e)
  PROVE  IInv'
<1> USE Knows
<1>1. UNCHANGED <<mode, sub, row, claims, admitted, noted, label, answered, lost, left>>
  BY DEF Fetch, Callback, state, sink, world
<1>2. ~At(w, "admit")
  BY DEF Fetch, Callback, At
<1>3. ASSUME NEW r \in RunRecord, run' = [run EXCEPT ![w] = r], r.pc = "emit",
             Behind(r.cursor), Reached(r.mark),
             \A e \in r.found : Emits(r, e) => Owes(r, e)
      PROVE  IInv'
  <2>1. run'[w] = r /\ \A v \in Worker \ {w} : run'[v] = run[v]
    BY <1>3
  <2>2. Forward
    BY <1>1, <1>2, <2>1 DEF Forward
  <2>3. RunTold(w)'
    <3>1. PICK c \in Nat, m \in Nat : c = r.cursor /\ m = r.mark
      BY DEF RunRecord
    <3>2. Behind(c)' /\ Reached(m)'
      BY <1>3, <2>2, <3>1, Stays
    <3>3. Behind(run[w].cursor)' /\ Reached(run[w].mark)'
      BY <2>1, <3>1, <3>2
    <3>4. \A e \in r.found : Emits(run[w], e)' => Owes(run[w], e)'
      BY <1>1, <1>3, <2>1 DEF Emits, Owes
    <3> QED
      BY <1>3, <2>1, <3>3, <3>4 DEF RunTold
  <2>4. TypeOK'
    <3>1. run' \in [Worker -> RunRecord]
      BY <1>3
    <3> QED
      BY <1>1, <3>1 DEF TypeOK, RunRecord
  <2>5. AdmittedOnce' /\ Kept'
    BY <1>1, <2>2, KeptStays DEF AdmittedOnce
  <2>6. \A v \in Worker \ {w} : At(v, "note") => noted'[Head(run[v].queue)] = 0
    BY <1>1
  <2> QED
    BY <1>3, <2>2, <2>3, <2>4, <2>5, <2>6, StepSettles
<1>4. CASE Fetch(w)
  <2>1. /\ run[w] \in RunRecord /\ run[w].pc = "fetch" /\ mode = "polling" /\ Behind(run[w].cursor)
        /\ run[w].cursor \in Nat /\ run[w].found \subseteq Event
    BY <1>4 DEF Fetch, At, RunTold, RunRecord
  <2>2. PICK S : S = {e \in run[w].found : label[e] > run[w].cursor}
    OBVIOUS
  <2>3. PICK m : m = Max({label[e] : e \in run[w].found} \cup {run[w].cursor})
    OBVIOUS
  <2>4. PICK q \in Sortings(S) :
          run' = [run EXCEPT ![w].pc = "emit", ![w].queue = q, ![w].mark = m]
    BY <1>4, <2>2, <2>3 DEF Fetch
  <2>5. /\ m \in Nat
        /\ m = run[w].cursor \/ \E e \in Event : m = label[e]
        /\ \A e \in run[w].found : label[e] <= m
    BY <2>1, <2>3, Marks
  <2>6. /\ q \in Seq(Event) /\ Len(q) = Cardinality(S)
        /\ \A e \in S : \E i \in 1..Cardinality(S) : q[i] = e
    <3>1. S \subseteq Event /\ Cardinality(S) \in Nat
      BY <2>1, <2>2, TriggerAssumption, FS_Subset, FS_CardinalityType
    <3>2. q \in [1..Cardinality(S) -> S]
      BY <2>4 DEF Sortings
    <3>3. q \in [1..Cardinality(S) -> Event]
      BY <3>1, <3>2
    <3> QED
      BY <2>4, <3>1, <3>3 DEF Sortings
  <2>7. PICK r : r = [run[w] EXCEPT !.pc = "emit", !.queue = q, !.mark = m]
    OBVIOUS
  <2>8. /\ r \in RunRecord /\ r.pc = "emit" /\ r.queue = q /\ r.mark = m
        /\ r.cursor = run[w].cursor /\ r.found = run[w].found
    <3>1. r \in RunRecord
      <4>1. run[w] \in RunRecord /\ q \in Seq(Event) /\ m \in Nat
        BY <2>1, <2>5, <2>6
      <4> QED
        BY <2>7, <4>1 DEF RunRecord
    <3>2. /\ r.pc = "emit" /\ r.queue = q /\ r.mark = m
          /\ r.cursor = run[w].cursor /\ r.found = run[w].found
      BY <2>1, <2>7 DEF RunRecord
    <3> QED
      BY <3>1, <3>2
  <2>9. run' = [run EXCEPT ![w] = r]
    BY <2>4, <2>7
  <2>10. Reached(r.mark)
    BY <2>1, <2>5, <2>8 DEF Behind, Reached, TypeOK
  <2>11. \A e \in r.found : Emits(r, e) => Owes(r, e)
    BY <2>1, <2>2, <2>6, <2>8 DEF Emits, Owes
  <2> QED
    BY <1>3, <2>1, <2>8, <2>9, <2>10, <2>11
<1>5. ASSUME NEW e \in Event, Callback(w, e)
      PROVE  IInv'
  <2>1. PICK r : r = [Idle EXCEPT !.pc = "emit", !.found = {e}, !.queue = <<e>>]
    OBVIOUS
  <2>2. /\ r \in RunRecord /\ r.pc = "emit" /\ r.queue = <<e>> /\ r.mark = 0
        /\ r.cursor = 0 /\ r.found = {e}
    <3>1. Idle \in RunRecord /\ <<e>> \in Seq(Event)
      BY DEF Idle, RunRecord
    <3>2. r \in RunRecord
      BY <2>1, <3>1 DEF RunRecord
    <3> QED
      BY <2>1, <3>2 DEF Idle
  <2>3. run' = [run EXCEPT ![w] = r]
    BY <1>5, <2>1 DEF Callback
  <2>4. Behind(r.cursor) /\ Reached(r.mark)
    BY <2>2, BehindNone DEF Reached
  <2>5. Owes(r, e)
    BY <2>2 DEF Owes
  <2> QED
    BY <1>3, <2>2, <2>3, <2>4, <2>5
<1> QED
  BY <1>4, <1>5

\* A run deals with the event at the head of its queue.
LEMMA EmitGoes ==
  ASSUME IInv, NEW w \in Worker, NEW r \in RunRecord, run' = [run EXCEPT ![w] = r],
         run[w].pc \in {"emit", "admit", "note"}, run[w].queue # <<>>,
         r.pc \in {"emit", "admit", "note", "catch"},
         r.cursor = run[w].cursor, r.mark = run[w].mark, r.found = run[w].found,
         \/ r.queue = run[w].queue
         \/ r.queue = Tail(run[w].queue) /\ Accounted(Head(run[w].queue)),
         r.pc \in {"admit", "note"} => r.queue = run[w].queue,
         r.pc = "note" => Head(r.queue) \in admitted' /\ noted'[Head(r.queue)] = 0,
         UNCHANGED <<mode, sub, row, label, answered>>, left' \in 0..MaxHappenings,
         admitted \subseteq admitted', lost \subseteq lost',
         admitted' \subseteq Event, lost' \subseteq Event, claims' \subseteq Event,
         noted' \in [Event -> Nat], AdmittedOnce',
         At(w, "admit") => Head(run[w].queue) \in admitted' \cup lost',
         \A e \in claims' : e \in claims \/ Accounted(e)',
         \A v \in Worker \ {w} : At(v, "note") =>
           /\ noted'[Head(run[v].queue)] = 0
           /\ r.pc = "note" => Head(r.queue) # Head(run[v].queue)
  PROVE  IInv'
<1> USE Knows
<1>1. run'[w] = r /\ \A v \in Worker \ {w} : run'[v] = run[v]
  OBVIOUS
<1>2. Forward
  BY <1>1 DEF Forward
<1>3. PICK q \in Seq(Event) : q = run[w].queue /\ q # <<>>
  BY DEF RunRecord
<1>4. \A e \in Event : Owes(run[w], e) => Accounted(e)' \/ Owes(r, e)
  <2>1. CASE r.queue = q
    BY <1>3, <2>1 DEF Owes
  <2>2. CASE r.queue = Tail(q) /\ Accounted(Head(q))
    <3>1. PICK h \in Event : h = Head(q) /\ Accounted(h)
      BY <1>3, <2>2, Tails
    <3>2. Accounted(h)'
      BY <1>2, <3>1, Stays
    <3>3. \A i \in 1..Len(q) : q[i] = h \/ \E j \in 1..Len(Tail(q)) : Tail(q)[j] = q[i]
      BY <1>3, <3>1, Tails
    <3>4. ASSUME NEW e \in Event, NEW i \in 1..Len(q), q[i] = e
          PROVE  Accounted(e)' \/ \E j \in 1..Len(Tail(q)) : Tail(q)[j] = e
      <4>1. CASE e = h
        BY <3>2, <4>1 DEF Accounted
      <4>2. CASE \E j \in 1..Len(Tail(q)) : Tail(q)[j] = e
        BY <4>2
      <4> QED
        BY <3>3, <3>4, <4>1, <4>2
    <3> QED
      BY <1>3, <2>2, <3>4 DEF Owes
  <2> QED
    BY <1>3, <2>1, <2>2
<1>5. RunTold(w)'
  <2>1. run'[w].pc \in {"emit", "admit", "note"} =>
          /\ run[w].pc \in {"emit", "admit", "note"} /\ run'[w].found = run[w].found
          /\ \A e \in Event : Owes(run[w], e) => Accounted(e)' \/ Owes(run'[w], e)
    BY <1>1, <1>4
  <2>2. run'[w].pc \notin {"get", "list", "fetch"}
    BY <1>1
  <2> QED
    BY <1>1, <1>2, <2>1, <2>2, RunGoesOn
<1>6. TypeOK'
  <2>1. run' \in [Worker -> RunRecord]
    OBVIOUS
  <2> QED
    BY <2>1 DEF TypeOK, RunRecord
<1>7. Kept'
  <2>1. PICK n \in Nat : n = row.cursor /\ Behind(n)
    BY DEF Kept
  <2>2. Behind(n)' /\ \A e \in Event : Accounted(e) => Accounted(e)'
    BY <1>2, <2>1, Stays
  <2>3. Behind(row.cursor)'
    BY <2>1, <2>2
  <2>4. claims \subseteq Event /\ answered \subseteq Event
    BY DEF TypeOK
  <2> QED
    BY <2>2, <2>3, <2>4 DEF Kept
<1> QED
  BY <1>2, <1>5, <1>6, <1>7, StepSettles

\* The places of a run.
LEMMA Places ==
  ASSUME NEW r \in RunRecord, NEW place \in {"admit", "note", "catch"}
  PROVE  /\ [r EXCEPT !.pc = place] \in RunRecord
         /\ [r EXCEPT !.pc = place].pc = place /\ [r EXCEPT !.pc = place].cursor = r.cursor
         /\ [r EXCEPT !.pc = place].mark = r.mark /\ [r EXCEPT !.pc = place].found = r.found
         /\ [r EXCEPT !.pc = place].queue = r.queue
         /\ r.queue # <<>> =>
              /\ [r EXCEPT !.pc = "emit", !.queue = Tail(r.queue)] \in RunRecord
              /\ [r EXCEPT !.pc = "emit", !.queue = Tail(r.queue)].pc = "emit"
              /\ [r EXCEPT !.pc = "emit", !.queue = Tail(r.queue)].cursor = r.cursor
              /\ [r EXCEPT !.pc = "emit", !.queue = Tail(r.queue)].mark = r.mark
              /\ [r EXCEPT !.pc = "emit", !.queue = Tail(r.queue)].found = r.found
              /\ [r EXCEPT !.pc = "emit", !.queue = Tail(r.queue)].queue = Tail(r.queue)
<1>1. /\ [r EXCEPT !.pc = place] \in RunRecord
      /\ [r EXCEPT !.pc = place].pc = place /\ [r EXCEPT !.pc = place].cursor = r.cursor
      /\ [r EXCEPT !.pc = place].mark = r.mark /\ [r EXCEPT !.pc = place].found = r.found
      /\ [r EXCEPT !.pc = place].queue = r.queue
  BY DEF RunRecord
<1>2. ASSUME r.queue # <<>>, NEW t, t = Tail(r.queue)
      PROVE  /\ [r EXCEPT !.pc = "emit", !.queue = t] \in RunRecord
             /\ [r EXCEPT !.pc = "emit", !.queue = t].pc = "emit"
             /\ [r EXCEPT !.pc = "emit", !.queue = t].cursor = r.cursor
             /\ [r EXCEPT !.pc = "emit", !.queue = t].mark = r.mark
             /\ [r EXCEPT !.pc = "emit", !.queue = t].found = r.found
             /\ [r EXCEPT !.pc = "emit", !.queue = t].queue = t
  <2>1. t \in Seq(Event)
    BY <1>2, Tails DEF RunRecord
  <2> QED
    BY <2>1 DEF RunRecord
<1> QED
  BY <1>1, <1>2

\* A claim, or a duplicate passed over.
LEMMA ClaimStep ==
  ASSUME IInv, NEW w \in Worker, Claim(w)
  PROVE  IInv'
<1> USE Knows
<1>1. /\ run[w] \in RunRecord /\ run[w].pc = "emit" /\ run[w].queue # <<>> /\ ~At(w, "admit")
      /\ UNCHANGED <<mode, sub, row, admitted, noted, label, answered, lost>>
  BY DEF Claim, At, sink, world
<1>2. PICK h \in Event : h = Head(run[w].queue)
  BY <1>1, Tails DEF RunRecord
<1>3. left' \in 0..MaxHappenings
  <2>1. \E k : Happens(k) \/ UNCHANGED left
    BY DEF Claim
  <2> QED
    BY <2>1, Spends
<1>4. /\ AdmittedOnce' /\ admitted \subseteq Event /\ lost \subseteq Event
      /\ noted' \in [Event -> Nat] /\ claims \subseteq Event
  BY <1>1 DEF AdmittedOnce, TypeOK
<1>5. \A v \in Worker \ {w} : At(v, "note") => noted'[Head(run[v].queue)] = 0
  BY <1>1
<1>6. CASE claims' = claims \cup {h} /\ Goto(w, "admit")
  <2>1. PICK r \in RunRecord : /\ r = [run[w] EXCEPT !.pc = "admit"] /\ r.pc = "admit"
                               /\ r.cursor = run[w].cursor /\ r.mark = run[w].mark
                               /\ r.found = run[w].found /\ r.queue = run[w].queue
    BY <1>1, Places
  <2>2. run' = [run EXCEPT ![w] = r] /\ run'[w] = r
    BY <1>6, <2>1 DEF Goto
  <2>3. Accounted(h)'
    BY <1>2, <2>1, <2>2 DEF Accounted, At
  <2>4. \A e \in claims' : e \in claims \/ Accounted(e)'
    <3> SUFFICES ASSUME NEW e \in claims', e \notin claims PROVE Accounted(e)'
      OBVIOUS
    <3>1. e = h
      BY <1>6
    <3> QED
      BY <2>3, <3>1 DEF Accounted
  <2>5. claims' \subseteq Event
    BY <1>2, <1>4, <1>6
  <2> QED
    BY <1>1, <1>3, <1>4, <1>5, <2>1, <2>2, <2>4, <2>5, EmitGoes
<1>7. CASE h \in claims /\ claims' = claims /\ Passes(w)
  <2>1. PICK r \in RunRecord : /\ r = [run[w] EXCEPT !.pc = "emit", !.queue = Tail(run[w].queue)]
                               /\ r.pc = "emit" /\ r.queue = Tail(run[w].queue)
                               /\ r.cursor = run[w].cursor /\ r.mark = run[w].mark
                               /\ r.found = run[w].found
    BY <1>1, Places
  <2>2. run' = [run EXCEPT ![w] = r]
    BY <1>7, <2>1 DEF Passes
  <2>3. Accounted(Head(run[w].queue))
    BY <1>2, <1>7 DEF Kept
  <2> QED
    BY <1>1, <1>3, <1>4, <1>5, <1>7, <2>1, <2>2, <2>3, EmitGoes
<1>8. CASE claims' = claims /\ Goto(w, "catch")
  <2>1. PICK r \in RunRecord : /\ r = [run[w] EXCEPT !.pc = "catch"] /\ r.pc = "catch"
                               /\ r.cursor = run[w].cursor /\ r.mark = run[w].mark
                               /\ r.found = run[w].found /\ r.queue = run[w].queue
    BY <1>1, Places
  <2>2. run' = [run EXCEPT ![w] = r]
    BY <1>8, <2>1 DEF Goto
  <2> QED
    BY <1>1, <1>3, <1>4, <1>5, <1>8, <2>1, <2>2, EmitGoes
<1> QED
  BY <1>2, <1>6, <1>7, <1>8 DEF Claim

\* An admission, or one that throws.
LEMMA AdmitSteps ==
  ASSUME IInv, NEW w \in Worker, Admit(w) \/ AdmitFails(w)
  PROVE  IInv'
<1> USE Knows
<1>1. /\ run[w] \in RunRecord /\ run[w].pc = "admit" /\ run[w].queue # <<>>
      /\ UNCHANGED <<mode, sub, row, claims, noted, label, answered>>
  BY DEF Admit, AdmitFails, At, RunTold, state, world
<1>2. PICK h \in Event : h = Head(run[w].queue)
  BY <1>1, Tails DEF RunRecord
<1>3. left' \in 0..MaxHappenings
  <2>1. \E k : Happens(k) \/ UNCHANGED left
    BY DEF Admit, AdmitFails
  <2> QED
    BY <2>1, Spends
<1>4. /\ admitted' \in {admitted, admitted \cup {h}} /\ lost' \in {lost, lost \cup {h}}
      /\ h \in admitted' \cup lost'
  BY <1>2 DEF Admit, AdmitFails, Admissible
<1>5. /\ admitted' \subseteq Event /\ lost' \subseteq Event
      /\ noted' \in [Event -> Nat] /\ claims' \subseteq Event
      /\ admitted \subseteq admitted' /\ lost \subseteq lost'
  BY <1>1, <1>4 DEF TypeOK
<1>6. AdmittedOnce'
  BY <1>1, <1>5 DEF AdmittedOnce
<1>7. \A v \in Worker \ {w} : At(v, "note") => noted'[Head(run[v].queue)] = 0
  BY <1>1
<1>8. CASE Admit(w)
  <2>1. h \notin admitted /\ admitted' = admitted \cup {h} /\ Goto(w, "note")
    BY <1>2, <1>8 DEF Admit, Admissible
  <2>2. PICK r \in RunRecord : /\ r = [run[w] EXCEPT !.pc = "note"] /\ r.pc = "note"
                               /\ r.cursor = run[w].cursor /\ r.mark = run[w].mark
                               /\ r.found = run[w].found /\ r.queue = run[w].queue
    BY <1>1, Places
  <2>3. run' = [run EXCEPT ![w] = r]
    BY <2>1, <2>2 DEF Goto
  <2>4. noted'[h] = 0
    <3>1. noted[h] \in Nat /\ noted[h] <= 1 /\ noted[h] # 1
      BY <2>1 DEF AdmittedOnce, TypeOK
    <3> QED
      BY <1>1, <3>1
  <2>5. \A v \in Worker \ {w} : At(v, "note") => Head(run[v].queue) \in admitted
    BY DEF RunTold, At
  <2>6. \A v \in Worker \ {w} : At(v, "note") => h # Head(run[v].queue)
    BY <2>1, <2>5
  <2>7. Head(r.queue) = h /\ h \in admitted'
    BY <1>2, <2>1, <2>2
  <2>8. r.pc = "note" => Head(r.queue) \in admitted' /\ noted'[Head(r.queue)] = 0
    BY <2>4, <2>7
  <2>9. \A v \in Worker \ {w} : At(v, "note") =>
          /\ noted'[Head(run[v].queue)] = 0
          /\ r.pc = "note" => Head(r.queue) # Head(run[v].queue)
    BY <1>7, <2>6, <2>7
  <2>10. At(w, "admit") => Head(run[w].queue) \in admitted' \cup lost'
    BY <1>2, <1>4
  <2>11. \A e \in claims' : e \in claims
    BY <1>1
  <2>12. UNCHANGED <<mode, sub, row, label, answered>>
    BY <1>1
  <2>13. /\ r.pc \in {"emit", "admit", "note", "catch"} /\ run[w].pc \in {"emit", "admit", "note"}
         /\ r.queue = run[w].queue /\ run[w].queue # <<>>
    BY <1>1, <2>2
  <2> HIDE Knows
  <2> QED
    BY <1>3, <1>5, <1>6, <2>2, <2>3, <2>8, <2>9, <2>10, <2>11, <2>12, <2>13, EmitGoes
<1>9. CASE AdmitFails(w)
  <2>1. PICK r \in RunRecord : /\ r = [run[w] EXCEPT !.pc = "catch"] /\ r.pc = "catch"
                               /\ r.cursor = run[w].cursor /\ r.mark = run[w].mark
                               /\ r.found = run[w].found /\ r.queue = run[w].queue
    BY <1>1, Places
  <2>2. run' = [run EXCEPT ![w] = r]
    BY <1>9, <2>1 DEF AdmitFails, Goto
  <2> QED
    BY <1>1, <1>2, <1>3, <1>4, <1>5, <1>6, <1>7, <2>1, <2>2, EmitGoes
<1> QED
  BY <1>8, <1>9

\* An entry in the history, or one that fails.
LEMMA NoteStep ==
  ASSUME IInv, NEW w \in Worker, Note(w)
  PROVE  IInv'
<1> USE Knows
<1>1. /\ run[w] \in RunRecord /\ run[w].pc = "note" /\ At(w, "note") /\ ~At(w, "admit")
      /\ run[w].queue # <<>>
      /\ UNCHANGED <<mode, sub, row, claims, admitted, label, answered, lost>>
  BY DEF Note, At, RunTold, state, world
<1>2. PICK h \in Event : h = Head(run[w].queue)
  BY <1>1, Tails DEF RunRecord
<1>3. left' \in 0..MaxHappenings
  <2>1. \E k : Happens(k) \/ UNCHANGED left
    BY DEF Note
  <2> QED
    BY <2>1, Spends
<1>4. /\ admitted \subseteq Event /\ lost \subseteq Event /\ claims \subseteq Event
      /\ noted \in [Event -> Nat] /\ h \in admitted /\ noted[h] = 0
  BY <1>1, <1>2 DEF TypeOK, RunTold
<1>5. CASE noted' = [noted EXCEPT ![h] = @ + 1] /\ Passes(w)
  <2>1. PICK r \in RunRecord : /\ r = [run[w] EXCEPT !.pc = "emit", !.queue = Tail(run[w].queue)]
                               /\ r.pc = "emit" /\ r.queue = Tail(run[w].queue)
                               /\ r.cursor = run[w].cursor /\ r.mark = run[w].mark
                               /\ r.found = run[w].found
    BY <1>1, Places
  <2>2. run' = [run EXCEPT ![w] = r]
    BY <1>5, <2>1 DEF Passes
  <2>3. Accounted(Head(run[w].queue))
    BY <1>2, <1>4 DEF Accounted
  <2>4. noted' \in [Event -> Nat] /\ noted'[h] = 1 /\ \A e \in Event \ {h} : noted'[e] = noted[e]
    BY <1>4, <1>5
  <2>5. AdmittedOnce'
    BY <1>1, <1>4, <2>4 DEF AdmittedOnce
  <2>6. \A v \in Worker \ {w} : At(v, "note") => noted'[Head(run[v].queue)] = 0
    <3> SUFFICES ASSUME NEW v \in Worker \ {w}, At(v, "note")
                 PROVE  noted'[Head(run[v].queue)] = 0
      OBVIOUS
    <3>1. Head(run[v].queue) # h /\ noted[Head(run[v].queue)] = 0
      BY <1>1, <1>2 DEF OneNotes
    <3>2. Head(run[v].queue) \in Event
      BY Tails DEF RunRecord, RunTold, At
    <3> QED
      BY <2>4, <3>1, <3>2
  <2> QED
    BY <1>1, <1>3, <1>4, <2>1, <2>2, <2>3, <2>4, <2>5, <2>6, EmitGoes
<1>6. CASE Goto(w, "catch") /\ UNCHANGED noted
  <2>1. PICK r \in RunRecord : /\ r = [run[w] EXCEPT !.pc = "catch"] /\ r.pc = "catch"
                               /\ r.cursor = run[w].cursor /\ r.mark = run[w].mark
                               /\ r.found = run[w].found /\ r.queue = run[w].queue
    BY <1>1, Places
  <2>2. run' = [run EXCEPT ![w] = r]
    BY <1>6, <2>1 DEF Goto
  <2>3. AdmittedOnce'
    BY <1>1, <1>6 DEF AdmittedOnce
  <2>4. \A v \in Worker \ {w} : At(v, "note") => noted'[Head(run[v].queue)] = 0
    BY <1>6
  <2> QED
    BY <1>1, <1>3, <1>4, <1>6, <2>1, <2>2, <2>3, <2>4, EmitGoes
<1> QED
  BY <1>2, <1>5, <1>6 DEF Note

-----------------------------------------------------------------------------
(* The end of a run.                                                       *)

\* A run that ends, or goes to its catch, and writes neither the work store
\* nor the history.
LEMMA RunEnds ==
  ASSUME IInv, Forward, Kept', NEW w \in Worker, NEW r \in RunRecord,
         run' = [run EXCEPT ![w] = r], r.pc \in {"idle", "catch"},
         r.cursor \in {0, run[w].cursor}, r.mark \in {0, run[w].mark},
         UNCHANGED <<mode, sub, admitted, noted, label>>, left' \in 0..MaxHappenings,
         row' \in [put : BOOLEAN, cursor : Nat, due : BOOLEAN],
         claims' \subseteq Event, answered' \subseteq Event, lost' \subseteq Event
  PROVE  IInv'
<1> USE Knows
<1>1. run'[w] = r
  OBVIOUS
<1>2. RunTold(w)'
  <2>1. /\ run'[w].pc \notin {"emit", "admit", "note"}
        /\ run'[w].pc \notin {"get", "list", "fetch"}
        /\ run'[w].cursor \in {0, row.cursor, run[w].cursor}
        /\ run'[w].mark \in {0, run[w].mark}
    BY <1>1
  <2> QED
    BY <2>1, RestsTold
<1>3. TypeOK'
  <2>1. run' \in [Worker -> RunRecord]
    OBVIOUS
  <2> QED
    BY <2>1 DEF TypeOK, RunRecord
<1>4. AdmittedOnce'
  BY DEF AdmittedOnce
<1>5. \A v \in Worker \ {w} : At(v, "note") =>
        /\ noted'[Head(run[v].queue)] = 0
        /\ r.pc = "note" => Head(r.queue) # Head(run[v].queue)
  OBVIOUS
<1> QED
  BY <1>2, <1>3, <1>4, <1>5, StepSettles

\* A run that has nothing left ends.
LEMMA Idles ==
  /\ Idle \in RunRecord /\ Idle.pc = "idle" /\ Idle.cursor = 0 /\ Idle.mark = 0
  /\ NoRow \in [put : BOOLEAN, cursor : Nat, due : BOOLEAN] /\ NoRow.cursor = 0
  /\ \A n \in Nat :
       Stored(n) \in [put : BOOLEAN, cursor : Nat, due : BOOLEAN] /\ Stored(n).cursor = n
BY DEF Idle, RunRecord, NoRow, Stored

\* All that lies behind the mark of a poll that is through is accounted for: what
\* it found was emitted, and what it did not find was overtaken.
LEMMA PutStep ==
  ASSUME IInv, NEW w \in Worker, Put(w)
  PROVE  IInv'
<1> USE Knows, Idles
<1>1. /\ run[w] \in RunRecord /\ RunTold(w) /\ mode = "polling" /\ run[w].pc = "emit"
      /\ run[w].queue = <<>> /\ ~At(w, "admit")
      /\ UNCHANGED <<mode, sub, claims, admitted, noted, label, answered>>
  BY DEF Put, At, sink, world
<1>2. PICK c \in Nat, m \in Nat : c = run[w].cursor /\ m = run[w].mark
  BY <1>1 DEF RunRecord
<1>3. /\ claims \subseteq Event /\ answered \subseteq Event /\ lost \subseteq Event
      /\ row \in [put : BOOLEAN, cursor : Nat, due : BOOLEAN]
  BY DEF TypeOK
<1>4. left' \in 0..MaxHappenings
  <2>1. \E k : Happens(k) \/ UNCHANGED left
    BY DEF Put
  <2> QED
    BY <2>1, Spends
<1>5. CASE /\ row' = Stored(run[w].mark) /\ Ends(w)
           /\ lost' = lost \cup {e \in Happened \ run[w].found : label[e] <= run[w].mark}
  <2>1. run' = [run EXCEPT ![w] = Idle] /\ lost \subseteq lost' /\ lost' \subseteq Event
    BY <1>3, <1>5 DEF Ends, Happened
  <2>2. Forward
    BY <1>1, <2>1 DEF Forward
  <2>3. /\ Behind(c)' /\ Reached(m)'
        /\ \A e \in Event : Accounted(e) => Accounted(e)'
    BY <1>1, <1>2, <2>2, Stays DEF RunTold
  <2>4. ASSUME NEW e \in Event, label[e] > 0, label[e] <= m
        PROVE  Accounted(e)'
    <3>1. label[e] \in Nat
      BY DEF TypeOK
    <3>2. CASE e \notin run[w].found
      <4>1. e \in lost'
        BY <1>2, <1>5, <2>4, <3>2 DEF Happened
      <4> QED
        BY <4>1 DEF Accounted
    <3>3. CASE e \in run[w].found /\ c < label[e]
      <4>1. Emits(run[w], e) /\ ~Owes(run[w], e)
        BY <1>1, <1>2, <2>4, <3>3 DEF Emits, Owes
      <4>2. Accounted(e)
        BY <1>1, <3>3, <4>1 DEF RunTold
      <4> QED
        BY <2>3, <4>2
    <3>4. CASE label[e] <= c
      <4>1. Accounted(e)
        BY <1>1, <1>2, <2>4, <3>4 DEF RunTold, Behind, Happened
      <4> QED
        BY <2>3, <4>1
    <3> QED
      BY <1>2, <3>1, <3>2, <3>3, <3>4
  <2>5. Behind(m)'
    <3>1. \A e \in Happened' : label'[e] <= m => Accounted(e)'
      BY <1>1, <2>4 DEF Happened
    <3> QED
      BY <2>3, <3>1 DEF Behind
  <2>6. row'.cursor = m /\ row' \in [put : BOOLEAN, cursor : Nat, due : BOOLEAN]
    BY <1>2, <1>5
  <2>7. Kept'
    <3>1. Behind(row.cursor)'
      BY <2>5, <2>6
    <3> QED
      BY <1>1, <1>3, <2>3, <3>1 DEF Kept
  <2> QED
    BY <1>1, <1>3, <1>4, <2>1, <2>2, <2>6, <2>7, RunEnds
<1>6. CASE Goto(w, "catch") /\ UNCHANGED <<row, lost>>
  <2>1. PICK r \in RunRecord : /\ r = [run[w] EXCEPT !.pc = "catch"] /\ r.pc = "catch"
                               /\ r.cursor = run[w].cursor /\ r.mark = run[w].mark
    <3> HIDE Knows, Idles
    <3> QED
      BY <1>1, Places
  <2>2. run' = [run EXCEPT ![w] = r]
    BY <1>6, <2>1 DEF Goto
  <2>3. Forward
    BY <1>1, <1>6, <2>2 DEF Forward
  <2>4. Kept'
    BY <1>1, <1>6, <2>3, KeptStays
  <2> QED
    BY <1>1, <1>3, <1>4, <1>6, <2>1, <2>2, <2>3, <2>4, RunEnds
<1> QED
  BY <1>5, <1>6 DEF Put

\* A failed poll goes back to where it began.
LEMMA RescheduleStep ==
  ASSUME IInv, NEW w \in Worker, Reschedule(w)
  PROVE  IInv'
<1> USE Knows, Idles
<1>1. /\ run[w] \in RunRecord /\ RunTold(w) /\ ~At(w, "admit")
      /\ run' = [run EXCEPT ![w] = Idle]
      /\ UNCHANGED <<mode, sub, claims, admitted, noted, label, answered, lost>>
  BY DEF Reschedule, At, Ends, sink, world
<1>2. PICK c \in Nat : c = run[w].cursor
  BY <1>1 DEF RunRecord
<1>3. /\ claims \subseteq Event /\ answered \subseteq Event /\ lost \subseteq Event
      /\ row \in [put : BOOLEAN, cursor : Nat, due : BOOLEAN]
  BY DEF TypeOK
<1>4. left' \in 0..MaxHappenings
  <2>1. \E k : Happens(k) \/ UNCHANGED left
    BY DEF Reschedule
  <2> QED
    BY <2>1, Spends
<1>5. Forward
  BY <1>1 DEF Forward
<1>6. Kept' /\ row' \in [put : BOOLEAN, cursor : Nat, due : BOOLEAN]
  <2>1. CASE row' = row
    BY <1>1, <1>3, <1>5, <2>1, KeptStays
  <2>2. CASE row' = Stored(c)
    <3>1. Behind(c)' /\ \A e \in Event : Accounted(e) => Accounted(e)'
      BY <1>1, <1>2, <1>5, Stays DEF RunTold
    <3>2. Behind(row.cursor)'
      BY <2>2, <3>1
    <3> QED
      BY <1>1, <1>3, <2>2, <3>1, <3>2 DEF Kept
  <2> QED
    BY <1>2, <2>1, <2>2 DEF Reschedule, Retained
<1> QED
  BY <1>1, <1>3, <1>4, <1>5, <1>6, RunEnds

\* A callback is answered once its event is accounted for.
LEMMA RespondStep ==
  ASSUME IInv, NEW w \in Worker, Respond(w)
  PROVE  IInv'
<1> USE Knows, Idles
<1>1. /\ run[w] \in RunRecord /\ RunTold(w) /\ ~At(w, "admit") /\ mode = "push"
      /\ run' = [run EXCEPT ![w] = Idle]
      /\ UNCHANGED <<mode, sub, row, claims, admitted, noted, label, lost, left>>
  BY DEF Respond, At, Ends, state, sink
<1>2. /\ claims \subseteq Event /\ answered \subseteq Event /\ lost \subseteq Event
      /\ row \in [put : BOOLEAN, cursor : Nat, due : BOOLEAN]
      /\ run[w].found \subseteq Event /\ left \in 0..MaxHappenings
  BY <1>1 DEF TypeOK, RunRecord
<1>3. Forward
  BY <1>1 DEF Forward
<1>4. answered' \subseteq Event /\ \A e \in answered' : Accounted(e)
  <2>1. CASE answered' = answered
    BY <1>2, <2>1 DEF Kept
  <2>2. CASE run[w].pc = "emit" /\ run[w].queue = <<>> /\ answered' = answered \cup run[w].found
    <3>1. \A e \in run[w].found : Accounted(e)
      BY <1>1, <2>2 DEF RunTold, Emits, Owes
    <3>2. \A e \in answered : Accounted(e)
      BY DEF Kept
    <3> QED
      BY <1>2, <2>2, <3>1, <3>2
  <2> QED
    BY <2>1, <2>2 DEF Respond, At
<1>5. Kept'
  <2>1. PICK n \in Nat : n = row.cursor /\ Behind(n)
    BY DEF Kept
  <2>2. Behind(n)' /\ \A e \in Event : Accounted(e) => Accounted(e)'
    BY <1>3, <2>1, Stays
  <2>3. Behind(row.cursor)'
    BY <1>1, <2>1, <2>2
  <2>4. \A e \in claims \cup answered' : Accounted(e)'
    BY <1>2, <1>4, <2>2 DEF Kept
  <2> QED
    BY <1>1, <2>3, <2>4 DEF Kept
<1> QED
  BY <1>1, <1>2, <1>3, <1>4, <1>5, RunEnds

\* A process that ends between its claim and the admission leaves its event.
LEMMA CrashStep ==
  ASSUME IInv, NEW w \in Worker, Crash(w)
  PROVE  IInv'
<1> USE Knows, Idles
<1>1. /\ run[w] \in RunRecord /\ RunTold(w)
      /\ run' = [run EXCEPT ![w] = Idle] /\ Happens("crash")
      /\ UNCHANGED <<mode, sub, row, claims, admitted, noted, label, answered>>
  BY DEF Crash, Ends, state, sink, world
<1>2. /\ claims \subseteq Event /\ answered \subseteq Event /\ lost \subseteq Event
      /\ row \in [put : BOOLEAN, cursor : Nat, due : BOOLEAN]
  BY DEF TypeOK
<1>3. left' \in 0..MaxHappenings
  BY <1>1, Spends
<1>4. /\ lost \subseteq lost' /\ lost' \subseteq Event
      /\ At(w, "admit") => Head(run[w].queue) \in lost'
  <2>1. CASE At(w, "admit")
    <3>1. Head(run[w].queue) \in Event
      BY <1>1, <2>1, Tails DEF RunTold, RunRecord, At
    <3> QED
      BY <1>2, <2>1, <3>1 DEF Crash
  <2>2. CASE ~At(w, "admit")
    BY <1>2, <2>2 DEF Crash
  <2> QED
    BY <2>1, <2>2
<1>5. Forward
  BY <1>1, <1>4 DEF Forward
<1>6. Kept'
  BY <1>1, <1>5, KeptStays
<1> QED
  BY <1>1, <1>2, <1>3, <1>4, <1>5, <1>6, RunEnds

-----------------------------------------------------------------------------
(* The invariant holds throughout.                                         *)

\* It holds at the beginning.
LEMMA InitInvariant == Init => IInv
<1> SUFFICES ASSUME Init PROVE IInv
  OBVIOUS
<1> USE Idles
<1>1. TypeOK
  <2>1. run \in [Worker -> RunRecord] /\ row \in [put : BOOLEAN, cursor : Nat, due : BOOLEAN]
    BY DEF Init
  <2> QED
    BY <2>1, TriggerAssumption DEF Init, TypeOK, Live, RunRecord
<1>2. Behind(0)
  BY <1>1, BehindNone
<1>3. \A w \in Worker : run[w] = Idle
  BY DEF Init
<1>4. AdmittedOnce /\ OneNotes
  BY <1>3 DEF Init, AdmittedOnce, OneNotes, At
<1>5. Kept
  BY <1>2 DEF Init, Kept
<1>6. Runs
  BY <1>2, <1>3 DEF Runs, RunTold, Reached
<1> QED
  BY <1>1, <1>4, <1>5, <1>6 DEF IInv

\* Every step keeps it.
LEMMA NextInvariant == IInv /\ [Next]_vars => IInv'
<1> SUFFICES ASSUME IInv, [Next]_vars PROVE IInv'
  OBVIOUS
<1>1. CASE \/ Due
           \/ \E e \in Event : Arrives(e) \/ Again(e) \/ Expires(e)
  BY <1>1, WorldSteps
<1>2. CASE Create \/ CreateState \/ CreateUndone \/ Delete \/ DeleteState
  BY <1>2, SubscriptionSteps
<1>3. ASSUME NEW w \in Worker, PollStep(w)
      PROVE  IInv'
  BY <1>3, ListSteps, EventsCome, PutStep, RescheduleStep DEF PollStep
<1>4. ASSUME NEW w \in Worker, EmitStep(w)
      PROVE  IInv'
  BY <1>4, ClaimStep, AdmitSteps, NoteStep DEF EmitStep
<1>5. ASSUME NEW w \in Worker, Respond(w) \/ Crash(w) \/ \E e \in Event : Callback(w, e)
      PROVE  IInv'
  BY <1>5, RespondStep, CrashStep, EventsCome
<1>6. CASE UNCHANGED vars
  <2>1. /\ UNCHANGED <<mode, sub, row, claims, admitted, noted, label, answered>>
        /\ UNCHANGED <<run, lost, left>>
    BY <1>6 DEF vars, state, sink, world
  <2>2. TypeOK'
    BY <2>1, Knows DEF TypeOK
  <2>3. Forward
    BY <2>1 DEF Forward
  <2>4. AdmittedOnce' /\ Kept'
    BY <2>1, <2>3, Knows, KeptStays DEF AdmittedOnce
  <2> QED
    BY <2>1, <2>2, <2>3, <2>4, StepSettles
<1> QED
  BY <1>1, <1>2, <1>3, <1>4, <1>5, <1>6 DEF Next

\* The invariant holds in every state.
THEOREM Invariance == Spec => []IInv
BY InitInvariant, NextInvariant, PTL DEF Spec

\* Types, and at most one history entry of an event, of one the pipeline has,
\* whichever polls or callbacks carried it (#emit, Claim to Note).
THEOREM EntriesAreTrue == Spec => []Inv
<1>1. IInv => Inv
  BY DEF IInv, Inv
<1> QED
  BY <1>1, Invariance, PTL

\* An event behind the cursor, or one whose callback was answered, is in the
\* pipeline, or on its way there, or was given up in a named way.
THEOREM NoEventIsPassedOver == Spec => []PastIsAccounted
<1>1. IInv => PastIsAccounted
  <2> SUFFICES ASSUME IInv, NEW e \in Event, Past(e)
               PROVE  Accounted(e)
    BY DEF PastIsAccounted, Accounted
  <2>1. Kept /\ row.cursor \in Nat /\ label[e] \in Nat
    BY Knows DEF TypeOK
  <2>2. CASE mode = "polling"
    BY <2>1, <2>2 DEF Past, Kept, Behind
  <2>3. CASE mode # "polling"
    BY <2>1, <2>3 DEF Past, Kept
  <2> QED
    BY <2>2, <2>3
<1> QED
  BY <1>1, Invariance, PTL
=============================================================================
