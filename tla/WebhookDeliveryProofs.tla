----------------------- MODULE WebhookDeliveryProofs -----------------------
(* Proofs about WebhookDelivery, for any events, endpoints, replicas and   *)
(* runs, any schedule and any faults: records and jobs agree, the log      *)
(* stands, a delivery is closed for a reason, and an endpoint's deliveries *)
(* are attempted in their order.                                           *)
EXTENDS WebhookDelivery, FiniteSetTheorems, TLAPS

-----------------------------------------------------------------------------
(* The inductive invariant.                                                *)

\* An event that was admitted, a delivery that was written.
Known(j) == IF j \in Event THEN order[j] # 0 ELSE status[j] # "none"

\* Nothing of an event is left to deliver.
Over(e) == rank[e] # 0 /\ \A p \in targets[e] : status[<<e, p>>] \in Closed

\* Why a delivery may fail before its schedule is used up.
Excuse(d) ==
  \/ "edit" \in happened
  \/ d[1] \in Volatile /\ (happened # {} \/ Cardinality(Replica) > 1)

\* The deliveries on record are those of the endpoints selected.
Deliveries ==
  /\ \A e \in Event : rank[e] # 0 => order[e] # 0
  /\ \A d \in Delivery : status[d] # "none" <=> rank[d[1]] # 0 /\ d[2] \in targets[d[1]]

\* Jobs are of what is known, and ended well only behind their subject.
Jobs ==
  /\ \A j \in Job : queue[j] # "absent" => Known(j)
  /\ \A r \in Replica : \A j \in todo[r] : Known(j)
  /\ SelectionComplete /\ DeliveredJobsClosed

\* Deliveries end for a reason, and their schedule is not exceeded.
Reasons ==
  \A d \in Delivery :
    /\ status[d] = "succeeded" => d \in acked
    /\ status[d] = "failed" => Len(attempts[d]) = MaxAttempts \/ Excuse(d)
    /\ Len(attempts[d]) <= MaxAttempts
    /\ status[d] \notin Closed => Len(attempts[d]) < MaxAttempts

\* What is missing without a fault, somebody switched off or nobody needs.
Present ==
  /\ \A p \in Endpoint : ~serving[p] => "edit" \in happened
  /\ happened = {} /\ ~(Cardinality(Replica) > 1) =>
       \A e \in Volatile : order[e] # 0 => Over(e) \/ \A r \in Replica : e \in memory[r]

\* What a run's place says.
RunTold(t) ==
  LET j == run[t].job
  IN  /\ run[t].pc # "idle" => j \in Job /\ run[t].at \in Replica /\ Known(j)
      /\ run[t].pc \in Selecting => j \in Event
      /\ run[t].pc \in Delivering => j \in Delivery
      /\ run[t].pc = "submit" =>
           /\ rank[j] # 0 /\ run[t].picked \subseteq targets[j]
           /\ \A p \in targets[j] \ run[t].picked : queue[<<j, p>>] # "absent"
      /\ run[t].pc = "done" /\ j \in Event =>
           rank[j] # 0 /\ \A p \in targets[j] : queue[<<j, p>>] # "absent"
      /\ run[t].pc = "forget" \/ (run[t].pc = "done" /\ j \in Delivery) => status[j] \in Closed
      /\ run[t].pc = "close" => status[j] \in Closed \/ Excuse(j)
      /\ run[t].pc \in {"begin", "post", "record"} =>
           status[j] \in Closed \/ Len(run[t].seen) < MaxAttempts
      /\ run[t].pc = "record" /\ run[t].ok => j \in acked

Runs == \A t \in Slot : RunTold(t)

Consistent == Deliveries /\ Jobs /\ Reasons /\ Present /\ Runs

\* The type of everything but admissions.
Typed ==
  /\ order \in [Event -> Nat] /\ rank \in [Event -> Nat]
  /\ targets \in [Event -> SUBSET Endpoint]
  /\ status \in [Delivery -> {"none", "pending", "delivering"} \cup Closed]
  /\ attempts \in [Delivery -> Seq(Slot)]
  /\ waits \in [Delivery -> BOOLEAN]
  /\ queue \in [Job -> {"absent"} \cup Unfinished \cup Closed]
  /\ holder \in [Job -> Slot \cup {NoSlot}]
  /\ serving \in [Endpoint -> BOOLEAN]
  /\ up \in [Replica -> {"down", "events", "deliveries", "up"}]
  /\ todo \in [Replica -> SUBSET Job]
  /\ memory \in [Replica -> SUBSET Volatile]
  /\ run \in [Slot -> RunState]
  /\ acked \in SUBSET Delivery
  /\ happened \subseteq Happenings /\ left \in 0 .. MaxHappenings

IInv == Typed /\ Consistent

\* The number an event has, or has drawn.
Number(e) == IF order[e] # 0 THEN order[e] ELSE entry[e].number

\* Admissions between INSERT and COMMIT, and the numbers they drew: each event
\* has its own.
Doors ==
  /\ serial \in Nat
  /\ entry \in [Event -> [at : Replica \cup {NoSlot}, number : Nat]]
  /\ passed \subseteq Event \X Event
  /\ \A e \in Event : entry[e] # NoEntry =>
       entry[e].at \in Replica /\ order[e] = 0 /\ entry[e].number # 0
  /\ \A e \in Event : Number(e) <= serial
  /\ \A e, x \in Event : e # x /\ Number(e) # 0 => Number(e) # Number(x)

-----------------------------------------------------------------------------
(* What every step leaves behind.                                          *)

\* The log of a delivery stands, in one step.
Stands(d) ==
  /\ Len(attempts[d]) <= Len(attempts'[d])
  /\ SubSeq(attempts'[d], 1, Len(attempts[d])) = attempts[d]
  /\ status[d] \in Closed => UNCHANGED <<status[d], attempts[d]>>

\* What is known stays known, what is written stays written.
Forward ==
  /\ \A e \in Event : order[e] # 0 => order'[e] # 0
  /\ \A e \in Event : rank[e] # 0 => rank'[e] # 0 /\ targets'[e] = targets[e]
  /\ \A d \in Delivery : (status[d] # "none" => status'[d] # "none") /\ Stands(d)
  /\ \A j \in Job : queue[j] # "absent" => queue'[j] # "absent"
  /\ acked \subseteq acked' /\ happened \subseteq happened'

\* Deliveries are pairs, and no event is one (WebhookAssumption).
LEMMA Pairs ==
  /\ \A d \in Delivery : d[1] \in Event /\ d[2] \in Endpoint /\ d = <<d[1], d[2]>> /\ d \in Job /\ d \notin Event
  /\ \A e \in Event : e \in Job /\ e \notin Delivery
  /\ \A e \in Event, p \in Endpoint : <<e, p>> \in Delivery /\ <<e, p>> \in Job
  BY WebhookAssumption DEF Delivery, Job

\* A log that is left alone stands.
LEMMA SameStands ==
  ASSUME Typed, NEW d \in Delivery, attempts'[d] = attempts[d], status'[d] = status[d]
  PROVE  Stands(d)
<1>1. attempts[d] \in Seq(Slot)
  BY DEF Typed
<1>2. SubSeq(attempts[d], 1, Len(attempts[d])) = attempts[d]
  BY <1>1
<1> QED
  BY <1>1, <1>2 DEF Stands

\* A step that leaves events, rows and queue alone.
LEMMA StillForward ==
  ASSUME Typed, UNCHANGED <<order, rank, targets, status, attempts>>,
         \A j \in Job : queue[j] # "absent" => queue'[j] # "absent",
         acked \subseteq acked', happened \subseteq happened'
  PROVE  Forward
  BY SameStands DEF Forward

\* What is known stays known.
LEMMA KnownStays ==
  ASSUME Forward, NEW j \in Job, Known(j)
  PROVE  Known(j)'
<1>1. j \notin Event => j \in Delivery
  BY DEF Job
<1> QED
  BY <1>1 DEF Forward, Known

\* What is over stays over.
LEMMA OverStays ==
  ASSUME Typed, Forward, NEW e \in Event, Over(e)
  PROVE  Over(e)'
<1>1. rank'[e] # 0 /\ targets'[e] = targets[e] /\ targets[e] \subseteq Endpoint
  BY DEF Forward, Over, Typed
<1>2. \A p \in targets[e] : status'[<<e, p>>] \in Closed
  BY <1>1, Pairs DEF Forward, Over, Stands
<1> QED
  BY <1>1, <1>2 DEF Over

\* A reason stays one.
LEMMA ExcuseStays ==
  ASSUME Forward, NEW d, Excuse(d)
  PROVE  Excuse(d)'
  BY DEF Forward, Excuse

\* What a run's place says stays true while it rests.
LEMMA RunStays ==
  ASSUME IInv, Forward, NEW t \in Slot, run'[t] = run[t]
  PROVE  RunTold(t)'
<1>0. PICK j : j = run[t].job
  OBVIOUS
<1>1. RunTold(t)
  BY DEF IInv, Consistent, Runs
<1>2. run[t].pc # "idle" => j \in Job /\ Known(j)'
  BY <1>0, <1>1, KnownStays DEF RunTold
<1>3. run[t].pc = "submit" =>
        /\ rank'[j] # 0 /\ run[t].picked \subseteq targets'[j]
        /\ \A p \in targets'[j] \ run[t].picked : queue'[<<j, p>>] # "absent"
  <2> SUFFICES ASSUME run[t].pc = "submit"
               PROVE  /\ rank'[j] # 0 /\ run[t].picked \subseteq targets'[j]
                      /\ \A p \in targets'[j] \ run[t].picked : queue'[<<j, p>>] # "absent"
    OBVIOUS
  <2>1. j \in Event
    BY <1>0, <1>1 DEF RunTold, Selecting
  <2>2. rank'[j] # 0 /\ targets'[j] = targets[j] /\ targets[j] \subseteq Endpoint
    BY <1>0, <1>1, <2>1 DEF RunTold, Forward, IInv, Typed
  <2>3. \A p \in targets[j] \ run[t].picked : queue'[<<j, p>>] # "absent"
    BY <1>0, <1>1, <2>1, <2>2, Pairs DEF RunTold, Forward
  <2> QED
    BY <1>0, <1>1, <2>2, <2>3 DEF RunTold
<1>4. run[t].pc = "done" /\ j \in Event =>
        rank'[j] # 0 /\ \A p \in targets'[j] : queue'[<<j, p>>] # "absent"
  <2> SUFFICES ASSUME run[t].pc = "done", j \in Event
               PROVE  rank'[j] # 0 /\ \A p \in targets'[j] : queue'[<<j, p>>] # "absent"
    OBVIOUS
  <2>1. rank'[j] # 0 /\ targets'[j] = targets[j] /\ targets[j] \subseteq Endpoint
    BY <1>0, <1>1 DEF RunTold, Forward, IInv, Typed
  <2>2. \A p \in targets[j] : queue'[<<j, p>>] # "absent"
    BY <1>0, <1>1, <2>1, Pairs DEF RunTold, Forward
  <2> QED
    BY <2>1, <2>2
<1>5. \A d \in Delivery : status[d] \in Closed => status'[d] \in Closed
  BY DEF Forward, Stands
<1>6. run[t].pc \in Delivering => j \in Delivery
  BY <1>0, <1>1 DEF RunTold
<1>7. run[t].pc = "forget" \/ (run[t].pc = "done" /\ j \in Delivery) => status'[j] \in Closed
  BY <1>0, <1>1, <1>5, <1>6 DEF RunTold, Delivering
<1>8. run[t].pc = "close" => status'[j] \in Closed \/ Excuse(j)'
  BY <1>0, <1>1, <1>5, <1>6, ExcuseStays DEF RunTold, Delivering
<1>9. run[t].pc \in {"begin", "post", "record"} =>
        status'[j] \in Closed \/ Len(run[t].seen) < MaxAttempts
  BY <1>0, <1>1, <1>5, <1>6 DEF RunTold, Delivering
<1>10. run[t].pc = "record" /\ run[t].ok => j \in acked'
  BY <1>0, <1>1 DEF RunTold, Forward
<1>12. /\ run[t].pc # "idle" => run[t].at \in Replica
       /\ run[t].pc \in Selecting => j \in Event
       /\ run[t].pc \in Delivering => j \in Delivery
  BY <1>0, <1>1 DEF RunTold
<1> QED
  BY <1>0, <1>2, <1>3, <1>4, <1>7, <1>8, <1>9, <1>10, <1>12 DEF RunTold

\* The stores' parts of the invariant, each with what may disturb it.
LEMMA DeliveriesStay ==
  ASSUME IInv, Forward, UNCHANGED <<rank, targets, status>>
  PROVE  Deliveries'
  BY Pairs DEF IInv, Consistent, Deliveries, Forward

\* Nothing new ends well, and nothing unknown gets a job.
LEMMA JobsStay ==
  ASSUME IInv, Forward,
         \A j \in Job : queue'[j] # "absent" => queue[j] # "absent" \/ Known(j)',
         \A j \in Job : queue'[j] = "succeeded" => queue[j] = "succeeded",
         \A r \in Replica : todo'[r] \subseteq Job /\ \A j \in todo'[r] : j \in todo[r] \/ Known(j)'
  PROVE  Jobs'
<1>1. \A j \in Job : queue'[j] # "absent" => Known(j)'
  BY KnownStays DEF IInv, Consistent, Jobs
<1>2. \A r \in Replica : \A j \in todo'[r] : Known(j)'
  BY KnownStays DEF IInv, Consistent, Jobs
<1>3. SelectionComplete'
  <2> SUFFICES ASSUME NEW e \in Event, queue'[e] = "succeeded"
               PROVE  rank'[e] # 0 /\ \A p \in targets'[e] : queue'[<<e, p>>] # "absent"
    BY DEF SelectionComplete
  <2>1. rank[e] # 0 /\ \A p \in targets[e] : queue[<<e, p>>] # "absent"
    BY Pairs DEF IInv, Consistent, Jobs, SelectionComplete
  <2>2. rank'[e] # 0 /\ targets'[e] = targets[e] /\ targets[e] \subseteq Endpoint
    BY <2>1 DEF Forward, IInv, Typed
  <2> QED
    BY <2>1, <2>2, Pairs DEF Forward
<1>4. DeliveredJobsClosed'
  BY Pairs DEF IInv, Consistent, Jobs, DeliveredJobsClosed, Forward, Stands
<1> QED
  BY <1>1, <1>2, <1>3, <1>4 DEF Jobs

\* Rows left alone.
LEMMA ReasonsStay ==
  ASSUME IInv, Forward, UNCHANGED <<status, attempts>>
  PROVE  Reasons'
  BY ExcuseStays DEF IInv, Consistent, Reasons, Forward

\* Only bodies nobody needs are forgotten.
LEMMA PresentStays ==
  ASSUME IInv, Forward, UNCHANGED <<order, serving>>,
         happened' = {} => \A r \in Replica : \A e \in memory[r] : e \in memory'[r] \/ Over(e)'
  PROVE  Present'
<1>1. \A p \in Endpoint : ~serving'[p] => "edit" \in happened'
  BY DEF IInv, Consistent, Present, Forward
<1>2. ASSUME happened' = {}, ~(Cardinality(Replica) > 1), NEW e \in Volatile, order'[e] # 0
      PROVE  Over(e)' \/ \A r \in Replica : e \in memory'[r]
  <2>1. happened = {} /\ e \in Event
    BY <1>2, WebhookAssumption DEF Forward
  <2>2. Over(e) \/ \A r \in Replica : e \in memory[r]
    BY <1>2, <2>1 DEF IInv, Consistent, Present
  <2>3. Typed
    BY DEF IInv
  <2> QED
    BY <1>2, <2>1, <2>2, <2>3, OverStays
<1> QED
  BY <1>1, <1>2 DEF Present
-----------------------------------------------------------------------------
(* Writes.                                                                 *)

\* The parts of the type invariant about the stores.
StoresTyped ==
  /\ order \in [Event -> Nat] /\ rank \in [Event -> Nat]
  /\ targets \in [Event -> SUBSET Endpoint]
  /\ status \in [Delivery -> {"none", "pending", "delivering"} \cup Closed]
  /\ attempts \in [Delivery -> Seq(Slot)]
  /\ waits \in [Delivery -> BOOLEAN]
  /\ queue \in [Job -> {"absent"} \cup Unfinished \cup Closed]

\* A step leaves the stores in order, and ends no job.
Kept ==
  /\ StoresTyped' /\ Forward /\ Deliveries' /\ Reasons'
  /\ \A j \in Job : queue'[j] # "absent" => queue[j] # "absent" \/ Known(j)'
  /\ \A j \in Job : queue'[j] = "succeeded" => queue[j] = "succeeded"

Stores == <<events, rows, queue>>

\* Stores left alone.
LEMMA StoresRest ==
  ASSUME IInv, UNCHANGED Stores, acked \subseteq acked', happened \subseteq happened'
  PROVE  Kept
<1>1. UNCHANGED <<order, rank, targets, status, attempts, waits, queue>>
  BY DEF Stores, events, rows
<1>2. Forward
  BY <1>1, StillForward DEF IInv
<1>3. StoresTyped'
  BY <1>1 DEF IInv, Typed, StoresTyped
<1> QED
  BY <1>1, <1>2, <1>3, DeliveriesStay, ReasonsStay DEF Kept

\* A sequence number is not 0: it tells an admitted event from one that is not.
LEMMA NextOfPositive ==
  ASSUME NEW f
  PROVE  NextOf(f) \in Nat /\ NextOf(f) # 0
<1>1. IsFiniteSet({e \in Event : f[e] # 0})
  BY WebhookAssumption, FS_Subset
<1>2. Cardinality({e \in Event : f[e] # 0}) \in Nat
  BY <1>1, FS_CardinalityType
<1> QED
  BY <1>2 DEF NextOf

\* The deliveries of an event are written.
LEMMA WriteKeeps ==
  ASSUME IInv, NEW e \in Event, NEW S \in SUBSET Endpoint, order[e] # 0,
         WriteDeliveries(e, S), UNCHANGED <<order, attempts, waits, queue>>,
         acked \subseteq acked', happened \subseteq happened'
  PROVE  Kept /\ rank'[e] # 0
<1>t. Typed
  BY DEF IInv
<1>1. CASE rank[e] # 0
  <2>1. UNCHANGED Stores
    BY <1>1 DEF WriteDeliveries, Stores, events, rows
  <2>2. rank'[e] = rank[e]
    BY <1>1 DEF WriteDeliveries
  <2> QED
    BY <1>1, <2>1, <2>2, StoresRest
<1>2. CASE rank[e] = 0
  <2>1. PICK n \in Nat : n = NextOf(rank) /\ n # 0
    BY NextOfPositive
  <2>2. /\ rank' = [rank EXCEPT ![e] = n]
        /\ targets' = [targets EXCEPT ![e] = S]
        /\ status' = [d \in Delivery |-> IF d[1] = e /\ d[2] \in S THEN "pending" ELSE status[d]]
    BY <1>2, <2>1 DEF WriteDeliveries
  <2>3. /\ rank'[e] # 0 /\ targets'[e] = S
        /\ \A o \in Event : o # e => rank'[o] = rank[o] /\ targets'[o] = targets[o]
        /\ rank' \in [Event -> Nat] /\ targets' \in [Event -> SUBSET Endpoint]
    BY <1>t, <2>1, <2>2 DEF Typed
  <2>4. /\ \A d \in Delivery : d[1] # e => status'[d] = status[d]
        /\ \A d \in Delivery : d[1] = e => status[d] = "none"
        /\ \A d \in Delivery : d[1] = e => status'[d] = IF d[2] \in S THEN "pending" ELSE "none"
    <3>1. \A d \in Delivery : d[1] = e => status[d] = "none"
      BY <1>2 DEF IInv, Consistent, Deliveries
    <3> QED
      BY <2>2, <3>1
  <2>5. status' \in [Delivery -> {"none", "pending", "delivering"} \cup Closed]
    BY <1>t, <2>2 DEF Typed
  <2>6. StoresTyped'
    BY <1>t, <2>3, <2>5 DEF StoresTyped, Typed
  <2>7. \A d \in Delivery : (status[d] # "none" => status'[d] # "none") /\ Stands(d)
    <3> SUFFICES ASSUME NEW d \in Delivery
                 PROVE  (status[d] # "none" => status'[d] # "none") /\ Stands(d)
      OBVIOUS
    <3>1. CASE d[1] # e
      BY <1>t, <2>4, <3>1, SameStands
    <3>2. CASE d[1] = e
      <4>1. attempts[d] \in Seq(Slot) /\ attempts'[d] = attempts[d]
        BY <1>t DEF Typed
      <4>2. SubSeq(attempts[d], 1, Len(attempts[d])) = attempts[d]
        BY <4>1
      <4> QED
        BY <2>4, <3>2, <4>1, <4>2 DEF Stands, Closed
    <3> QED
      BY <3>1, <3>2
  <2>8. Forward
    BY <1>2, <2>3, <2>7 DEF Forward
  <2>9. Deliveries'
    <3>1. \A o \in Event : rank'[o] # 0 => order'[o] # 0
      BY <2>3 DEF IInv, Consistent, Deliveries
    <3>2. \A d \in Delivery : status'[d] # "none" <=> rank'[d[1]] # 0 /\ d[2] \in targets'[d[1]]
      BY <2>3, <2>4, Pairs DEF IInv, Consistent, Deliveries
    <3> QED
      BY <3>1, <3>2 DEF Deliveries
  <2>10. Reasons'
    <3> SUFFICES ASSUME NEW d \in Delivery
                 PROVE  /\ status'[d] = "succeeded" => d \in acked'
                        /\ status'[d] = "failed" => Len(attempts'[d]) = MaxAttempts \/ Excuse(d)'
                        /\ Len(attempts'[d]) <= MaxAttempts
                        /\ status'[d] \notin Closed => Len(attempts'[d]) < MaxAttempts
      BY DEF Reasons
    <3>1. /\ status[d] = "succeeded" => d \in acked
          /\ status[d] = "failed" => Len(attempts[d]) = MaxAttempts \/ Excuse(d)
          /\ Len(attempts[d]) <= MaxAttempts
          /\ status[d] \notin Closed => Len(attempts[d]) < MaxAttempts
      BY DEF IInv, Consistent, Reasons
    <3>2. attempts'[d] = attempts[d]
      OBVIOUS
    <3>3. CASE d[1] # e
      BY <2>4, <2>8, <3>1, <3>2, <3>3, ExcuseStays
    <3>4. CASE d[1] = e
      BY <2>4, <3>1, <3>2, <3>4 DEF Closed
    <3> QED
      BY <3>3, <3>4
  <2> QED
    BY <2>3, <2>6, <2>8, <2>9, <2>10 DEF Kept
<1> QED
  BY <1>1, <1>2

\* One delivery's row is written.
LEMMA RowKeeps ==
  ASSUME IInv, NEW d \in Delivery, status[d] # "none",
         NEW s \in {"pending", "delivering"} \cup Closed, NEW a \in Seq(Slot),
         status' = [status EXCEPT ![d] = s], attempts' = [attempts EXCEPT ![d] = a],
         waits' \in [Delivery -> BOOLEAN],
         UNCHANGED <<order, rank, targets, queue>>,
         acked \subseteq acked', happened \subseteq happened',
         status[d] \in Closed => s = status[d] /\ a = attempts[d],
         Len(attempts[d]) <= Len(a), SubSeq(a, 1, Len(attempts[d])) = attempts[d],
         Len(a) <= MaxAttempts, s \notin Closed => Len(a) < MaxAttempts,
         s = "succeeded" => d \in acked,
         s = "failed" => Len(a) = MaxAttempts \/ Excuse(d)
  PROVE  Kept
<1>t. Typed
  BY DEF IInv
<1>1. /\ status'[d] = s /\ attempts'[d] = a
      /\ \A c \in Delivery : c # d => status'[c] = status[c] /\ attempts'[c] = attempts[c]
  BY <1>t DEF Typed
<1>2. status' \in [Delivery -> {"none", "pending", "delivering"} \cup Closed]
  BY <1>t DEF Typed
<1>3. attempts' \in [Delivery -> Seq(Slot)]
  BY <1>t DEF Typed
<1>4. StoresTyped'
  BY <1>t, <1>2, <1>3 DEF StoresTyped, Typed
<1>5. \A c \in Delivery : (status[c] # "none" => status'[c] # "none") /\ Stands(c)
  <2> SUFFICES ASSUME NEW c \in Delivery
               PROVE  (status[c] # "none" => status'[c] # "none") /\ Stands(c)
    OBVIOUS
  <2>1. CASE c # d
    BY <1>t, <1>1, <2>1, SameStands
  <2>2. CASE c = d
    BY <1>1, <2>2 DEF Stands, Closed
  <2> QED
    BY <2>1, <2>2
<1>6. Forward
  BY <1>5 DEF Forward
<1>7. Deliveries'
  <2>1. \A c \in Delivery : status'[c] # "none" <=> status[c] # "none"
    BY <1>1 DEF Closed
  <2> QED
    BY <2>1 DEF IInv, Consistent, Deliveries
<1>8. Reasons'
  <2> SUFFICES ASSUME NEW c \in Delivery
               PROVE  /\ status'[c] = "succeeded" => c \in acked'
                      /\ status'[c] = "failed" => Len(attempts'[c]) = MaxAttempts \/ Excuse(c)'
                      /\ Len(attempts'[c]) <= MaxAttempts
                      /\ status'[c] \notin Closed => Len(attempts'[c]) < MaxAttempts
    BY DEF Reasons
  <2>1. CASE c # d
    <3>1. /\ status[c] = "succeeded" => c \in acked
          /\ status[c] = "failed" => Len(attempts[c]) = MaxAttempts \/ Excuse(c)
          /\ Len(attempts[c]) <= MaxAttempts
          /\ status[c] \notin Closed => Len(attempts[c]) < MaxAttempts
      BY DEF IInv, Consistent, Reasons
    <3> QED
      BY <1>1, <1>6, <2>1, <3>1, ExcuseStays
  <2>2. CASE c = d
    BY <1>1, <1>6, <2>2, ExcuseStays
  <2> QED
    BY <2>1, <2>2
<1> QED
  BY <1>4, <1>6, <1>7, <1>8 DEF Kept

\* A delivery another run left under way is taken back to pending.
LEMMA ResetKeeps ==
  ASSUME IInv, NEW d \in Delivery, status[d] # "none", ResetRow(d), UNCHANGED <<events, queue>>,
         acked \subseteq acked', happened \subseteq happened'
  PROVE  Kept
<1>t. Typed
  BY DEF IInv
<1>1. PICK s : s = IF status[d] = "delivering" THEN "pending" ELSE status[d]
  OBVIOUS
<1>2. PICK a : a = attempts[d]
  OBVIOUS
<1>3. /\ s \in {"pending", "delivering"} \cup Closed /\ a \in Seq(Slot)
      /\ status[d] \in Closed => s = status[d]
      /\ s \in Closed => status[d] \in Closed /\ s = status[d]
  BY <1>t, <1>1, <1>2 DEF Typed, Closed
<1>4. SubSeq(a, 1, Len(a)) = a /\ Len(a) \in Nat
  BY <1>3
<1>5. /\ status' = [status EXCEPT ![d] = s] /\ attempts' = [attempts EXCEPT ![d] = a]
      /\ UNCHANGED <<order, rank, targets, queue>>
  BY <1>t, <1>1, <1>2 DEF ResetRow, Typed, events
<1>6. waits' \in [Delivery -> BOOLEAN]
  <2>1. waits \in [Delivery -> BOOLEAN]
    BY <1>t DEF Typed
  <2>2. (waits[d] /\ status[d] # "delivering") \in BOOLEAN
    OBVIOUS
  <2> QED
    BY <2>1, <2>2 DEF ResetRow
<1>7. /\ status[d] = "succeeded" => d \in acked
      /\ status[d] = "failed" => Len(attempts[d]) = MaxAttempts \/ Excuse(d)
      /\ Len(attempts[d]) <= MaxAttempts
      /\ status[d] \notin Closed => Len(attempts[d]) < MaxAttempts
  BY DEF IInv, Consistent, Reasons
<1>8. s = "succeeded" => status[d] = "succeeded"
  BY <1>1
<1>9. s = "failed" => status[d] = "failed"
  BY <1>1
<1>10. /\ s \in {"pending", "delivering"} \cup Closed /\ a \in Seq(Slot)
       /\ status[d] \in Closed => s = status[d] /\ a = attempts[d]
       /\ Len(attempts[d]) <= Len(a) /\ SubSeq(a, 1, Len(attempts[d])) = attempts[d]
       /\ Len(a) <= MaxAttempts /\ (s \notin Closed => Len(a) < MaxAttempts)
       /\ s = "succeeded" => d \in acked
       /\ s = "failed" => Len(a) = MaxAttempts \/ Excuse(d)
  BY <1>2, <1>3, <1>4, <1>7, <1>8, <1>9
<1> QED
  BY <1>5, <1>6, <1>10, RowKeeps

\* What cannot be delivered is closed as failed.
LEMMA CloseKeeps ==
  ASSUME IInv, NEW d \in Delivery, status[d] # "none", status[d] \in Closed \/ Excuse(d),
         CloseRow(d), UNCHANGED <<events, queue>>,
         acked \subseteq acked', happened \subseteq happened'
  PROVE  Kept /\ status'[d] \in Closed
<1>t. Typed
  BY DEF IInv
<1>1. PICK s : s = IF status[d] \in Closed THEN status[d] ELSE "failed"
  OBVIOUS
<1>2. PICK a : a = attempts[d]
  OBVIOUS
<1>3. s \in Closed /\ a \in Seq(Slot) /\ (status[d] \in Closed => s = status[d])
  BY <1>t, <1>1, <1>2 DEF Typed, Closed
<1>4. SubSeq(a, 1, Len(a)) = a /\ Len(a) \in Nat
  BY <1>3
<1>5. /\ status' = [status EXCEPT ![d] = s] /\ attempts' = [attempts EXCEPT ![d] = a]
      /\ waits' \in [Delivery -> BOOLEAN] /\ UNCHANGED <<order, rank, targets, queue>>
  BY <1>t, <1>1, <1>2 DEF CloseRow, Typed, events
<1>6. /\ status[d] = "succeeded" => d \in acked
      /\ status[d] = "failed" => Len(attempts[d]) = MaxAttempts \/ Excuse(d)
      /\ Len(attempts[d]) <= MaxAttempts
  BY DEF IInv, Consistent, Reasons
<1>7. s = "succeeded" => d \in acked
  BY <1>1, <1>6
<1>8. s = "failed" => Len(a) = MaxAttempts \/ Excuse(d)
  BY <1>1, <1>2, <1>6 DEF Closed
<1>9. Kept
  <2>1. /\ s \in {"pending", "delivering"} \cup Closed
        /\ status[d] \in Closed => s = status[d] /\ a = attempts[d]
        /\ Len(attempts[d]) <= Len(a) /\ SubSeq(a, 1, Len(attempts[d])) = attempts[d]
        /\ Len(a) <= MaxAttempts /\ (s \notin Closed => Len(a) < MaxAttempts)
    BY <1>2, <1>3, <1>4, <1>6
  <2> QED
    BY <1>3, <1>5, <1>7, <1>8, <2>1, RowKeeps
<1>10. status'[d] = s
  BY <1>t, <1>5 DEF Typed
<1> QED
  BY <1>3, <1>9, <1>10

\* An update that is let through.
LEMMA UpdateKeeps ==
  ASSUME IInv, NEW d \in Delivery,
         NEW to \in {"pending", "delivering"} \cup Closed, NEW a \in Seq(Slot), Update(d, to, a),
         Len(a) <= MaxAttempts, to \notin Closed => Len(a) < MaxAttempts,
         to = "succeeded" => d \in acked, to = "failed" => Len(a) = MaxAttempts,
         UNCHANGED <<events, queue>>, acked \subseteq acked', happened \subseteq happened'
  PROVE  Kept /\ status'[d] = to
<1>t. Typed
  BY DEF IInv
<1>1. status[d] \in {"pending", "delivering"}
  BY DEF Update, MayUpdate, ValidTransition
<1>2. /\ status' = [status EXCEPT ![d] = to] /\ attempts' = [attempts EXCEPT ![d] = a]
      /\ waits' = [waits EXCEPT ![d] = (to = "pending")]
      /\ UNCHANGED <<order, rank, targets, queue>>
  BY DEF Update, events
<1>3. waits' \in [Delivery -> BOOLEAN]
  BY <1>t, <1>2 DEF Typed
<1>4. attempts[d] \in Seq(Slot) /\ Len(attempts[d]) \in Nat /\ Len(a) \in Nat
  BY <1>t DEF Typed
<1>5. Len(attempts[d]) <= Len(a)
  BY <1>4 DEF Update, MayUpdate
<1>6. SubSeq(a, 1, Len(attempts[d])) = attempts[d]
  <2>1. \A i \in 1 .. Len(attempts[d]) : a[i] = attempts[d][i]
    BY DEF Update, MayUpdate
  <2> QED
    BY <1>4, <1>5, <2>1
<1>7. Kept
  BY <1>1, <1>2, <1>3, <1>5, <1>6, RowKeeps DEF Closed
<1> QED
  BY <1>t, <1>2, <1>7 DEF Typed

\* Jobs are submitted.
LEMMA EnsureKeeps ==
  ASSUME IInv, NEW S, \A j \in Job : j \in S => j \in Delivery /\ Known(j), Ensure(S),
         UNCHANGED <<events, rows>>, acked \subseteq acked', happened \subseteq happened'
  PROVE  Kept /\ \A j \in Job : j \in S => queue'[j] # "absent"
<1>t. Typed
  BY DEF IInv
<1>1. UNCHANGED <<order, rank, targets, status, attempts, waits>>
  BY DEF events, rows
<1>2. \A j \in Job : queue'[j] = IF j \in S /\ queue[j] = "absent"
                                 THEN IF waits[j] THEN "asleep" ELSE "open" ELSE queue[j]
  BY DEF Ensure
<1>3. queue' \in [Job -> {"absent"} \cup Unfinished \cup Closed]
  BY <1>t DEF Ensure, Typed, Unfinished
<1>4. StoresTyped'
  BY <1>t, <1>1, <1>3 DEF Typed, StoresTyped
<1>5. \A j \in Job : queue[j] # "absent" => queue'[j] # "absent"
  BY <1>2
<1>6. Forward
  BY <1>t, <1>1, <1>5, StillForward
<1>7. \A j \in Job : queue'[j] # "absent" => queue[j] # "absent" \/ Known(j)'
  BY <1>2, <1>6, KnownStays
<1>8. \A j \in Job : queue'[j] = "succeeded" => queue[j] = "succeeded"
  BY <1>2
<1>9. Deliveries' /\ Reasons'
  BY <1>1, <1>6, DeliveriesStay, ReasonsStay
<1>10. \A j \in Job : j \in S => queue'[j] # "absent"
  BY <1>2
<1> QED
  BY <1>4, <1>6, <1>7, <1>8, <1>9, <1>10 DEF Kept

\* What a run has to say of a delivery when it records its attempt.
LEMMA RecordKeeps ==
  ASSUME IInv, NEW t \in Slot, At(t, "record"), Update(run[t].job, Outcome(t), Tried(t)),
         UNCHANGED <<events, queue>>, acked \subseteq acked', happened \subseteq happened'
  PROVE  Kept /\ status'[run[t].job] = Outcome(t)
<1>t. Typed
  BY DEF IInv
<1>1. RunTold(t) /\ run[t] \in RunState
  BY <1>t DEF IInv, Consistent, Runs, Typed
<1>2. PICK d \in Delivery : d = run[t].job
  BY <1>1 DEF At, RunTold, Delivering
<1>3. PICK to : to = Outcome(t)
  OBVIOUS
<1>4. PICK a : a = Tried(t)
  OBVIOUS
<1>5. run[t].seen \in Seq(Slot) /\ a \in Seq(Slot) /\ Len(a) = Len(run[t].seen) + 1 /\ Len(run[t].seen) \in Nat
  BY <1>1, <1>4 DEF RunState, Tried
<1>6. status[d] \notin Closed
  BY <1>2, <1>t DEF Update, MayUpdate, ValidTransition, Closed
<1>7. Len(run[t].seen) < MaxAttempts
  BY <1>1, <1>2, <1>6 DEF RunTold, At
<1>8. to \in {"pending"} \cup Closed
  BY <1>3 DEF Outcome, Closed
<1>9. to = "succeeded" => d \in acked
  BY <1>1, <1>2, <1>3 DEF Outcome, RunTold, At
<1>10. /\ to = "failed" => Len(run[t].seen) + 1 >= MaxAttempts
       /\ to = "pending" => ~(Len(run[t].seen) + 1 >= MaxAttempts)
  BY <1>3 DEF Outcome
<1>11. MaxAttempts \in Nat
  BY WebhookAssumption
<1>12. Update(d, to, a)
  BY <1>2, <1>3, <1>4
<1>13. /\ Len(a) <= MaxAttempts
       /\ to \notin Closed => Len(a) < MaxAttempts
       /\ to = "failed" => Len(a) = MaxAttempts
  BY <1>5, <1>7, <1>8, <1>10, <1>11 DEF Closed
<1> QED
  BY <1>2, <1>3, <1>5, <1>8, <1>9, <1>12, <1>13, UpdateKeeps

\* A delivery is taken up for its next attempt, which its schedule still has.
LEMMA BeginKeeps ==
  ASSUME IInv, NEW t \in Slot, At(t, "begin"), Update(run[t].job, "delivering", run[t].seen),
         UNCHANGED <<events, queue>>, acked \subseteq acked', happened \subseteq happened'
  PROVE  Kept
<1>t. Typed
  BY DEF IInv
<1>1. RunTold(t) /\ run[t] \in RunState
  BY <1>t DEF IInv, Consistent, Runs, Typed
<1>2. PICK d \in Delivery : d = run[t].job
  BY <1>1 DEF At, RunTold, Delivering
<1>3. PICK a \in Seq(Slot) : a = run[t].seen
  BY <1>1 DEF RunState
<1>4. status[d] \notin Closed
  BY <1>2, <1>t DEF Update, MayUpdate, ValidTransition, Closed
<1>5. Len(a) < MaxAttempts
  BY <1>1, <1>2, <1>3, <1>4 DEF RunTold, At
<1>6. MaxAttempts \in Nat /\ Len(a) \in Nat
  BY <1>3, WebhookAssumption
<1> QED
  BY <1>2, <1>3, <1>5, <1>6, UpdateKeeps

\* Every write a run is about to make keeps the stores in order.
LEMMA WrittenKeeps ==
  ASSUME IInv, NEW t \in Slot, Written(t), acked \subseteq acked', happened \subseteq happened'
  PROVE  Kept
<1>t. Typed
  BY DEF IInv
<1>1. RunTold(t) /\ run[t] \in RunState
  BY <1>t DEF IInv, Consistent, Runs, Typed
<1>2. CASE /\ At(t, "materialize") /\ WriteDeliveries(run[t].job, run[t].picked)
           /\ UNCHANGED <<order, attempts, waits, queue>>
  <2>1. PICK e \in Event : e = run[t].job
    BY <1>1, <1>2 DEF At, RunTold, Selecting
  <2>2. PICK S \in SUBSET Endpoint : S = run[t].picked
    BY <1>1 DEF RunState
  <2>3. order[e] # 0
    BY <1>1, <1>2, <2>1 DEF At, RunTold, Known
  <2> QED
    BY <1>2, <2>1, <2>2, <2>3, WriteKeeps
<1>3. CASE /\ At(t, "submit")
           /\ \E S \in SUBSET run[t].picked : Ensure({<<run[t].job, p>> : p \in S})
           /\ UNCHANGED <<events, rows>>
  <2>1. PICK e \in Event : e = run[t].job
    BY <1>1, <1>3 DEF At, RunTold, Selecting
  <2>2. PICK S \in SUBSET run[t].picked : Ensure({<<e, p>> : p \in S})
    BY <1>3, <2>1
  <2>3. rank[e] # 0 /\ S \subseteq targets[e] /\ targets[e] \subseteq Endpoint
    BY <1>1, <1>3, <1>t, <2>1, <2>2 DEF At, RunTold, Typed
  <2>4. \A j \in Job : j \in {<<e, p>> : p \in S} => j \in Delivery /\ Known(j)
    <3> SUFFICES ASSUME NEW p \in S PROVE <<e, p>> \in Delivery /\ Known(<<e, p>>)
      OBVIOUS
    <3>1. <<e, p>> \in Delivery /\ <<e, p>> \notin Event /\ <<e, p>>[1] = e /\ <<e, p>>[2] = p
      BY <2>3, Pairs
    <3>2. status[<<e, p>>] # "none"
      BY <2>3, <3>1 DEF IInv, Consistent, Deliveries
    <3> QED
      BY <3>1, <3>2 DEF Known
  <2> QED
    BY <1>3, <2>2, <2>4, EnsureKeeps
<1>4. CASE /\ \/ At(t, "reset") /\ ResetRow(run[t].job)
              \/ At(t, "close") /\ CloseRow(run[t].job)
              \/ At(t, "begin") /\ Update(run[t].job, "delivering", run[t].seen)
              \/ At(t, "record") /\ Update(run[t].job, Outcome(t), Tried(t))
           /\ UNCHANGED <<events, queue>>
  <2>1. PICK d \in Delivery : d = run[t].job
    BY <1>1, <1>4 DEF At, RunTold, Delivering
  <2>2. status[d] # "none"
    BY <1>1, <1>4, <2>1, Pairs DEF At, RunTold, Known
  <2>3. CASE At(t, "reset") /\ ResetRow(run[t].job)
    BY <1>4, <2>1, <2>2, <2>3, ResetKeeps
  <2>4. CASE At(t, "close") /\ CloseRow(run[t].job)
    <3>1. status[d] \in Closed \/ Excuse(d)
      BY <1>1, <2>1, <2>4 DEF At, RunTold
    <3> QED
      BY <1>4, <2>1, <2>2, <2>4, <3>1, CloseKeeps
  <2>5. CASE At(t, "begin") /\ Update(run[t].job, "delivering", run[t].seen)
    BY <1>4, <2>5, BeginKeeps
  <2>6. CASE At(t, "record") /\ Update(run[t].job, Outcome(t), Tried(t))
    BY <1>4, <2>6, RecordKeeps
  <2> QED
    BY <1>4, <2>3, <2>4, <2>5, <2>6
<1> QED
  BY <1>2, <1>3, <1>4 DEF Written
-----------------------------------------------------------------------------
(* Steps.                                                                  *)

Settles == IInv' /\ Forward

\* Recovery's lists left alone.
LEMMA JobsKept ==
  ASSUME IInv, Kept, UNCHANGED todo
  PROVE  Jobs'
<1>1. \A r \in Replica : todo'[r] \subseteq Job /\ \A j \in todo'[r] : j \in todo[r]
  BY DEF IInv, Typed
<1> QED
  BY <1>1, JobsStay DEF Kept

\* A step of one run, ...
LEMMA RunSettles ==
  ASSUME IInv, Kept, UNCHANGED <<serving, up, todo>>, order' = order,
         holder' \in [Job -> Slot \cup {NoSlot}], memory' \in [Replica -> SUBSET Volatile],
         run' \in [Slot -> RunState], acked' \in SUBSET Delivery,
         happened' \subseteq Happenings, left' \in 0 .. MaxHappenings,
         happened' = {} => \A r \in Replica : \A e \in memory[r] : e \in memory'[r] \/ Over(e)',
         NEW t \in Slot, \A u \in Slot : u # t => run'[u] = run[u],
         RunTold(t)'
  PROVE  Settles
<1>1. Forward
  BY DEF Kept
<1>2. Typed'
  <2>1. StoresTyped'
    BY DEF Kept
  <2> QED
    BY <2>1 DEF IInv, Typed, StoresTyped
<1>3. Jobs'
  BY JobsKept
<1>4. Present'
  BY <1>1, PresentStays
<1>5. Runs'
  <2> SUFFICES ASSUME NEW u \in Slot PROVE RunTold(u)'
    BY DEF Runs
  <2>1. CASE u = t
    BY <2>1
  <2>2. CASE u # t
    BY <1>1, <2>2, RunStays
  <2> QED
    BY <2>1, <2>2
<1>6. Deliveries' /\ Reasons'
  BY DEF Kept
<1> QED
  BY <1>1, <1>2, <1>3, <1>4, <1>5, <1>6 DEF Settles, IInv, Consistent

\* ... and one of none.
LEMMA StoreSettles ==
  ASSUME IInv, Kept, UNCHANGED <<serving, up, todo, memory, run, acked>>, order' = order,
         holder' \in [Job -> Slot \cup {NoSlot}],
         happened' \subseteq Happenings, left' \in 0 .. MaxHappenings
  PROVE  Settles
<1>1. Forward
  BY DEF Kept
<1>2. Typed'
  <2>1. StoresTyped'
    BY DEF Kept
  <2> QED
    BY <2>1 DEF IInv, Typed, StoresTyped
<1>3. Jobs'
  BY JobsKept
<1>4. Present'
  BY <1>1, PresentStays
<1>5. Runs'
  BY <1>1, RunStays DEF Runs
<1>6. Deliveries' /\ Reasons'
  BY DEF Kept
<1> QED
  BY <1>1, <1>2, <1>3, <1>4, <1>5, <1>6 DEF Settles, IInv, Consistent

\* What a run keeps when it moves.
LEMMA GotoMoves ==
  ASSUME Typed, NEW t \in Slot,
         NEW pc \in {"idle"} \cup Selecting \cup Delivering \cup Answer, Goto(t, pc)
  PROVE  /\ run' \in [Slot -> RunState]
         /\ \A u \in Slot : u # t => run'[u] = run[u]
         /\ run'[t].pc = pc /\ run'[t].job = run[t].job /\ run'[t].at = run[t].at
         /\ run'[t].picked = run[t].picked /\ run'[t].seen = run[t].seen
         /\ run'[t].ok = run[t].ok /\ run'[t].caught = run[t].caught
<1>1. run \in [Slot -> RunState] /\ run' = [run EXCEPT ![t] = [run[t] EXCEPT !.pc = pc]]
  BY DEF Goto, Typed
<1>2. run[t] \in RunState
  BY <1>1
<1>3. PICK x : x = [run[t] EXCEPT !.pc = pc]
  OBVIOUS
<1>4. /\ x \in RunState /\ x.pc = pc /\ x.job = run[t].job /\ x.at = run[t].at
      /\ x.picked = run[t].picked /\ x.seen = run[t].seen
      /\ x.ok = run[t].ok /\ x.caught = run[t].caught
  BY <1>2, <1>3 DEF RunState
<1>5. run' = [run EXCEPT ![t] = x]
  BY <1>1, <1>3
<1> QED
  BY <1>1, <1>4, <1>5

\* A body is forgotten, if it is.
LEMMA ForgetForgets ==
  ASSUME Typed, NEW t \in Slot, run[t].at \in Replica, NEW done, ForgetIf(done, t)
  PROVE  /\ memory' \in [Replica -> SUBSET Volatile]
         /\ \A r \in Replica : \A e \in memory[r] : e \in memory'[r] \/ (done /\ e = EventOf(t))
<1>1. memory \in [Replica -> SUBSET Volatile]
  BY DEF Typed
<1>2. CASE ~done
  BY <1>1, <1>2 DEF ForgetIf
<1>3. CASE done
  <2>1. memory' = [memory EXCEPT ![run[t].at] = memory[run[t].at] \ {EventOf(t)}]
    BY <1>3 DEF ForgetIf
  <2> QED
    BY <1>1, <1>3, <2>1
<1> QED
  BY <1>2, <1>3

\* A happening is one of those allowed, and is counted.
LEMMA HappensOnce ==
  ASSUME Typed, NEW kind, Happens(kind)
  PROVE  /\ happened \subseteq happened' /\ happened' \subseteq Happenings /\ happened' # {}
         /\ left' \in 0 .. MaxHappenings
<1>1. happened \subseteq Happenings /\ left \in 0 .. MaxHappenings /\ MaxHappenings \in Nat
  BY WebhookAssumption DEF Typed
<1> QED
  BY <1>1 DEF Happens

-----------------------------------------------------------------------------
(* The queue and time.                                                     *)

\* A job wakes.
LEMMA WakeSettles ==
  ASSUME IInv, NEW j \in Job, Wake(j)
  PROVE  Settles
<1>t. Typed
  BY DEF IInv
<1>1. /\ queue' = [queue EXCEPT ![j] = "open"] /\ queue[j] = "asleep"
      /\ UNCHANGED <<order, rank, targets, status, attempts, waits, acked, happened, left, holder>>
      /\ UNCHANGED <<serving, up, todo, memory, run, acked>>
  BY DEF Wake, events, rows, procs, past
<1>2. /\ \A i \in Job : queue[i] # "absent" <=> queue'[i] # "absent"
      /\ \A i \in Job : queue'[i] = "succeeded" => queue[i] = "succeeded"
      /\ queue' \in [Job -> {"absent"} \cup Unfinished \cup Closed]
  BY <1>t, <1>1 DEF Typed, Unfinished
<1>3. Forward
  BY <1>t, <1>1, <1>2, StillForward
<1>4. StoresTyped'
  BY <1>t, <1>1, <1>2 DEF StoresTyped, Typed
<1>5. Kept
  BY <1>1, <1>2, <1>3, <1>4, DeliveriesStay, ReasonsStay DEF Kept
<1> QED
  BY <1>t, <1>1, <1>5, StoreSettles DEF Typed

\* A retry falls due.
LEMMA RetrySettles ==
  ASSUME IInv, NEW d \in Delivery, RetryDue(d)
  PROVE  Settles
<1>t. Typed
  BY DEF IInv
<1>1. /\ waits' = [waits EXCEPT ![d] = FALSE]
      /\ UNCHANGED <<order, rank, targets, status, attempts, queue, acked, happened, left, holder>>
      /\ UNCHANGED <<serving, up, todo, memory, run, acked>>
  BY DEF RetryDue, events, jobs, procs, past
<1>3. Forward
  BY <1>t, <1>1, StillForward
<1>4. StoresTyped'
  BY <1>t, <1>1 DEF StoresTyped, Typed
<1>5. Kept
  BY <1>1, <1>3, <1>4, DeliveriesStay, ReasonsStay DEF Kept
<1> QED
  BY <1>t, <1>1, <1>5, StoreSettles DEF Typed

\* A job goes back to the queue.
LEMMA TakeBackSettles ==
  ASSUME IInv, NEW j \in Job, queue[j] = "granted", TakeBack(j),
         happened \subseteq happened', happened' \subseteq Happenings, left' \in 0 .. MaxHappenings
  PROVE  Settles
<1>t. Typed
  BY DEF IInv
<1>1. /\ queue' = [queue EXCEPT ![j] = "open"] /\ holder' = [holder EXCEPT ![j] = NoSlot]
      /\ UNCHANGED <<order, rank, targets, status, attempts, waits, acked>>
      /\ UNCHANGED <<serving, up, todo, memory, run, acked>>
  BY DEF TakeBack, events, rows, procs
<1>2. /\ \A i \in Job : queue[i] # "absent" <=> queue'[i] # "absent"
      /\ \A i \in Job : queue'[i] = "succeeded" => queue[i] = "succeeded"
      /\ queue' \in [Job -> {"absent"} \cup Unfinished \cup Closed]
      /\ holder' \in [Job -> Slot \cup {NoSlot}]
  BY <1>t, <1>1 DEF Typed, Unfinished
<1>3. Forward
  BY <1>t, <1>1, <1>2, StillForward
<1>4. StoresTyped'
  BY <1>t, <1>1, <1>2 DEF StoresTyped, Typed
<1>5. Kept
  BY <1>1, <1>2, <1>3, <1>4, DeliveriesStay, ReasonsStay DEF Kept
<1> QED
  BY <1>1, <1>2, <1>5, StoreSettles

\* A lease is lost, behind a dead run or a live one.
LEMMA LeaseSettles ==
  ASSUME IInv, NEW j \in Job, LeaseEnds(j) \/ LeaseLost(j)
  PROVE  Settles
<1>t. Typed
  BY DEF IInv
<1>1. CASE LeaseEnds(j)
  <2>1. happened' = happened /\ left' = left
    BY <1>1 DEF LeaseEnds, past
  <2> QED
    BY <1>t, <1>1, <2>1, TakeBackSettles DEF LeaseEnds, Typed
<1>2. CASE LeaseLost(j)
  BY <1>t, <1>2, HappensOnce, TakeBackSettles DEF LeaseLost
<1> QED
  BY <1>1, <1>2

\* A client edits an endpoint: a reason from then on.
LEMMA EditSettles ==
  ASSUME IInv, NEW p \in Endpoint, Edit(p)
  PROVE  Settles
<1>t. Typed
  BY DEF IInv
<1>1. /\ UNCHANGED <<order, rank, targets, status, attempts, waits, queue, acked, holder>>
      /\ UNCHANGED <<up, todo, memory, run>>
      /\ UNCHANGED Stores
  BY DEF Edit, events, rows, jobs, procs, Stores
<1>2. /\ happened \subseteq happened' /\ happened' \subseteq Happenings /\ happened' # {}
      /\ left' \in 0 .. MaxHappenings
  BY <1>t, HappensOnce DEF Edit
<1>3. "edit" \in happened' /\ serving' \in [Endpoint -> BOOLEAN]
  BY <1>t DEF Edit, Happens, Typed
<1>4. Kept
  BY <1>1, <1>2, StoresRest
<1>5. Forward
  BY <1>4 DEF Kept
<1>6. Typed'
  BY <1>t, <1>1, <1>2, <1>3 DEF Typed
<1>7. Jobs'
  BY <1>1, <1>4, JobsKept
<1>8. Present'
  BY <1>2, <1>3 DEF Present
<1>9. Runs'
  BY <1>1, <1>5, RunStays DEF Runs
<1> QED
  BY <1>4, <1>5, <1>6, <1>7, <1>8, <1>9 DEF Settles, IInv, Consistent, Kept

\* A run starts, on a job of something known.
LEMMA ClaimSettles ==
  ASSUME IInv, NEW t \in Slot, NEW r \in Replica, NEW j \in Job, Claim(t, r, j)
  PROVE  Settles
<1>t. Typed
  BY DEF IInv
<1>1. /\ queue' = [queue EXCEPT ![j] = "granted"] /\ holder' = [holder EXCEPT ![j] = t]
      /\ queue[j] = "open"
      /\ UNCHANGED <<order, rank, targets, status, attempts, waits, acked, happened, left>>
      /\ UNCHANGED <<serving, up, todo, memory, acked>>
  BY DEF Claim, events, rows, procs, past
<1>2. /\ \A i \in Job : queue[i] # "absent" <=> queue'[i] # "absent"
      /\ \A i \in Job : queue'[i] = "succeeded" => queue[i] = "succeeded"
      /\ queue' \in [Job -> {"absent"} \cup Unfinished \cup Closed]
      /\ holder' \in [Job -> Slot \cup {NoSlot}]
  BY <1>t, <1>1 DEF Typed, Unfinished
<1>3. Forward
  BY <1>t, <1>1, <1>2, StillForward
<1>4. StoresTyped'
  BY <1>t, <1>1, <1>2 DEF StoresTyped, Typed
<1>5. Kept
  BY <1>1, <1>2, <1>3, <1>4, DeliveriesStay, ReasonsStay DEF Kept
<1>6. PICK x : x = Fresh(j, r, IF j \in Event THEN "select" ELSE "load")
  OBVIOUS
<1>7. run' = [run EXCEPT ![t] = x]
  BY <1>6 DEF Claim
<1>8. /\ x \in RunState /\ x.job = j /\ x.at = r
      /\ x.pc = IF j \in Event THEN "select" ELSE "load"
  BY <1>6 DEF Fresh, RunState, Selecting, Delivering
<1>9. /\ run' \in [Slot -> RunState] /\ run'[t] = x
      /\ \A u \in Slot : u # t => run'[u] = run[u]
  BY <1>t, <1>7, <1>8 DEF Typed
<1>10. Known(j)'
  BY <1>1, <1>3, KnownStays DEF IInv, Consistent, Jobs
<1>11. RunTold(t)'
  <2>1. j \notin Event => j \in Delivery
    BY DEF Job
  <2> QED
    BY <1>8, <1>9, <1>10, <2>1 DEF RunTold, Selecting, Delivering
<1> QED
  BY <1>t, <1>1, <1>2, <1>5, <1>9, <1>11, RunSettles DEF Typed
-----------------------------------------------------------------------------
(* The selection.                                                          *)

\* A run reads its event, with its deliveries or the endpoints.
LEMMA SelectSettles ==
  ASSUME IInv, NEW t \in Slot, Select(t)
  PROVE  Settles
<1>t. Typed
  BY DEF IInv
<1>1. RunTold(t) /\ run[t] \in RunState /\ run[t].pc = "select"
  BY <1>t DEF IInv, Consistent, Runs, Typed, Select, At
<1>2. PICK e \in Event : e = run[t].job
  BY <1>1 DEF RunTold, Selecting
<1>3. /\ UNCHANGED <<order, rank, targets, status, attempts, waits, queue, acked, happened, left, holder>>
      /\ UNCHANGED <<serving, up, todo>> /\ UNCHANGED Stores
  BY DEF Select, events, rows, jobs, procs, past, Stores
<1>4. Kept
  BY <1>3, StoresRest
<1>5. Forward /\ Known(e)'
  BY <1>1, <1>2, <1>4, KnownStays, Pairs DEF Kept, RunTold
<1>6. PICK done \in BOOLEAN : done = (rank[e] # 0 /\ targets[e] = {})
  OBVIOUS
<1>7. ForgetIf(done, t)
  BY <1>2, <1>6 DEF Select
<1>8. run[t].at \in Replica /\ EventOf(t) = e
  BY <1>1, <1>2 DEF RunTold, EventOf
<1>9. /\ memory' \in [Replica -> SUBSET Volatile]
      /\ \A r \in Replica : \A o \in memory[r] : o \in memory'[r] \/ (done /\ o = e)
  BY <1>t, <1>7, <1>8, ForgetForgets
<1>10. done => Over(e)'
  BY <1>3, <1>6 DEF Over
<1>11. PICK x : x = IF rank[e] # 0
                    THEN [run[t] EXCEPT !.pc = "submit", !.picked = targets[e]]
                    ELSE [run[t] EXCEPT !.pc = "materialize", !.picked = {p \in Endpoint : serving[p]}]
  OBVIOUS
<1>12. run' = [run EXCEPT ![t] = x]
  BY <1>2, <1>11 DEF Select
<1>13. /\ x \in RunState /\ x.job = e /\ x.at = run[t].at
       /\ \/ rank[e] # 0 /\ x.pc = "submit" /\ x.picked = targets[e]
          \/ x.pc = "materialize"
  <2>1. targets[e] \in SUBSET Endpoint /\ {p \in Endpoint : serving[p]} \in SUBSET Endpoint
    BY <1>t DEF Typed
  <2> QED
    BY <1>1, <1>2, <1>11, <2>1 DEF RunState, Selecting
<1>14. /\ run' \in [Slot -> RunState] /\ run'[t] = x
       /\ \A u \in Slot : u # t => run'[u] = run[u]
  BY <1>t, <1>12, <1>13 DEF Typed
<1>15. RunTold(t)'
  BY <1>3, <1>5, <1>8, <1>13, <1>14, Pairs DEF RunTold, Selecting, Delivering
<1> QED
  BY <1>t, <1>3, <1>4, <1>9, <1>10, <1>14, <1>15, RunSettles DEF Typed

\* A run writes the deliveries, or finds those another run wrote.
LEMMA MaterializeSettles ==
  ASSUME IInv, NEW t \in Slot, Materialize(t)
  PROVE  Settles
<1>t. Typed
  BY DEF IInv
<1>1. RunTold(t) /\ run[t] \in RunState /\ run[t].pc = "materialize"
  BY <1>t DEF IInv, Consistent, Runs, Typed, Materialize, At
<1>2. PICK e \in Event : e = run[t].job
  BY <1>1 DEF RunTold, Selecting
<1>3. /\ UNCHANGED <<order, attempts, waits, queue, acked, happened, left, holder>>
      /\ UNCHANGED <<serving, up, todo>>
  BY DEF Materialize, jobs, procs, past
<1>4. Kept /\ rank'[e] # 0
  <2>1. PICK S \in SUBSET Endpoint : S = run[t].picked
    BY <1>1 DEF RunState
  <2>2. order[e] # 0
    BY <1>1, <1>2 DEF RunTold, Known
  <2>3. WriteDeliveries(e, S)
    BY <1>2, <2>1 DEF Materialize
  <2> QED
    BY <1>3, <2>2, <2>3, WriteKeeps
<1>5. Forward /\ Known(e)' /\ targets'[e] \in SUBSET Endpoint
  BY <1>1, <1>2, <1>4, KnownStays, Pairs DEF Kept, RunTold, StoresTyped
<1>6. PICK done \in BOOLEAN : done = (targets'[e] = {})
  OBVIOUS
<1>7. ForgetIf(done, t)
  BY <1>2, <1>6 DEF Materialize
<1>8. run[t].at \in Replica /\ EventOf(t) = e
  BY <1>1, <1>2 DEF RunTold, EventOf
<1>9. /\ memory' \in [Replica -> SUBSET Volatile]
      /\ \A r \in Replica : \A o \in memory[r] : o \in memory'[r] \/ (done /\ o = e)
  BY <1>t, <1>7, <1>8, ForgetForgets
<1>10. done => Over(e)'
  BY <1>4, <1>6 DEF Over
<1>11. PICK x : x = [run[t] EXCEPT !.pc = "submit", !.picked = targets'[e]]
  OBVIOUS
<1>12. run' = [run EXCEPT ![t] = x]
  BY <1>2, <1>11 DEF Materialize
<1>13. /\ x \in RunState /\ x.job = e /\ x.at = run[t].at
       /\ x.pc = "submit" /\ x.picked = targets'[e]
  BY <1>1, <1>2, <1>5, <1>11 DEF RunState, Selecting
<1>14. /\ run' \in [Slot -> RunState] /\ run'[t] = x
       /\ \A u \in Slot : u # t => run'[u] = run[u]
  BY <1>t, <1>12, <1>13 DEF Typed
<1>15. RunTold(t)'
  BY <1>4, <1>5, <1>8, <1>13, <1>14, Pairs DEF RunTold, Selecting, Delivering
<1> QED
  BY <1>t, <1>3, <1>4, <1>9, <1>10, <1>14, <1>15, RunSettles DEF Typed

\* A run submits one more delivery's job, or has submitted all.
LEMMA SubmitSettles ==
  ASSUME IInv, NEW t \in Slot, Submit(t)
  PROVE  Settles
<1>t. Typed
  BY DEF IInv
<1>1. RunTold(t) /\ run[t] \in RunState /\ run[t].pc = "submit"
  BY <1>t DEF IInv, Consistent, Runs, Typed, Submit, At
<1>2. PICK e \in Event : e = run[t].job
  BY <1>1 DEF RunTold, Selecting
<1>3. /\ UNCHANGED <<order, rank, targets, status, attempts, waits, acked, happened, left, holder>>
      /\ UNCHANGED <<serving, up, todo, memory>> /\ UNCHANGED <<events, rows>>
  BY DEF Submit, events, rows, procs, past
<1>4. run[t].at \in Replica /\ rank[e] # 0 /\ run[t].picked \subseteq targets[e]
  BY <1>1, <1>2 DEF RunTold
<1>5. \A p \in targets[e] \ run[t].picked : queue[<<e, p>>] # "absent"
  BY <1>1, <1>2 DEF RunTold
<1>6. CASE run[t].picked = {} /\ Goto(t, "done") /\ UNCHANGED queue
  <2>1. Kept
    <3>1. UNCHANGED Stores
      BY <1>3, <1>6 DEF Stores
    <3> QED
      BY <1>3, <3>1, StoresRest
  <2>2. Forward /\ Known(e)'
    BY <1>1, <1>2, <2>1, KnownStays, Pairs DEF Kept, RunTold
  <2>3. /\ run' \in [Slot -> RunState] /\ \A u \in Slot : u # t => run'[u] = run[u]
        /\ run'[t].pc = "done" /\ run'[t].job = e /\ run'[t].at = run[t].at
    BY <1>t, <1>2, <1>6, GotoMoves DEF Answer
  <2>4. \A p \in targets[e] : queue'[<<e, p>>] # "absent"
    BY <1>5, <1>6
  <2>5. RunTold(t)'
    BY <1>3, <1>4, <2>2, <2>3, <2>4, Pairs DEF RunTold, Selecting, Delivering
  <2> QED
    BY <1>t, <1>3, <2>1, <2>3, <2>5, RunSettles DEF Typed
<1>7. CASE \E p \in run[t].picked :
             /\ Ensure({<<run[t].job, p>>})
             /\ run' = [run EXCEPT ![t].picked = @ \ {p}]
  <2>1. PICK p \in run[t].picked :
          /\ Ensure({<<e, p>>})
          /\ run' = [run EXCEPT ![t].picked = run[t].picked \ {p}]
    BY <1>2, <1>7
  <2>2. p \in targets[e] /\ targets[e] \subseteq Endpoint
    BY <1>t, <1>4 DEF Typed
  <2>3. <<e, p>> \in Delivery /\ <<e, p>> \in Job /\ <<e, p>>[1] = e /\ <<e, p>>[2] = p
    BY <2>2, Pairs
  <2>4. Known(<<e, p>>)
    BY <1>4, <2>2, <2>3, Pairs DEF IInv, Consistent, Deliveries, Known
  <2>5. Kept /\ \A j \in Job : j \in {<<e, p>>} => queue'[j] # "absent"
    <3>1. \A j \in Job : j \in {<<e, p>>} => j \in Delivery /\ Known(j)
      BY <2>3, <2>4
    <3> QED
      BY <1>3, <2>1, <3>1, EnsureKeeps
  <2>6. Forward /\ Known(e)'
    BY <1>1, <1>2, <2>5, KnownStays, Pairs DEF Kept, RunTold
  <2>7. PICK x : x = [run[t] EXCEPT !.picked = run[t].picked \ {p}]
    OBVIOUS
  <2>8. run' = [run EXCEPT ![t] = x]
    BY <2>1, <2>7
  <2>9. /\ x \in RunState /\ x.job = e /\ x.at = run[t].at
        /\ x.pc = "submit" /\ x.picked = run[t].picked \ {p}
    <3>1. run[t].picked \ {p} \in SUBSET Endpoint
      BY <1>4, <2>2
    <3> QED
      BY <1>1, <1>2, <2>7, <3>1 DEF RunState
  <2>10. /\ run' \in [Slot -> RunState] /\ run'[t] = x
         /\ \A u \in Slot : u # t => run'[u] = run[u]
    BY <1>t, <2>8, <2>9 DEF Typed
  <2>11. \A q \in targets[e] \ (run[t].picked \ {p}) : queue'[<<e, q>>] # "absent"
    <3> SUFFICES ASSUME NEW q \in targets[e] \ (run[t].picked \ {p}) PROVE queue'[<<e, q>>] # "absent"
      OBVIOUS
    <3>1. <<e, q>> \in Job
      BY <2>2, Pairs
    <3>2. CASE q = p
      BY <2>3, <2>5, <3>2
    <3>3. CASE q # p
      BY <1>5, <2>6, <3>1, <3>3 DEF Forward
    <3> QED
      BY <3>2, <3>3
  <2>12. RunTold(t)'
    BY <1>3, <1>4, <2>6, <2>9, <2>10, <2>11, Pairs DEF RunTold, Selecting, Delivering
  <2> QED
    BY <1>t, <1>3, <2>5, <2>10, <2>12, RunSettles DEF Typed
<1> QED
  BY <1>6, <1>7 DEF Submit
-----------------------------------------------------------------------------
(* A delivery's run.                                                       *)

\* What a delivery's run has to be able to say where it goes.
LEMMA Tells ==
  ASSUME IInv, Forward, NEW t \in Slot, NEW d \in Delivery, d = run[t].job,
         run[t].pc \in Delivering, run'[t].job = d, run'[t].at = run[t].at,
         run'[t].pc \in Delivering \cup Answer,
         run'[t].pc \in {"forget", "done"} => status'[d] \in Closed,
         run'[t].pc = "close" => status'[d] \in Closed \/ Excuse(d)',
         run'[t].pc \in {"begin", "post", "record"} =>
           status'[d] \in Closed \/ Len(run'[t].seen) < MaxAttempts,
         run'[t].pc = "record" /\ run'[t].ok => d \in acked'
  PROVE  RunTold(t)'
<1>1. RunTold(t)
  BY DEF IInv, Consistent, Runs
<1>2. Known(d)' /\ run[t].at \in Replica /\ d \in Job /\ d \notin Event
  BY <1>1, KnownStays, Pairs DEF RunTold, Delivering
<1> QED
  BY <1>2 DEF RunTold, Delivering, Answer, Selecting

\* What cannot be delivered is closed already, or for a reason.
LEMMA Undeliverable ==
  ASSUME IInv, NEW t \in Slot, NEW d \in Delivery, d = run[t].job,
         run[t].pc \in Delivering, ~Deliverable(t)
  PROVE  status[d] \in Closed \/ Excuse(d)
<1>t. Typed
  BY DEF IInv
<1>1. RunTold(t)
  BY DEF IInv, Consistent, Runs
<1>2. Known(d) /\ run[t].at \in Replica
  BY <1>1 DEF RunTold, Delivering
<1>3. EventOf(t) = d[1]
  BY Pairs DEF EventOf
<1>4. CASE ~serving[d[2]]
  BY <1>4, Pairs DEF IInv, Consistent, Present, Excuse
<1>5. CASE d[1] \in Volatile /\ d[1] \notin memory[run[t].at]
  <2>1. rank[d[1]] # 0 /\ d[2] \in targets[d[1]] /\ order[d[1]] # 0
    BY <1>2, Pairs DEF IInv, Consistent, Deliveries, Known
  <2>2. CASE happened # {} \/ Cardinality(Replica) > 1
    BY <1>5, <2>2 DEF Excuse
  <2>3. CASE happened = {} /\ ~(Cardinality(Replica) > 1)
    <3>1. Over(d[1])
      BY <1>2, <1>5, <2>1, <2>3 DEF IInv, Consistent, Present
    <3> QED
      BY <2>1, <3>1, Pairs DEF Over
  <2> QED
    BY <2>2, <2>3
<1> QED
  BY <1>3, <1>4, <1>5 DEF Deliverable

\* A run reads its delivery; what it does next rests on the status it read.
LEMMA LoadSettles ==
  ASSUME IInv, NEW t \in Slot, Load(t) \/ Reload(t)
  PROVE  Settles
<1>t. Typed
  BY DEF IInv
<1>1. RunTold(t) /\ run[t] \in RunState /\ run[t].pc \in {"load", "reload"}
  BY <1>t DEF IInv, Consistent, Runs, Typed, Load, Reload, At
<1>2. PICK d \in Delivery : d = run[t].job
  BY <1>1 DEF RunTold, Delivering
<1>3. /\ UNCHANGED <<order, rank, targets, status, attempts, waits, queue, acked, happened, left, holder>>
      /\ UNCHANGED <<serving, up, todo, memory>> /\ UNCHANGED Stores
  BY DEF Load, Reload, events, rows, jobs, procs, past, Stores
<1>4. Kept /\ Forward
  BY <1>3, StoresRest DEF Kept
<1>5. PICK next : /\ next = AfterLoad(t) \/ next = GoOn(t)
                  /\ Read(t, next)
  BY DEF Load, Reload
<1>6. GoOn(t) \in {"begin", "close"} /\ (GoOn(t) = "close" => ~Deliverable(t))
  BY DEF GoOn
<1>7. /\ next \in {"done", "later", "reset", "begin", "close"}
      /\ next = "done" => status[d] \in Closed
      /\ next = "close" => ~Deliverable(t)
  <2>1. CASE next = GoOn(t)
    BY <1>6, <2>1
  <2>2. CASE next = AfterLoad(t)
    <3>1. waits[d] \in BOOLEAN
      BY <1>t DEF Typed
    <3>2. CASE status[d] \in Closed
      <4>1. next = "done"
        BY <1>2, <2>2, <3>2 DEF AfterLoad, Closed
      <4> QED
        BY <3>2, <4>1
    <3>3. CASE status[d] \notin Closed /\ waits[d]
      <4>1. next = "later"
        BY <1>2, <2>2, <3>3 DEF AfterLoad
      <4> QED
        BY <4>1
    <3>4. CASE status[d] = "delivering" /\ ~waits[d]
      <4>1. next = "reset"
        BY <1>2, <2>2, <3>4 DEF AfterLoad, Closed
      <4> QED
        BY <4>1
    <3>5. CASE status[d] \notin Closed /\ status[d] # "delivering" /\ ~waits[d]
      <4>1. next = GoOn(t)
        BY <1>2, <2>2, <3>5 DEF AfterLoad
      <4> QED
        BY <1>6, <4>1
    <3> QED
      BY <3>1, <3>2, <3>3, <3>4, <3>5
  <2> QED
    BY <1>5, <2>1, <2>2
<1>8. PICK x : x = [run[t] EXCEPT !.seen = attempts[d], !.pc = next]
  OBVIOUS
<1>9. run' = [run EXCEPT ![t] = x]
  BY <1>2, <1>5, <1>8 DEF Read
<1>10. /\ x \in RunState /\ x.job = d /\ x.at = run[t].at /\ x.pc = next /\ x.seen = attempts[d]
  <2>1. attempts[d] \in Seq(Slot) /\ next \in Delivering \cup Answer
    BY <1>t, <1>7 DEF Typed, Delivering, Answer
  <2> QED
    BY <1>1, <1>2, <1>8, <2>1 DEF RunState
<1>11. /\ run' \in [Slot -> RunState] /\ run'[t] = x
       /\ \A u \in Slot : u # t => run'[u] = run[u]
  BY <1>t, <1>9, <1>10 DEF Typed
<1>12. next = "close" => status'[d] \in Closed \/ Excuse(d)'
  <2>1. run[t].pc \in Delivering
    BY <1>1 DEF Delivering
  <2>2. next = "close" => status[d] \in Closed \/ Excuse(d)
    BY <1>2, <1>7, <2>1, Undeliverable
  <2> QED
    BY <1>3, <1>4, <2>2, ExcuseStays
<1>13. status'[d] \in Closed \/ Len(x.seen) < MaxAttempts
  BY <1>3, <1>10 DEF IInv, Consistent, Reasons
<1>14. RunTold(t)'
  <2>1. run[t].pc \in Delivering /\ next \in Delivering \cup Answer /\ next \notin {"forget", "record"}
    BY <1>1, <1>7 DEF Delivering, Answer
  <2> QED
    BY <1>2, <1>3, <1>4, <1>7, <1>10, <1>11, <1>12, <1>13, <2>1, Tells
<1> QED
  BY <1>t, <1>3, <1>4, <1>11, <1>14, RunSettles DEF Typed

\* A run that has done its write, or left it, goes on.
LEMMA WriterSettles ==
  ASSUME IInv, Kept, NEW t \in Slot, NEW d \in Delivery, d = run[t].job,
         run[t].pc \in Delivering, NEW pc \in Delivering \cup Answer, Goto(t, pc),
         order' = order, UNCHANGED <<holder, serving, up, todo, memory, acked, happened, left>>,
         pc \notin {"close", "begin", "record"},
         pc \in {"forget", "done"} => status'[d] \in Closed,
         pc = "post" => status'[d] \in Closed \/ Len(run[t].seen) < MaxAttempts
  PROVE  Settles
<1>t. Typed
  BY DEF IInv
<1>1. /\ run' \in [Slot -> RunState] /\ \A u \in Slot : u # t => run'[u] = run[u]
      /\ run'[t].pc = pc /\ run'[t].job = d /\ run'[t].at = run[t].at
      /\ run'[t].seen = run[t].seen
  BY <1>t, GotoMoves
<1>2. Forward
  BY DEF Kept
<1>3. RunTold(t)'
  BY <1>1, <1>2, Tells
<1> QED
  BY <1>t, <1>1, <1>3, RunSettles DEF Typed

\* A run writes its delivery's row, or is refused.
LEMMA WritersSettle ==
  ASSUME IInv, NEW t \in Slot, Reset(t) \/ Close(t) \/ Begin(t) \/ Record(t)
  PROVE  Settles
<1>t. Typed
  BY DEF IInv
<1>1. RunTold(t) /\ run[t] \in RunState /\ run[t].pc \in {"reset", "close", "begin", "record"}
  BY <1>t DEF IInv, Consistent, Runs, Typed, Reset, Close, Begin, Record, At
<1>2. run[t].pc \in Delivering
  BY <1>1 DEF Delivering
<1>3. PICK d \in Delivery : d = run[t].job
  BY <1>1, <1>2 DEF RunTold
<1>4. /\ UNCHANGED <<order, holder, serving, up, todo, memory, acked, happened, left>>
      /\ UNCHANGED <<events, queue>>
  BY DEF Reset, Close, Begin, Record, events, jobs, procs, past
<1>5. CASE Reset(t)
  <2>1. Kept
    <3>1. Written(t)
      BY <1>4, <1>5 DEF Reset, Written
    <3> QED
      BY <1>4, <3>1, WrittenKeeps
  <2>2. Goto(t, "reload") /\ "reload" \in Delivering \cup Answer
    BY <1>5 DEF Reset, Delivering
  <2> QED
    BY <1>2, <1>3, <1>4, <2>1, <2>2, WriterSettles
<1>6. CASE Close(t)
  <2>1. status[d] # "none" /\ (status[d] \in Closed \/ Excuse(d))
    BY <1>1, <1>3, <1>6, Pairs DEF RunTold, Known, Close, At
  <2>2. Kept /\ status'[d] \in Closed
    BY <1>3, <1>4, <1>6, <2>1, CloseKeeps DEF Close
  <2>3. Goto(t, "forget") /\ "forget" \in Delivering \cup Answer
    BY <1>6 DEF Close, Delivering
  <2> QED
    BY <1>2, <1>3, <1>4, <2>2, <2>3, WriterSettles
<1>7. CASE Begin(t)
  <2>1. CASE Update(d, "delivering", run[t].seen) /\ Goto(t, "post")
    <3>1. Kept
      BY <1>3, <1>4, <1>7, <2>1, BeginKeeps DEF Begin
    <3>2. status'[d] \in Closed \/ Len(run[t].seen) < MaxAttempts
      <4>1. status[d] \notin Closed
        BY <2>1, <1>t DEF Update, MayUpdate, ValidTransition, Closed
      <4> QED
        BY <1>1, <1>3, <1>7, <4>1 DEF RunTold, Begin, At
    <3>3. "post" \in Delivering \cup Answer
      BY DEF Delivering
    <3> QED
      BY <1>2, <1>3, <1>4, <2>1, <3>1, <3>2, <3>3, WriterSettles
  <2>2. CASE Goto(t, "rejected") /\ UNCHANGED rows
    <3>1. Kept
      <4>1. UNCHANGED Stores
        BY <1>4, <2>2 DEF Stores
      <4> QED
        BY <1>4, <4>1, StoresRest
    <3>2. "rejected" \in Delivering \cup Answer
      BY DEF Answer
    <3> QED
      BY <1>2, <1>3, <1>4, <2>2, <3>1, <3>2, WriterSettles
  <2> QED
    BY <1>3, <1>7, <2>1, <2>2 DEF Begin
<1>8. CASE Record(t)
  <2>1. CASE /\ Update(d, Outcome(t), Tried(t))
             /\ Goto(t, IF Outcome(t) = "pending" THEN "later" ELSE "forget")
    <3>1. Kept /\ status'[d] = Outcome(t)
      BY <1>3, <1>4, <1>8, <2>1, RecordKeeps DEF Record
    <3>2. PICK pc : pc = IF Outcome(t) = "pending" THEN "later" ELSE "forget"
      OBVIOUS
    <3>3. pc \in {"later", "forget"} /\ (pc = "forget" => status'[d] \in Closed)
      BY <3>1, <3>2 DEF Outcome, Closed
    <3>4. pc \in Delivering \cup Answer /\ Goto(t, pc)
      BY <2>1, <3>2, <3>3 DEF Delivering, Answer
    <3> QED
      BY <1>2, <1>3, <1>4, <3>1, <3>3, <3>4, WriterSettles
  <2>2. CASE Goto(t, "later") /\ UNCHANGED rows
    <3>1. Kept
      <4>1. UNCHANGED Stores
        BY <1>4, <2>2 DEF Stores
      <4> QED
        BY <1>4, <4>1, StoresRest
    <3>2. "later" \in Delivering \cup Answer
      BY DEF Answer
    <3> QED
      BY <1>2, <1>3, <1>4, <2>2, <3>1, <3>2, WriterSettles
  <2> QED
    BY <1>3, <1>8, <2>1, <2>2 DEF Record
<1> QED
  BY <1>5, <1>6, <1>7, <1>8

\* A run posts.
LEMMA PostSettles ==
  ASSUME IInv, NEW t \in Slot, Post(t)
  PROVE  Settles
<1>t. Typed
  BY DEF IInv
<1>1. RunTold(t) /\ run[t] \in RunState /\ run[t].pc = "post"
  BY <1>t DEF IInv, Consistent, Runs, Typed, Post, At
<1>2. PICK d \in Delivery : d = run[t].job
  BY <1>1 DEF RunTold, Delivering
<1>3. /\ UNCHANGED <<order, rank, targets, status, attempts, waits, queue, happened, left, holder>>
      /\ UNCHANGED <<serving, up, todo, memory>> /\ UNCHANGED Stores
  BY DEF Post, events, rows, jobs, procs, past, Stores
<1>4. PICK ok \in BOOLEAN :
        /\ run' = [run EXCEPT ![t].pc = "record", ![t].ok = ok, ![t].caught = TRUE]
        /\ \/ acked' = acked \cup {run[t].job}
           \/ ~ok /\ UNCHANGED acked
  BY DEF Post
<1>5. acked \subseteq acked' /\ acked' \in SUBSET Delivery /\ (ok => d \in acked')
  BY <1>t, <1>2, <1>4 DEF Typed
<1>6. Kept /\ Forward
  BY <1>3, <1>5, StoresRest DEF Kept
<1>7. PICK x : x = [run[t] EXCEPT !.pc = "record", !.ok = ok, !.caught = TRUE]
  OBVIOUS
<1>8. run' = [run EXCEPT ![t] = x]
  BY <1>4, <1>7
<1>9. /\ x \in RunState /\ x.job = d /\ x.at = run[t].at /\ x.pc = "record"
      /\ x.seen = run[t].seen /\ x.ok = ok
  BY <1>1, <1>2, <1>7 DEF RunState, Delivering
<1>10. /\ run' \in [Slot -> RunState] /\ run'[t] = x
       /\ \A u \in Slot : u # t => run'[u] = run[u]
  BY <1>t, <1>8, <1>9 DEF Typed
<1>11. RunTold(t)'
  <2>1. status'[d] \in Closed \/ Len(x.seen) < MaxAttempts
    BY <1>1, <1>2, <1>3, <1>9 DEF RunTold
  <2>2. run[t].pc \in Delivering /\ x.pc \in Delivering \cup Answer
    BY <1>1, <1>9 DEF Delivering
  <2> QED
    BY <1>2, <1>5, <1>6, <1>9, <1>10, <2>1, <2>2, Tells
<1> QED
  BY <1>t, <1>3, <1>5, <1>6, <1>10, <1>11, RunSettles DEF Typed

\* A run forgets the body of an event that is over.
LEMMA ForgetSettles ==
  ASSUME IInv, NEW t \in Slot, Forget(t)
  PROVE  Settles
<1>t. Typed
  BY DEF IInv
<1>1. RunTold(t) /\ run[t] \in RunState /\ run[t].pc = "forget"
  BY <1>t DEF IInv, Consistent, Runs, Typed, Forget, At
<1>2. PICK d \in Delivery : d = run[t].job
  BY <1>1 DEF RunTold, Delivering
<1>3. /\ UNCHANGED <<order, rank, targets, status, attempts, waits, queue, acked, happened, left, holder>>
      /\ UNCHANGED <<serving, up, todo>> /\ UNCHANGED Stores
  BY DEF Forget, events, rows, jobs, procs, past, Stores
<1>4. Kept /\ Forward
  BY <1>3, StoresRest DEF Kept
<1>5. run[t].at \in Replica /\ EventOf(t) = d[1] /\ d[1] \in Event /\ status[d] \in Closed
  BY <1>1, <1>2, Pairs DEF RunTold, EventOf
<1>6. PICK done \in BOOLEAN : done = \A p \in targets[d[1]] : status[<<d[1], p>>] \in Closed
  OBVIOUS
<1>7. ForgetIf(done, t) /\ Goto(t, "done")
  BY <1>5, <1>6 DEF Forget
<1>8. /\ memory' \in [Replica -> SUBSET Volatile]
      /\ \A r \in Replica : \A o \in memory[r] : o \in memory'[r] \/ (done /\ o = d[1])
  BY <1>t, <1>5, <1>7, ForgetForgets
<1>9. done => Over(d[1])'
  <2>1. rank[d[1]] # 0
    BY <1>5 DEF IInv, Consistent, Deliveries, Closed
  <2> QED
    BY <1>3, <1>6, <2>1 DEF Over
<1>10. /\ run' \in [Slot -> RunState] /\ \A u \in Slot : u # t => run'[u] = run[u]
       /\ run'[t].pc = "done" /\ run'[t].job = d /\ run'[t].at = run[t].at
  BY <1>t, <1>2, <1>7, GotoMoves DEF Answer
<1>11. RunTold(t)'
  <2>1. run[t].pc \in Delivering /\ run'[t].pc \in Delivering \cup Answer
    BY <1>1, <1>10 DEF Delivering, Answer
  <2> QED
    BY <1>2, <1>3, <1>4, <1>5, <1>10, <2>1, Tells
<1> QED
  BY <1>t, <1>3, <1>4, <1>8, <1>9, <1>10, <1>11, RunSettles DEF Typed

\* A run whose call to a store throws.
LEMMA FailSettles ==
  ASSUME IInv, NEW t \in Slot, StoreFails(t)
  PROVE  Settles
<1>t. Typed
  BY DEF IInv
<1>1. RunTold(t) /\ run[t] \in RunState /\ run[t].pc \in Selecting \cup Delivering
  BY <1>t DEF IInv, Consistent, Runs, Typed, StoreFails
<1>2. /\ happened \subseteq happened' /\ happened' \subseteq Happenings /\ happened' # {}
      /\ left' \in 0 .. MaxHappenings
  BY <1>t, HappensOnce DEF StoreFails
<1>3. UNCHANGED <<holder, serving, up, todo, memory, acked>>
  BY DEF StoreFails, procs
<1>4. Kept
  <2>1. CASE Written(t)
    BY <1>2, <1>3, <2>1, WrittenKeeps
  <2>2. CASE UNCHANGED <<events, rows, queue>>
    BY <1>2, <1>3, <2>2, StoresRest DEF Stores
  <2> QED
    BY <2>1, <2>2 DEF StoreFails
<1>5. order' = order
  BY DEF StoreFails, Written, WriteDeliveries, Ensure, events, rows
<1>6. PICK pc \in {"later", "rejected"} : Goto(t, pc)
  BY DEF StoreFails
<1>7. /\ run' \in [Slot -> RunState] /\ \A u \in Slot : u # t => run'[u] = run[u]
      /\ run'[t].pc = pc /\ run'[t].job = run[t].job /\ run'[t].at = run[t].at
  BY <1>t, <1>6, GotoMoves DEF Answer
<1>8. PICK j : j = run[t].job
  OBVIOUS
<1>9. j \in Job /\ run[t].at \in Replica /\ Known(j)'
  BY <1>1, <1>4, <1>8, KnownStays DEF RunTold, Selecting, Delivering, Kept
<1>10. RunTold(t)'
  BY <1>7, <1>8, <1>9 DEF RunTold, Selecting, Delivering
<1> QED
  BY <1>t, <1>2, <1>3, <1>4, <1>5, <1>7, <1>10, RunSettles DEF Typed

\* A run answers the queue.
LEMMA FinishSettles ==
  ASSUME IInv, NEW t \in Slot, Finish(t)
  PROVE  Settles
<1>t. Typed
  BY DEF IInv
<1>1. RunTold(t) /\ run[t] \in RunState /\ run[t].pc \in Answer
  BY <1>t DEF IInv, Consistent, Runs, Typed, Finish
<1>2. PICK j \in Job : j = run[t].job
  BY <1>1 DEF RunTold, Answer
<1>3. /\ UNCHANGED <<order, rank, targets, status, attempts, waits, acked, happened, left>>
      /\ UNCHANGED <<serving, up, todo, memory>>
  BY DEF Finish, events, rows, procs, past
<1>4. /\ Known(j)
      /\ run[t].pc = "done" /\ j \in Event =>
           rank[j] # 0 /\ \A p \in targets[j] : queue[<<j, p>>] # "absent"
      /\ run[t].pc = "done" /\ j \in Delivery => status[j] \in Closed
  BY <1>1, <1>2 DEF RunTold, Answer
<1>5. PICK v \in {"succeeded", "asleep", "failed"} :
        v = Verdict[run[t].pc] /\ (v = "succeeded" => run[t].pc = "done")
  <2>1. /\ run[t].pc = "done" => Verdict[run[t].pc] = "succeeded"
        /\ run[t].pc = "later" => Verdict[run[t].pc] = "asleep"
        /\ run[t].pc = "rejected" => Verdict[run[t].pc] = "failed"
    BY DEF Verdict
  <2> QED
    BY <1>1, <2>1 DEF Answer
<1>6. \/ queue' = [queue EXCEPT ![j] = v] /\ holder' = [holder EXCEPT ![j] = NoSlot] /\ queue[j] = "granted"
      \/ queue' = queue /\ holder' = holder
  BY <1>2, <1>5 DEF Finish, jobs
<1>7. /\ queue' \in [Job -> {"absent"} \cup Unfinished \cup Closed]
      /\ holder' \in [Job -> Slot \cup {NoSlot}]
      /\ \A i \in Job : queue[i] # "absent" <=> queue'[i] # "absent"
      /\ \A i \in Job : queue'[i] = "succeeded" => queue[i] = "succeeded" \/ (i = j /\ run[t].pc = "done")
  BY <1>t, <1>5, <1>6 DEF Typed, Unfinished, Closed
<1>8. Forward
  BY <1>t, <1>3, <1>7, StillForward
<1>9. run' \in [Slot -> RunState] /\ run'[t].pc = "idle" /\ \A u \in Slot : u # t => run'[u] = run[u]
  <2>1. Idle \in RunState /\ Idle.pc = "idle"
    BY DEF Idle, Fresh, RunState
  <2> QED
    BY <1>t, <2>1 DEF Finish, Typed
<1>10. Typed'
  BY <1>t, <1>3, <1>7, <1>9 DEF Typed
<1>11. Jobs'
  <2>1. \A i \in Job : queue'[i] # "absent" => Known(i)'
    BY <1>7, <1>8, KnownStays DEF IInv, Consistent, Jobs
  <2>2. \A r \in Replica : \A i \in todo'[r] : Known(i)'
    <3> SUFFICES ASSUME NEW r \in Replica, NEW i \in todo[r] PROVE Known(i)'
      BY <1>3
    <3>1. i \in Job /\ Known(i)
      BY <1>t DEF Typed, IInv, Consistent, Jobs
    <3> QED
      BY <1>8, <3>1, KnownStays
  <2>3. SelectionComplete'
    <3> SUFFICES ASSUME NEW e \in Event, queue'[e] = "succeeded"
                 PROVE  rank'[e] # 0 /\ \A p \in targets'[e] : queue'[<<e, p>>] # "absent"
      BY DEF SelectionComplete
    <3>1. queue[e] = "succeeded" \/ (e = j /\ run[t].pc = "done")
      BY <1>7, Pairs
    <3>2. rank[e] # 0 /\ \A p \in targets[e] : queue[<<e, p>>] # "absent"
      BY <1>4, <3>1 DEF IInv, Consistent, Jobs, SelectionComplete
    <3>3. targets[e] \subseteq Endpoint
      BY <1>t DEF Typed
    <3> QED
      BY <1>3, <1>7, <3>2, <3>3, Pairs
  <2>4. DeliveredJobsClosed'
    BY <1>3, <1>4, <1>7, Pairs DEF IInv, Consistent, Jobs, DeliveredJobsClosed
  <2> QED
    BY <2>1, <2>2, <2>3, <2>4 DEF Jobs
<1>12. Runs'
  <2> SUFFICES ASSUME NEW u \in Slot PROVE RunTold(u)'
    BY DEF Runs
  <2>1. CASE u = t
    BY <1>9, <2>1 DEF RunTold, Selecting, Delivering
  <2>2. CASE u # t
    BY <1>8, <1>9, <2>2, RunStays
  <2> QED
    BY <2>1, <2>2
<1>13. Deliveries' /\ Reasons' /\ Present'
  <2>1. \A r \in Replica : \A e \in memory[r] : e \in memory'[r]
    BY <1>3
  <2> QED
    BY <1>3, <1>8, <2>1, DeliveriesStay, ReasonsStay, PresentStays
<1> QED
  BY <1>8, <1>10, <1>11, <1>12, <1>13 DEF Settles, IInv, Consistent

-----------------------------------------------------------------------------
(* Admission and recovery.                                                 *)

\* A single replica is every replica.
LEMMA OneReplica ==
  ASSUME ~(Cardinality(Replica) > 1), NEW r \in Replica, NEW q \in Replica
  PROVE  r = q
<1> SUFFICES ASSUME r # q PROVE FALSE
  OBVIOUS
<1>1. IsFiniteSet({q}) /\ Cardinality({q}) = 1
  BY FS_Singleton
<1>2. Cardinality({q} \cup {r}) = 2
  BY <1>1, FS_AddElement
<1>3. IsFiniteSet(Replica) /\ {q} \cup {r} \in SUBSET Replica
  BY WebhookAssumption
<1>4. Cardinality({q} \cup {r}) <= Cardinality(Replica) /\ Cardinality(Replica) \in Nat
  BY <1>3, FS_Subset, FS_CardinalityType
<1> QED
  BY <1>2, <1>4

\* An event is admitted: the transaction is committed.
LEMMA AdmitSettles ==
  ASSUME IInv, Doors, NEW e \in Event, Admit(e)
  PROVE  Settles
<1>t. Typed
  BY DEF IInv
<1>0. entry[e] # NoEntry
  BY DEF Admit
<1>1. PICK n \in Nat : n = entry[e].number /\ n # 0
  BY <1>0 DEF Doors
<1>r. PICK r \in Replica : r = entry[e].at
  BY <1>0 DEF Doors
<1>2. /\ order[e] = 0
      /\ order' = [order EXCEPT ![e] = n] /\ queue' = [queue EXCEPT ![e] = "open"]
      /\ UNCHANGED <<rank, targets, status, attempts, waits, holder, serving, up, todo, run, acked>>
  BY <1>0, <1>1 DEF Admit, Doors, rows, procs
<1>3. /\ happened \subseteq happened' /\ happened' \subseteq Happenings /\ left' \in 0 .. MaxHappenings
      /\ memory' \in [Replica -> SUBSET Volatile]
      /\ \A q \in Replica : memory[q] \subseteq memory'[q]
      /\ happened' = {} => Remembered(e) \subseteq memory'[r]
  <2>1. CASE memory' = [memory EXCEPT ![r] = @ \cup Remembered(e)] /\ UNCHANGED past
    BY <1>t, <2>1 DEF Typed, Remembered, past
  <2>2. CASE Happens("store") /\ UNCHANGED memory
    BY <1>t, <2>2, HappensOnce DEF Typed
  <2> QED
    BY <1>r, <2>1, <2>2 DEF Admit
<1>4. /\ order' \in [Event -> Nat] /\ order'[e] # 0
      /\ \A o \in Event : o # e => order'[o] = order[o]
  BY <1>t, <1>1, <1>2 DEF Typed
<1>5. /\ queue' \in [Job -> {"absent"} \cup Unfinished \cup Closed]
      /\ queue'[e] = "open" /\ \A i \in Job : i # e => queue'[i] = queue[i]
  BY <1>t, <1>2, Pairs DEF Typed, Unfinished
<1>6. Typed'
  BY <1>t, <1>2, <1>3, <1>4, <1>5 DEF Typed
<1>7. Forward
  BY <1>t, <1>2, <1>3, <1>4, <1>5, SameStands DEF Forward
<1>8. Deliveries'
  BY <1>2, <1>4 DEF IInv, Consistent, Deliveries
<1>9. Jobs'
  <2>1. \A j \in Job : queue'[j] # "absent" => queue[j] # "absent" \/ Known(j)'
    BY <1>4, <1>5 DEF Known
  <2>2. \A j \in Job : queue'[j] = "succeeded" => queue[j] = "succeeded"
    BY <1>5
  <2>3. \A q \in Replica : todo'[q] \subseteq Job /\ \A j \in todo'[q] : j \in todo[q]
    BY <1>t, <1>2 DEF Typed
  <2> QED
    BY <1>7, <2>1, <2>2, <2>3, JobsStay
<1>10. Reasons'
  BY <1>2, <1>7, ReasonsStay
<1>11. Present'
  <2>1. \A p \in Endpoint : ~serving'[p] => "edit" \in happened'
    BY <1>2, <1>3 DEF IInv, Consistent, Present
  <2>2. ASSUME happened' = {}, ~(Cardinality(Replica) > 1), NEW o \in Volatile, order'[o] # 0
        PROVE  Over(o)' \/ \A q \in Replica : o \in memory'[q]
    <3>1. happened = {} /\ o \in Event
      BY <1>3, <2>2, WebhookAssumption
    <3>2. CASE o = e
      <4>1. o \in memory'[r]
        BY <1>3, <2>2, <3>2 DEF Remembered
      <4> QED
        BY <2>2, <4>1, OneReplica
    <3>3. CASE o # e
      <4>1. Over(o) \/ \A q \in Replica : o \in memory[q]
        BY <1>4, <2>2, <3>1, <3>3 DEF IInv, Consistent, Present
      <4> QED
        BY <1>t, <1>3, <1>7, <3>1, <4>1, OverStays
    <3> QED
      BY <3>2, <3>3
  <2> QED
    BY <2>1, <2>2 DEF Present
<1>12. Runs'
  BY <1>2, <1>7, RunStays DEF Runs
<1> QED
  BY <1>6, <1>7, <1>8, <1>9, <1>10, <1>11, <1>12 DEF Settles, IInv, Consistent

\* An admission begins or fails, and leaves the stores alone; or an event is
\* admitted again, and a process remembers it.
LEMMA DoorSettles ==
  ASSUME IInv, NEW e \in Event, NEW r \in Replica,
         Enters(e, r) \/ AdmitFails(e) \/ AdmitAgain(e, r)
  PROVE  Settles
<1>t. Typed
  BY DEF IInv
<1>1. /\ UNCHANGED <<order, rank, targets, status, attempts, waits, queue, acked>>
      /\ UNCHANGED <<holder, serving, up, todo, run>> /\ UNCHANGED Stores
  BY DEF Enters, AdmitFails, AdmitAgain, events, rows, jobs, procs, Stores
<1>2. /\ happened \subseteq happened' /\ happened' \subseteq Happenings
      /\ left' \in 0 .. MaxHappenings
      /\ memory' \in [Replica -> SUBSET Volatile]
      /\ \A q \in Replica : memory[q] \subseteq memory'[q]
  <2>1. CASE Enters(e, r)
    BY <1>t, <2>1 DEF Enters, past, Typed
  <2>2. CASE AdmitFails(e)
    BY <1>t, <2>2, HappensOnce DEF AdmitFails, Typed
  <2>3. CASE AdmitAgain(e, r)
    BY <1>t, <2>3, WebhookAssumption DEF AdmitAgain, Remembered, Typed
  <2> QED
    BY <2>1, <2>2, <2>3
<1>3. Kept /\ Forward
  BY <1>1, <1>2, StoresRest DEF Kept
<1>4. Typed'
  BY <1>t, <1>1, <1>2 DEF Typed
<1>5. Jobs'
  <2>1. \A q \in Replica : todo'[q] \subseteq Job /\ \A j \in todo'[q] : j \in todo[q]
    BY <1>t, <1>1 DEF Typed
  <2> QED
    BY <1>3, <2>1, JobsStay DEF Kept
<1>6. Present'
  BY <1>1, <1>2, <1>3, PresentStays
<1>7. Runs'
  BY <1>1, <1>3, RunStays DEF Runs
<1> QED
  BY <1>3, <1>4, <1>5, <1>6, <1>7 DEF Settles, IInv, Consistent, Kept

\* A process and its runs are gone.
LEMMA CrashSettles ==
  ASSUME IInv, NEW r \in Replica, Crash(r)
  PROVE  Settles
<1>t. Typed
  BY DEF IInv
<1>1. /\ UNCHANGED <<order, rank, targets, status, attempts, waits, queue, acked, holder, serving>>
      /\ UNCHANGED Stores
  BY DEF Crash, events, rows, jobs, Stores
<1>2. /\ happened \subseteq happened' /\ happened' \subseteq Happenings /\ happened' # {}
      /\ left' \in 0 .. MaxHappenings
  BY <1>t, HappensOnce DEF Crash
<1>3. Kept /\ Forward
  BY <1>1, <1>2, StoresRest DEF Kept
<1>4. Idle \in RunState /\ Idle.pc = "idle"
  BY DEF Idle, Fresh, RunState
<1>5. /\ run' \in [Slot -> RunState]
      /\ \A u \in Slot : run'[u] = Idle \/ run'[u] = run[u]
  BY <1>t, <1>4 DEF Crash, Typed
<1>6. /\ up' \in [Replica -> {"down", "events", "deliveries", "up"}]
      /\ todo' \in [Replica -> SUBSET Job] /\ memory' \in [Replica -> SUBSET Volatile]
      /\ \A q \in Replica : todo'[q] \subseteq todo[q]
  BY <1>t DEF Crash, Typed
<1>7. Typed'
  BY <1>t, <1>1, <1>2, <1>5, <1>6 DEF Typed
<1>8. Jobs'
  <2>1. \A q \in Replica : todo'[q] \subseteq Job /\ \A j \in todo'[q] : j \in todo[q]
    BY <1>6
  <2> QED
    BY <1>3, <2>1, JobsStay DEF Kept
<1>9. Present'
  BY <1>1, <1>2 DEF IInv, Consistent, Present
<1>10. Runs'
  <2> SUFFICES ASSUME NEW u \in Slot PROVE RunTold(u)'
    BY DEF Runs
  <2>1. CASE run'[u] = Idle
    BY <1>4, <2>1 DEF RunTold, Selecting, Delivering
  <2>2. CASE run'[u] = run[u]
    BY <1>3, <2>2, RunStays
  <2> QED
    BY <1>5, <2>1, <2>2
<1> QED
  BY <1>3, <1>7, <1>8, <1>9, <1>10 DEF Settles, IInv, Consistent, Kept

\* What recovery lists is known, and stays so while it visits it.
LEMMA RecoverySettles ==
  ASSUME IInv, NEW r \in Replica, Recovers(r)
  PROVE  Settles
<1>t. Typed
  BY DEF IInv
<1>1. /\ UNCHANGED <<order, rank, targets, status, attempts, waits, acked, holder, serving>>
      /\ UNCHANGED <<memory, run, happened, left>>
  BY DEF Recovers, Boot, Proceed, RecoverJob, events, rows, jobs, past
<1>2. /\ queue' \in [Job -> {"absent"} \cup Unfinished \cup Closed]
      /\ up' \in [Replica -> {"down", "events", "deliveries", "up"}]
      /\ todo' \in [Replica -> SUBSET Job]
      /\ \A q \in Replica : \A j \in todo'[q] : j \in todo[q] \/ Known(j)
      /\ \A j \in Job : queue[j] # "absent" => queue'[j] # "absent"
      /\ \A j \in Job : queue'[j] # "absent" => queue[j] # "absent" \/ Known(j)
      /\ \A j \in Job : queue'[j] = "succeeded" => queue[j] = "succeeded"
  <2>1. CASE Boot(r)
    <3>1. queue' = queue /\ up' = [up EXCEPT ![r] = "events"]
      BY <2>1 DEF Boot, jobs
    <3>2. PICK S : S = {e \in Event : order[e] # 0 /\ rank[e] = 0}
      OBVIOUS
    <3>3. todo' = [todo EXCEPT ![r] = S]
      BY <2>1, <3>2 DEF Boot
    <3>4. S \in SUBSET Job /\ \A j \in S : Known(j)
      BY <3>2, Pairs DEF Known
    <3> QED
      BY <1>t, <3>1, <3>3, <3>4 DEF Typed
  <2>2. CASE Proceed(r)
    <3>1. queue' = queue
      BY <2>2 DEF Proceed, jobs
    <3>2. CASE up' = [up EXCEPT ![r] = "up"] /\ UNCHANGED todo
      BY <1>t, <3>1, <3>2 DEF Typed
    <3>3. PICK S : S = {d \in Delivery : status[d] \in {"pending", "delivering"}}
      OBVIOUS
    <3>4. S \in SUBSET Job /\ \A j \in S : Known(j)
      BY <3>3, Pairs DEF Known
    <3>5. CASE up' = [up EXCEPT ![r] = "deliveries"] /\ todo' = [todo EXCEPT ![r] = S]
      BY <1>t, <3>1, <3>4, <3>5 DEF Typed
    <3> QED
      BY <2>2, <3>2, <3>3, <3>5 DEF Proceed
  <2>3. ASSUME NEW j \in Job, RecoverJob(r, j)
        PROVE  /\ queue' \in [Job -> {"absent"} \cup Unfinished \cup Closed]
               /\ up' \in [Replica -> {"down", "events", "deliveries", "up"}]
               /\ todo' \in [Replica -> SUBSET Job]
               /\ \A q \in Replica : \A i \in todo'[q] : i \in todo[q] \/ Known(i)
               /\ \A i \in Job : queue[i] # "absent" => queue'[i] # "absent"
               /\ \A i \in Job : queue'[i] # "absent" => queue[i] # "absent" \/ Known(i)
               /\ \A i \in Job : queue'[i] = "succeeded" => queue[i] = "succeeded"
    <3>1. Known(j)
      BY <2>3 DEF RecoverJob, IInv, Consistent, Jobs
    <3>2. PICK x \in {queue[j], "asleep", "open"} : queue' = [queue EXCEPT ![j] = x]
      BY <2>3 DEF RecoverJob
    <3>3. todo' = [todo EXCEPT ![r] = todo[r] \ {j}] /\ up' = up
      BY <2>3 DEF RecoverJob
    <3>4. /\ todo' \in [Replica -> SUBSET Job]
          /\ \A q \in Replica : \A i \in todo'[q] : i \in todo[q]
      BY <1>t, <3>3 DEF Typed
    <3>5. x \in {"absent"} \cup Unfinished \cup Closed
      <4>1. queue[j] \in {"absent"} \cup Unfinished \cup Closed
        BY <1>t DEF Typed
      <4>2. "asleep" \in Unfinished /\ "open" \in Unfinished
        BY DEF Unfinished
      <4>3. x = queue[j] \/ x = "asleep" \/ x = "open"
        OBVIOUS
      <4> QED
        BY <4>1, <4>2, <4>3
    <3>6. /\ queue'[j] = x /\ \A i \in Job : i # j => queue'[i] = queue[i]
          /\ queue' \in [Job -> {"absent"} \cup Unfinished \cup Closed]
      BY <1>t, <3>2, <3>5 DEF Typed
    <3>7. up' \in [Replica -> {"down", "events", "deliveries", "up"}]
      BY <1>t, <3>3 DEF Typed
    <3> QED
      BY <3>1, <3>2, <3>4, <3>6, <3>7
  <2> QED
    BY <2>1, <2>2, <2>3 DEF Recovers
<1>3. Forward
  BY <1>t, <1>1, <1>2, StillForward
<1>4. Typed'
  BY <1>t, <1>1, <1>2 DEF Typed
<1>5. Jobs'
  <2>1. \A j \in Job : queue'[j] # "absent" => queue[j] # "absent" \/ Known(j)'
    BY <1>2, <1>3, KnownStays
  <2>2. \A q \in Replica : todo'[q] \subseteq Job /\ \A j \in todo'[q] : j \in todo[q] \/ Known(j)'
    BY <1>2, <1>3, KnownStays
  <2> QED
    BY <1>2, <1>3, <2>1, <2>2, JobsStay
<1>6. Deliveries' /\ Reasons' /\ Present'
  <2>1. \A q \in Replica : \A e \in memory[q] : e \in memory'[q]
    BY <1>1
  <2> QED
    BY <1>1, <1>3, <2>1, DeliveriesStay, ReasonsStay, PresentStays
<1>7. Runs'
  BY <1>1, <1>3, RunStays DEF Runs
<1> QED
  BY <1>3, <1>4, <1>5, <1>6, <1>7 DEF Settles, IInv, Consistent

-----------------------------------------------------------------------------
(* The theorems.                                                           *)

\* The program starts in order.
LEMMA Start == Init => IInv
<1> SUFFICES ASSUME Init PROVE IInv
  OBVIOUS
<1> USE DEF Init
<1>1. Idle \in RunState /\ Idle.pc = "idle"
  BY DEF Idle, Fresh, RunState
<1>2. Typed
  BY <1>1, WebhookAssumption DEF Typed
<1>3. Deliveries
  BY Pairs DEF Deliveries
<1>4. Jobs
  BY Pairs DEF Jobs, SelectionComplete, DeliveredJobsClosed
<1>5. Reasons
  BY WebhookAssumption DEF Reasons
<1>6. Present
  BY WebhookAssumption DEF Present
<1>7. Runs
  BY <1>1 DEF Runs, RunTold, Selecting, Delivering
<1> QED
  BY <1>2, <1>3, <1>4, <1>5, <1>6, <1>7 DEF IInv, Consistent

\* All steps of a run.
LEMMA RunStepSettles ==
  ASSUME IInv, NEW t \in Slot, RunStep(t)
  PROVE  Settles
BY SelectSettles, MaterializeSettles, SubmitSettles, LoadSettles, WritersSettle,
   PostSettles, ForgetSettles, FinishSettles DEF RunStep

\* Every step keeps the invariant, and loses nothing that was written.
LEMMA StepSettles == IInv /\ Doors /\ [Next]_vars => Settles
<1> SUFFICES ASSUME IInv, Doors, [Next]_vars PROVE Settles
  OBVIOUS
<1>1. CASE UNCHANGED vars
  <2>1. /\ UNCHANGED <<order, rank, targets, status, attempts, waits, queue, holder, serving>>
        /\ UNCHANGED <<up, todo, memory, run, acked, happened, left>> /\ UNCHANGED Stores
    BY <1>1 DEF vars, events, rows, jobs, procs, past, Stores
  <2>2. Kept
    BY <2>1, StoresRest
  <2> QED
    BY <2>1, <2>2, StoreSettles DEF IInv, Typed
<1>2. CASE \E e \in Event, r \in Replica : Enters(e, r) \/ AdmitAgain(e, r)
  BY <1>2, DoorSettles
<1>9. CASE \E e \in Event : Admit(e) \/ AdmitFails(e)
  <2>1. PICK e \in Event : Admit(e) \/ AdmitFails(e)
    BY <1>9
  <2>2. CASE Admit(e)
    BY <2>2, AdmitSettles
  <2>3. CASE AdmitFails(e)
    <3>1. entry[e].at \in Replica
      BY <2>3 DEF AdmitFails, Doors
    <3> QED
      BY <2>3, <3>1, DoorSettles
  <2> QED
    BY <2>1, <2>2, <2>3
<1>3. CASE \E p \in Endpoint : Edit(p)
  BY <1>3, EditSettles
<1>4. CASE \E t \in Slot : RunStep(t) \/ StoreFails(t)
  BY <1>4, RunStepSettles, FailSettles
<1>5. CASE \E t \in Slot, r \in Replica, j \in Job : Claim(t, r, j)
  BY <1>5, ClaimSettles
<1>6. CASE \E j \in Job : Wake(j) \/ LeaseEnds(j) \/ LeaseLost(j)
  BY <1>6, WakeSettles, LeaseSettles
<1>7. CASE \E d \in Delivery : RetryDue(d)
  BY <1>7, RetrySettles
<1>8. CASE \E r \in Replica : Crash(r) \/ Recovers(r)
  BY <1>8, CrashSettles, RecoverySettles
<1> QED
  BY <1>1, <1>2, <1>3, <1>4, <1>5, <1>6, <1>7, <1>8, <1>9 DEF Next

\* Nobody is being admitted at first.
LEMMA DoorsStart == Init => Doors
BY DEF Init, Doors, Number, NoEntry

\* A number is drawn that nobody has.
LEMMA EntersDoors ==
  ASSUME IInv, Doors, NEW e \in Event, NEW r \in Replica, Enters(e, r)
  PROVE  Doors'
<1>1. /\ order[e] = 0 /\ serial \in Nat /\ serial' = serial + 1
      /\ UNCHANGED <<order, passed>>
  BY DEF Enters, events, Doors
<1>2. PICK n \in Nat : n = serial + 1
  BY <1>1
<1>3. /\ entry' = [entry EXCEPT ![e] = [at |-> r, number |-> n]]
      /\ entry \in [Event -> [at : Replica \cup {NoSlot}, number : Nat]]
  BY <1>1, <1>2 DEF Enters, Doors
<1>4. /\ entry' \in [Event -> [at : Replica \cup {NoSlot}, number : Nat]]
      /\ entry'[e].at = r /\ entry'[e].number = n
      /\ \A x \in Event : x # e => entry'[x] = entry[x]
  BY <1>3
<1>5. /\ Number(e)' = n
      /\ \A x \in Event : x # e => Number(x)' = Number(x)
  BY <1>1, <1>4 DEF Number
<1>6. \A x \in Event : Number(x) \in Nat /\ Number(x) <= serial
  BY DEF Doors, Number, IInv, Typed
<1>7. \A x \in Event : entry'[x] # NoEntry =>
        entry'[x].at \in Replica /\ order'[x] = 0 /\ entry'[x].number # 0
  BY <1>1, <1>2, <1>4 DEF Doors
<1>8. /\ \A x \in Event : Number(x)' <= serial'
      /\ \A x, y \in Event : x # y /\ Number(x)' # 0 => Number(x)' # Number(y)'
  BY <1>1, <1>2, <1>5, <1>6 DEF Doors
<1> QED
  BY <1>1, <1>4, <1>7, <1>8 DEF Doors

\* Admissions end: a number is kept by its event, or dropped.
LEMMA LeavesDoors ==
  ASSUME IInv, Doors, UNCHANGED serial, passed' \subseteq Event \X Event,
         entry' \in [Event -> [at : Replica \cup {NoSlot}, number : Nat]],
         \A e \in Event : (entry'[e] = entry[e] /\ order'[e] = order[e])
           \/ (entry'[e] = NoEntry /\ order'[e] \in {order[e], Number(e)})
  PROVE  Doors'
<1>1. NoEntry.number = 0
  BY DEF NoEntry
<1>2. \A e \in Event : Number(e) \in Nat /\ Number(e) <= serial /\ order[e] \in Nat
  BY DEF Doors, Number, IInv, Typed
<1>3. \A e \in Event : Number(e)' = Number(e) \/ Number(e)' = 0
  BY <1>1 DEF Number
<1>4. \A e \in Event : entry'[e] # NoEntry =>
        entry'[e].at \in Replica /\ order'[e] = 0 /\ entry'[e].number # 0
  BY DEF Doors
<1>5. /\ \A e \in Event : Number(e)' <= serial'
      /\ \A e, x \in Event : e # x /\ Number(e)' # 0 => Number(e)' # Number(x)'
  BY <1>2, <1>3 DEF Doors
<1> QED
  BY <1>4, <1>5 DEF Doors

\* Every step keeps the numbers apart.
LEMMA StepDoors == IInv /\ Doors /\ [Next]_vars => Doors'
<1> SUFFICES ASSUME IInv, Doors, [Next]_vars PROVE Doors'
  OBVIOUS
<1>0. NoEntry \in [at : Replica \cup {NoSlot}, number : Nat]
  BY DEF NoEntry
<1>1. CASE UNCHANGED <<entries, order>>
  BY <1>1 DEF entries, Doors, Number
<1>2. CASE \E e \in Event, r \in Replica : Enters(e, r)
  BY <1>2, EntersDoors
<1>3. CASE \E e \in Event : AdmitFails(e)
  <2>1. PICK e \in Event : AdmitFails(e)
    BY <1>3
  <2>2. /\ entry' = [entry EXCEPT ![e] = NoEntry]
        /\ UNCHANGED <<serial, passed, order>>
    BY <2>1 DEF AdmitFails, events
  <2> QED
    BY <1>0, <2>2, LeavesDoors DEF Doors
<1>4. CASE \E e \in Event : Admit(e)
  <2>1. PICK e \in Event : Admit(e)
    BY <1>4
  <2>2. PICK n \in Nat : n = entry[e].number /\ n = Number(e)
    BY <2>1 DEF Admit, Doors, Number
  <2>3. /\ entry' = [entry EXCEPT ![e] = NoEntry] /\ order' = [order EXCEPT ![e] = n]
        /\ serial' = serial /\ passed' \subseteq Event \X Event
    BY <2>1, <2>2 DEF Admit, Doors
  <2>4. /\ entry' \in [Event -> [at : Replica \cup {NoSlot}, number : Nat]]
        /\ entry'[e] = NoEntry /\ \A x \in Event : x # e => entry'[x] = entry[x]
    BY <1>0, <2>3 DEF Doors
  <2>5. order'[e] = Number(e) /\ \A x \in Event : x # e => order'[x] = order[x]
    BY <2>2, <2>3 DEF IInv, Typed
  <2> QED
    BY <2>3, <2>4, <2>5, LeavesDoors
<1>5. CASE \E r \in Replica : Crash(r)
  <2>1. PICK r \in Replica : Crash(r)
    BY <1>5
  <2>2. /\ entry' = [e \in Event |-> IF entry[e].at = r THEN NoEntry ELSE entry[e]]
        /\ UNCHANGED <<serial, passed, order>>
    BY <2>1 DEF Crash, events
  <2> QED
    BY <1>0, <2>2, LeavesDoors DEF Doors
<1> QED
  <2>1. CASE UNCHANGED vars
    BY <1>1, <2>1 DEF vars, events
  <2>2. CASE \E e \in Event, r \in Replica : AdmitAgain(e, r)
    BY <1>1, <2>2 DEF AdmitAgain, events
  <2>3. CASE \E t \in Slot : RunStep(t) \/ StoreFails(t)
    BY <1>1, <2>3 DEF RunStep, Select, Materialize, Submit, Load, Reset, Reload, Close,
       Begin, Post, Record, Forget, Finish, StoreFails, Written, events
  <2>4. CASE \/ \E p \in Endpoint : Edit(p)
             \/ \E t \in Slot, r \in Replica, j \in Job : Claim(t, r, j)
             \/ \E j \in Job : Wake(j) \/ LeaseEnds(j) \/ LeaseLost(j)
             \/ \E d \in Delivery : RetryDue(d)
             \/ \E r \in Replica : Recovers(r)
    BY <1>1, <2>4 DEF Edit, Claim, Wake, LeaseEnds, LeaseLost, TakeBack, RetryDue,
       Recovers, Boot, Proceed, RecoverJob, events
  <2> QED
    BY <1>2, <1>3, <1>4, <1>5, <2>1, <2>2, <2>3, <2>4 DEF Next

\* Stores, queue, runs and admissions agree, through every interleaving and every
\* fault.
THEOREM Invariance == Spec => [](IInv /\ Doors)
<1>1. IInv /\ Doors /\ [Next]_vars => (IInv /\ Doors)'
  BY StepSettles, StepDoors DEF Settles
<1> QED
  BY Start, DoorsStart, <1>1, PTL DEF Spec

\* A delivery succeeds only if its receiver acknowledged it, fails only after its
\* whole schedule or for a reason, and never exceeds its schedule.
THEOREM Reasoned == Spec => []Inv
<1>1. IInv /\ Doors => Inv
  <2>1. IInv /\ Doors => TypeOK
    BY DEF IInv, Typed, Doors, TypeOK
  <2> QED
    BY <2>1 DEF IInv, Consistent, Reasons, Inv, ClosedForAReason, Excuse
<1> QED
  BY Invariance, <1>1, PTL

\* A selection that ended well left its deliveries, and a job for each.
THEOREM Selections == Spec => []SelectionComplete
<1>1. IInv => SelectionComplete
  BY DEF IInv, Consistent, Jobs
<1> QED
  BY Invariance, <1>1, PTL

\* A delivery's job ends well only behind a closed delivery.
THEOREM DeliveryJobs == Spec => []DeliveredJobsClosed
<1>1. IInv => DeliveredJobsClosed
  BY DEF IInv, Consistent, Jobs
<1> QED
  BY Invariance, <1>1, PTL

\* No step of any run takes anything back from the log of a delivery, or does
\* anything to one that is closed.
THEOREM Log == Spec => LogStands
<1>1. IInv /\ Doors /\ [Next]_vars =>
        [\A d \in Delivery :
           /\ Len(attempts[d]) <= Len(attempts'[d])
           /\ SubSeq(attempts'[d], 1, Len(attempts[d])) = attempts[d]
           /\ status[d] \in Closed => UNCHANGED <<status[d], attempts[d]>>]_vars
  BY StepSettles DEF Settles, Forward, Stands
<1> QED
  BY Invariance, <1>1, PTL DEF Spec, LogStands

-----------------------------------------------------------------------------
(***************************************************************************)
(* An endpoint's deliveries are attempted in their order (InOrder), unless *)
(* a store call failed or a lease was lost.  The inductive invariant.      *)
(***************************************************************************)

\* A number is not greater than the count of those that have one.
Counted(f) == \A e \in Event : f[e] <= Cardinality({x \in Event : f[x] # 0})

\* Ranks are given one by one, and an event that is there has its job.
Numbered ==
  /\ Counted(rank)
  /\ \A e \in Event : order[e] # 0 => queue[e] # "absent"

\* No fault that would break the order has happened.
Clean == happened \cap {"store", "lease"} = {}

\* All deliveries of an event are written and have their jobs.
Laid(e) == rank[e] # 0 /\ \A p \in targets[e] : queue[<<e, p>>] # "absent"

\* An event's turn has come: it is being selected, or was.
Reached(e) == rank[e] # 0 \/ \E t \in Slot : run[t].pc # "idle" /\ run[t].job = e

\* Events are selected in their order, one after the other is laid, where the
\* one was not passed by the other before it was shown.
Turns ==
  \A e, x \in Event :
    order[e] # 0 /\ order[e] < order[x] /\ Reached(x) /\ <<e, x>> \notin passed => Laid(e)
Ranked ==
  \A e, x \in Event : rank[e] # 0 /\ rank[e] < rank[x] /\ ~Passed(e, x) => Laid(e)

\* A job that failed has nothing left to do.
Failures ==
  /\ \A e \in Event : queue[e] # "failed"
  /\ \A d \in Delivery : queue[d] = "failed" => status[d] \in Closed

\* A run holds its job, and with it the delivery and its place in the order.
RunOrdered(t) ==
  LET j == run[t].job
  IN  run[t].pc # "idle" =>
        /\ queue[j] = "granted" /\ holder[j] = t
        /\ run[t].pc = "rejected" => j \in Delivery /\ status[j] \in Closed
        /\ run[t].pc = "reload" => status[j] # "delivering"
        /\ run[t].pc = "begin" =>
             status[j] \in Closed \/ (status[j] = "pending" /\ attempts[j] = run[t].seen)
        /\ run[t].pc \in Delivering =>
             \A d \in Delivery : Earlier(d, j) /\ ~Passed(d[1], j[1]) =>
                                   status[d] \notin {"pending", "delivering"}

Ordered == Turns /\ Ranked /\ Failures /\ \A t \in Slot : RunOrdered(t)

OInv == Numbered /\ (Clean => Ordered)

-----------------------------------------------------------------------------
(* Numbers.                                                                *)

\* Who has a number, and how many.
LEMMA Numbers ==
  ASSUME NEW f
  PROVE  /\ IsFiniteSet({x \in Event : f[x] # 0})
         /\ Cardinality({x \in Event : f[x] # 0}) \in Nat
<1>1. IsFiniteSet({x \in Event : f[x] # 0})
  BY WebhookAssumption, FS_Subset
<1> QED
  BY <1>1, FS_CardinalityType

\* A new number is greater than all others.
LEMMA NextCounts ==
  ASSUME NEW f \in [Event -> Nat], Counted(f), NEW e \in Event, f[e] = 0,
         NEW g, g = [f EXCEPT ![e] = NextOf(f)]
  PROVE  /\ Counted(g) /\ g[e] # 0
         /\ \A x \in Event : f[x] < g[e]
         /\ \A x \in Event : x # e => g[x] = f[x]
<1>1. PICK S : S = {x \in Event : f[x] # 0}
  OBVIOUS
<1>2. PICK T : T = {x \in Event : g[x] # 0}
  OBVIOUS
<1>3. IsFiniteSet(S) /\ Cardinality(S) \in Nat /\ e \notin S
  BY <1>1, Numbers
<1>4. g[e] = 1 + Cardinality(S) /\ \A x \in Event : x # e => g[x] = f[x]
  BY <1>1 DEF NextOf
<1>5. T = S \cup {e}
  BY <1>1, <1>2, <1>3, <1>4
<1>6. Cardinality(T) = Cardinality(S) + 1
  BY <1>3, <1>5, FS_AddElement
<1>7. \A x \in Event : f[x] <= Cardinality(S)
  BY <1>1 DEF Counted
<1>8. \A x \in Event : g[x] <= Cardinality(T)
  BY <1>3, <1>4, <1>6, <1>7
<1> QED
  BY <1>2, <1>3, <1>4, <1>7, <1>8 DEF Counted

\* A rank is given at most, ...
LEMMA RankKeepsCount ==
  ASSUME Typed, Counted(rank), NEW e \in Event, NEW S, WriteDeliveries(e, S)
  PROVE  /\ Counted(rank')
         /\ \A x \in Event : x # e => rank'[x] = rank[x]
         /\ rank[e] # 0 => rank' = rank /\ status' = status
         /\ rank[e] = 0 => \A x \in Event : rank[x] < rank'[e]
<1>1. rank \in [Event -> Nat]
  BY DEF Typed
<1>2. CASE rank[e] # 0
  BY <1>2 DEF WriteDeliveries, Counted
<1>3. CASE rank[e] = 0
  <2>1. PICK g : g = [rank EXCEPT ![e] = NextOf(rank)]
    OBVIOUS
  <2>2. rank' = g
    BY <1>3, <2>1 DEF WriteDeliveries
  <2>3. /\ Counted(g) /\ \A x \in Event : rank[x] < g[e]
        /\ \A x \in Event : x # e => g[x] = rank[x]
    BY <1>1, <1>3, <2>1, NextCounts
  <2> QED
    BY <1>3, <2>2, <2>3
<1> QED
  BY <1>2, <1>3

\* ... by a run that materializes.
LEMMA NumberedRests ==
  ASSUME Numbered, Forward, order' = order, Counted(rank')
  PROVE  Numbered'
<1>1. \A e \in Event : order'[e] # 0 => queue'[e] # "absent"
  BY Pairs DEF Numbered, Forward
<1>2. Counted(rank)'
  BY DEF Counted
<1> QED
  BY <1>1, <1>2 DEF Numbered

\* No two events have one number.
LEMMA OrdersApart ==
  ASSUME Doors, NEW e \in Event, NEW x \in Event, e # x, order[e] # 0
  PROVE  order[e] # order[x]
<1>1. Number(e) # Number(x) /\ Number(e) = order[e]
  BY DEF Doors, Number
<1> QED
  BY <1>1 DEF Number

-----------------------------------------------------------------------------
(* What steps leave in order.                                              *)

\* What is laid stays laid.
LEMMA LaidStays ==
  ASSUME Typed, Forward, NEW e \in Event, Laid(e)
  PROVE  Laid(e)'
<1>1. rank'[e] # 0 /\ targets'[e] = targets[e] /\ targets[e] \subseteq Endpoint
  BY DEF Laid, Forward, Typed
<1> QED
  BY <1>1, Pairs DEF Laid, Forward

\* A run that rests, with its job and its delivery.
Undisturbed(t) ==
  LET j == run[t].job
  IN  /\ run'[t] = run[t]
      /\ queue[j] = "granted" => queue'[j] = "granted" /\ holder'[j] = holder[j]
      /\ j \in Delivery => status'[j] = status[j] /\ attempts'[j] = attempts[j]

\* No delivery is opened ahead of one that is known.
NoneOpens ==
  \A d, j \in Delivery :
    status[j] # "none" /\ Earlier(d, j)' /\ status'[d] \in {"pending", "delivering"} =>
      Earlier(d, j) /\ status[d] \in {"pending", "delivering"}

\* A run that rests keeps its place.
LEMMA RunRests ==
  ASSUME IInv, NEW t \in Slot, RunOrdered(t), Undisturbed(t), NoneOpens,
         passed \subseteq passed'
  PROVE  RunOrdered(t)'
<1>1. PICK j : j = run[t].job
  OBVIOUS
<1>2. RunTold(t)
  BY DEF IInv, Consistent, Runs
<1>3. SUFFICES ASSUME run[t].pc # "idle" PROVE RunOrdered(t)'
  BY DEF RunOrdered, Undisturbed
<1>4. /\ queue[j] = "granted" /\ holder[j] = t
      /\ run[t].pc = "rejected" => j \in Delivery /\ status[j] \in Closed
      /\ run[t].pc = "reload" => status[j] # "delivering"
      /\ run[t].pc = "begin" =>
           status[j] \in Closed \/ (status[j] = "pending" /\ attempts[j] = run[t].seen)
      /\ run[t].pc \in Delivering =>
           \A d \in Delivery : Earlier(d, j) /\ ~Passed(d[1], j[1]) =>
                                 status[d] \notin {"pending", "delivering"}
  BY <1>1, <1>3 DEF RunOrdered
<1>5. /\ run'[t] = run[t] /\ queue'[j] = "granted" /\ holder'[j] = t
      /\ j \in Delivery => status'[j] = status[j] /\ attempts'[j] = attempts[j]
  BY <1>1, <1>4 DEF Undisturbed
<1>6. run[t].pc \in Delivering => j \in Delivery /\ status[j] # "none"
  BY <1>1, <1>2, <1>3, Pairs DEF RunTold, Known
<1>7. run[t].pc \in Delivering =>
        \A d \in Delivery : Earlier(d, j)' /\ ~Passed(d[1], j[1])' =>
                              status'[d] \notin {"pending", "delivering"}
  BY <1>4, <1>6 DEF NoneOpens, Passed
<1>8. "reload" \in Delivering /\ "begin" \in Delivering
  BY DEF Delivering
<1> QED
  BY <1>1, <1>4, <1>5, <1>6, <1>7, <1>8 DEF RunOrdered, Earlier, Passed

\* No new failure.
LEMMA FailuresRest ==
  ASSUME Forward, Failures, \A j \in Job : queue'[j] = "failed" => queue[j] = "failed"
  PROVE  Failures'
  BY Pairs DEF Failures, Forward, Stands

\* The numbers left alone, and no new run.
LEMMA OrderRests ==
  ASSUME IInv, Forward, Ordered, UNCHANGED <<order, rank, passed>>,
         \A t \in Slot : run'[t].pc # "idle" => run[t].pc # "idle" /\ run'[t].job = run[t].job,
         Failures', \A t \in Slot : RunOrdered(t)'
  PROVE  Ordered'
<1>t. Typed
  BY DEF IInv
<1>1. Turns'
  <2> SUFFICES ASSUME NEW e \in Event, NEW x \in Event,
                      order[e] # 0, order[e] < order[x], Reached(x)', <<e, x>> \notin passed
               PROVE  Laid(e)'
    BY DEF Turns
  <2>1. Reached(x)
    BY DEF Reached
  <2>2. Laid(e)
    BY <2>1 DEF Ordered, Turns
  <2> QED
    BY <1>t, <2>2, LaidStays
<1>2. Ranked'
  <2> SUFFICES ASSUME NEW e \in Event, NEW x \in Event, rank[e] # 0, rank[e] < rank[x],
                      ~Passed(e, x)
               PROVE  Laid(e)'
    BY DEF Ranked, Passed
  <2>1. Laid(e)
    BY DEF Ordered, Ranked
  <2> QED
    BY <1>t, <2>1, LaidStays
<1> QED
  BY <1>1, <1>2 DEF Ordered

\* A step of no run, or one that ends runs.
LEMMA OthersOrdered ==
  ASSUME IInv, Forward, Ordered, UNCHANGED <<order, rank, passed, status, attempts>>,
         \A t \in Slot : run'[t] \in {run[t], Idle},
         \A t \in Slot : run[t].pc # "idle" /\ run'[t].pc # "idle" =>
           LET j == run[t].job
           IN  queue[j] = "granted" => queue'[j] = "granted" /\ holder'[j] = holder[j],
         \A j \in Job : queue'[j] = "failed" => queue[j] = "failed"
  PROVE  Ordered'
<1>1. Idle.pc = "idle"
  BY DEF Idle, Fresh
<1>2. NoneOpens
  BY DEF NoneOpens, Earlier
<1>3. ASSUME NEW t \in Slot PROVE RunOrdered(t)'
  <2>1. CASE run'[t].pc = "idle"
    BY <2>1 DEF RunOrdered
  <2>2. CASE run'[t].pc # "idle"
    <3>1. run'[t] = run[t] /\ run[t].pc # "idle"
      BY <1>1, <2>2
    <3>2. Undisturbed(t)
      BY <2>2, <3>1 DEF Undisturbed
    <3>3. RunOrdered(t)
      BY DEF Ordered
    <3> QED
      BY <1>2, <3>2, <3>3, RunRests
  <2> QED
    BY <2>1, <2>2
<1>4. \A t \in Slot : run'[t].pc # "idle" => run[t].pc # "idle" /\ run'[t].job = run[t].job
  BY <1>1
<1> QED
  BY <1>3, <1>4, OrderRests, FailuresRest DEF Ordered

\* Two runs hold different jobs.
LEMMA OneRun ==
  ASSUME Ordered, NEW t \in Slot, NEW u \in Slot, run[t].pc # "idle", run[u].pc # "idle",
         run[t].job = run[u].job
  PROVE  t = u
  BY DEF Ordered, RunOrdered

\* A step of one run: it may write its own delivery, and goes on.
LEMMA RunGoesOn ==
  ASSUME IInv, Forward, Ordered, UNCHANGED <<order, rank, passed, holder>>,
         NEW t \in Slot, run[t].pc # "idle", NEW j, j = run[t].job,
         \A u \in Slot : u # t => run'[u] = run[u],
         run'[t].job = j, run'[t].pc # "idle",
         \A i \in Job : queue[i] = "granted" => queue'[i] = "granted",
         \A i \in Job : queue'[i] = "failed" => queue[i] = "failed",
         \A d \in Delivery : d # j => status'[d] = status[d] /\ attempts'[d] = attempts[d],
         \A d \in Delivery : status'[d] \in {"pending", "delivering"} =>
                               status[d] \in {"pending", "delivering"},
         run'[t].pc \in Delivering => run[t].pc \in Delivering,
         run'[t].pc = "rejected" => j \in Delivery /\ status'[j] \in Closed,
         run'[t].pc = "reload" => status'[j] # "delivering",
         run'[t].pc = "begin" =>
           status'[j] \in Closed \/ (status'[j] = "pending" /\ attempts'[j] = run'[t].seen)
  PROVE  Ordered'
<1>1. NoneOpens
  BY DEF NoneOpens, Earlier
<1>2. ASSUME NEW u \in Slot, u # t PROVE RunOrdered(u)'
  <2>1. CASE run[u].pc = "idle"
    BY <1>2, <2>1 DEF RunOrdered
  <2>2. CASE run[u].pc # "idle"
    <3>1. run[u].job # j /\ run'[u] = run[u]
      BY <1>2, <2>2, OneRun
    <3>2. run[u].job \in Job
      BY <2>2 DEF IInv, Consistent, Runs, RunTold
    <3>3. Undisturbed(u)
      BY <3>1, <3>2 DEF Undisturbed
    <3>4. RunOrdered(u)
      BY DEF Ordered
    <3> QED
      BY <1>1, <3>3, <3>4, RunRests
  <2> QED
    BY <2>1, <2>2
<1>3. RunOrdered(t)'
  <2>1. RunTold(t) /\ j \in Job
    BY DEF IInv, Consistent, Runs, RunTold
  <2>2. /\ queue[j] = "granted" /\ holder[j] = t
        /\ run[t].pc \in Delivering =>
             \A d \in Delivery : Earlier(d, j) /\ ~Passed(d[1], j[1]) =>
                                   status[d] \notin {"pending", "delivering"}
    BY DEF Ordered, RunOrdered
  <2>3. queue'[j] = "granted" /\ holder'[j] = t
    BY <2>1, <2>2
  <2>4. run'[t].pc \in Delivering =>
          \A d \in Delivery : Earlier(d, j)' /\ ~Passed(d[1], j[1])' =>
                                status'[d] \notin {"pending", "delivering"}
    BY <2>2 DEF Earlier, Passed
  <2> QED
    BY <2>3, <2>4 DEF RunOrdered, Earlier, Passed
<1>4. \A u \in Slot : RunOrdered(u)'
  BY <1>2, <1>3
<1>5. \A u \in Slot : run'[u].pc # "idle" => run[u].pc # "idle" /\ run'[u].job = run[u].job
  OBVIOUS
<1> QED
  BY <1>4, <1>5, OrderRests, FailuresRest DEF Ordered

-----------------------------------------------------------------------------
(* The steps of a run.                                                     *)

\* Selecting: the queue gets jobs that were missing.
LEMMA SelectOrdered ==
  ASSUME IInv, Ordered, NEW t \in Slot, Select(t) \/ Submit(t)
  PROVE  Ordered'
<1>t. Typed
  BY DEF IInv
<1>1. RunTold(t) /\ run[t] \in RunState /\ run[t].pc \in {"select", "submit"}
  BY <1>t DEF IInv, Consistent, Runs, Typed, Select, Submit, At
<1>2. PICK e \in Event : e = run[t].job
  BY <1>1 DEF RunTold, Selecting
<1>3. Forward
  BY SelectSettles, SubmitSettles DEF Settles
<1>4. UNCHANGED <<order, rank, passed, holder, status, attempts>>
  BY DEF Select, Submit, entries, events, rows, jobs
<1>5. /\ \A i \in Job : queue[i] = "granted" => queue'[i] = "granted"
      /\ \A i \in Job : queue'[i] = "failed" => queue[i] = "failed"
  <2>1. CASE UNCHANGED queue
    BY <2>1
  <2>2. CASE \E S : Ensure(S)
    BY <2>2 DEF Ensure
  <2> QED
    BY <2>1, <2>2 DEF Select, Submit, jobs
<1>6. PICK x \in RunState : /\ run' = [run EXCEPT ![t] = x] /\ x.job = e
                            /\ x.pc \in {"submit", "materialize", "done"}
  <2>1. CASE Select(t)
    <3>1. PICK x : x = IF rank[e] # 0
                       THEN [run[t] EXCEPT !.pc = "submit", !.picked = targets[e]]
                       ELSE [run[t] EXCEPT !.pc = "materialize", !.picked = {p \in Endpoint : serving[p]}]
      OBVIOUS
    <3>2. run' = [run EXCEPT ![t] = x]
      BY <1>2, <2>1, <3>1 DEF Select
    <3>3. x \in RunState /\ x.job = e /\ x.pc \in {"submit", "materialize"}
      <4>1. targets[e] \in SUBSET Endpoint /\ {p \in Endpoint : serving[p]} \in SUBSET Endpoint
        BY <1>t DEF Typed
      <4> QED
        BY <1>1, <1>2, <3>1, <4>1 DEF RunState, Selecting
    <3> QED
      BY <3>2, <3>3
  <2>2. CASE Goto(t, "done")
    <3>1. PICK x : x = [run[t] EXCEPT !.pc = "done"]
      OBVIOUS
    <3>2. run' = [run EXCEPT ![t] = x]
      BY <2>2, <3>1 DEF Goto
    <3>3. x \in RunState /\ x.job = e /\ x.pc = "done"
      BY <1>1, <1>2, <3>1 DEF RunState, Answer
    <3> QED
      BY <3>2, <3>3
  <2>3. CASE Submit(t) /\ ~Goto(t, "done")
    <3>1. PICK p \in run[t].picked : run' = [run EXCEPT ![t].picked = run[t].picked \ {p}]
      BY <2>3 DEF Submit
    <3>2. PICK x : x = [run[t] EXCEPT !.picked = run[t].picked \ {p}]
      OBVIOUS
    <3>3. run' = [run EXCEPT ![t] = x]
      BY <3>1, <3>2
    <3>4. x \in RunState /\ x.job = e /\ x.pc = "submit"
      <4>1. run[t].picked \ {p} \in SUBSET Endpoint /\ run[t].pc = "submit"
        BY <1>1, <2>3 DEF RunState, Submit, At
      <4> QED
        BY <1>1, <1>2, <3>2, <4>1 DEF RunState
    <3> QED
      BY <3>3, <3>4
  <2> QED
    BY <2>1, <2>2, <2>3
<1>7. run'[t] = x /\ \A u \in Slot : u # t => run'[u] = run[u]
  BY <1>t, <1>6 DEF Typed
<1>8. x.pc \notin Delivering /\ x.pc # "idle" /\ x.pc # "rejected" /\ x.pc # "reload" /\ x.pc # "begin"
  BY <1>6 DEF Delivering
<1> QED
  BY <1>1, <1>2, <1>3, <1>4, <1>5, <1>6, <1>7, <1>8, RunGoesOn

\* Reading: what an attempt rests on is the row as it was read.
LEMMA LoadOrdered ==
  ASSUME IInv, Ordered, NEW t \in Slot, Load(t) \/ Reload(t)
  PROVE  Ordered'
<1>t. Typed
  BY DEF IInv
<1>1. RunTold(t) /\ run[t] \in RunState /\ run[t].pc \in {"load", "reload"}
  BY <1>t DEF IInv, Consistent, Runs, Typed, Load, Reload, At
<1>2. PICK d \in Delivery : d = run[t].job
  BY <1>1 DEF RunTold, Delivering
<1>3. Forward
  BY LoadSettles DEF Settles
<1>4. UNCHANGED <<order, rank, passed, holder, status, attempts, queue>>
  BY DEF Load, Reload, entries, events, rows, jobs
<1>5. status[d] \in {"pending", "delivering"} \cup Closed
  <2>1. status[d] # "none" /\ status[d] \in {"none", "pending", "delivering"} \cup Closed
    BY <1>t, <1>1, <1>2, Pairs DEF RunTold, Known, Typed
  <2> QED
    BY <2>1
<1>6. GoOn(t) \in {"begin", "close"}
  BY DEF GoOn
<1>7. PICK next : /\ Read(t, next)
                  /\ next \in {"done", "later", "reset", "begin", "close"}
                  /\ next = "begin" => status[d] \in Closed \cup {"pending"}
  <2>1. CASE Load(t)
    <3>1. CASE status[d] \in Closed
      <4>1. AfterLoad(t) = "done"
        BY <1>2, <3>1 DEF AfterLoad, Closed
      <4> QED
        BY <2>1, <4>1 DEF Load
    <3>2. CASE status[d] \notin Closed /\ waits[d]
      <4>1. AfterLoad(t) = "later"
        BY <1>2, <3>2 DEF AfterLoad
      <4> QED
        BY <2>1, <4>1 DEF Load
    <3>3. CASE status[d] = "delivering" /\ ~waits[d]
      <4>1. AfterLoad(t) = "reset"
        BY <1>2, <3>3 DEF AfterLoad, Closed
      <4> QED
        BY <2>1, <4>1 DEF Load
    <3>4. CASE status[d] \notin Closed /\ status[d] # "delivering" /\ ~waits[d]
      <4>1. AfterLoad(t) = GoOn(t)
        BY <1>2, <3>4 DEF AfterLoad
      <4> QED
        BY <1>5, <1>6, <2>1, <3>4, <4>1 DEF Load
    <3>5. waits[d] \in BOOLEAN
      BY <1>t DEF Typed
    <3> QED
      BY <3>1, <3>2, <3>3, <3>4, <3>5
  <2>2. CASE Reload(t)
    <3>1. status[d] # "delivering"
      BY <1>2, <2>2 DEF Ordered, RunOrdered, Reload, At
    <3> QED
      BY <1>5, <1>6, <2>2, <3>1 DEF Reload
  <2> QED
    BY <2>1, <2>2
<1>8. PICK x : x = [run[t] EXCEPT !.seen = attempts[d], !.pc = next]
  OBVIOUS
<1>9. run' = [run EXCEPT ![t] = x]
  BY <1>2, <1>7, <1>8 DEF Read
<1>10. x.job = d /\ x.pc = next /\ x.seen = attempts[d]
  BY <1>1, <1>2, <1>8 DEF RunState
<1>11. run'[t] = x /\ \A u \in Slot : u # t => run'[u] = run[u]
  BY <1>t, <1>9 DEF Typed
<1>12. run[t].pc \in Delivering /\ run[t].pc # "idle"
  BY <1>1 DEF Delivering
<1> QED
  BY <1>2, <1>3, <1>4, <1>7, <1>10, <1>11, <1>12, RunGoesOn

\* The request, and the body that is forgotten.
LEMMA PostOrdered ==
  ASSUME IInv, Ordered, NEW t \in Slot, Post(t) \/ Forget(t)
  PROVE  Ordered'
<1>t. Typed
  BY DEF IInv
<1>1. RunTold(t) /\ run[t] \in RunState /\ run[t].pc \in {"post", "forget"}
  BY <1>t DEF IInv, Consistent, Runs, Typed, Post, Forget, At
<1>2. PICK d \in Delivery : d = run[t].job
  BY <1>1 DEF RunTold, Delivering
<1>3. Forward
  BY PostSettles, ForgetSettles DEF Settles
<1>4. UNCHANGED <<order, rank, passed, holder, status, attempts, queue>>
  BY DEF Post, Forget, entries, events, rows, jobs
<1>5. PICK x : run' = [run EXCEPT ![t] = x] /\ x.job = d /\ x.pc \in {"record", "done"}
  <2>1. CASE Post(t)
    <3>1. PICK ok \in BOOLEAN :
            run' = [run EXCEPT ![t].pc = "record", ![t].ok = ok, ![t].caught = TRUE]
      BY <2>1 DEF Post
    <3>2. PICK x : x = [run[t] EXCEPT !.pc = "record", !.ok = ok, !.caught = TRUE]
      OBVIOUS
    <3>3. run' = [run EXCEPT ![t] = x] /\ x.job = d /\ x.pc = "record"
      BY <1>1, <1>2, <3>1, <3>2 DEF RunState
    <3> QED
      BY <3>3
  <2>2. CASE Forget(t)
    <3>1. PICK x : x = [run[t] EXCEPT !.pc = "done"]
      OBVIOUS
    <3>2. run' = [run EXCEPT ![t] = x] /\ x.job = d /\ x.pc = "done"
      BY <1>1, <1>2, <2>2, <3>1 DEF RunState, Forget, Goto
    <3> QED
      BY <3>2
  <2> QED
    BY <2>1, <2>2
<1>6. run'[t] = x /\ \A u \in Slot : u # t => run'[u] = run[u]
  BY <1>t, <1>5 DEF Typed
<1>7. run[t].pc \in Delivering /\ run[t].pc # "idle"
  BY <1>1 DEF Delivering
<1> QED
  BY <1>2, <1>3, <1>4, <1>5, <1>6, <1>7, RunGoesOn

\* The writes: a run that is alone with its delivery is refused only when the
\* delivery is closed.
LEMMA WritersOrdered ==
  ASSUME IInv, Ordered, NEW t \in Slot, Reset(t) \/ Close(t) \/ Begin(t) \/ Record(t)
  PROVE  Ordered'
<1>t. Typed
  BY DEF IInv
<1>1. RunTold(t) /\ run[t] \in RunState /\ run[t].pc \in {"reset", "close", "begin", "record"}
  BY <1>t DEF IInv, Consistent, Runs, Typed, Reset, Close, Begin, Record, At
<1>2. PICK d \in Delivery : d = run[t].job
  BY <1>1 DEF RunTold, Delivering
<1>3. Forward
  BY WritersSettle DEF Settles
<1>4. UNCHANGED <<order, rank, passed, holder, queue>>
  BY DEF Reset, Close, Begin, Record, entries, events, jobs
<1>5. status \in [Delivery -> {"none", "pending", "delivering"} \cup Closed]
      /\ attempts \in [Delivery -> Seq(Slot)] /\ status[d] # "none"
  BY <1>t, <1>1, <1>2, Pairs DEF Typed, RunTold, Known
<1>6. PICK pc : /\ Goto(t, pc) /\ pc \in {"reload", "forget", "post", "rejected", "later"}
                /\ pc = "reload" => ResetRow(d)
                /\ pc = "rejected" => run[t].pc = "begin" /\ UNCHANGED rows /\ ~MayUpdate(d, "delivering", run[t].seen)
                /\ \/ ResetRow(d) \/ CloseRow(d) \/ UNCHANGED rows
                   \/ \E to, tried : Update(d, to, tried)
  <2>1. CASE Reset(t)
    BY <1>2, <2>1 DEF Reset
  <2>2. CASE Close(t)
    BY <1>2, <2>2 DEF Close
  <2>3. CASE Begin(t)
    <3>1. CASE Update(d, "delivering", run[t].seen) /\ Goto(t, "post")
      BY <3>1
    <3>2. CASE ~MayUpdate(d, "delivering", run[t].seen) /\ Goto(t, "rejected") /\ UNCHANGED rows
      BY <2>3, <3>2 DEF Begin, At
    <3> QED
      BY <1>2, <2>3, <3>1, <3>2 DEF Begin
  <2>4. CASE Record(t)
    <3>1. PICK pc \in {"later", "forget"} : Goto(t, pc)
      BY <2>4 DEF Record
    <3> QED
      BY <1>2, <2>4, <3>1 DEF Record
  <2> QED
    BY <2>1, <2>2, <2>3, <2>4
<1>7. /\ \A i \in Delivery : i # d => status'[i] = status[i] /\ attempts'[i] = attempts[i]
      /\ status'[d] \in {"pending", "delivering"} => status[d] \in {"pending", "delivering"}
  <2>1. CASE ResetRow(d)
    BY <1>5, <2>1 DEF ResetRow
  <2>2. CASE CloseRow(d)
    BY <1>5, <2>2 DEF CloseRow, Closed
  <2>3. CASE UNCHANGED rows
    BY <2>3 DEF rows
  <2>4. CASE \E to, tried : Update(d, to, tried)
    BY <1>5, <2>4 DEF Update, MayUpdate, ValidTransition
  <2> QED
    BY <1>6, <2>1, <2>2, <2>3, <2>4
<1>8. pc = "reload" => status'[d] # "delivering"
  BY <1>5, <1>6 DEF ResetRow
<1>9. pc = "rejected" => status'[d] \in Closed
  <2> SUFFICES ASSUME pc = "rejected" PROVE status'[d] \in Closed
    OBVIOUS
  <2>1. status' = status /\ ~MayUpdate(d, "delivering", run[t].seen)
    BY <1>6 DEF rows
  <2>2. status[d] \in Closed \/ (status[d] = "pending" /\ attempts[d] = run[t].seen)
    BY <1>2, <1>6 DEF Ordered, RunOrdered
  <2>3. status[d] = "pending" /\ attempts[d] = run[t].seen => MayUpdate(d, "delivering", run[t].seen)
    BY <1>5 DEF MayUpdate, ValidTransition
  <2> QED
    BY <2>1, <2>2, <2>3
<1>10. /\ run'[t].pc = pc /\ run'[t].job = d /\ \A u \in Slot : u # t => run'[u] = run[u]
  <2>1. pc \in {"idle"} \cup Selecting \cup Delivering \cup Answer
    BY <1>6 DEF Delivering, Answer
  <2> QED
    BY <1>t, <1>2, <1>6, <2>1, GotoMoves
<1>11. run[t].pc \in Delivering /\ run[t].pc # "idle"
  BY <1>1 DEF Delivering
<1>12. \A i \in Delivery : status'[i] \in {"pending", "delivering"} => status[i] \in {"pending", "delivering"}
  BY <1>7
<1> QED
  BY <1>2, <1>3, <1>4, <1>6, <1>7, <1>8, <1>9, <1>10, <1>11, <1>12, RunGoesOn

\* An event's deliveries are written behind those of all that came before.
LEMMA MaterializeOrdered ==
  ASSUME IInv, Doors, Numbered, Ordered, NEW t \in Slot, Materialize(t)
  PROVE  Ordered'
<1>t. Typed
  BY DEF IInv
<1>1. RunTold(t) /\ run[t] \in RunState /\ run[t].pc = "materialize"
  BY <1>t DEF IInv, Consistent, Runs, Typed, Materialize, At
<1>2. PICK e \in Event : e = run[t].job
  BY <1>1 DEF RunTold, Selecting
<1>3. Forward
  BY MaterializeSettles DEF Settles
<1>4. /\ UNCHANGED <<order, passed, attempts, queue, holder>>
      /\ WriteDeliveries(e, run[t].picked)
  BY <1>2 DEF Materialize, entries, jobs
<1>5. /\ \A x \in Event : x # e => rank'[x] = rank[x]
      /\ rank[e] # 0 => rank' = rank /\ status' = status
      /\ rank[e] = 0 => \A x \in Event : rank[x] < rank'[e]
  BY <1>t, <1>4, RankKeepsCount DEF Numbered
<1>6. run'[t].pc = "submit" /\ run'[t].job = e /\ \A u \in Slot : u # t => run'[u] = run[u]
  <2>1. PICK x : x = [run[t] EXCEPT !.pc = "submit", !.picked = targets'[e]]
    OBVIOUS
  <2>2. run' = [run EXCEPT ![t] = x]
    BY <1>2, <2>1 DEF Materialize
  <2>3. x.pc = "submit" /\ x.job = e
    BY <1>1, <1>2, <2>1 DEF RunState
  <2> QED
    BY <1>t, <2>2, <2>3 DEF Typed
<1>7. "submit" \notin Delivering
  BY DEF Delivering
<1>8. CASE rank[e] # 0
  BY <1>1, <1>2, <1>3, <1>4, <1>5, <1>6, <1>7, <1>8, RunGoesOn
<1>9. CASE rank[e] = 0
  <2>n. rank \in [Event -> Nat] /\ rank' \in [Event -> Nat] /\ order \in [Event -> Nat]
    <3>1. Typed'
      BY MaterializeSettles DEF Settles, IInv
    <3> QED
      BY <1>t, <3>1 DEF Typed
  <2>1. order[e] # 0
    BY <1>1, <1>2 DEF RunTold, Known
  <2>2. Reached(e)
    BY <1>1, <1>2 DEF Reached
  <2>3. Turns'
    <3> SUFFICES ASSUME NEW o \in Event, NEW x \in Event,
                        order[o] # 0, order[o] < order[x], Reached(x)', <<o, x>> \notin passed
                 PROVE  Laid(o)'
      BY <1>4 DEF Turns
    <3>1. Reached(x)
      BY <1>1, <1>2, <1>5, <1>6, <2>2 DEF Reached
    <3>2. Laid(o)
      BY <3>1 DEF Ordered, Turns
    <3> QED
      BY <1>t, <1>3, <3>2, LaidStays
  <2>4. Ranked'
    <3> SUFFICES ASSUME NEW o \in Event, NEW x \in Event, rank'[o] # 0, rank'[o] < rank'[x],
                        ~Passed(o, x)
                 PROVE  Laid(o)'
      BY <1>4 DEF Ranked, Passed
    <3>1. o # e /\ rank[o] = rank'[o]
      <4>1. ASSUME o = e PROVE FALSE
        <5>1. rank'[x] = rank[x]
          BY <1>5, <2>n, <4>1
        <5>2. rank[x] < rank'[e]
          BY <1>5, <1>9
        <5> QED
          BY <2>n, <4>1, <5>1, <5>2
      <4> QED
        BY <1>5, <4>1
    <3>2. CASE x # e
      <4>1. Laid(o)
        BY <1>5, <3>1, <3>2 DEF Ordered, Ranked
      <4> QED
        BY <1>t, <1>3, <4>1, LaidStays
    <3>3. CASE x = e
      <4>1. order[o] # 0 /\ Reached(o)
        BY <3>1 DEF IInv, Consistent, Deliveries, Reached
      <4>2. order[o] # order[e]
        BY <3>1, <4>1, OrdersApart
      <4>p. <<e, o>> \notin passed /\ <<o, e>> \notin passed
        BY <3>3 DEF Passed
      <4>3. ~(order[e] < order[o])
        <5>1. ASSUME order[e] < order[o] PROVE Laid(e)
          BY <2>1, <4>1, <4>p, <5>1 DEF Ordered, Turns
        <5> QED
          BY <1>9, <5>1 DEF Laid
      <4>4. order[o] < order[e]
        BY <2>n, <4>2, <4>3
      <4>5. Laid(o)
        BY <2>2, <4>1, <4>4, <4>p DEF Ordered, Turns
      <4> QED
        BY <1>t, <1>3, <4>5, LaidStays
    <3> QED
      BY <3>2, <3>3
  <2>5. \A d \in Delivery : status[d] # "none" => d[1] # e
    BY <1>9 DEF IInv, Consistent, Deliveries
  <2>6. \A d \in Delivery : d[1] # e => status'[d] = status[d] /\ rank'[d[1]] = rank[d[1]]
    BY <1>4, <1>5, <1>9, Pairs DEF WriteDeliveries
  <2>7. NoneOpens
    <3> SUFFICES ASSUME NEW d \in Delivery, NEW j \in Delivery, status[j] # "none",
                        Earlier(d, j)', status'[d] \in {"pending", "delivering"}
                 PROVE  Earlier(d, j) /\ status[d] \in {"pending", "delivering"}
      BY DEF NoneOpens
    <3>1. rank'[j[1]] = rank[j[1]] /\ j[1] \in Event /\ d[1] \in Event /\ j \notin Event
      BY <2>5, <2>6, Pairs
    <3>2. d[2] = j[2] /\ rank'[d[1]] < rank'[j[1]]
      BY <3>1 DEF Earlier
    <3>3. d[1] # e
      <4>1. rank[j[1]] < rank'[e]
        BY <1>5, <1>9, <3>1
      <4> QED
        BY <2>n, <3>1, <3>2, <4>1
    <3> QED
      BY <2>6, <3>1, <3>2, <3>3 DEF Earlier
  <2>8. ASSUME NEW u \in Slot PROVE RunOrdered(u)'
    <3>1. CASE u = t
      <4>1. queue[e] = "granted" /\ holder[e] = t
        BY <1>1, <1>2 DEF Ordered, RunOrdered
      <4> QED
        BY <1>4, <1>6, <1>7, <3>1, <4>1 DEF RunOrdered
    <3>2. CASE u # t /\ run[u].pc = "idle"
      BY <1>6, <3>2 DEF RunOrdered
    <3>3. CASE u # t /\ run[u].pc # "idle"
      <4>1. Known(run[u].job)
        BY <3>3 DEF IInv, Consistent, Runs, RunTold
      <4>2. run[u].job \in Delivery => status'[run[u].job] = status[run[u].job]
        BY <2>5, <2>6, <4>1, Pairs DEF Known
      <4>3. Undisturbed(u)
        BY <1>4, <1>6, <3>3, <4>2 DEF Undisturbed
      <4>4. RunOrdered(u)
        BY DEF Ordered
      <4> QED
        BY <1>4, <2>7, <4>3, <4>4, RunRests
    <3> QED
      BY <3>1, <3>2, <3>3
  <2>9. Failures'
    BY <1>3, <1>4, FailuresRest DEF Ordered
  <2> QED
    BY <2>3, <2>4, <2>8, <2>9 DEF Ordered
<1> QED
  BY <1>8, <1>9

\* A run ends; a job of its fails only behind a closed delivery.
LEMMA FinishOrdered ==
  ASSUME IInv, Ordered, NEW t \in Slot, Finish(t)
  PROVE  Ordered'
<1>t. Typed
  BY DEF IInv
<1>1. RunTold(t) /\ run[t] \in RunState /\ run[t].pc \in Answer
  BY <1>t DEF IInv, Consistent, Runs, Typed, Finish
<1>2. run[t].pc # "idle"
  BY <1>1 DEF Answer
<1>3. PICK j \in Job : j = run[t].job
  BY <1>1, <1>2 DEF RunTold
<1>4. Forward
  BY FinishSettles DEF Settles
<1>5. UNCHANGED <<order, rank, passed, status, attempts>> /\ run' = [run EXCEPT ![t] = Idle]
  BY DEF Finish, entries, events, rows
<1>6. run'[t].pc = "idle" /\ \A u \in Slot : u # t => run'[u] = run[u]
  BY <1>t, <1>5 DEF Typed, Idle, Fresh
<1>7. queue[j] = "granted" /\ holder[j] = t
  BY <1>2, <1>3 DEF Ordered, RunOrdered
<1>8. /\ queue' = [queue EXCEPT ![j] = Verdict[run[t].pc]]
      /\ holder' = [holder EXCEPT ![j] = NoSlot]
  BY <1>3, <1>7 DEF Finish
<1>9. \A i \in Job : i # j => queue'[i] = queue[i] /\ holder'[i] = holder[i]
  BY <1>t, <1>8 DEF Typed
<1>10. Failures'
  <2>1. queue'[j] = "failed" => run[t].pc = "rejected"
    BY <1>t, <1>1, <1>8 DEF Typed, Answer, Verdict
  <2>2. run[t].pc = "rejected" => j \in Delivery /\ status[j] \in Closed
    BY <1>2, <1>3 DEF Ordered, RunOrdered
  <2> QED
    BY <1>5, <1>9, <2>1, <2>2, Pairs DEF Ordered, Failures
<1>11. NoneOpens
  BY <1>5 DEF NoneOpens, Earlier
<1>12. ASSUME NEW u \in Slot PROVE RunOrdered(u)'
  <2>1. CASE run'[u].pc = "idle"
    BY <2>1 DEF RunOrdered
  <2>2. CASE run'[u].pc # "idle"
    <3>1. u # t /\ run'[u] = run[u] /\ run[u].pc # "idle"
      BY <1>6, <2>2
    <3>2. run[u].job # j /\ run[u].job \in Job
      <4>1. run[u].job # j
        BY <1>2, <1>3, <3>1, OneRun
      <4> QED
        BY <3>1, <4>1 DEF IInv, Consistent, Runs, RunTold
    <3>3. Undisturbed(u)
      BY <1>5, <1>9, <3>1, <3>2 DEF Undisturbed
    <3>4. RunOrdered(u)
      BY DEF Ordered
    <3> QED
      BY <1>5, <1>11, <3>3, <3>4, RunRests
  <2> QED
    BY <2>1, <2>2
<1>13. \A u \in Slot : run'[u].pc # "idle" => run[u].pc # "idle" /\ run'[u].job = run[u].job
  BY <1>6
<1> QED
  BY <1>4, <1>5, <1>10, <1>12, <1>13, OrderRests

-----------------------------------------------------------------------------
(* The steps of the queue and of the processes.                            *)

\* A job is granted when all before it in its group have ended: the events
\* before are laid, the deliveries before are closed.
LEMMA ClaimOrdered ==
  ASSUME IInv, Numbered, Ordered, NEW t \in Slot, NEW r \in Replica, NEW j \in Job,
         Claim(t, r, j)
  PROVE  Ordered'
<1>t. Typed
  BY DEF IInv
<1>1. Forward
  BY ClaimSettles DEF Settles
<1>2. UNCHANGED <<order, rank, passed, targets, status, attempts>>
  BY DEF Claim, entries, events, rows
<1>3. queue[j] = "open" /\ run[t].pc = "idle" /\ ~Blocked(j)
  BY DEF Claim, At
<1>4. /\ queue'[j] = "granted" /\ holder'[j] = t
      /\ \A i \in Job : i # j => queue'[i] = queue[i] /\ holder'[i] = holder[i]
  BY <1>t DEF Claim, Typed
<1>5. PICK x : /\ run' = [run EXCEPT ![t] = x] /\ x.job = j
               /\ j \in Event => x.pc = "select"
               /\ j \notin Event => x.pc = "load"
  <2>1. PICK pc : pc = IF j \in Event THEN "select" ELSE "load"
    OBVIOUS
  <2>2. PICK x : x = Fresh(j, r, pc)
    OBVIOUS
  <2>3. run' = [run EXCEPT ![t] = x] /\ x.job = j /\ x.pc = pc
    BY <2>1, <2>2 DEF Claim, Fresh
  <2> QED
    BY <2>1, <2>3
<1>6. run'[t] = x /\ \A u \in Slot : u # t => run'[u] = run[u]
  BY <1>t, <1>5 DEF Typed
<1>7. ASSUME NEW i \in Job, Earlier(i, j), queue[i] # "absent"
      PROVE  queue[i] \in Closed
  <2>1. queue[i] \notin Unfinished
    BY <1>3, <1>7 DEF Blocked
  <2>2. queue[i] \in {"absent"} \cup Unfinished \cup Closed
    BY <1>t DEF Typed
  <2> QED
    BY <1>7, <2>1, <2>2
<1>8. Failures'
  BY <1>1, <1>4, FailuresRest DEF Ordered
<1>9. Turns'
  <2> SUFFICES ASSUME NEW o \in Event, NEW y \in Event,
                      order[o] # 0, order[o] < order[y], Reached(y)', <<o, y>> \notin passed
               PROVE  Laid(o)'
    BY <1>2 DEF Turns
  <2>1. CASE Reached(y)
    <3>1. Laid(o)
      BY <2>1 DEF Ordered, Turns
    <3> QED
      BY <1>t, <1>1, <3>1, LaidStays
  <2>2. CASE ~Reached(y)
    <3>1. y = j
      BY <1>2, <1>5, <1>6, <2>2 DEF Reached
    <3>2. Earlier(o, j) /\ o \in Job
      BY <3>1, Pairs DEF Earlier
    <3>3. queue[o] \in Closed /\ queue[o] # "failed"
      BY <1>7, <3>2 DEF Numbered, Ordered, Failures
    <3>4. Laid(o)
      BY <3>3 DEF Closed, IInv, Consistent, Jobs, SelectionComplete, Laid
    <3> QED
      BY <1>t, <1>1, <3>4, LaidStays
  <2> QED
    BY <2>1, <2>2
<1>10. Ranked'
  <2> SUFFICES ASSUME NEW o \in Event, NEW y \in Event, rank[o] # 0, rank[o] < rank[y],
                      ~Passed(o, y)
               PROVE  Laid(o)'
    BY <1>2 DEF Ranked, Passed
  <2>1. Laid(o)
    BY DEF Ordered, Ranked
  <2> QED
    BY <1>t, <1>1, <2>1, LaidStays
<1>11. NoneOpens
  BY <1>2 DEF NoneOpens, Earlier
<1>12. ASSUME NEW u \in Slot, u # t PROVE RunOrdered(u)'
  <2>1. CASE run[u].pc = "idle"
    BY <1>6, <1>12, <2>1 DEF RunOrdered
  <2>2. CASE run[u].pc # "idle"
    <3>1. run[u].job # j
      BY <1>3, <2>2 DEF Ordered, RunOrdered
    <3>2. run[u].job \in Job
      BY <2>2 DEF IInv, Consistent, Runs, RunTold
    <3>3. Undisturbed(u)
      BY <1>2, <1>4, <1>6, <1>12, <3>1, <3>2 DEF Undisturbed
    <3>4. RunOrdered(u)
      BY DEF Ordered
    <3> QED
      BY <1>2, <1>11, <3>3, <3>4, RunRests
  <2> QED
    BY <2>1, <2>2
<1>13. RunOrdered(t)'
  <2>1. CASE j \in Event
    BY <1>4, <1>5, <1>6, <2>1 DEF RunOrdered, Delivering
  <2>2. CASE j \notin Event
    <3>1. x.pc = "load" /\ j \in Delivery
      BY <1>5, <2>2 DEF Job
    <3>2. ASSUME NEW d \in Delivery, Earlier(d, j), ~Passed(d[1], j[1])
          PROVE  status[d] \notin {"pending", "delivering"}
      <4> SUFFICES ASSUME status[d] \in {"pending", "delivering"} PROVE FALSE
        OBVIOUS
      <4>1. rank[d[1]] # 0 /\ d[2] \in targets[d[1]]
        BY DEF IInv, Consistent, Deliveries
      <4>2. rank[d[1]] < rank[j[1]]
        BY <2>2, <3>2 DEF Earlier
      <4>3. Laid(d[1])
        BY <3>1, <3>2, <4>1, <4>2, Pairs DEF Ordered, Ranked
      <4>4. queue[d] # "absent"
        BY <4>1, <4>3, Pairs DEF Laid
      <4>5. queue[d] \in Closed
        BY <1>7, <3>2, <4>4, Pairs
      <4>6. status[d] \in Closed
        BY <4>5 DEF Closed, IInv, Consistent, Jobs, DeliveredJobsClosed, Ordered, Failures
      <4> QED
        BY <4>6 DEF Closed
    <3>3. \A d \in Delivery : Earlier(d, j)' /\ ~Passed(d[1], j[1])' =>
                              status'[d] \notin {"pending", "delivering"}
      BY <1>2, <3>2 DEF Earlier, Passed
    <3> QED
      BY <1>4, <1>5, <1>6, <3>1, <3>3 DEF RunOrdered, Earlier, Passed
  <2> QED
    BY <2>1, <2>2
<1>14. \A u \in Slot : RunOrdered(u)'
  BY <1>12, <1>13
<1> QED
  BY <1>8, <1>9, <1>10, <1>14 DEF Ordered

\* An event that is admitted has a number of its own, and its job.
LEMMA AdmitNumbers ==
  ASSUME IInv, Doors, Numbered, NEW e \in Event, Admit(e)
  PROVE  /\ Numbered' /\ order[e] = 0 /\ queue' = [queue EXCEPT ![e] = "open"]
         /\ \A x \in Event : order[x] # 0 => order[x] # order'[e]
         /\ \A x \in Event : x # e => order'[x] = order[x]
         /\ passed' = passed \cup {<<e, x>> : x \in {x \in Event : order[x] > order'[e]}}
<1>t. Typed
  BY DEF IInv
<1>1. entry[e] # NoEntry /\ order[e] = 0
  BY DEF Admit, Doors
<1>2. PICK n \in Nat : n = entry[e].number /\ n = Number(e) /\ n # 0
  BY <1>1 DEF Doors, Number
<1>3. /\ order' = [order EXCEPT ![e] = n] /\ rank' = rank
      /\ queue' = [queue EXCEPT ![e] = "open"]
      /\ passed' = passed \cup {<<e, x>> : x \in {x \in Event : order[x] > n}}
  BY <1>2 DEF Admit
<1>4. order'[e] = n /\ \A x \in Event : x # e => order'[x] = order[x]
  BY <1>t, <1>3 DEF Typed
<1>5. ASSUME NEW x \in Event, order[x] # 0 PROVE order[x] # n
  <2>1. x # e
    BY <1>1, <1>5
  <2>2. Number(x) = order[x]
    BY <1>5 DEF Number
  <2> QED
    BY <1>2, <2>1, <2>2 DEF Doors
<1>6. \A x \in Event : order'[x] # 0 => queue'[x] # "absent"
  <2>1. queue'[e] = "open" /\ \A x \in Event : x # e => queue'[x] = queue[x]
    BY <1>t, <1>3, Pairs DEF Typed
  <2> QED
    BY <1>4, <2>1 DEF Numbered
<1>7. Counted(rank)'
  BY <1>3 DEF Numbered, Counted
<1> QED
  BY <1>1, <1>3, <1>4, <1>5, <1>6, <1>7 DEF Numbered

\* An event that is shown behind others whose numbers are greater was passed by
\* them; to all others it comes in its order.
LEMMA AdmitOrdered ==
  ASSUME IInv, Doors, Numbered, Ordered, NEW e \in Event, Admit(e)
  PROVE  Ordered'
<1>t. Typed
  BY DEF IInv
<1>1. Forward
  BY AdmitSettles DEF Settles
<1>2. UNCHANGED <<rank, targets, status, attempts, holder, run>>
  BY DEF Admit, rows
<1>3. /\ order[e] = 0 /\ passed \subseteq passed'
      /\ \A x \in Event : x # e => order'[x] = order[x]
      /\ \A x \in Event : x # e /\ order'[x] > order'[e] => <<e, x>> \in passed'
  BY AdmitNumbers
<1>n. order \in [Event -> Nat] /\ order' \in [Event -> Nat]
  BY <1>t, AdmitSettles DEF Settles, IInv, Typed
<1>4. queue'[e] = "open" /\ \A i \in Job : i # e => queue'[i] = queue[i]
  BY <1>t, Pairs, AdmitNumbers DEF Typed
<1>5. ~Reached(e)
  BY <1>3 DEF Reached, IInv, Consistent, Deliveries, Runs, RunTold, Known
<1>6. Turns'
  <2> SUFFICES ASSUME NEW o \in Event, NEW y \in Event,
                      order'[o] # 0, order'[o] < order'[y], Reached(y)', <<o, y>> \notin passed'
               PROVE  Laid(o)'
    BY DEF Turns
  <2>1. Reached(y) /\ y # e
    BY <1>2, <1>5 DEF Reached
  <2>2. o # e
    BY <1>n, <1>3, <2>1
  <2>3. Laid(o)
    BY <1>3, <2>1, <2>2 DEF Ordered, Turns
  <2> QED
    BY <1>t, <1>1, <2>3, LaidStays
<1>7. Ranked'
  <2> SUFFICES ASSUME NEW o \in Event, NEW y \in Event, rank[o] # 0, rank[o] < rank[y],
                      ~Passed(o, y)
               PROVE  Laid(o)'
    BY <1>2, <1>3 DEF Ranked, Passed
  <2>1. Laid(o)
    BY DEF Ordered, Ranked
  <2> QED
    BY <1>t, <1>1, <2>1, LaidStays
<1>8. Failures'
  BY <1>1, <1>4, FailuresRest DEF Ordered
<1>9. NoneOpens
  BY <1>2, Pairs DEF NoneOpens, Earlier
<1>10. ASSUME NEW u \in Slot PROVE RunOrdered(u)'
  <2>1. CASE run[u].pc = "idle"
    BY <1>2, <2>1 DEF RunOrdered
  <2>2. CASE run[u].pc # "idle"
    <3>1. run[u].job # e
      BY <1>5, <2>2 DEF Reached
    <3>2. run[u].job \in Job
      BY <2>2 DEF IInv, Consistent, Runs, RunTold
    <3>3. Undisturbed(u)
      BY <1>2, <1>4, <3>1, <3>2 DEF Undisturbed
    <3>4. RunOrdered(u)
      BY DEF Ordered
    <3> QED
      BY <1>3, <1>9, <3>3, <3>4, RunRests
  <2> QED
    BY <2>1, <2>2
<1> QED
  BY <1>6, <1>7, <1>8, <1>10 DEF Ordered

\* What wakes, is edited, crashes, recovers or runs out of time disturbs no run
\* that lives.
LEMMA RestOrdered ==
  ASSUME IInv, Doors, Numbered, Ordered,
         \/ UNCHANGED vars
         \/ \E e \in Event, r \in Replica : Enters(e, r) \/ AdmitAgain(e, r)
         \/ \E e \in Event : AdmitFails(e)
         \/ \E p \in Endpoint : Edit(p)
         \/ \E d \in Delivery : RetryDue(d)
         \/ \E j \in Job : Wake(j) \/ LeaseEnds(j)
         \/ \E r \in Replica : Crash(r) \/ Recovers(r)
  PROVE  Ordered'
<1>t. Typed
  BY DEF IInv
<1>1. [Next]_vars
  BY DEF Next
<1>2. Forward
  BY <1>1, StepSettles DEF Settles
<1>3. UNCHANGED <<order, rank, passed, status, attempts>>
  BY DEF vars, entries, events, rows, Enters, AdmitAgain, AdmitFails, Edit, RetryDue, Wake,
         LeaseEnds, TakeBack, Crash, Recovers, Boot, Proceed, RecoverJob
<1>4. \A t \in Slot : run'[t] \in {run[t], Idle}
  <2>1. CASE \E r \in Replica : Crash(r)
    BY <2>1 DEF Crash
  <2>2. CASE run' = run
    BY <2>2
  <2> QED
    BY <2>1, <2>2 DEF vars, Enters, AdmitAgain, AdmitFails, Edit, RetryDue, Wake, LeaseEnds, TakeBack, Recovers,
                      Boot, Proceed, RecoverJob
<1>5. /\ \A t \in Slot : run[t].pc # "idle" =>
           LET j == run[t].job
           IN  queue[j] = "granted" => queue'[j] = "granted" /\ holder'[j] = holder[j]
      /\ \A j \in Job : queue'[j] = "failed" => queue[j] = "failed"
  <2>1. CASE UNCHANGED jobs
    BY <2>1 DEF jobs
  <2>2. CASE \E j \in Job : Wake(j)
    BY <1>t, <2>2 DEF Wake, Typed
  <2>3. CASE \E j \in Job : LeaseEnds(j)
    <3>1. PICK j \in Job : LeaseEnds(j)
      BY <2>3
    <3>2. /\ queue'[j] = "open" /\ run[holder[j]].job # j
          /\ \A i : i # j => queue'[i] = queue[i] /\ holder'[i] = holder[i]
      BY <1>t, <3>1 DEF LeaseEnds, TakeBack, Typed
    <3>3. \A t \in Slot : run[t].pc # "idle" => run[t].job # j
      BY <3>2 DEF Ordered, RunOrdered
    <3> QED
      BY <3>2, <3>3
  <2>4. CASE \E r \in Replica, j \in Job : RecoverJob(r, j)
    <3>1. PICK r \in Replica, j \in Job : RecoverJob(r, j)
      BY <2>4
    <3>2. PICK q : q = IF ~Offer(j) THEN queue[j]
                       ELSE IF j \in Delivery /\ waits[j] THEN "asleep" ELSE "open"
      OBVIOUS
    <3>3. queue' = [queue EXCEPT ![j] = q] /\ holder' = holder
      BY <3>1, <3>2 DEF RecoverJob
    <3>4. q = queue[j] \/ (q # "failed" /\ queue[j] # "granted")
      BY <3>2 DEF Offer, Closed
    <3> QED
      BY <1>t, <3>3, <3>4 DEF Typed
  <2> QED
    BY <2>1, <2>2, <2>3, <2>4 DEF vars, Enters, AdmitAgain, AdmitFails, Edit, RetryDue, Crash, Recovers, Boot, Proceed
<1> QED
  BY <1>2, <1>3, <1>4, <1>5, OthersOrdered

-----------------------------------------------------------------------------
(* The theorems.                                                           *)

\* The program starts in order.
LEMMA StartsOrdered == Init => OInv
<1> SUFFICES ASSUME Init PROVE OInv
  OBVIOUS
<1> USE DEF Init
<1>1. Idle.pc = "idle"
  BY DEF Idle, Fresh
<1>2. Counted(rank)
  <2>1. Cardinality({x \in Event : rank[x] # 0}) \in Nat
    BY Numbers
  <2>2. \A n \in Nat : 0 <= n
    OBVIOUS
  <2> QED
    BY <2>1, <2>2 DEF Counted
<1>3. Numbered
  BY <1>2 DEF Numbered
<1>4. Turns /\ Ranked
  BY DEF Turns, Ranked
<1>5. Failures
  BY Pairs DEF Failures
<1>6. \A t \in Slot : RunOrdered(t)
  BY <1>1 DEF RunOrdered
<1> QED
  BY <1>3, <1>4, <1>5, <1>6 DEF OInv, Ordered

\* Every step numbers well, whatever fault it is.
LEMMA StepNumbers ==
  ASSUME IInv, Doors, Numbered, [Next]_vars
  PROVE  Numbered'
<1>t. Typed /\ Forward
  BY StepSettles DEF IInv, Settles
<1>1. CASE \E e \in Event : Admit(e)
  BY <1>1, AdmitNumbers
<1>2. CASE UNCHANGED <<order, rank>>
  BY <1>t, <1>2, NumberedRests DEF Numbered, Counted
<1>3. ASSUME NEW t \in Slot, order' = order, run[t].pc = "materialize",
             WriteDeliveries(run[t].job, run[t].picked)
      PROVE  Numbered'
  <2>1. run[t].job \in Event
    BY <1>3 DEF IInv, Consistent, Runs, RunTold, Selecting
  <2>2. Counted(rank')
    BY <1>t, <1>3, <2>1, RankKeepsCount DEF Numbered, Counted
  <2> QED
    BY <1>t, <1>3, <2>2, NumberedRests
<1>4. ASSUME NEW t \in Slot, Materialize(t)
      PROVE  Numbered'
  BY <1>3, <1>4 DEF Materialize, At
<1>5. ASSUME NEW t \in Slot, StoreFails(t)
      PROVE  Numbered'
  BY <1>2, <1>3, <1>5 DEF StoreFails, Written, At, events
<1>6. ASSUME NEW t \in Slot, RunStep(t), ~Materialize(t)
      PROVE  Numbered'
  <2>1. UNCHANGED <<order, rank>>
    BY <1>6 DEF RunStep, Select, Submit, Load, Reset, Reload, Close, Begin, Post, Record,
                Forget, Finish, events
  <2> QED
    BY <1>2, <2>1
<1>7. ASSUME ~\E e \in Event : Admit(e),
             ~\E t \in Slot : RunStep(t) \/ StoreFails(t)
      PROVE  Numbered'
  <2>1. UNCHANGED <<order, rank>>
    BY <1>7 DEF Next, vars, events, Enters, AdmitAgain, AdmitFails, Edit, Claim, RetryDue, Wake, LeaseEnds, LeaseLost,
                TakeBack, Crash, Recovers, Boot, Proceed, RecoverJob
  <2> QED
    BY <1>2, <2>1
<1> QED
  BY <1>1, <1>4, <1>5, <1>6, <1>7

\* Every step that is no such fault keeps the order.
LEMMA StepOrders ==
  ASSUME IInv, Doors, Numbered, Ordered, Clean', [Next]_vars
  PROVE  Ordered'
<1>1. CASE \E e \in Event : Admit(e)
  BY <1>1, AdmitOrdered
<1>2. ASSUME NEW t \in Slot, RunStep(t)
      PROVE  Ordered'
  BY <1>2, SelectOrdered, MaterializeOrdered, LoadOrdered, WritersOrdered, PostOrdered,
     FinishOrdered DEF RunStep
<1>3. CASE \E t \in Slot, r \in Replica, j \in Job : Claim(t, r, j)
  BY <1>3, ClaimOrdered
<1>4. ASSUME NEW t \in Slot, StoreFails(t)
      PROVE  FALSE
  BY <1>4 DEF StoreFails, Happens, Clean
<1>5. ASSUME NEW j \in Job, LeaseLost(j)
      PROVE  FALSE
  BY <1>5 DEF LeaseLost, Happens, Clean
<1>6. CASE \/ UNCHANGED vars
           \/ \E e \in Event, r \in Replica : Enters(e, r) \/ AdmitAgain(e, r)
           \/ \E e \in Event : AdmitFails(e)
           \/ \E p \in Endpoint : Edit(p)
           \/ \E d \in Delivery : RetryDue(d)
           \/ \E j \in Job : Wake(j) \/ LeaseEnds(j)
           \/ \E r \in Replica : Crash(r) \/ Recovers(r)
  BY <1>6, RestOrdered
<1> QED
  BY <1>1, <1>2, <1>3, <1>4, <1>5, <1>6 DEF Next

\* Until a store call fails or a live run loses its lease, each run holds its job,
\* and its delivery is behind all whose numbers are smaller: a selection that
\* was reached found every event of a smaller number laid, unless that event was
\* shown only after it.
THEOREM Queueing == Spec => []OInv
<1>1. IInv /\ Doors /\ OInv /\ [Next]_vars => OInv'
  <2> SUFFICES ASSUME IInv, Doors, OInv, [Next]_vars PROVE OInv'
    OBVIOUS
  <2>1. Numbered /\ Numbered'
    BY StepNumbers DEF OInv
  <2>2. ASSUME Clean' PROVE Ordered'
    <3>1. Clean
      BY <2>2, StepSettles DEF Settles, Forward, Clean
    <3> QED
      BY <2>1, <2>2, <3>1, StepOrders DEF OInv
  <2> QED
    BY <2>1, <2>2 DEF OInv
<1> QED
  BY Invariance, StartsOrdered, <1>1, PTL DEF Spec

\* One endpoint's deliveries are attempted in their order, retries included,
\* through crashes and recoveries, as long as no store call failed and no live
\* run lost its lease; but not of two events of which the one with the smaller
\* number was shown only behind the other.
THEOREM Order == Spec => InOrder
<1>1. IInv /\ OInv /\ [Next]_vars =>
        [happened \cap {"store", "lease"} = {} => \A t \in Slot : ~Overtakes(t)]_vars
  <2> SUFFICES ASSUME IInv, OInv, Clean, NEW t \in Slot, Overtakes(t) PROVE FALSE
    BY DEF Clean
  <2>1. run[t].pc = "post"
    BY DEF Overtakes, Post, At
  <2>2. RunOrdered(t)
    BY DEF OInv, Ordered
  <2>3. run[t].job \in Delivery /\ EventOf(t) = run[t].job[1]
    BY <2>1, Pairs DEF IInv, Consistent, Runs, RunTold, Delivering, EventOf
  <2> QED
    BY <2>1, <2>2, <2>3 DEF RunOrdered, Delivering, Overtakes
<1> QED
  BY Invariance, Queueing, <1>1, PTL DEF Spec, InOrder
=============================================================================
