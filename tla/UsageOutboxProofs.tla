-------------------------- MODULE UsageOutboxProofs --------------------------
(* Proofs about UsageOutbox, for any requests, keys, replicas and delays:  *)
(* what the outbox marks is what Cloud has taken, whatever fails.          *)
EXTENDS UsageOutbox, TLAPS

-----------------------------------------------------------------------------
(* Types.                                                                  *)

Batches == UNION {[es -> 0..Saturation] : es \in SUBSET Exec}

Flush == [pc : {"idle", "report", "release", "fail"}, batch : Batches,
          todo : SUBSET Exec, sent : SUBSET Exec, failed : SUBSET Exec]

Row == [op : {"none", "report", "release"}, state : {"none", "pending", "failed", "sent"},
        attempts : 0..Saturation, wait : Nat]

Place == {"arrived", "reserve", "allocate", "run", "report", "release", "done"}

\* TypeOK, with flushes that are records.
Types == TypeOK /\ flush \in [Flusher -> Flush]

\* What a flush has done to its batch concerns the batch.
Within(r) == r.todo \cup r.sent \cup r.failed \subseteq DOMAIN r.batch

LEMMA BatchTypes ==
  ASSUME NEW b \in Batches
  PROVE  DOMAIN b \subseteq Exec /\ \A e \in DOMAIN b : b[e] \in 0..Saturation
  BY DEF Batches

\* A flush that is replaced by one of the right shape leaves Types true.
LEMMA FlushTypes ==
  ASSUME Types, NEW f \in Flusher, NEW r \in Flush, Within(r), flush' = [flush EXCEPT ![f] = r]
  PROVE  /\ flush' \in [Flusher -> Flush]
         /\ \A g \in Flusher :
              /\ flush'[g].pc \in {"idle", "report", "release", "fail"}
              /\ DOMAIN flush'[g].batch \subseteq Exec
              /\ \A e \in DOMAIN flush'[g].batch : flush'[g].batch[e] \in 0..Saturation
              /\ flush'[g].todo \cup flush'[g].sent \cup flush'[g].failed \subseteq DOMAIN flush'[g].batch
<1>1. flush' \in [Flusher -> Flush]
  BY DEF Types
<1>2. \A g \in Flusher : Within(flush'[g])
  BY DEF Types, TypeOK, Within
<1> QED
  BY <1>1, <1>2, BatchTypes DEF Flush, Within

LEMMA IdleTypes ==
  /\ Idle \in Flush /\ Within(Idle)
  /\ Idle.sent = {} /\ Idle.failed = {} /\ Idle.todo = {} /\ Idle.batch = [e \in {} |-> 0]
<1>1. [e \in {} |-> 0] \in Batches
  <2>1. [e \in {} |-> 0] \in [{} -> 0..Saturation] /\ {} \in SUBSET Exec
    OBVIOUS
  <2> QED
    BY <2>1 DEF Batches
<1> QED
  BY <1>1 DEF Idle, Flush, Within

LEMMA NoRowType == NoRow \in Row
  BY UsageAssumption DEF NoRow, Row

LEMMA GrownTypes == \A n \in 0..Saturation : Grown(n) \in 1..Saturation
  BY UsageAssumption DEF Grown

LEMMA InitTypes == Init => Types
<1> SUFFICES ASSUME Init PROVE Types
  OBVIOUS
<1>1. flush \in [Flusher -> Flush] /\ \A f \in Flusher : flush[f] = Idle
  BY IdleTypes DEF Init
<1>2. row \in [Exec -> Row]
  BY NoRowType DEF Init
<1> QED
  BY <1>1, <1>2, IdleTypes, BatchTypes, UsageAssumption DEF Init, Types, TypeOK, Flush, Within, Row

\* A request's step moves the request, and may write its row.
LEMMA RequestTypes ==
  ASSUME Types, NEW e \in Exec, RequestStep(e) \/ AllocateFails(e) \/ RequestDies(e)
  PROVE  Types'
<1>1. flush' = flush /\ mode' = mode /\ counted' = counted
  BY DEF RequestStep, Inspect, Reserve, Denied, ReserveFails, Allocate, AllocateFails, RequestDies,
     Dispatch, NotDispatched, Enqueue, GivesBack, cloud, engine
<1>2. pc' = pc \/ \E label \in Place : Goto(e, label)
  BY DEF RequestStep, Inspect, Reserve, Denied, ReserveFails, Allocate, AllocateFails, RequestDies,
     Dispatch, NotDispatched, Enqueue, GivesBack, Unwinds, Place
<1>3. pc' \in [Exec -> Place]
  BY <1>2 DEF Goto, Types, TypeOK, Place
<1>4. /\ handle' \in {handle, handle \cup {e}} /\ dispatched' \in {dispatched, dispatched \cup {e}}
      /\ winner' \in {winner, [winner EXCEPT ![KeyOf[e]] = e]}
      /\ reservation' \in {reservation, [reservation EXCEPT ![KeyOf[e]] = "reserved"]}
      /\ left' = left \/ (left > 0 /\ left' = left - 1)
  BY DEF RequestStep, Inspect, Reserve, Denied, ReserveFails, Allocate, AllocateFails, RequestDies,
     Dispatch, NotDispatched, Enqueue, GivesBack, Unwinds, Happens, cloud, engine
<1>5. row' \in [Exec -> Row]
  <2>1. row \in [Exec -> Row]
    BY DEF Types, TypeOK, Row
  <2>2. ASSUME NEW what \in {"report", "release"}, Entered(e, what) PROVE row' \in [Exec -> Row]
    <3>1. [NoRow EXCEPT !.op = what, !.state = "pending"] \in Row
      BY NoRowType DEF Row
    <3> QED
      BY <2>1, <2>2, <3>1 DEF Entered
  <2>3. row' = row \/ Entered(e, "release") \/ (pc[e] \in {"report", "release"} /\ Entered(e, pc[e]))
    BY DEF RequestStep, Inspect, Reserve, Denied, ReserveFails, Allocate, AllocateFails, RequestDies,
       Dispatch, NotDispatched, Enqueue, GivesBack
  <2> QED
    BY <2>1, <2>2, <2>3
<1>6. left' \in 0..MaxHappenings
  BY <1>4, UsageAssumption DEF Types, TypeOK
<1>7. handle' \subseteq Exec /\ dispatched' \subseteq Exec
  BY <1>4 DEF Types, TypeOK
<1>9. winner' \in [Key -> Exec \cup {NoExec}]
  BY <1>4 DEF Types, TypeOK
<1>10. thrown' \in [Exec -> {"no", "owes", "gave"}]
  BY DEF RequestStep, Inspect, Reserve, Denied, ReserveFails, Allocate, AllocateFails, RequestDies,
     Dispatch, NotDispatched, Enqueue, GivesBack, Types, TypeOK
<1>8. reservation' \in [Key -> {"none", "reserved", "released", "expired", "committed"}]
  BY <1>4, UsageAssumption DEF Types, TypeOK
<1> QED
  BY <1>1, <1>3, <1>5, <1>6, <1>7, <1>8, <1>9, <1>10 DEF Types, TypeOK, Row, Place

\* A step of a flusher leaves the requests alone and its flush well formed.
LEMMA FlushMoves ==
  ASSUME Types, NEW f \in Flusher, FlushStep(f) \/ FlushThrows(f) \/ DrainStarts(f) \/ DrainEnds(f) \/ Dies(f) \/ Boot(f)
  PROVE  \E r \in Flush : Within(r) /\ flush' = [flush EXCEPT ![f] = r]
<1>1. flush[f] \in Flush /\ Within(flush[f]) /\ flush = [flush EXCEPT ![f] = flush[f]]
  BY DEF Types, TypeOK, Within
<1>2. CASE List(f)
  <2> PICK es \in SUBSET Exec : flush' = [flush EXCEPT ![f] = Listed(es)]
    BY <1>2 DEF List, Ready
  <2> DEFINE b == [e \in es |-> row[e].attempts]
             t == {e \in es : row[e].op = "release"}
  <2>1. b \in Batches /\ DOMAIN b = es /\ t \in SUBSET Exec /\ t \subseteq es
    <3>1. b \in [es -> 0..Saturation]
      BY DEF Types, TypeOK
    <3> QED
      BY <3>1 DEF Batches
  <2>2. PICK place \in {"report", "release"} : Listed(es) = [Idle EXCEPT !.pc = place, !.batch = b, !.todo = t]
    BY DEF Listed
  <2> HIDE DEF b, t
  <2>3. Listed(es) \in Flush
    BY <2>1, <2>2, IdleTypes DEF Flush
  <2>4. /\ Listed(es).batch = b /\ Listed(es).todo = t
        /\ Listed(es).sent = {} /\ Listed(es).failed = {}
    BY <2>2, IdleTypes DEF Flush
  <2>5. Within(Listed(es))
    BY <2>1, <2>4 DEF Within
  <2> QED
    BY <2>3, <2>5
<1>3. CASE Reported(f) \/ ReportFails(f)
  <2>1. Reports(f) \in SUBSET DOMAIN flush[f].batch /\ Reports(f) \in SUBSET Exec
    BY <1>1, BatchTypes DEF Reports, Flush
  <2>2. \E r \in {[flush[f] EXCEPT !.pc = "release", !.sent = Reports(f)],
                  [flush[f] EXCEPT !.pc = "release", !.failed = Reports(f)]} :
          flush' = [flush EXCEPT ![f] = r]
    BY <1>1, <1>3 DEF Reported, ReportFails, Types
  <2> QED
    BY <1>1, <2>1, <2>2 DEF Flush, Within
<1>4. CASE \E e \in Exec : Released(f, e) \/ ReleaseFails(f, e)
  <2> PICK e \in Exec : Released(f, e) \/ ReleaseFails(f, e)
    BY <1>4
  <2>1. e \in flush[f].todo /\ e \in DOMAIN flush[f].batch
    BY <1>1 DEF Released, ReleaseFails, Within
  <2>2. \E r \in {[flush[f] EXCEPT !.todo = @ \ {e}, !.sent = @ \cup {e}],
                  [flush[f] EXCEPT !.todo = @ \ {e}, !.failed = @ \cup {e}]} :
          flush' = [flush EXCEPT ![f] = r]
    <3>1. CASE Outcome(f, e, "sent")
      <4>1. flush' = [flush EXCEPT ![f] = [flush[f] EXCEPT !.todo = @ \ {e}, !.sent = @ \cup {e}]]
        BY <1>1, <3>1 DEF Outcome, Types, Flush
      <4> QED
        BY <4>1
    <3>2. CASE Outcome(f, e, "failed")
      <4>1. flush' = [flush EXCEPT ![f] = [flush[f] EXCEPT !.todo = @ \ {e}, !.failed = @ \cup {e}]]
        BY <1>1, <3>2 DEF Outcome, Types, Flush
      <4> QED
        BY <4>1
    <3> QED
      BY <3>1, <3>2 DEF Released, ReleaseFails
  <2> PICK r \in {[flush[f] EXCEPT !.todo = @ \ {e}, !.sent = @ \cup {e}],
                  [flush[f] EXCEPT !.todo = @ \ {e}, !.failed = @ \cup {e}]} :
          flush' = [flush EXCEPT ![f] = r]
    BY <2>2
  <2>3. /\ flush[f].batch \in Batches /\ flush[f].todo \in SUBSET Exec /\ flush[f].sent \in SUBSET Exec
        /\ flush[f].failed \in SUBSET Exec
    BY <1>1 DEF Flush
  <2>4. CASE r = [flush[f] EXCEPT !.todo = @ \ {e}, !.sent = @ \cup {e}]
    <3>1. r \in Flush
      BY <1>1, <2>3, <2>4 DEF Flush
    <3>2. r.todo \subseteq flush[f].todo /\ r.sent = flush[f].sent \cup {e} /\ r.failed = flush[f].failed
          /\ r.batch = flush[f].batch
      BY <1>1, <2>4 DEF Flush
    <3> QED
      BY <1>1, <2>1, <3>1, <3>2 DEF Within
  <2>5. CASE r = [flush[f] EXCEPT !.todo = @ \ {e}, !.failed = @ \cup {e}]
    <3>1. r \in Flush
      BY <1>1, <2>3, <2>5 DEF Flush
    <3>2. r.todo \subseteq flush[f].todo /\ r.failed = flush[f].failed \cup {e} /\ r.sent = flush[f].sent
          /\ r.batch = flush[f].batch
      BY <1>1, <2>5 DEF Flush
    <3> QED
      BY <1>1, <2>1, <3>1, <3>2 DEF Within
  <2> QED
    BY <2>4, <2>5
<1>5. CASE MarkSent(f)
  <2>1. flush' = [flush EXCEPT ![f] = [flush[f] EXCEPT !.pc = "fail"]]
    BY <1>1, <1>5 DEF MarkSent, Types
  <2> QED
    BY <1>1, <2>1 DEF Flush, Within
<1>6. CASE flush' = [flush EXCEPT ![f] = Idle]
  BY <1>6, IdleTypes
<1>7. CASE flush' = flush
  BY <1>1, <1>7
<1> QED
  BY <1>2, <1>3, <1>4, <1>5, <1>6, <1>7
     DEF FlushStep, MarkFailed, FlushThrows, DrainStarts, DrainEnds, Dies, Boot

\* What a flusher does to the rows: it marks some, and defers some.
LEMMA FlushRows ==
  ASSUME Types, NEW f \in Flusher, FlushStep(f) \/ FlushThrows(f) \/ DrainStarts(f) \/ DrainEnds(f) \/ Dies(f) \/ Boot(f)
  PROVE  /\ row' \in [Exec -> Row]
         /\ \A e \in Exec : row'[e].op = row[e].op
         /\ \A e \in Exec : row[e].state = "sent" => row'[e].state = "sent"
         /\ \A e \in Exec : row'[e].state = "sent" => row[e].state = "sent" \/ e \in flush[f].sent
<1>1. row \in [Exec -> Row] /\ flush[f] \in Flush /\ Within(flush[f])
  BY DEF Types, TypeOK, Row, Within
<1>2. CASE MarkSent(f)
  <2>1. row' = [e \in Exec |-> IF e \in flush[f].sent THEN [row[e] EXCEPT !.state = "sent", !.wait = 0]
                                                      ELSE row[e]]
    BY <1>2 DEF MarkSent
  <2>2. \A e \in Exec : [row[e] EXCEPT !.state = "sent", !.wait = 0] \in Row
    BY <1>1 DEF Row
  <2> QED
    BY <1>1, <2>1, <2>2 DEF Row
<1>3. CASE MarkFailed(f)
  <2>1. row' = [e \in Exec |-> IF e \in flush[f].failed /\ row[e].state # "sent" THEN Deferred(f, e) ELSE row[e]]
    BY <1>3 DEF MarkFailed
  <2>2. \A e \in flush[f].failed : Deferred(f, e) \in Row /\ Deferred(f, e).op = row[e].op /\ Deferred(f, e).state = "failed"
    <3> SUFFICES ASSUME NEW e \in flush[f].failed
                 PROVE  Deferred(f, e) \in Row /\ Deferred(f, e).op = row[e].op /\ Deferred(f, e).state = "failed"
      OBVIOUS
    <3>1. e \in Exec /\ flush[f].batch[e] \in 0..Saturation
      BY <1>1, BatchTypes DEF Flush, Within
    <3>2. RetryDelay[Grown(flush[f].batch[e])] \in Nat
      BY <3>1, GrownTypes, UsageAssumption
    <3>3. row[e] \in Row /\ Grown(row[e].attempts) \in 0..Saturation
      BY <1>1, <3>1, GrownTypes DEF Row
    <3> QED
      BY <3>2, <3>3 DEF Deferred, Row
  <2> QED
    BY <1>1, <2>1, <2>2 DEF Row
<1>4. CASE row' = row
  BY <1>1, <1>4
<1> QED
  BY <1>2, <1>3, <1>4 DEF FlushStep, List, Reported, ReportFails, Released, ReleaseFails,
     FlushThrows, DrainStarts, DrainEnds, Dies, Boot

\* What a flusher does to Cloud's reservations: it commits, or gives back, those
\* that are reserved.
LEMMA FlushReservations ==
  ASSUME Types, NEW f \in Flusher, FlushStep(f) \/ FlushThrows(f) \/ DrainStarts(f) \/ DrainEnds(f) \/ Dies(f) \/ Boot(f)
  PROVE  /\ reservation' \in [Key -> {"none", "reserved", "released", "expired", "committed"}]
         /\ \A k \in Key : reservation[k] # "reserved" => reservation'[k] = reservation[k]
         /\ \A k \in Key : reservation'[k] = "released" =>
              reservation[k] = "released" \/ \E e \in flush[f].todo : KeyOf[e] = k
         /\ counted' \in {counted, counted \cup Keys(Reports(f))}
<1>1. reservation \in [Key -> {"none", "reserved", "released", "expired", "committed"}]
  BY DEF Types, TypeOK
<1>2. CASE Taken(Reports(f))
  BY <1>1, <1>2 DEF Taken
<1>3. ASSUME NEW e \in Exec, GivenBack(e), e \in flush[f].todo, counted' = counted
      PROVE  /\ reservation' \in [Key -> {"none", "reserved", "released", "expired", "committed"}]
             /\ \A k \in Key : reservation[k] # "reserved" => reservation'[k] = reservation[k]
             /\ \A k \in Key : reservation'[k] = "released" =>
                  reservation[k] = "released" \/ \E x \in flush[f].todo : KeyOf[x] = k
             /\ counted' \in {counted, counted \cup Keys(Reports(f))}
  BY <1>1, <1>3, UsageAssumption DEF GivenBack
<1>4. CASE UNCHANGED <<reservation, counted>>
  BY <1>1, <1>4
<1> QED
  BY <1>2, <1>3, <1>4 DEF FlushStep, List, Reported, ReportFails, Released, ReleaseFails, MarkSent, MarkFailed,
     FlushThrows, DrainStarts, DrainEnds, Dies, Boot, cloud

LEMMA FlusherTypes ==
  ASSUME Types, NEW f \in Flusher, FlushStep(f) \/ FlushThrows(f) \/ DrainStarts(f) \/ DrainEnds(f) \/ Dies(f) \/ Boot(f)
  PROVE  Types'
<1>1. UNCHANGED engine
  BY DEF FlushStep, List, Reported, ReportFails, Released, ReleaseFails, MarkSent, MarkFailed,
     FlushThrows, DrainStarts, DrainEnds, Dies, Boot
<1>2. row' \in [Exec -> Row]
  BY FlushRows
<1>3. \E label \in {"run", "drain", "closed"} : mode' = [mode EXCEPT ![f] = label]
  <2>1. mode[f] \in {"run", "drain", "closed"} /\ mode = [mode EXCEPT ![f] = mode[f]]
    BY DEF Types, TypeOK
  <2>2. CASE MarkFailed(f) \/ FlushThrows(f)
    BY <2>1, <2>2 DEF MarkFailed, FlushThrows
  <2>3. CASE DrainStarts(f) \/ DrainEnds(f) \/ Dies(f) \/ Boot(f)
    BY <2>3 DEF DrainStarts, DrainEnds, Dies, Boot
  <2>4. CASE mode' = mode
    BY <2>1, <2>4
  <2> QED
    BY <2>2, <2>3, <2>4 DEF FlushStep, List, Reported, ReportFails, Released, ReleaseFails, MarkSent
<1>4. mode' \in [Flusher -> {"run", "drain", "closed"}]
  BY <1>3 DEF Types, TypeOK
<1>5. left' = left \/ (left > 0 /\ left' = left - 1)
  BY DEF FlushStep, List, Reported, ReportFails, Released, ReleaseFails, MarkSent, MarkFailed,
     FlushThrows, DrainStarts, DrainEnds, Dies, Boot, Happens
<1>6. left' \in 0..MaxHappenings
  BY <1>5, UsageAssumption DEF Types, TypeOK
<1>7. counted' \subseteq Key
  <2>1. Keys(Reports(f)) \subseteq Key
    BY BatchTypes, UsageAssumption DEF Keys, Reports, Types, Flush
  <2> QED
    BY <2>1, FlushReservations DEF Types, TypeOK
<1>8. PICK r \in Flush : Within(r) /\ flush' = [flush EXCEPT ![f] = r]
  BY FlushMoves
<1>9. /\ flush' \in [Flusher -> Flush]
      /\ \A g \in Flusher :
           /\ flush'[g].pc \in {"idle", "report", "release", "fail"}
           /\ DOMAIN flush'[g].batch \subseteq Exec
           /\ \A e \in DOMAIN flush'[g].batch : flush'[g].batch[e] \in 0..Saturation
           /\ flush'[g].todo \cup flush'[g].sent \cup flush'[g].failed \subseteq DOMAIN flush'[g].batch
  BY <1>8, FlushTypes
<1> QED
  BY <1>1, <1>2, <1>4, <1>6, <1>7, <1>9, FlushReservations DEF Types, TypeOK, Row, engine

\* Every step keeps the types.
LEMMA NextTypes == Types /\ [Next]_vars => Types'
<1> SUFFICES ASSUME Types, [Next]_vars PROVE Types'
  OBVIOUS
<1>1. CASE \E k \in Key : Expires(k)
  <2> PICK k \in Key : Expires(k)
    BY <1>1
  <2>1. reservation' \in [Key -> {"none", "reserved", "released", "expired", "committed"}]
    BY DEF Expires, Types, TypeOK
  <2>2. left' \in 0..MaxHappenings
    BY UsageAssumption DEF Expires, Happens, Types, TypeOK
  <2>3. UNCHANGED <<engine, row, flush, mode, counted>>
    BY DEF Expires
  <2> QED
    BY <2>1, <2>2, <2>3 DEF Types, TypeOK, engine
<1>2. CASE Tick
  <2>1. row \in [Exec -> Row]
    BY DEF Types, TypeOK, Row
  <2>2. \A e \in Exec : [row[e] EXCEPT !.wait = IF @ > 0 THEN @ - 1 ELSE 0] \in Row
    BY <2>1 DEF Row
  <2>3. row' \in [Exec -> Row]
    BY <1>2, <2>2 DEF Tick
  <2>4. UNCHANGED <<engine, flush, mode, cloud, left>>
    BY <1>2 DEF Tick
  <2> QED
    BY <2>3, <2>4 DEF Types, TypeOK, engine, cloud, Row
<1>3. CASE UNCHANGED vars
  BY <1>3 DEF Types, TypeOK, vars, engine, cloud
<1> QED
  BY <1>1, <1>2, <1>3, RequestTypes, FlusherTypes DEF Next

-----------------------------------------------------------------------------
(* What the rows say, and what Cloud knows of them.                        *)

\* A row is written once, and says whether the dispatch was marked, unless the
\* request's allocation was applied and threw.
Rows ==
  \A e \in Exec :
    /\ row[e].op = "none" => row[e] = NoRow
    /\ pc[e] # "done" => row[e] = NoRow \/ (thrown[e] = "gave" /\ row[e].op = "release")
    /\ row[e].op = "report" => e \in dispatched
    /\ row[e].op = "release" => e \notin dispatched \/ thrown[e] = "gave"
    /\ pc[e] = "report" => e \in dispatched
    /\ pc[e] \in {"arrived", "reserve", "allocate", "run", "release"} => e \notin dispatched
    /\ pc[e] \in {"arrived", "reserve", "allocate"} => thrown[e] = "no"

\* A flush tells reports from releases by the rows, and what it has sent Cloud
\* has taken.
Flushes ==
  \A f \in Flusher :
    /\ \A e \in DOMAIN flush[f].batch : row[e].op # "none"
    /\ \A e \in flush[f].todo : row[e].op = "release"
    /\ \A e \in flush[f].sent : Settled(e)

\* A reservation was given back for a row that asks for it.
Asked == \A k \in Key : reservation[k] = "released" => \E o \in Exec : KeyOf[o] = k /\ row[o].op = "release"

IInv == Types /\ Rows /\ Flushes /\ Asked /\ SentIsSettled /\ CountedWasDispatched

LEMMA InitInv == Init => IInv
<1> SUFFICES ASSUME Init PROVE IInv
  OBVIOUS
<1>1. Types
  BY InitTypes
<1>2. \A f \in Flusher : flush[f] = Idle
  BY DEF Init
<1>3. Flushes
  BY <1>2, IdleTypes DEF Flushes
<1> QED
  BY <1>1, <1>3, UsageAssumption
     DEF Init, IInv, Rows, Asked, SentIsSettled, CountedWasDispatched, Keys, NoRow

\* Steps of a request: its row is the only one that may change, and it had none.
LEMMA RequestKeeps ==
  ASSUME IInv, NEW e \in Exec, RequestStep(e) \/ AllocateFails(e) \/ RequestDies(e)
  PROVE  IInv'
<1>1. Types /\ Types'
  BY RequestTypes DEF IInv
<1>2. UNCHANGED <<flush, counted>>
  BY DEF RequestStep, Inspect, Reserve, Denied, ReserveFails, Allocate, AllocateFails, RequestDies,
     Dispatch, NotDispatched, Enqueue, GivesBack, cloud, engine
<1>3. \/ Enqueue(e) \/ GivesBack(e)
      \/ row' = row /\ Dispatch(e)
      \/ /\ row' = row /\ dispatched' = dispatched /\ pc[e] \in {"arrived", "reserve", "allocate", "run", "release"}
         /\ \E label \in {"reserve", "allocate", "run", "release", "done"} : Goto(e, label)
      \/ row' = row /\ dispatched' = dispatched /\ pc' = pc
  BY DEF RequestStep, Inspect, Reserve, Denied, ReserveFails, Allocate, AllocateFails, RequestDies,
     Dispatch, NotDispatched, Unwinds, At
<1>13. \A x \in Exec : thrown[x] = "gave" => thrown'[x] = "gave"
  BY <1>1 DEF RequestStep, Inspect, Reserve, Denied, ReserveFails, Allocate, AllocateFails, RequestDies,
     Dispatch, NotDispatched, Enqueue, GivesBack, At, IInv, Rows, Types, TypeOK
<1>14. \A x \in Exec : pc'[x] \in {"arrived", "reserve", "allocate"} => thrown'[x] = "no"
  BY <1>1 DEF RequestStep, Inspect, Reserve, Denied, ReserveFails, Allocate, AllocateFails, RequestDies,
     Dispatch, NotDispatched, Enqueue, GivesBack, Unwinds, Goto, At, IInv, Rows, Types, TypeOK
<1>4. \A x \in Exec : \/ row'[x] = row[x]
                     \/ /\ x = e /\ row[x] = NoRow /\ row'[x].state = "pending"
                        /\ \/ pc[e] \in {"report", "release"} /\ row'[x].op = pc[e] /\ Enqueue(e)
                           \/ row'[x].op = "release" /\ GivesBack(e)
  <2>1. ASSUME NEW what \in {"report", "release"}, Entered(e, what)
        PROVE  \A x \in Exec : \/ row'[x] = row[x]
                               \/ x = e /\ row[x] = NoRow /\ row'[x].state = "pending" /\ row'[x].op = what
    <3> SUFFICES ASSUME NEW x \in Exec, row'[x] # row[x]
                 PROVE  x = e /\ row[x] = NoRow /\ row'[x].state = "pending" /\ row'[x].op = what
      OBVIOUS
    <3>1. row[e].op = "none" /\ row' = [row EXCEPT ![e] = [NoRow EXCEPT !.op = what, !.state = "pending"]]
      BY <2>1 DEF Entered
    <3>2. x = e
      BY <1>1, <3>1 DEF Types, TypeOK
    <3>3. row[e] = NoRow /\ row'[e].state = "pending" /\ row'[e].op = what
      BY <1>1, <3>1 DEF IInv, Rows, NoRow, Types, TypeOK
    <3> QED
      BY <3>2, <3>3
  <2>2. CASE Enqueue(e)
    BY <2>1, <2>2 DEF Enqueue
  <2>3. CASE GivesBack(e)
    BY <2>1, <2>3 DEF GivesBack
  <2>4. CASE row' = row
    BY <2>4
  <2> QED
    BY <1>3, <2>2, <2>3, <2>4
<1>5. Rows'
  <2>1. CASE Enqueue(e)
    <3>1. /\ pc' = [pc EXCEPT ![e] = "done"] /\ dispatched' = dispatched /\ thrown' = thrown
          /\ pc[e] \in {"report", "release"} /\ ~GivesBack(e)
      BY <2>1 DEF Enqueue, Goto, GivesBack, IInv, Types, TypeOK
    <3> QED
      BY <1>1, <1>4, <1>14, <3>1 DEF Rows, IInv, Types, TypeOK, NoRow
  <2>2. CASE GivesBack(e)
    <3>1. /\ pc' = pc /\ dispatched' = dispatched /\ thrown'[e] = "gave"
      BY <2>2 DEF GivesBack, IInv, Types, TypeOK
    <3>2. ~Enqueue(e)
      BY <2>2, <3>1 DEF Enqueue, Goto, IInv, Types, TypeOK
    <3> QED
      BY <1>1, <1>4, <1>13, <1>14, <3>1, <3>2 DEF Rows, IInv, Types, TypeOK, NoRow
  <2>3. CASE row' = row /\ Dispatch(e)
    <3>1. /\ pc[e] = "run" /\ pc' = [pc EXCEPT ![e] = "report"] /\ dispatched' = dispatched \cup {e}
          /\ row' = row /\ thrown' = thrown
      BY <2>3 DEF Dispatch, Goto, At
    <3> QED
      BY <1>1, <1>14, <3>1 DEF Rows, IInv, Types, TypeOK, NoRow
  <2>4. CASE /\ row' = row /\ dispatched' = dispatched /\ pc[e] \in {"arrived", "reserve", "allocate", "run", "release"}
             /\ \E label \in {"reserve", "allocate", "run", "release", "done"} : Goto(e, label)
    BY <1>1, <1>13, <1>14, <2>4 DEF Rows, IInv, Types, TypeOK, Goto
  <2>5. CASE row' = row /\ dispatched' = dispatched /\ pc' = pc
    BY <1>1, <1>13, <1>14, <2>5 DEF Rows, IInv, Types, TypeOK
  <2> QED
    BY <1>3, <2>1, <2>2, <2>3, <2>4, <2>5
<1>6. \A k \in Key : reservation'[k] = reservation[k] \/ (reservation[k] \in {"none", "reserved"} /\ reservation'[k] = "reserved")
  BY <1>1 DEF RequestStep, Inspect, Reserve, Denied, ReserveFails, Allocate, AllocateFails, RequestDies,
     Dispatch, NotDispatched, Enqueue, GivesBack, cloud, Types, TypeOK
<1>7. \A x \in Exec : Settled(x) => Settled(x)'
  <2> SUFFICES ASSUME NEW x \in Exec, Settled(x) PROVE Settled(x)'
    OBVIOUS
  <2>1. row'[x] = row[x]
    BY <1>4 DEF Settled, NoRow
  <2>2. KeyOf[x] \in Key
    BY UsageAssumption
  <2> QED
    BY <1>2, <1>6, <2>1, <2>2 DEF Settled
<1>8. Flushes'
  <2>1. \A f \in Flusher : \A x \in DOMAIN flush[f].batch : row'[x] = row[x] /\ row[x].op # "none"
    BY <1>1, <1>4, BatchTypes DEF IInv, Flushes, NoRow, Types, Flush
  <2>2. \A f \in Flusher : flush[f].todo \subseteq DOMAIN flush[f].batch /\ flush[f].sent \subseteq DOMAIN flush[f].batch
                           /\ DOMAIN flush[f].batch \subseteq Exec
    BY <1>1 DEF Types, TypeOK
  <2> QED
    BY <1>2, <1>7, <2>1, <2>2 DEF IInv, Flushes
<1>9. Asked'
  BY <1>4, <1>6, UsageAssumption DEF IInv, Asked, NoRow
<1>10. SentIsSettled'
  BY <1>4, <1>7 DEF IInv, SentIsSettled
<1>11. CountedWasDispatched'
  BY <1>2, <1>3 DEF IInv, CountedWasDispatched, Keys, Enqueue, GivesBack, Dispatch
<1> QED
  BY <1>1, <1>5, <1>8, <1>9, <1>10, <1>11 DEF IInv

\* A row that Cloud knows of stays one, whatever a flusher does.
LEMMA FlushSettles ==
  ASSUME IInv, NEW f \in Flusher,
         FlushStep(f) \/ FlushThrows(f) \/ DrainStarts(f) \/ DrainEnds(f) \/ Dies(f) \/ Boot(f)
  PROVE  \A e \in Exec : Settled(e) => Settled(e)'
<1> SUFFICES ASSUME NEW e \in Exec, Settled(e) PROVE Settled(e)'
  OBVIOUS
<1>1. row'[e].op = row[e].op /\ KeyOf[e] \in Key
  BY FlushRows, UsageAssumption DEF IInv
<1>2. counted \subseteq counted'
  BY FlushReservations DEF IInv
<1>3. reservation[KeyOf[e]] # "reserved" => reservation'[KeyOf[e]] = reservation[KeyOf[e]]
  BY <1>1, FlushReservations DEF IInv
<1> QED
  BY <1>1, <1>2, <1>3 DEF Settled

\* What a flusher adds to its list of what is sent, Cloud has taken.
LEMMA FlushSends ==
  ASSUME IInv, NEW f \in Flusher,
         FlushStep(f) \/ FlushThrows(f) \/ DrainStarts(f) \/ DrainEnds(f) \/ Dies(f) \/ Boot(f)
  PROVE  /\ \A g \in Flusher \ {f} : flush'[g] = flush[g]
         /\ \A e \in DOMAIN flush'[f].batch : row[e].op # "none"
         /\ \A e \in flush'[f].todo : row[e].op = "release"
         /\ \A e \in flush'[f].sent : Settled(e)'
<1>1. flush \in [Flusher -> Flush] /\ flush[f] \in Flush /\ Within(flush[f])
  BY DEF IInv, Types, TypeOK, Within
<1>2. /\ \A e \in DOMAIN flush[f].batch : row[e].op # "none"
      /\ \A e \in flush[f].todo : row[e].op = "release"
      /\ \A e \in flush[f].sent : e \in Exec /\ Settled(e)'
  BY <1>1, FlushSettles DEF IInv, Flushes, Flush
<1>3. CASE List(f)
  <2>1. flush' = [flush EXCEPT ![f] = Listed(Ready(mode[f] = "drain"))]
    BY <1>3 DEF List
  <2>2. PICK place \in {"report", "release"} :
          flush'[f] = [Idle EXCEPT !.pc = place,
                                   !.batch = [e \in Ready(mode[f] = "drain") |-> row[e].attempts],
                                   !.todo = {e \in Ready(mode[f] = "drain") : row[e].op = "release"}]
    BY <1>1, <2>1 DEF Listed
  <2>3. \A e \in Ready(mode[f] = "drain") : e \in Exec /\ row[e].op # "none"
    BY DEF Ready, IInv, Rows, NoRow
  <2>4. flush'[f].sent = {} /\ DOMAIN flush'[f].batch = Ready(mode[f] = "drain")
        /\ flush'[f].todo = {e \in Ready(mode[f] = "drain") : row[e].op = "release"}
    BY <2>2, IdleTypes DEF Flush
  <2> QED
    BY <1>1, <2>1, <2>3, <2>4
<1>4. CASE Reported(f)
  <2>1. /\ flush' = [flush EXCEPT ![f].pc = "release", ![f].sent = Reports(f)]
        /\ counted' = counted \cup Keys(Reports(f)) /\ row' = row
    BY <1>4 DEF Reported, Taken
  <2>2. flush'[f].batch = flush[f].batch /\ flush'[f].todo = flush[f].todo /\ flush'[f].sent = Reports(f)
    BY <1>1, <2>1 DEF Flush
  <2>3. \A e \in Reports(f) : Settled(e)'
    BY <2>1 DEF Settled, Reports, Keys
  <2> QED
    BY <1>1, <1>2, <2>1, <2>2, <2>3
<1>5. CASE ReportFails(f)
  <2>1. flush' = [flush EXCEPT ![f].pc = "release", ![f].failed = Reports(f)]
    BY <1>5 DEF ReportFails
  <2>2. flush'[f].batch = flush[f].batch /\ flush'[f].todo = flush[f].todo /\ flush'[f].sent = flush[f].sent
    BY <1>1, <2>1 DEF Flush
  <2> QED
    BY <1>1, <1>2, <2>1, <2>2
<1>6. CASE \E e \in Exec : Released(f, e)
  <2> PICK e \in Exec : Released(f, e)
    BY <1>6
  <2>1. /\ flush' = [flush EXCEPT ![f].todo = @ \ {e}, ![f].sent = @ \cup {e}, ![f].failed = @]
        /\ GivenBack(e) /\ row' = row /\ e \in flush[f].todo
    BY DEF Released, Outcome
  <2>2. /\ flush'[f].batch = flush[f].batch /\ flush'[f].todo = flush[f].todo \ {e}
        /\ flush'[f].sent = flush[f].sent \cup {e}
    BY <1>1, <2>1 DEF Flush
  <2>3. Settled(e)'
    <3>1. row[e].op = "release" /\ KeyOf[e] \in Key
      BY <1>2, <2>1, UsageAssumption
    <3>2. reservation'[KeyOf[e]] \in {"released", "expired"}
      BY <2>1, <3>1 DEF GivenBack, IInv, Types, TypeOK
    <3> QED
      BY <2>1, <3>1, <3>2 DEF Settled
  <2> QED
    BY <1>1, <1>2, <2>1, <2>2, <2>3
<1>7. CASE \E e \in Exec : ReleaseFails(f, e)
  <2> PICK e \in Exec : ReleaseFails(f, e)
    BY <1>7
  <2>1. flush' = [flush EXCEPT ![f].todo = @ \ {e}, ![f].sent = @, ![f].failed = @ \cup {e}]
    BY DEF ReleaseFails, Outcome
  <2>2. /\ flush'[f].batch = flush[f].batch /\ flush'[f].todo = flush[f].todo \ {e}
        /\ flush'[f].sent = flush[f].sent
    BY <1>1, <2>1 DEF Flush
  <2> QED
    BY <1>1, <1>2, <2>1, <2>2
<1>8. CASE MarkSent(f)
  <2>1. flush' = [flush EXCEPT ![f].pc = "fail"]
    BY <1>8 DEF MarkSent
  <2>2. flush'[f].batch = flush[f].batch /\ flush'[f].todo = flush[f].todo /\ flush'[f].sent = flush[f].sent
    BY <1>1, <2>1 DEF Flush
  <2> QED
    BY <1>1, <1>2, <2>1, <2>2
<1>9. CASE flush' = [flush EXCEPT ![f] = Idle]
  <2>1. flush'[f] = Idle /\ \A g \in Flusher \ {f} : flush'[g] = flush[g]
    BY <1>1, <1>9
  <2> QED
    BY <2>1, IdleTypes
<1>10. CASE flush' = flush
  BY <1>2, <1>10
<1> QED
  BY <1>3, <1>4, <1>5, <1>6, <1>7, <1>8, <1>9, <1>10
     DEF FlushStep, MarkFailed, FlushThrows, DrainStarts, DrainEnds, Dies, Boot

\* Steps of a flusher.
LEMMA FlusherKeeps ==
  ASSUME IInv, NEW f \in Flusher,
         FlushStep(f) \/ FlushThrows(f) \/ DrainStarts(f) \/ DrainEnds(f) \/ Dies(f) \/ Boot(f)
  PROVE  IInv'
<1>1. Types /\ Types'
  BY FlusherTypes DEF IInv
<1>2. UNCHANGED engine /\ \A e \in Exec : row'[e].op = row[e].op
  <2>1. UNCHANGED engine
    BY DEF FlushStep, List, Reported, ReportFails, Released, ReleaseFails, MarkSent, MarkFailed,
       FlushThrows, DrainStarts, DrainEnds, Dies, Boot
  <2> QED
    BY <1>1, <2>1, FlushRows
<1>3. \A e \in Exec : row[e] = NoRow => row'[e] = NoRow
  <2>1. row' # row => MarkSent(f) \/ MarkFailed(f)
    BY DEF FlushStep, List, Reported, ReportFails, Released, ReleaseFails, FlushThrows, DrainStarts,
       DrainEnds, Dies, Boot
  <2>2. flush[f].sent \cup flush[f].failed \subseteq DOMAIN flush[f].batch
    BY <1>1 DEF Types, TypeOK
  <2>3. \A e \in Exec : row[e] = NoRow => e \notin flush[f].sent \cup flush[f].failed
    BY <2>2 DEF IInv, Flushes, NoRow
  <2> QED
    BY <2>1, <2>3 DEF MarkSent, MarkFailed
<1>4. Rows'
  BY <1>2, <1>3 DEF IInv, Rows, engine
<1>5. Flushes'
  <2> SUFFICES ASSUME NEW g \in Flusher
               PROVE  /\ \A e \in DOMAIN flush'[g].batch : row'[e].op # "none"
                      /\ \A e \in flush'[g].todo : row'[e].op = "release"
                      /\ \A e \in flush'[g].sent : Settled(e)'
    BY DEF Flushes
  <2>1. DOMAIN flush'[g].batch \subseteq Exec /\ flush'[g].todo \subseteq Exec /\ flush'[g].sent \subseteq Exec
    BY <1>1 DEF Types, TypeOK
  <2>2. CASE g = f
    BY <1>2, <2>1, <2>2, FlushSends
  <2>3. CASE g # f
    <3>1. flush'[g] = flush[g]
      BY <2>3, FlushSends
    <3> QED
      BY <1>2, <2>1, <3>1, FlushSettles DEF IInv, Flushes
  <2> QED
    BY <2>2, <2>3
<1>6. Asked'
  <2> SUFFICES ASSUME NEW k \in Key, reservation'[k] = "released"
               PROVE  \E o \in Exec : KeyOf[o] = k /\ row'[o].op = "release"
    BY DEF Asked
  <2>1. CASE reservation[k] = "released"
    BY <1>2, <2>1 DEF IInv, Asked
  <2>2. CASE \E e \in flush[f].todo : KeyOf[e] = k
    BY <1>1, <1>2, <2>2 DEF IInv, Flushes, Types, Flush
  <2> QED
    BY <1>1, <2>1, <2>2, FlushReservations
<1>7. SentIsSettled'
  BY <1>1, FlushRows, FlushSettles DEF IInv, SentIsSettled, Flushes
<1>8. CountedWasDispatched'
  <2>1. Keys(Reports(f)) \subseteq Keys(dispatched)
    <3>1. DOMAIN flush[f].batch \subseteq Exec
      BY <1>1 DEF Types, TypeOK
    <3> QED
      BY <3>1 DEF Keys, Reports, IInv, Rows
  <2> QED
    BY <1>1, <1>2, <2>1, FlushReservations DEF IInv, CountedWasDispatched, engine
<1> QED
  BY <1>1, <1>4, <1>5, <1>6, <1>7, <1>8 DEF IInv

\* Every step keeps what makes the outbox truthful.
LEMMA NextInv == IInv /\ [Next]_vars => IInv'
<1> SUFFICES ASSUME IInv, [Next]_vars PROVE IInv'
  OBVIOUS
<1>1. Types /\ Types'
  BY NextTypes DEF IInv
<1>2. CASE \E k \in Key : Expires(k)
  <2> PICK k \in Key : Expires(k)
    BY <1>2
  <2>1. /\ UNCHANGED <<pc, dispatched, thrown, row, flush, counted>>
        /\ reservation[k] = "reserved" /\ reservation' = [reservation EXCEPT ![k] = "expired"]
    BY DEF Expires, engine
  <2>2. \A x \in Exec : Settled(x) => Settled(x)'
    BY <1>1, <2>1, UsageAssumption DEF Settled, Types, TypeOK
  <2>3. Flushes'
    BY <1>1, <2>1, <2>2 DEF IInv, Flushes, Types, Flush
  <2>4. Asked'
    BY <1>1, <2>1 DEF IInv, Asked, Types, TypeOK
  <2> QED
    BY <1>1, <2>1, <2>2, <2>3, <2>4 DEF IInv, Rows, SentIsSettled, CountedWasDispatched
<1>3. CASE Tick
  <2>1. UNCHANGED <<pc, dispatched, thrown, flush, reservation, counted>>
    BY <1>3 DEF Tick, engine, cloud
  <2>2. \A x \in Exec : /\ row'[x].op = row[x].op /\ row'[x].state = row[x].state
                        /\ row[x] = NoRow => row'[x] = NoRow
    BY <1>1, <1>3 DEF Tick, NoRow, Types, TypeOK
  <2>3. \A x \in Exec : Settled(x) => Settled(x)'
    BY <2>1, <2>2 DEF Settled
  <2>4. Flushes'
    BY <1>1, <2>1, <2>2, <2>3, BatchTypes DEF IInv, Flushes, Types, Flush
  <2>5. Rows'
    BY <2>1, <2>2 DEF IInv, Rows
  <2> QED
    BY <1>1, <2>1, <2>2, <2>3, <2>4, <2>5 DEF IInv, Asked, SentIsSettled, CountedWasDispatched
<1>4. CASE UNCHANGED vars
  <2>1. UNCHANGED <<pc, dispatched, thrown, row, flush, reservation, counted>>
    BY <1>4 DEF vars, engine, cloud
  <2>2. \A x \in Exec : Settled(x)' <=> Settled(x)
    BY <2>1 DEF Settled
  <2>3. Flushes'
    BY <1>1, <2>1, <2>2 DEF IInv, Flushes, Types, Flush
  <2> QED
    BY <1>1, <2>1, <2>2, <2>3 DEF IInv, Rows, Asked, SentIsSettled, CountedWasDispatched
<1> QED
  BY <1>2, <1>3, <1>4, RequestKeeps, FlusherKeeps DEF Next

\* What the rows and the flushes say of Cloud is always true.
THEOREM Invariance == Spec => []IInv
<1>1. Init => IInv
  BY InitInv
<1>2. IInv /\ [Next]_vars => IInv'
  BY NextInv
<1> QED
  BY <1>1, <1>2, PTL DEF Spec

\* Inv: a row marked sent is one that Cloud has taken; Cloud counts only what may
\* have reached its adapter; and the reservation of such an execution is given
\* back by nobody but a request that lost the race for its key, or its own, whose
\* allocation was applied and threw.  No fault and no interleaving of the
\* replicas' flushes changes that.
THEOREM OutboxIsTruthful == Spec => []Inv
<1>1. IInv => GivenBackByARacer
  <2> SUFFICES ASSUME IInv, NEW e \in dispatched, reservation[KeyOf[e]] = "released"
               PROVE  \E o \in Exec : /\ KeyOf[o] = KeyOf[e] /\ row[o].op = "release"
                                      /\ o # e \/ thrown[e] = "gave"
    BY DEF GivenBackByARacer
  <2>1. KeyOf[e] \in Key
    BY UsageAssumption DEF IInv, Types, TypeOK
  <2>2. PICK o \in Exec : KeyOf[o] = KeyOf[e] /\ row[o].op = "release"
    BY <2>1 DEF IInv, Asked
  <2>3. o # e \/ thrown[e] = "gave"
    BY <2>2 DEF IInv, Rows
  <2> QED
    BY <2>2, <2>3
<1>2. IInv => Inv
  BY <1>1 DEF IInv, Inv, Types
<1> QED
  BY <1>2, Invariance, PTL

\* SentIsFinal: a late failure of another replica's flush does not reopen a row.
THEOREM SentForGood == Spec => SentIsFinal
<1>1. IInv /\ [Next]_vars => [\A e \in Exec : row[e].state = "sent" => row'[e].state = "sent"]_vars
  <2> SUFFICES ASSUME IInv, Next, NEW e \in Exec, row[e].state = "sent" PROVE row'[e].state = "sent"
    OBVIOUS
  <2>1. CASE \E x \in Exec : RequestStep(x) \/ AllocateFails(x) \/ RequestDies(x)
    <3>1. row' = row \/ \E x \in Exec, what \in {"report", "release"} : Entered(x, what)
      BY <2>1 DEF RequestStep, Inspect, Reserve, Denied, ReserveFails, Allocate, AllocateFails,
         RequestDies, Dispatch, NotDispatched, Enqueue, GivesBack
    <3>2. ASSUME NEW x \in Exec, NEW what \in {"report", "release"}, Entered(x, what)
          PROVE  row'[e] = row[e]
      <4>1. row[x].op = "none" => x # e
        BY DEF IInv, Rows, NoRow
      <4> QED
        BY <3>2, <4>1 DEF Entered, IInv, Types, TypeOK
    <3> QED
      BY <3>1, <3>2
  <2>2. CASE \E f \in Flusher : FlushStep(f) \/ FlushThrows(f) \/ DrainStarts(f) \/ DrainEnds(f) \/ Dies(f) \/ Boot(f)
    BY <2>2, FlushRows DEF IInv
  <2>3. CASE Tick
    BY <2>3 DEF Tick, IInv, Types, TypeOK
  <2>4. CASE \E k \in Key : Expires(k)
    BY <2>4 DEF Expires
  <2> QED
    BY <2>1, <2>2, <2>3, <2>4 DEF Next
<1> QED
  BY <1>1, Invariance, PTL DEF Spec, SentIsFinal
=============================================================================
