------------------------------ MODULE JobLease ------------------------------
(***************************************************************************)
(* What the job store promises its callers, with no clock, no heartbeat    *)
(* and no message in flight: a job is granted to one claim at a time; a    *)
(* claim may be taken back at any moment; only the claim the job is        *)
(* granted to decides what becomes of it, and it decides once.             *)
(* ("Durable state-machine contract shared by memory, pg, and PGlite.")    *)
(***************************************************************************)
EXTENDS Naturals

CONSTANTS Job, Worker

VARIABLES
  status,  \* what the store says of each job
  epoch,   \* how many claims each job has had
  claims   \* the claims some worker still acts on

avars == <<status, epoch, claims>>

Closed == {"succeeded", "failed", "cancelled"}
Status == {"absent", "open", "granted"} \cup Closed
Claims == [by : Worker, job : Job, epoch : Nat]

AInit == /\ status = [j \in Job |-> "absent"]
         /\ epoch = [j \in Job |-> 0]
         /\ claims = {}

\* Any step may see workers walk away from claims.
Fewer == claims' \in SUBSET claims

Offer(j) ==
  /\ status[j] = "absent"
  /\ status' = [status EXCEPT ![j] = "open"]
  /\ UNCHANGED <<epoch, claims>>

Withdraw(j) ==
  /\ status[j] = "open"
  /\ status' = [status EXCEPT ![j] = "cancelled"]
  /\ UNCHANGED <<epoch, claims>>

\* The claim may never learn of it: nobody acts on the job until it is taken back.
Grant(j, w) ==
  /\ status[j] = "open"
  /\ status' = [status EXCEPT ![j] = "granted"]
  /\ epoch' = [epoch EXCEPT ![j] = @ + 1]
  /\ claims' \in {claims, claims \cup {[by |-> w, job |-> j, epoch |-> epoch[j] + 1]}}

\* Leases taken back; the claims they were granted to do not know yet.
TakeBack(S) ==
  /\ S # {}
  /\ \A j \in S : status[j] = "granted"
  /\ status' = [j \in Job |-> IF j \in S THEN "open" ELSE status[j]]
  /\ UNCHANGED <<epoch, claims>>

\* The claim the job is granted to, and no other, decides: it ends with this.
Decide(c) ==
  /\ status[c.job] = "granted"
  /\ c.epoch = epoch[c.job]
  /\ \E s \in Closed \cup {"open"} : status' = [status EXCEPT ![c.job] = s]
  /\ claims' \in SUBSET (claims \ {c})
  /\ UNCHANGED epoch

WalkAway == Fewer /\ UNCHANGED <<status, epoch>>

\* Recovery offers a job again whose work turned out to be unfinished; what
\* was cancelled stays cancelled.
Reopen(j) ==
  /\ status[j] \in {"succeeded", "failed"}
  /\ status' = [status EXCEPT ![j] = "open"]
  /\ UNCHANGED <<epoch, claims>>

ANext ==
  \/ \E j \in Job : Offer(j) \/ Withdraw(j) \/ Reopen(j) \/ (\E w \in Worker : Grant(j, w))
  \/ \E S \in SUBSET Job : TakeBack(S)
  \/ \E c \in claims : Decide(c)
  \/ WalkAway

ASpec == AInit /\ [][ANext]_avars
=============================================================================
