------------------------------- MODULE Limits -------------------------------
(***************************************************************************)
(* The limits an execution request passes (apps/executor/src):             *)
(* the project's token bucket and daily quota (rate-limit.ts, routes.ts),  *)
(* and the toolkit's permits, which a synchronous request takes or is      *)
(* refused and an accepted asynchronous execution waits for (engine.ts).   *)
(*                                                                         *)
(* All three live in the memory of one process and read its clock, which   *)
(* may be set back.  Tokens are counted in units of 1/IntervalMs of a      *)
(* token, so that a millisecond refills RefillLimit of them; the code has  *)
(* a float.  A project's requests are served by Caller, over and over.     *)
(***************************************************************************)
EXTENDS Integers, Sequences, FiniteSets

CONSTANTS
  Caller,       \* requests and executions that may be under way at once
  RefillLimit, IntervalMs, Burst,  \* policy of the token bucket
  Quota, WindowMs,                 \* policy of the fixed window
  Cap,          \* maxConcurrentExecutionsPerProject
  MaxTime,      \* bound: how far the clock runs
  MaxSetBacks   \* bound: how often it is set back

ASSUME LimitsAssumption ==
  /\ IsFiniteSet(Caller)
  /\ RefillLimit \in Nat \ {0} /\ IntervalMs \in Nat \ {0} /\ Burst \in Nat \ {0}
  /\ Quota \in Nat \ {0} /\ WindowMs \in Nat \ {0} /\ Cap \in Nat \ {0}
  /\ MaxTime \in Nat /\ MaxSetBacks \in Nat

VARIABLES
  clock, setBacks,  \* the process's clock, and how often it was set back
  bucket,           \* token bucket of the project's execute requests
  window,           \* fixed window of its daily quota
  active, waiters,  \* the toolkit's semaphore
  pc,               \* where each caller is
  permit,           \* the permit object it has: "none", "held" or "released"
  first,            \* history: the time of the bucket's first check
  passed,           \* history: requests the bucket let pass
  charged           \* history: requests charged to each window

time  == <<clock, setBacks>>
rates == <<bucket, window>>
slots == <<active, waiters, permit>>
past  == <<first, passed, charged>>
LimitsVars == <<time, rates, slots, pc, past>>

-----------------------------------------------------------------------------
Full == Burst * IntervalMs

\* When the window of an instant began.
WindowStart(t) == (t \div WindowMs) * WindowMs

LimitsInit ==
  /\ clock = 0 /\ setBacks = 0
  /\ bucket = [kept |-> FALSE, tokens |-> Full, updatedAt |-> 0]
  /\ window = [kept |-> FALSE, used |-> 0, start |-> 0]
  /\ active = 0 /\ waiters = <<>>
  /\ pc = [c \in Caller |-> "idle"] /\ permit = [c \in Caller |-> "none"]
  /\ first = 0 /\ passed = 0
  /\ charged = [n \in 0..MaxTime |-> 0]

Stands(c, label) == pc[c] = label
Moves(c, label)  == pc' = [pc EXCEPT ![c] = label]

Tick ==
  /\ clock < MaxTime /\ clock' = clock + 1
  /\ UNCHANGED <<setBacks, rates, slots, pc, past>>

SetBack ==
  /\ setBacks < MaxSetBacks /\ setBacks' = setBacks + 1
  /\ \E t \in 0..clock : t < clock /\ clock' = t
  /\ UNCHANGED <<rates, slots, pc, past>>

-----------------------------------------------------------------------------
Lower(a, b)  == IF a < b THEN a ELSE b
Higher(a, b) == IF a < b THEN b ELSE a

\* Mutant: the bucket's time follows the clock back.
Follows(then, now) == now

\* The bucket's time never goes back, so no millisecond refills twice.
Latest(then, now) == Higher(then, now)

\* #checkTokenBucket; one that is not kept yet is full.
CheckBucket(c) ==
  LET then    == IF bucket.kept THEN bucket.updatedAt ELSE clock
      elapsed == IF then < clock THEN clock - then ELSE 0
      tokens  == Lower(Full, bucket.tokens + elapsed * RefillLimit)
      allowed == tokens >= IntervalMs
  IN  /\ Stands(c, "idle")
      /\ bucket' = [kept |-> TRUE, updatedAt |-> Latest(then, clock),
                    tokens |-> IF allowed THEN tokens - IntervalMs ELSE tokens]
      /\ first' = IF bucket.kept THEN first ELSE clock
      /\ IF allowed THEN passed' = passed + 1 /\ Moves(c, "quota") ELSE UNCHANGED <<passed, pc>>
      /\ UNCHANGED <<time, window, slots, charged>>

\* A window that lies ahead is kept: the clock was set back.
Current == window.kept /\ window.start >= WindowStart(clock)

\* #checkFixedWindow
CheckQuota(c) ==
  LET w == IF Current THEN window ELSE [kept |-> TRUE, used |-> 0, start |-> WindowStart(clock)]
  IN  /\ Stands(c, "quota")
      /\ IF w.used < Quota
           THEN /\ window' = [w EXCEPT !.used = @ + 1] /\ Moves(c, "enter")
                /\ charged' = [charged EXCEPT ![w.start] = @ + 1]
           ELSE window' = w /\ Moves(c, "idle") /\ UNCHANGED charged
      /\ UNCHANGED <<time, bucket, slots, first, passed>>

-----------------------------------------------------------------------------
\* tryAcquire never passes those who wait.
Free == active < Cap /\ waiters = <<>>

Takes(c) == active' = active + 1 /\ permit' = [permit EXCEPT ![c] = "held"]

\* A synchronous request takes a permit or is refused.
EnterSync(c) ==
  /\ Stands(c, "enter")
  /\ IF Free THEN Takes(c) /\ Moves(c, "sync") ELSE Moves(c, "idle") /\ UNCHANGED <<active, permit>>
  /\ UNCHANGED <<time, rates, waiters, past>>

\* An asynchronous execution waits in line, even when it is cancelled.
EnterAsync(c) ==
  /\ Stands(c, "enter")
  /\ IF Free
       THEN Takes(c) /\ Moves(c, "async") /\ UNCHANGED waiters
       ELSE waiters' = Append(waiters, c) /\ Moves(c, "waits") /\ UNCHANGED <<active, permit>>
  /\ UNCHANGED <<time, rates, past>>

\* Mutant: every call of release gives a permit back.
HeldOnce(c) == TRUE

\* The permit object remembers that it was released.
Holds(c) == permit[c] = "held"

\* release: a permit is handed to the first in line, or given back.
Release(c, next) ==
  LET freed == [permit EXCEPT ![c] = "released"]
  IN  IF ~Holds(c)
        THEN Moves(c, next) /\ UNCHANGED slots
        ELSE IF waiters = <<>>
          THEN active' = active - 1 /\ permit' = freed /\ Moves(c, next) /\ UNCHANGED waiters
          ELSE LET n == Head(waiters) IN
               /\ waiters' = Tail(waiters)
               /\ permit' = [freed EXCEPT ![n] = "held"]
               /\ pc' = [pc EXCEPT ![c] = next, ![n] = "async"]
               /\ UNCHANGED active

\* #runAllocated ends and releases the permit; when it throws under a
\* synchronous request, execute releases the same permit again.
Run(c) ==
  /\ \/ Stands(c, "sync") /\ Release(c, "idle")
     \/ Stands(c, "sync") /\ Release(c, "unwinds")
     \/ Stands(c, "async") /\ Release(c, "idle")
  /\ UNCHANGED <<time, rates, past>>

Unwind(c) ==
  /\ Stands(c, "unwinds") /\ Release(c, "idle")
  /\ UNCHANGED <<time, rates, past>>

-----------------------------------------------------------------------------
LimitsNext ==
  \/ Tick \/ SetBack
  \/ \E c \in Caller :
       \/ CheckBucket(c) \/ CheckQuota(c) \/ EnterSync(c) \/ EnterAsync(c)
       \/ Run(c) \/ Unwind(c)

LimitsSpec == LimitsInit /\ [][LimitsNext]_LimitsVars

-----------------------------------------------------------------------------
LimitsTypeOK ==
  /\ clock \in Nat /\ setBacks \in Nat
  /\ bucket \in [kept : BOOLEAN, tokens : 0..Full, updatedAt : Nat]
  /\ window \in [kept : BOOLEAN, used : 0..Quota, start : Nat]
  /\ active \in Int /\ waiters \in Seq(Caller)
  /\ pc \in [Caller -> {"idle", "quota", "enter", "sync", "async", "waits", "unwinds"}]
  /\ permit \in [Caller -> {"none", "held", "released"}]
  /\ first \in Nat /\ passed \in Nat /\ charged \in [0..MaxTime -> Nat]

\* However the clock is set back and on again, the bucket lets no more pass
\* than its burst and the refill of the time it has seen go by.
RateHolds ==
  bucket.kept =>
    passed * IntervalMs + bucket.tokens <= Full + (bucket.updatedAt - first) * RefillLimit

\* No window is charged above the quota, whatever the clock does.
QuotaHolds == \A n \in 0..MaxTime : charged[n] <= Quota

LimitsHold == RateHolds /\ QuotaHolds

\* The permits out are counted once each, are never more than the cap, and
\* none lies idle while an execution waits in line; a run that throws and
\* releases twice, the line having moved on in between, changes nothing of that.
PermitsHold ==
  /\ active = Cardinality({c \in Caller : Stands(c, "sync") \/ Stands(c, "async")})
  /\ active <= Cap
  /\ waiters # <<>> => active = Cap

LimitsInv == LimitsTypeOK /\ PermitsHold
=============================================================================
