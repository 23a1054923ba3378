----------------------------- MODULE SessionLog -----------------------------
(***************************************************************************)
(* What the voice worker promises its readers about one session            *)
(* (packages/toolkits/src/voice/remote-session-driver.ts reads it,         *)
(* apps/voice-worker keeps it): a log without gaps that only grows, in     *)
(* which the change to a terminal state is one event, written with it.     *)
(* Events may still follow that one.                                       *)
(***************************************************************************)
EXTENDS Naturals, Sequences

VARIABLES
  session,   \* absent, live, or in a terminal state
  log        \* its events: "end" is the terminal one, all others are alike

Created == session = "absent" /\ session' = "live" /\ log' = <<"turn">>

Appended == session = "live" /\ log' = Append(log, "turn") /\ UNCHANGED session

\* An event whose writer was already at work when the session ended.
AppendedLate == session = "ended" /\ log' = Append(log, "turn") /\ UNCHANGED session

Ended == session = "live" /\ session' = "ended" /\ log' = Append(log, "end")

LogInit == session = "absent" /\ log = <<>>
LogNext == Created \/ Appended \/ AppendedLate \/ Ended
LogSpec == LogInit /\ [][LogNext]_<<session, log>>
=============================================================================
