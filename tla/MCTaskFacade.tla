--------------------------- MODULE MCTaskFacade ---------------------------
(* Instances of TaskFacade for TLC: an execution and its event's           *)
(* selection, submitted by requests c1 and c2.                             *)
EXTENDS TaskFacade, TLC

CONSTANTS execution, selection, c1, c2

\* What each handler submits.
Pair == execution :> selection @@ selection :> "none"

\* The requests are alike and submit when they like: it is enough to see those
\* behaviours in which c2 submits after c1.
InTurn == call[c2].at # "unused" => call[c1].at # "unused"
=============================================================================
