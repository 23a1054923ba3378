--------------------------- MODULE MCUsageOutbox ---------------------------
(* Instances of UsageOutbox for TLC: requests e1 and e2 of one key, and e3 *)
(* of another.                                                             *)
EXTENDS UsageOutbox, TLC

CONSTANTS e1, e2, e3, k, m, f, g

Keyed == e1 :> k @@ e2 :> k @@ e3 :> m

\* retryDelayMs doubles; two steps show that delays differ.
Doubling == <<1, 2>>
=============================================================================
