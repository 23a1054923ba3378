----------------------------- MODULE MCJobQueue -----------------------------
(* Instances of JobQueue for TLC: replicas a and b, and jobs of the three  *)
(* kinds.  d1 and d2 are deliveries to one endpoint, d1 the earlier; e is  *)
(* an execution, outside every group.                                      *)
EXTENDS JobQueue, TLC

CONSTANTS a, b, d1, d2, e

MCLaneOf  == [j \in Job |-> IF j = e THEN "execution" ELSE "webhook-delivery"]
MCGroupOf == [j \in Job |-> IF j = e THEN NoGroup ELSE "endpoint"]
MCOrderOf == [j \in Job |-> IF j = d2 THEN 2 ELSE 1]

NoSkew == [w \in Worker |-> 0]
\* The clock of replica b runs one tick ahead of a's.
BFast  == [w \in Worker |-> IF w = b THEN 1 ELSE 0]
=============================================================================
