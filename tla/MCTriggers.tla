----------------------------- MODULE MCTriggers -----------------------------
(* An instance of Triggers for TLC: two messages, or two pushed events, and *)
(* two replicas.                                                           *)
EXTENDS Triggers

CONSTANTS a, b, p, q
=============================================================================
