---------------------------- MODULE MCExecution ----------------------------
(* Instances of Execution for TLC: replicas a and b, threads t1 to t3.     *)
EXTENDS Execution, TLC

CONSTANTS a, b, t1, t2, t3

\* Threads are interchangeable.
Chains == Permutations(Thread)
=============================================================================
