--------------------------- MODULE MCVoiceWorker ---------------------------
(* Instances of VoiceWorker for TLC: turns t1 and t2, requests s1 and s2.  *)
EXTENDS VoiceWorker

CONSTANTS t1, t2, s1, s2, x, y
=============================================================================
