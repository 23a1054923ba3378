-------------------------- MODULE MCVoiceObserver --------------------------
(* Instances of VoiceObserver for TLC: replicas a and b.                   *)
EXTENDS VoiceObserver

CONSTANTS a, b
=============================================================================
