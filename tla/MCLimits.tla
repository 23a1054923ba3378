------------------------------ MODULE MCLimits ------------------------------
(* An instance of Limits for TLC.                                          *)
EXTENDS Limits

CONSTANTS a, b, c
=============================================================================
