------------------------------- MODULE MCCall -------------------------------
(* Small instances of a call for TLC. *)
EXTENDS Call

CONSTANTS b1, b2
=============================================================================
