---------------------------- MODULE MC_DebugBuffer ----------------------------
(* Model-checking instance of DebugBuffer. *)
EXTENDS DebugBuffer
=============================================================================
