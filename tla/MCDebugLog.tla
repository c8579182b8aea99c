----------------------------- MODULE MCDebugLog -----------------------------
(* DebugLog with a ring of three lines that a slow reader sees lapped.      *)
EXTENDS DebugLog
=============================================================================
