----------------------------- MODULE MCGovernor -----------------------------
(***************************************************************************)
(* Governor for TLC.  The configurations use a window of 8 ticks instead   *)
(* of an hour, a duty cycle of one half, a ring of two slots and a counter *)
(* that wraps after 48 ticks, within the time a run may take.              *)
(***************************************************************************)
EXTENDS Governor
=============================================================================
