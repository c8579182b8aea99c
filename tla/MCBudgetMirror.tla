--------------------------- MODULE MCBudgetMirror ---------------------------
(***************************************************************************)
(* BudgetMirror for TLC.  The configurations use a window of 6 ticks, a    *)
(* ring of two slots and a snapshot of one, so that exporting has to fold. *)
(***************************************************************************)
EXTENDS BudgetMirror
=============================================================================
