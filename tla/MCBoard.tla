------------------------------ MODULE MCBoard ------------------------------
(* Board for TLC: what somebody may type into the settings page. *)
EXTENDS Board

Sender == [role |-> "sender", deep |-> TRUE, interval |-> 6, limited |-> FALSE,
           valid |-> TRUE, fades |-> TRUE]

\* A deep-sleeping sender without and with a duty cycle, one with a short
\* interval, one with an interval that has to be clamped, one that stays awake,
\* one the radio refuses, receivers whose page fades and does not.
Typed ==
  {Sender,
   [Sender EXCEPT !.limited = TRUE],
   [Sender EXCEPT !.interval = 0],
   [Sender EXCEPT !.interval = 19],
   [Sender EXCEPT !.deep = FALSE],
   [Sender EXCEPT !.valid = FALSE],
   [Sender EXCEPT !.role = "receiver"],
   [Sender EXCEPT !.role = "receiver", !.fades = FALSE]}

=============================================================================
