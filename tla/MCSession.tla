----------------------------- MODULE MCSession -----------------------------
(***************************************************************************)
(* Values for the constants of Session that a configuration cannot write   *)
(* down: the images, one entry per session, and the environments.          *)
(***************************************************************************)
EXTENDS Session

\* One image of three blocks, the last one short; buffered, or written as it
\* arrives.
OneImage == <<5>>
OneId == <<1>>
InRam == <<TRUE>>
OnArrival == <<FALSE>>

\* Images one after the other under different ids, of which one may fit the
\* block buffer and the next not.
TwoImages == <<5, 3>>
TwoIds == <<1, 2>>
InRamThenNot == <<TRUE, FALSE>>
NeverInRam == <<FALSE, FALSE>>

\* Under one id: a sender that deep-sleeps starts millis() at zero on every
\* wake, and run_sender() takes img_id from it.
ThreeImages == <<3, 2, 3>>
SameIdOnce == <<1, 1, 2>>
NotThenInRam == <<FALSE, TRUE, TRUE>>

Hostile == {-1}
HostileOrCalm == {-1, 2}
AllButFin == {"META", "DATA", "EOB", "STAT", "FINACK"}
=============================================================================
