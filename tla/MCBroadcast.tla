---------------------------- MODULE MCBroadcast ----------------------------
(***************************************************************************)
(* Values for the constants of Broadcast that a configuration cannot write *)
(* down.                                                                   *)
(***************************************************************************)
EXTENDS Broadcast

\* Three blocks, the last one short, and then a single one, with a parity
\* chunk per block; the receiver has no room for a block of the second image.
TwoImages == <<7, 2>>
TwoIds == <<1, 2>>
InRamThenNot == <<TRUE, FALSE>>

\* One image of three blocks.
OneImage == <<7>>
OneId == <<1>>
OneInRam == <<TRUE>>

Both == {TRUE, FALSE}
Hostile == {FALSE}
=============================================================================
