------------------------------ MODULE MCStore ------------------------------
(***************************************************************************)
(* Store with a ring of two images and a handful of pictures, so that the  *)
(* ring turns over more than once.                                         *)
(***************************************************************************)
EXTENDS Store
=============================================================================
