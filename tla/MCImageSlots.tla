---------------------------- MODULE MCImageSlots ----------------------------
(* Instances of ImageSlots for TLC. *)
EXTENDS ImageSlots, TLC
=============================================================================
