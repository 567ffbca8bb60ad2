----------------------------- MODULE MCPlacement ------------------------------
(***************************************************************************)
(* What documents and comments say of the placement methods.               *)
(***************************************************************************)
EXTENDS Placement, MCPlacementPrograms
==============================================================================
