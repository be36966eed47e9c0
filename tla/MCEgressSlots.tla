---------------------------- MODULE MCEgressSlots ----------------------------
(***************************************************************************)
(* The instance of MCEgressPort under the timing assumption of EgressSlots. *)
(* A full selection pass over two frames takes at most ten steps.          *)
(***************************************************************************)
EXTENDS MCEgressPort, EgressSlots
=============================================================================
