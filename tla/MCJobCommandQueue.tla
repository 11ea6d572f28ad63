-------------------------- MODULE MCJobCommandQueue --------------------------
(* Instance of JobCommandQueue for TLC. *)
EXTENDS JobCommandQueue
=============================================================================
