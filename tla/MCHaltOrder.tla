------------------------------ MODULE MCHaltOrder ------------------------------
(* Instances of HaltOrder for TLC. *)
EXTENDS HaltOrder

CONSTANTS root, leaf
=============================================================================
