--------------------------- MODULE MCNextInstructions ---------------------------
(* Instances of NextInstructions for TLC, with the trees of MCInstructionTree. *)
EXTENDS MCInstructionTree, NextInstructions
=============================================================================
