------------------------------ MODULE MCRunCount -------------------------------
(* Instances of RunCount for TLC, with the trees of MCInstructionTree. *)
EXTENDS MCInstructionTree, RunCount
=============================================================================
