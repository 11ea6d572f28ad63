-------------------------- MODULE MCBreakpointPassage --------------------------
(* Instances of BreakpointPassage for TLC: a procedure of a root with one leaf. *)
EXTENDS BreakpointPassage

CONSTANTS root, leaf
=============================================================================
