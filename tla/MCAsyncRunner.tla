----------------------------- MODULE MCAsyncRunner -----------------------------
(* Instances of AsyncRunner for TLC: a procedure of a root with one leaf. *)
EXTENDS AsyncRunner

CONSTANTS root, leaf
=============================================================================
