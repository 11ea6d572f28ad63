-------------------------- MODULE MCAsyncInputAdapter --------------------------
(* Instance of AsyncInputAdapter for TLC. *)
EXTENDS AsyncInputAdapter
=============================================================================
