------------------------------- MODULE MCLocalJob -------------------------------
(* LocalJob with the texts of JobTexts, for TLC: with two instructions whose       *)
(* breakpoints a client sets and removes, and an index that is too large.          *)
EXTENDS JobTexts

MCMarked == {0, 1, 3}
=============================================================================
