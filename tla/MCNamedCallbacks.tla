---------------------------- MODULE MCNamedCallbacks ----------------------------
(* NamedCallbacks for TLC: one waits for a file to be written, the other for that or *)
(* a local variable to be no longer available.                                       *)
EXTENDS NamedCallbacks

CONSTANTS t1, w1

MCAt == [t \in Threads |-> IF t \in {t1, w1} THEN FileVariables ELSE Variables]
MCWants == [w \in Waiters |-> w = w1]
=============================================================================
