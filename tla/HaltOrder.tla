------------------------------- MODULE HaltOrder -------------------------------
(***************************************************************************)
(* AsyncRunner with a history variable for what Halt promises: the order   *)
(* of the accepted halt requests and of the reset requests, as the clients *)
(* made them.  A Halt jumps the queue: a Reset that a client requested     *)
(* before it is still performed after it, and lets a queued Start run.     *)
(***************************************************************************)
EXTENDS AsyncRunner

\* "none"        no halt request since the last reset request
\* "clean"       a halt request, accepted when no reset request was pending
\* "overtaking"  a halt request, accepted in front of a pending reset request
VARIABLE haltOrder

orderVars == <<vars, haltOrder>>

OrderInit == Init /\ haltOrder = "none"

ResetPending == Queued(queue, "Reset") \/ cmd = "Reset"

AcceptHalt(c) == /\ PriorityPushEnd(c)
                 /\ haltOrder' = IF ResetPending THEN "overtaking" ELSE "clean"

RequestReset(c) == Push(c, "Reset") /\ haltOrder' = "none"

OtherClientStep(c) == /\ \/ \E k \in NormalCommand \ {"Reset"} : Push(c, k)
                         \/ Halt(c)
                         \/ Terminate(c)
                         \/ Joined(c)
                         \/ \E i \in Breakpointable :
                              SetBreakpoint(c, i) \/ RemoveBreakpoint(c, i)
                      /\ UNCHANGED haltOrder

OrderNext == \/ \E c \in Clients : AcceptHalt(c) \/ RequestReset(c) \/ OtherClientStep(c)
             \/ (LoopStep \/ EndTick) /\ UNCHANGED haltOrder

OrderSpec == OrderInit /\ [][OrderNext]_orderVars

\* Once an accepted Halt has told the tree to stop and no Reset was waiting behind
\* it, no tick executes the tree any more until a client asks for a reset, whatever
\* Start, Step, Pause and Halt commands and breakpoints there are.
HaltStopsExecution ==
  [][pc # "inTick" /\ pc' = "inTick" => haltOrder # "clean"]_orderVars
===============================================================================
