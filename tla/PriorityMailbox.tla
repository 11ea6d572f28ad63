---------------------------- MODULE PriorityMailbox ----------------------------
(***************************************************************************)
(* What the command queue promises its users: two latched alarms,          *)
(* Terminate above Halt, over a first-in-first-out line of ordinary        *)
(* commands.  An alarm that is already raised, or that is raised under a   *)
(* pending Terminate, adds nothing.                                        *)
(***************************************************************************)
EXTENDS JobTypes

None == "none"

VARIABLES terminate,   \* a Terminate is pending
          halt,        \* a Halt is pending
          line,        \* the pending ordinary commands, oldest first
          taken        \* the command handed out last

mailbox == <<terminate, halt, line, taken>>

Init == /\ terminate = FALSE
        /\ halt = FALSE
        /\ line = << >>
        /\ taken = None

Post(c) == /\ c \in NormalCommand
           /\ line' = Append(line, c)
           /\ UNCHANGED <<terminate, halt, taken>>

RaiseHalt == /\ ~terminate /\ ~halt
             /\ halt' = TRUE
             /\ UNCHANGED <<terminate, line, taken>>

RaiseTerminate == /\ ~terminate
                  /\ terminate' = TRUE
                  /\ UNCHANGED <<halt, line, taken>>

TakeTerminate == /\ terminate
                 /\ terminate' = FALSE
                 /\ taken' = "Terminate"
                 /\ UNCHANGED <<halt, line>>

TakeHalt == /\ halt /\ ~terminate
            /\ halt' = FALSE
            /\ taken' = "Halt"
            /\ UNCHANGED <<terminate, line>>

TakeOldest == /\ line # << >> /\ ~halt /\ ~terminate
              /\ line' = Tail(line)
              /\ taken' = Head(line)
              /\ UNCHANGED <<terminate, halt>>

\* The consumer is back to asking for a command.
Ask == /\ taken' = None
       /\ UNCHANGED <<terminate, halt, line>>

Next == \/ \E c \in NormalCommand : Post(c)
        \/ RaiseHalt
        \/ RaiseTerminate
        \/ TakeTerminate
        \/ TakeHalt
        \/ TakeOldest
        \/ Ask

Spec == Init /\ [][Next]_mailbox

=============================================================================
