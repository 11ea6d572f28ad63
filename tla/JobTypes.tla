------------------------------- MODULE JobTypes -------------------------------
(***************************************************************************)
(* The vocabulary shared by the job modules: job commands and their        *)
(* urgency, job states, execution statuses and the predicates the runner   *)
(* and the instructions decide on.                                         *)
(***************************************************************************)
EXTENDS Integers, Sequences

-----------------------------------------------------------------------------
(* Job commands.  The enumerators' order is their urgency: a command is      *)
(* only allowed to jump the queue over less urgent ones.                     *)

NormalCommand   == {"Start", "Step", "Pause", "Reset"}
PriorityCommand == {"Halt", "Terminate"}
JobCommand      == NormalCommand \union PriorityCommand

Urgency == [c \in JobCommand |-> CASE c = "Start"     -> 0
                                   [] c = "Step"      -> 1
                                   [] c = "Pause"     -> 2
                                   [] c = "Reset"     -> 3
                                   [] c = "Halt"      -> 4
                                   [] c = "Terminate" -> 5]

NotMoreUrgent(left, right) == Urgency[left] <= Urgency[right]

-----------------------------------------------------------------------------
(* The container operations of the command queue, each performed under its   *)
(* mutex.                                                                    *)

\* Faulty variant: pushing to the wrong end.
PushBackAtFront(q, c)   == <<c>> \o q

PushBack(q, c)  == Append(q, c)
PushFront(q, c) == <<c>> \o q

\* The negation of PriorityPush's early return.
Overtakes(q, c) == q # << >> => ~NotMoreUrgent(c, Head(q))

Queued(q, c) == \E i \in DOMAIN q : q[i] = c

-----------------------------------------------------------------------------
(* Job states and the execution status of an instruction.                    *)

JobState == {"Initial", "Paused", "Stepping", "Running",
             "Succeeded", "Failed", "Halted"}

FinishedJobState == {"Succeeded", "Failed", "Halted"}

ExecutionStatus == {"NOT_STARTED", "NOT_FINISHED", "RUNNING",
                    "SUCCESS", "FAILURE"}

IsFinishedStatus(s) == s \in {"SUCCESS", "FAILURE"}
NeedsExecute(s)     == ~IsFinishedStatus(s)
ReadyForExecute(s)  == s \in {"NOT_STARTED", "NOT_FINISHED"}

=============================================================================
