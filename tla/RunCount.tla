------------------------------- MODULE RunCount --------------------------------
(***************************************************************************)
(* InstructionTree with a history variable: how often the child of a       *)
(* Repeat or For that counts has finished since the procedure was last     *)
(* reset.                                                                  *)
(***************************************************************************)
EXTENDS InstructionTree

CONSTANT MaxRuns   \* counting stops here

(* The history counts further than any Repeat or For may. *)
ASSUME RunsAssumption ==
  MaxRuns \in Nat /\ \A i \in Instructions : Kind[i] \in Counting => MaxCount[i] < MaxRuns

VARIABLE runs

Observed == IF Kind[root] \in Counting /\ MaxCount[root] > 0 THEN ChildSet(root) ELSE {}

RunCountInit == Init /\ runs = [i \in Instructions |-> 0]

RootCleared == status[root] # "NOT_STARTED" /\ status'[root] = "NOT_STARTED"

RunCountNext ==
  /\ Next
  /\ runs' = [i \in Instructions |->
                IF RootCleared THEN 0
                ELSE IF i \in Observed /\ NeedsExecute(status[i]) /\ IsFinishedStatus(status'[i])
                THEN Min2(runs[i] + 1, MaxRuns) ELSE runs[i]]

RunCountSpec == RunCountInit /\ [][RunCountNext]_<<vars, runs>>

RunCountFairSpec == RunCountSpec /\ Fairness

(* A Repeat or For runs its child to an end exactly as often as it is told to
   before it succeeds, and never more often: whatever number of ticks a run
   takes, whether the child has threads or is halted, and also in a procedure
   that was reset (repeat.cpp:62-97, for.cpp:66-136). *)
RepeatsExactly ==
  (Kind[root] \in Counting /\ MaxCount[root] > 0) =>
    /\ runs[Child(root)] <= MaxCount[root]
    /\ (AtRest(root) /\ status[root] = "SUCCESS") => runs[Child(root)] = MaxCount[root]
=============================================================================
