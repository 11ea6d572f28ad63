-------------------------------- MODULE Programs --------------------------------
(***************************************************************************)
(* The programs that run one file: oac-tree-cli (main.cpp), also when it   *)
(* only validates, and oac-tree-daemon (main.cpp), with the monitor that   *)
(* they wait on (application_utils.cpp).  Its state is seen.job.           *)
(***************************************************************************)
EXTENDS LocalJob

VARIABLES
  main,      \* where the main function is
  printed,   \* the state that it printed, or ""
  exit       \* what it returned, or Empty

mainVars == <<main, printed, exit>>

JobStateString == [initial |-> "Initial", paused |-> "Paused", stepping |-> "Stepping", running |-> "Running",
             succeeded |-> "Success", failed |-> "Failure", halted |-> "Halted"]

ProgramInit == Init /\ main = "load" /\ printed = "" /\ exit = Empty
-----------------------------------------------------------------------------
\* The arguments are not understood: only the daemon says so when it returns.
PrintUsage ==
  /\ Program # "client" /\ main = "load" /\ stage = "parse"
  /\ main' = "return" /\ printed' = "usage"
  /\ exit' = IF Program = "daemon" THEN <<1>> ELSE <<0>>
  /\ UNCHANGED vars

Refuse ==
  /\ Program # "client" /\ main = "load" /\ stage = "refused"
  /\ main' = "return" /\ exit' = <<1>>
  /\ UNCHANGED <<vars, printed>>

\* The runner was made: no instruction has an index.
CreateAsyncRunner ==
  /\ Program # "client" /\ main = "load" /\ stage = "announce"
  /\ stage' = "ready"
  /\ sending' = [t \in Threads |-> Empty]
  /\ main' = IF Program = "validate" THEN "destroy" ELSE "start"
  /\ exit' = IF Program = "validate" THEN <<0>> ELSE exit
  /\ UNCHANGED <<file, proc, tree, map, ws, disk, instr, wrapper, states, armed, job, seen, crossed, printed>>

StartProcedure ==
  /\ main = "start"
  /\ main' = "wait"
  /\ SetState("running")
  /\ UNCHANGED <<jobOnly, instr, printed, exit>>

WaitForChange(state) == state # "initial"   \* faulty: any change will do

\* The condition that WaitForFinished waits for.
IsFinishedJobState(state) == state \in Finished

WaitForFinished ==
  /\ main = "wait" /\ IsFinishedJobState(seen.job)
  /\ main' = "destroy" /\ printed' = JobStateString[seen.job] /\ exit' = <<0>>
  /\ UNCHANGED vars

\* The runner goes out of scope: it terminates its loop and halts the root.
DestroyRunner ==
  /\ main = "destroy"
  /\ main' = "join"
  /\ instr' = HaltAll(instr)
  /\ UNCHANGED <<jobOnly, job, seen, printed, exit>>

\* The procedure goes out of scope: the threads of its instructions are joined.
DestroyProcedure ==
  /\ main = "join" /\ \A p \in Paths : instr[p].at = "idle"
  /\ main' = "return" /\ stage' = "over"
  /\ UNCHANGED <<file, proc, tree, map, ws, disk, instr, wrapper, sending, states, armed, job, seen,
                 crossed, printed, exit>>

ProgramStep == \/ PrintUsage \/ Refuse \/ CreateAsyncRunner \/ StartProcedure \/ WaitForFinished
               \/ DestroyRunner \/ DestroyProcedure

ProgramNext == (main # "return" /\ Next /\ UNCHANGED mainVars) \/ ProgramStep
ProgramSpec == ProgramInit /\ [][ProgramNext]_<<vars, mainVars>>
-----------------------------------------------------------------------------
(* Properties.                                                               *)

\* A program whose arguments were understood returns 1 for a file that it refuses, and then has executed nothing;
\* otherwise it prints the verdict of the root, which no later step changes, unless it
\* was to validate only: then nothing was executed.  When it returns, no instruction
\* of it executes.
ExitMeansVerdict ==
  main = "return" /\ printed # "usage" =>
    /\ (exit = <<1>>) = (tree = Empty)
    /\ \A p \in Paths : instr[p].at = "idle"
    /\ (printed = "") = (Program = "validate" \/ exit = <<1>>)
    /\ printed = "" => \A p \in Paths : instr[p].status = "NOT_STARTED"
    /\ printed # "" => printed = CASE instr[Root].status = "SUCCESS" -> "Success"
                                   [] instr[Root].status = "FAILURE" -> "Failure"
                                   [] OTHER -> "none"
=============================================================================
