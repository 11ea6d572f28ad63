--------------------------- MODULE BreakpointPassage ---------------------------
(***************************************************************************)
(* AsyncRunner with history variables for what a breakpoint promises: a    *)
(* run executes an instruction that carries one only if the job was paused *)
(* for it since the instruction was last executed.  That takes more than   *)
(* the check before a tick: what the hit releases has to be armed again by *)
(* the tick that executes the instruction, be it of a run or of a step.    *)
(***************************************************************************)
EXTENDS AsyncRunner

VARIABLES
  stopped,  \* instructions the job was paused for and that have not executed since
  checked   \* instructions that carried a breakpoint when the run looked, and still do

passageVars == <<vars, stopped, checked>>

PassageInit == Init /\ stopped = {} /\ checked = {}

\* A breakpoint that is removed, and one that is set anew, has nothing behind it.
ChangeBreakpoint(c, i) == /\ SetBreakpoint(c, i) \/ RemoveBreakpoint(c, i)
                          /\ stopped' = stopped \ {i}
                          /\ checked' = checked \ {i}

\* The run finds no armed breakpoint and goes on to tick.
LookAtBreakpoints == /\ ContinueRun
                     /\ checked' = {i \in Instructions : bps[i] # "absent"}
                     /\ UNCHANGED stopped

\* What the tick executes: as long as the root is RUNNING nothing is due.
Due == IF status = "RUNNING" THEN {} ELSE due

ExecuteDue == /\ BeginTick
              /\ stopped' = IF pc' = "inTick" THEN stopped \ Due ELSE stopped
              /\ checked' = {}

\* The job reports Paused, and the runner names the breakpoints it stopped for.
ReportPause == /\ LeaveRun
               /\ stopped' = IF jobState' = "Paused" THEN stopped \union current ELSE stopped
               /\ UNCHANGED checked

OtherPassageStep ==
  /\ \/ \E c \in Clients : \/ \E k \in NormalCommand : Push(c, k)
                           \/ Halt(c) \/ Terminate(c) \/ PriorityPushEnd(c) \/ Joined(c)
     \/ WaitForNextCommand \/ LeaveLoop
     \/ HandleTerminate \/ HandleInitial \/ HandlePaused \/ HandleRunning \/ HandleFinished
     \/ EnterRun \/ StopRun \/ HitBreakpoint \/ EnterStep \/ EndTick \/ RunCallback \/ FinishStep
  /\ UNCHANGED <<stopped, checked>>

PassageNext == \/ \E c \in Clients, i \in Breakpointable : ChangeBreakpoint(c, i)
               \/ LookAtBreakpoints \/ ExecuteDue \/ ReportPause
               \/ OtherPassageStep

PassageSpec == PassageInit /\ [][PassageNext]_passageVars

FairPassageSpec == PassageSpec /\ Fairness

\* A run passes no breakpoint: whatever it executes and has carried a breakpoint since
\* the check before the tick, the job was paused for, and it has not been executed in
\* the meantime, neither by a run nor by a step.  A breakpoint set after that check
\* counts from the next one on; one that Halt and Reset find released stays passed.
BreakpointsStopRuns ==
  [][pc = "tick" /\ pc' = "inTick" /\ tickCb = "run" => Due \intersect checked \subseteq stopped]_passageVars
===============================================================================
