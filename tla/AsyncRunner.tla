------------------------------ MODULE AsyncRunner ------------------------------
(***************************************************************************)
(* runner/async_runner.cpp with the Runner it drives, the breakpoint       *)
(* manager, the command queue and the root of the procedure's instruction  *)
(* tree.                                                                   *)
(*                                                                         *)
(* One execution loop thread takes commands, ticks the procedure and       *)
(* reports job states.  Any number of client threads push commands, halt   *)
(* the procedure, and set and remove breakpoints while it does so; at the  *)
(* end the owner destroys the runner.  The mutex of the queue is explicit  *)
(* because Halt and Terminate reach into the procedure while they hold it; *)
(* its condition variable is the subject of JobCommandQueue.               *)
(*                                                                         *)
(* The instruction tree is abstracted to what the runner sees of it: the   *)
(* root's status and halt flag, and the instructions due in the next tick. *)
(***************************************************************************)
EXTENDS JobTypes, Breakpoints

CONSTANTS Clients,         \* threads that use the runner's public functions
          Instructions,    \* the instructions of the procedure
          Root,            \* its root instruction
          FirstDue,        \* the instructions due in the first tick
          Breakpointable,  \* where clients set breakpoints
          MaxQueue         \* bound of the model: pushes stop at this length

NoClient == "no client"
None == "none"

ASSUME RunnerAssumption ==
  /\ NoClient \notin Clients
  /\ Root \in FirstDue
  /\ FirstDue \subseteq Instructions
  /\ Breakpointable \subseteq Instructions
  /\ MaxQueue \in Nat

VARIABLES
  queue,       \* m_command_queue's commands
  mtx,         \* the client that runs a function under the queue's mutex
  client,      \* per client: "idle", the priority command it pushes, "joining", "gone"
  jobState,    \* the last state passed to OnStateChange
  handler,     \* m_command_handler
  keepAlive,   \* m_keep_alive
  pc,          \* where the loop thread is
  cmd,         \* the command the loop thread has taken
  tickCb,      \* m_tick_cb: installed by RunProcedure or by StepProcedure
  mHalt,       \* Runner::m_halt
  current,     \* Runner::m_current_breakpoint_instructions
  bps,         \* the breakpoint manager's list
  rootHalt,    \* the root instruction's m_halt_requested
  status,      \* the root instruction's status
  due          \* the instructions due in the next tick

queueVars  == <<queue, mtx>>
jobVars    == <<jobState, handler>>
loopVars   == <<keepAlive, pc, cmd>>
runnerVars == <<tickCb, mHalt, current>>
treeVars   == <<rootHalt, status, due>>

vars == <<queueVars, client, jobVars, loopVars, runnerVars, bps, treeVars>>

Handler == {"Initial", "Running", "Paused", "Finished"}

\* Every tick of the tree passes through its root.
DueSets == {S \in SUBSET Instructions : Root \in S}

LoopPhase == {"loop",      \* ExecutionLoop, about to wait for a command
              "handle",    \* with a command that it waited for
              "run",       \* entering RunProcedure
              "check",     \* ExecuteProcedure, before the next tick
              "step",      \* entering StepProcedure
              "tick",      \* Procedure::ExecuteSingle
              "inTick",    \* the root's ExecuteSingleImpl
              "ticked",    \* after it, before the tick callback
              "polled",    \* with a command that the callback polled
              "stopped",   \* ExecuteProcedure has returned
              "exited"}    \* the thread has ended

\* The constructor: SetState(kInitial), set up the procedure, start the loop.
Init == /\ queue = << >>
        /\ mtx = NoClient
        /\ client = [c \in Clients |-> "idle"]
        /\ jobState = "Initial"
        /\ handler = "Initial"
        /\ keepAlive = TRUE
        /\ pc = "loop"
        /\ cmd = None
        /\ tickCb = None
        /\ mHalt = FALSE
        /\ current = {}
        /\ bps = [i \in Instructions |-> "absent"]
        /\ rootHalt = FALSE
        /\ status = "NOT_STARTED"
        /\ due = FirstDue

-----------------------------------------------------------------------------
(* Client threads                                                            *)

\* The runner may be used until its owner starts to destroy it.
InUse == \A c \in Clients : client[c] \in {"idle", "Halt"}

\* Start, Step, Pause and Reset.
Push(c, k) == /\ InUse /\ client[c] = "idle"
              /\ mtx = NoClient
              /\ Len(queue) < MaxQueue
              /\ queue' = PushBack(queue, k)
              /\ UNCHANGED <<mtx, client, jobVars, loopVars, runnerVars, bps, treeVars>>

\* Halt and Terminate: the priority push is accepted and its function starts
\* under the queue's mutex with the runner's flag.  A push that is not accepted
\* does nothing at all.
PriorityPush(c, k) == /\ mtx = NoClient
                      /\ Overtakes(queue, k)
                      /\ mtx' = c
                      /\ mHalt' = TRUE
                      /\ client' = [client EXCEPT ![c] = k]
                      /\ UNCHANGED <<queue, jobVars, loopVars, tickCb, current, bps, treeVars>>

Halt(c) == InUse /\ client[c] = "idle" /\ PriorityPush(c, "Halt")

\* The destructor.  No other thread may be inside a call on the object.
Terminate(c) == /\ \A d \in Clients : client[d] = "idle"
                /\ PriorityPush(c, "Terminate")

\* Faulty variant: the mutex stays locked.
PriorityPushKeepsLock(c) == /\ mtx = c
                            /\ client[c] \in PriorityCommand
                            /\ rootHalt' = TRUE
                            /\ queue' = PushFront(queue, client[c])
                            /\ client' = [client EXCEPT ![c] =
                                            IF @ = "Terminate" THEN "joining" ELSE "idle"]
                            /\ UNCHANGED <<mtx, jobVars, loopVars, runnerVars, bps, status, due>>

\* The rest of both: halt the tree from its root, push_front, unlock.  Terminate
\* goes on to wait for the loop thread.
PriorityPushEnd(c) == /\ mtx = c
                      /\ rootHalt' = TRUE
                      /\ queue' = PushFront(queue, client[c])
                      /\ mtx' = NoClient
                      /\ client' = [client EXCEPT ![c] =
                                      IF @ = "Terminate" THEN "joining" ELSE "idle"]
                      /\ UNCHANGED <<jobVars, loopVars, runnerVars, bps, status, due>>

Joined(c) == /\ client[c] = "joining"
             /\ pc = "exited"
             /\ client' = [client EXCEPT ![c] = "gone"]
             /\ UNCHANGED <<queueVars, jobVars, loopVars, runnerVars, bps, treeVars>>

SetBreakpoint(c, i) ==
  /\ InUse /\ client[c] = "idle"
  /\ CanSetBreakpoint(bps, i)
  /\ bps' = WithBreakpoint(bps, i)
  /\ UNCHANGED <<queueVars, client, jobVars, loopVars, runnerVars, treeVars>>

RemoveBreakpoint(c, i) ==
  /\ InUse /\ client[c] = "idle"
  /\ CanRemoveBreakpoint(bps, i)
  /\ bps' = WithoutBreakpoint(bps, i)
  /\ UNCHANGED <<queueVars, client, jobVars, loopVars, runnerVars, treeVars>>

ClientStep(c) == \/ \E k \in NormalCommand : Push(c, k)
                 \/ Halt(c)
                 \/ Terminate(c)
                 \/ PriorityPushEnd(c)
                 \/ Joined(c)
                 \/ \E i \in Breakpointable : SetBreakpoint(c, i) \/ RemoveBreakpoint(c, i)

-----------------------------------------------------------------------------
(* The loop thread: commands                                                 *)

HandlerFor == [s \in JobState \ {"Stepping"} |->
                 IF s \in FinishedJobState THEN "Finished" ELSE s]

\* Stepping leaves the handler alone: the state changes again after the step.
SetState(s) == /\ jobState' = s
               /\ handler' = IF s = "Stepping" THEN handler ELSE HandlerFor[s]

\* WaitForNextCommand returns; the handler runs after the queue is unlocked.
WaitForNextCommand == /\ pc = "loop" /\ keepAlive
                      /\ mtx = NoClient
                      /\ queue # << >>
                      /\ cmd' = Head(queue)
                      /\ queue' = Tail(queue)
                      /\ pc' = "handle"
                      /\ UNCHANGED <<mtx, client, jobVars, keepAlive, runnerVars, bps, treeVars>>

\* The loop condition of ExecutionLoop fails.
LeaveLoop == /\ pc = "loop" /\ ~keepAlive
             /\ pc' = "exited"
             /\ UNCHANGED <<queueVars, client, jobVars, keepAlive, cmd, runnerVars, bps, treeVars>>

\* The action a handler returns: ExecutionLoop performs it, the tick callback of
\* a running procedure ignores it.
Perform(next) == /\ pc' = IF pc = "handle" THEN next ELSE "check"
                 /\ cmd' = None

Handling(h) == pc \in {"handle", "polled"} /\ handler = h

\* Faulty variant: only the returned action says exit, m_keep_alive stays set.
HandleTerminateByAction == /\ pc \in {"handle", "polled"}
                           /\ cmd = "Terminate"
                           /\ Perform("exited")
                           /\ UNCHANGED <<queueVars, client, jobVars, keepAlive, runnerVars,
                                          bps, treeVars>>

\* Terminate, in every handler.
HandleTerminate == /\ pc \in {"handle", "polled"}
                   /\ cmd = "Terminate"
                   /\ keepAlive' = FALSE
                   /\ Perform("exited")
                   /\ UNCHANGED <<queueVars, client, jobVars, runnerVars, bps, treeVars>>

HandleStartable == /\ \/ cmd = "Start" /\ SetState("Running") /\ Perform("run")
                      \/ cmd = "Step" /\ SetState("Stepping") /\ Perform("step")
                      \/ cmd = "Halt" /\ SetState("Halted") /\ Perform("loop")
                      \/ /\ cmd \in {"Pause", "Reset"}
                         /\ Perform("loop")
                         /\ UNCHANGED jobVars
                   /\ UNCHANGED <<queueVars, client, keepAlive, runnerVars, bps, treeVars>>

\* Faulty variant: a paused job ignores Halt.
HandlePausedIgnoringHalt ==
  \/ Handling("Paused") /\ cmd # "Halt" /\ HandleStartable
  \/ /\ Handling("Paused") /\ cmd = "Halt" /\ Perform("loop")
     /\ UNCHANGED <<queueVars, client, jobVars, keepAlive, runnerVars, bps, treeVars>>

HandleInitial == Handling("Initial") /\ HandleStartable
HandlePaused  == Handling("Paused") /\ HandleStartable

\* Faulty variant: Pause forgets to stop the Runner.
HandleRunningWithoutPause ==
  /\ Handling("Running")
  /\ \/ cmd \in {"Step", "Pause"} /\ SetState("Paused")
     \/ cmd = "Halt" /\ SetState("Halted")
     \/ cmd \in {"Start", "Reset"} /\ UNCHANGED jobVars
  /\ Perform("loop")
  /\ UNCHANGED <<queueVars, client, keepAlive, runnerVars, bps, treeVars>>

\* Step acts like Pause; both make ExecuteProcedure return.
HandleRunning == /\ Handling("Running")
                 /\ \/ /\ cmd \in {"Step", "Pause"}
                       /\ mHalt' = TRUE
                       /\ SetState("Paused")
                    \/ cmd = "Halt" /\ SetState("Halted") /\ UNCHANGED mHalt
                    \/ cmd \in {"Start", "Reset"} /\ UNCHANGED <<jobVars, mHalt>>
                 /\ Perform("loop")
                 /\ UNCHANGED <<queueVars, client, keepAlive, tickCb, current, bps, treeVars>>

\* Faulty variant: the halt flag survives the reset.
ResetProcedureKeepingHalt == /\ status' = "NOT_STARTED"
                             /\ due' = FirstDue
                             /\ rootHalt' = rootHalt

\* Procedure::Reset as the runner sees it: the root is reset last of all
\* instructions, its status first and its halt flag at the very end.
ResetProcedure == /\ status' = "NOT_STARTED"
                  /\ due' = FirstDue
                  /\ rootHalt' = FALSE

HandleFinished == /\ Handling("Finished")
                  /\ \/ cmd = "Reset" /\ ResetProcedure /\ SetState("Initial")
                     \/ /\ cmd \in JobCommand \ {"Reset", "Terminate"}
                        /\ UNCHANGED <<jobVars, treeVars>>
                  /\ Perform("loop")
                  /\ UNCHANGED <<queueVars, client, keepAlive, runnerVars, bps>>

-----------------------------------------------------------------------------
(* The loop thread: execution                                                *)

\* RunProcedure up to the loop of ExecuteProcedure.
EnterRun == /\ pc = "run"
            /\ tickCb' = "run"
            /\ mHalt' = FALSE
            /\ pc' = "check"
            /\ UNCHANGED <<queueVars, client, jobVars, keepAlive, cmd, current, bps, treeVars>>

\* Runner::IsFinished
IsFinished == IsFinishedStatus(status) \/ rootHalt

StopRun == /\ pc = "check"
           /\ IsFinished \/ mHalt
           /\ pc' = "stopped"
           /\ UNCHANGED <<queueVars, client, jobVars, keepAlive, cmd, runnerVars, bps, treeVars>>

\* The instructions GetNextInstructions returns: none while the root is running.
NextInstructions == IF ReadyForExecute(status) THEN due ELSE {}

HitBreakpoint == /\ pc = "check"
                 /\ ~IsFinished /\ ~mHalt
                 /\ HitBreakpoints(bps, NextInstructions) # {}
                 /\ current' = HitBreakpoints(bps, NextInstructions)
                 /\ bps' = ReleaseBreakpoints(bps, NextInstructions)
                 /\ pc' = "stopped"
                 /\ UNCHANGED <<queueVars, client, jobVars, keepAlive, cmd, tickCb, mHalt, treeVars>>

\* No breakpoint: the list of hit ones is cleared, unless it was not looked at.
ContinueRun == /\ pc = "check"
               /\ ~IsFinished /\ ~mHalt
               /\ HitBreakpoints(bps, NextInstructions) = {}
               /\ current' = IF NextInstructions = {} THEN current ELSE {}
               /\ pc' = "tick"
               /\ UNCHANGED <<queueVars, client, jobVars, keepAlive, cmd, tickCb, mHalt, bps, treeVars>>

EnterStep == /\ pc = "step"
             /\ tickCb' = "step"
             /\ pc' = "tick"
             /\ UNCHANGED <<queueVars, client, jobVars, keepAlive, cmd, mHalt, current, bps, treeVars>>

\* The preamble of the root's ExecuteSingle, whose InitHook may fail, and the
\* decision to execute.
Preamble == IF status = "NOT_STARTED" THEN {"NOT_FINISHED", "FAILURE"} ELSE {status}

\* Faulty variant: the halt flag is not looked at.
BeginTickAlways == /\ pc = "tick"
                   /\ status' \in Preamble
                   /\ pc' = IF NeedsExecute(status') THEN "inTick" ELSE "ticked"
                   /\ UNCHANGED <<queueVars, client, jobVars, keepAlive, cmd, runnerVars,
                                  bps, rootHalt, due>>

BeginTick == /\ pc = "tick"
             /\ status' \in Preamble
             /\ pc' = IF NeedsExecute(status') /\ ~rootHalt THEN "inTick" ELSE "ticked"
             /\ UNCHANGED <<queueVars, client, jobVars, keepAlive, cmd, runnerVars, bps, rootHalt, due>>

\* ExecuteSingleImpl of the root returns.  It may take for ever: instructions
\* block on timers, variables and users.  A finished ParallelSequence has halted
\* itself.
EndTick == /\ pc = "inTick"
           /\ status' \in ExecutionStatus \ {"NOT_STARTED"}
           /\ \/ UNCHANGED rootHalt
              \/ IsFinishedStatus(status') /\ rootHalt' = TRUE
           /\ due' \in DueSets
           /\ pc' = "ticked"
           /\ UNCHANGED <<queueVars, client, jobVars, keepAlive, cmd, runnerVars, bps>>

SwitchStateOnFinished == /\ IsFinishedStatus(status)
                         /\ SetState(IF status = "SUCCESS" THEN "Succeeded" ELSE "Failed")

\* After a tick of a running procedure: rearm, then either report the end or
\* poll one command.
RunCallback ==
  /\ pc = "ticked" /\ tickCb = "run"
  /\ bps' = RearmBreakpoints(bps)
  /\ \/ /\ SwitchStateOnFinished
        /\ pc' = "check"
        /\ UNCHANGED <<queue, cmd>>
     \/ /\ ~IsFinishedStatus(status)
        /\ mtx = NoClient
        /\ queue = << >>
        /\ pc' = "check"
        /\ UNCHANGED <<queue, cmd, jobVars>>
     \/ /\ ~IsFinishedStatus(status)
        /\ mtx = NoClient
        /\ queue # << >>
        /\ cmd' = Head(queue)
        /\ queue' = Tail(queue)
        /\ pc' = "polled"
        /\ UNCHANGED jobVars
  /\ UNCHANGED <<mtx, client, keepAlive, runnerVars, treeVars>>

\* Faulty variant: a step leaves a breakpoint released.
FinishStepKeepingReleased == /\ pc = "ticked" /\ tickCb = "step"
                             /\ \/ SwitchStateOnFinished
                                \/ ~IsFinishedStatus(status) /\ SetState("Paused")
                             /\ pc' = "loop"
                             /\ UNCHANGED <<queueVars, client, keepAlive, cmd, runnerVars,
                                            bps, treeVars>>

\* After the tick of a step.
FinishStep == /\ pc = "ticked" /\ tickCb = "step"
              /\ bps' = RearmBreakpoints(bps)
              /\ \/ SwitchStateOnFinished
                 \/ ~IsFinishedStatus(status) /\ SetState("Paused")
              /\ pc' = "loop"
              /\ UNCHANGED <<queueVars, client, keepAlive, cmd, runnerVars, treeVars>>

\* Faulty variant: a hit breakpoint does not change the job state.
LeaveRunSilently == /\ pc = "stopped"
                    /\ pc' = "loop"
                    /\ UNCHANGED <<queueVars, client, jobVars, keepAlive, cmd, runnerVars,
                                   bps, treeVars>>

\* The end of RunProcedure: a non-empty list of hit breakpoints pauses the job.
LeaveRun == /\ pc = "stopped"
            /\ IF current # {} THEN SetState("Paused") ELSE UNCHANGED jobVars
            /\ pc' = "loop"
            /\ UNCHANGED <<queueVars, client, keepAlive, cmd, runnerVars, bps, treeVars>>

LoopStep == \/ WaitForNextCommand \/ LeaveLoop
            \/ HandleTerminate \/ HandleInitial \/ HandlePaused \/ HandleRunning \/ HandleFinished
            \/ EnterRun \/ StopRun \/ HitBreakpoint \/ ContinueRun \/ EnterStep
            \/ BeginTick \/ RunCallback \/ FinishStep \/ LeaveRun

Next == \/ \E c \in Clients : ClientStep(c)
        \/ LoopStep
        \/ EndTick

Spec == Init /\ [][Next]_vars

\* Threads inside a call run on.  A tick is only certain to end once the root was
\* told to halt: what blocks an instruction is the environment, and blocking
\* instructions watch their halt flag.  No client is forced to call anything.
Fairness == /\ WF_vars(LoopStep)
            /\ WF_vars(rootHalt /\ EndTick)
            /\ \A c \in Clients : WF_vars(PriorityPushEnd(c)) /\ WF_vars(Joined(c))

FairSpec == Spec /\ Fairness
-----------------------------------------------------------------------------
(* Properties                                                                *)

TickPhase == {"tick", "inTick", "ticked"}

\* Types, and the discipline of the queue's mutex: exactly the client that is
\* inside the function of a priority push holds it.
TypeOK == /\ queue \in Seq(JobCommand)
          /\ mtx \in Clients \union {NoClient}
          /\ client \in [Clients -> {"idle", "joining", "gone"} \union PriorityCommand]
          /\ \A c \in Clients : client[c] \in PriorityCommand <=> mtx = c
          /\ jobState \in JobState
          /\ handler \in Handler
          /\ keepAlive \in BOOLEAN
          /\ pc \in LoopPhase
          /\ cmd \in JobCommand \union {None}
          /\ pc \in {"handle", "polled"} <=> cmd # None
          /\ tickCb \in {None, "run", "step"}
          /\ mHalt \in BOOLEAN
          /\ current \subseteq Instructions
          /\ bps \in [Instructions -> BreakpointStatus]
          /\ rootHalt \in BOOLEAN
          /\ status \in ExecutionStatus
          /\ due \in DueSets

\* The instruction tree is only ever ticked in a job that reports Running or
\* Stepping: no order of Pause, Halt and Terminate against the m_halt flag, which
\* ExecuteProcedure clears when it starts, lets a run outlive its job state.
TickOnlyWhenActive == pc \in TickPhase => jobState \in {"Running", "Stepping"}

\* A job that reports Running while its loop thread waits for commands has the
\* command that ends this state first in line, or a client is about to put it
\* there: nothing leaves a job in Running that nobody executes.
RunningIsDriven == pc = "loop" /\ handler = "Running" /\ keepAlive
                     => \/ mtx # NoClient
                        \/ queue # << >> /\ Head(queue) \in PriorityCommand

\* A tree that was told to halt has finished, or belongs to a job that is finished
\* or about to be finished by the Halt or Terminate that told it so.  Otherwise a
\* later Start would find a tree that refuses to execute.
PriorityPending == \/ \E k \in PriorityCommand : Queued(queue, k)
                   \/ cmd \in PriorityCommand
                   \/ ~keepAlive
HaltedTreeHasOwner ==
  rootHalt => handler = "Finished" \/ IsFinishedStatus(status) \/ PriorityPending

\* A finished job goes back to work only through a reset to its initial state.
FinishedOnlyLeftByReset ==
  [][(jobState \in FinishedJobState /\ jobState' # jobState) => jobState' = "Initial"]_vars

\* The runner implements the job's life cycle.
Lifecycle == INSTANCE JobLifecycle WITH state <- jobState, executing <- (pc = "inTick")
ImplementsLifecycle == Lifecycle!Spec

\* A Halt that was accepted brings the job to a finished state.
HaltTakesEffect == Queued(queue, "Halt") ~> handler = "Finished" \/ pc = "exited"

\* The destructor returns.
DestructorReturns == \A c \in Clients : client[c] = "Terminate" ~> client[c] = "gone"

=============================================================================
