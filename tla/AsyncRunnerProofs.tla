--------------------------- MODULE AsyncRunnerProofs ---------------------------
(***************************************************************************)
(* Proofs about AsyncRunner, HaltOrder and BreakpointPassage, for any set  *)
(* of clients, any procedure and any bound of the queue.                   *)
(***************************************************************************)
EXTENDS HaltOrder, BreakpointPassage, SequenceLemmas

-----------------------------------------------------------------------------
(* The inductive invariant                                                   *)

\* A priority command is about to be pushed, or first in line.
Stopping == mtx # NoClient \/ Alarmed(queue)

\* The loop thread has taken a priority command.
Urgent == cmd \in PriorityCommand

\* The order of the queue, which the priority push under way keeps.
QueueOK == /\ Ordered(queue)
           /\ mtx # NoClient => Overtakes(queue, client[mtx])

\* The job state, the handler and the place of the loop thread agree; a run that
\* reaches its loop condition in another state than Running is about to end.
StateOK == /\ jobState # "Stepping" => handler = HandlerFor[jobState]
           /\ jobState = "Stepping" => handler \in {"Initial", "Paused"}
           /\ jobState = "Stepping" <=> pc = "step" \/ (pc \in TickPhase /\ tickCb = "step")
           /\ pc \in {"run", "polled"} => jobState = "Running"
           /\ pc \in TickPhase => tickCb # None
           /\ pc \in TickPhase /\ tickCb = "run" => jobState = "Running"
           /\ pc \in {"check", "polled", "stopped"} => tickCb = "run"
           /\ pc = "check" => jobState = "Running" \/ mHalt \/ IsFinished

\* A priority command outlives the halt flag it set only when a reset that was
\* already taken clears the flag: then the job is in its initial state.
AlarmOK == /\ ~rootHalt /\ (Alarmed(queue) \/ Urgent)
                => /\ handler = "Initial"
                   /\ pc \in {"loop", "handle", "exited"}
                   /\ pc = "handle" => Urgent
           /\ cmd = "Halt" /\ ~rootHalt => ~Alarmed(queue)

\* A finished or halted tree belongs to a finished job, or to one that will be;
\* or a breakpoint was hit before it finished.
OwnerOK == /\ IsFinishedStatus(status)
                => pc = "ticked" \/ handler = "Finished" \/ current # {}
           /\ rootHalt => \/ handler = "Finished" \/ IsFinishedStatus(status)
                          \/ Alarmed(queue) \/ Urgent
                          \/ ~keepAlive \/ current # {}

\* Whatever ends a run without changing the job state is a priority command that
\* is still to come.
DrivenOK == handler = "Running" =>
              /\ keepAlive /\ mHalt /\ pc \in TickPhase \union {"check", "polled"}
                   => Stopping \/ Urgent
              /\ keepAlive /\ pc = "stopped" => Stopping \/ current # {}
              /\ keepAlive /\ pc = "loop" => Stopping
              /\ pc = "handle" => Urgent

IInv == TypeOK /\ QueueOK /\ StateOK /\ AlarmOK /\ OwnerOK /\ DrivenOK

-----------------------------------------------------------------------------
(* What the steps do to the queue.                                           *)

\* Push keeps the order and raises no alarm.
LEMMA PushEffect ==
  ASSUME TypeOK, QueueOK, NEW c \in Clients, NEW k \in NormalCommand, Push(c, k)
  PROVE  /\ queue' \in Seq(JobCommand) /\ Ordered(queue')
         /\ Alarmed(queue') <=> Alarmed(queue)
BY CommandKinds, PushBackElements, PushBackOrdered, PushBackAlarmed DEF TypeOK, QueueOK, Push

\* The end of a priority push keeps the order and raises the alarm.
LEMMA PriorityPushEffect ==
  ASSUME TypeOK, QueueOK, NEW c \in Clients, PriorityPushEnd(c)
  PROVE  /\ client[c] \in PriorityCommand
         /\ queue' \in Seq(JobCommand) /\ Ordered(queue') /\ Alarmed(queue')
<1>1. client[c] \in PriorityCommand /\ Overtakes(queue, client[c])
  BY RunnerAssumption DEF TypeOK, QueueOK, PriorityPushEnd
<1>2. queue \in Seq(JobCommand) /\ Ordered(queue) /\ queue' = PushFront(queue, client[c])
  BY DEF TypeOK, QueueOK, PriorityPushEnd
<1> QED
  BY <1>1, <1>2, CommandKinds, PushFrontElements, PushFrontOrdered, PushFrontAlarmed

\* Taking a command takes the alarm, and leaves one only behind a Terminate.
LEMMA PopEffect ==
  ASSUME TypeOK, QueueOK, queue # << >>, cmd' = Head(queue), queue' = Tail(queue)
  PROVE  /\ queue' \in Seq(JobCommand) /\ Ordered(queue')
         /\ cmd' \in JobCommand
         /\ cmd' \in PriorityCommand <=> Alarmed(queue)
         /\ Alarmed(queue') => cmd' = "Terminate"
<1>1. queue \in Seq(JobCommand) /\ Ordered(queue)
  BY DEF TypeOK, QueueOK
<1>2. /\ queue' \in Seq(JobCommand) /\ Ordered(queue') /\ cmd' \in JobCommand
      /\ Alarmed(queue') => cmd' = "Terminate"
  BY <1>1, PopFrontElements, PopFrontOrdered, PopFrontAlarmed
<1> QED
  BY <1>2 DEF Alarmed

-----------------------------------------------------------------------------
(* Each part of the invariant is kept by every step.                         *)

\* Types: each action assigns its variables values of their types.
LEMMA NextTypeOK == IInv /\ [Next]_vars => TypeOK'
<1> SUFFICES ASSUME IInv, [Next]_vars PROVE TypeOK'
  OBVIOUS
<1> USE RunnerAssumption DEF queueVars, jobVars, loopVars, runnerVars, treeVars
<1>a. TypeOK /\ QueueOK
  BY DEF IInv
<1>1. ASSUME NEW c \in Clients, NEW k \in NormalCommand, Push(c, k) PROVE TypeOK'
  BY <1>1, <1>a, PushEffect DEF Push, TypeOK
<1>2. ASSUME NEW c \in Clients, Halt(c) PROVE TypeOK'
  BY <1>2, <1>a DEF TypeOK, Halt, PriorityPush, PriorityCommand
<1>3. ASSUME NEW c \in Clients, Terminate(c) PROVE TypeOK'
  BY <1>3, <1>a DEF TypeOK, Terminate, PriorityPush, PriorityCommand
<1>4. ASSUME NEW c \in Clients, PriorityPushEnd(c) PROVE TypeOK'
  BY <1>4, <1>a, PriorityPushEffect DEF PriorityPushEnd, TypeOK, PriorityCommand
<1>5. ASSUME NEW c \in Clients, Joined(c) PROVE TypeOK'
  BY <1>5, <1>a DEF TypeOK, Joined, PriorityCommand
<1>6. ASSUME NEW c \in Clients, NEW i \in Breakpointable, SetBreakpoint(c, i) PROVE TypeOK'
  BY <1>6, <1>a DEF TypeOK, SetBreakpoint, WithBreakpoint, BreakpointStatus
<1>7. ASSUME NEW c \in Clients, NEW i \in Breakpointable, RemoveBreakpoint(c, i) PROVE TypeOK'
  BY <1>7, <1>a DEF TypeOK, RemoveBreakpoint, WithoutBreakpoint, BreakpointStatus
<1>8. ASSUME WaitForNextCommand PROVE TypeOK'
  BY <1>8, <1>a, PopEffect
  DEF WaitForNextCommand, TypeOK, LoopPhase, JobCommand, NormalCommand, PriorityCommand, None
<1>9. ASSUME LeaveLoop PROVE TypeOK'
  BY <1>9, <1>a DEF TypeOK, LeaveLoop, LoopPhase
<1>10. ASSUME HandleTerminate PROVE TypeOK'
  BY <1>10, <1>a DEF TypeOK, HandleTerminate, Perform, LoopPhase, JobCommand, NormalCommand,
      PriorityCommand, None
<1>11. ASSUME HandleInitial PROVE TypeOK'
  BY <1>11, <1>a DEF TypeOK, HandleInitial, HandleStartable, Handling, Perform, LoopPhase,
      JobCommand, NormalCommand, PriorityCommand, None, SetState, HandlerFor,
      FinishedJobState, JobState, Handler
<1>12. ASSUME HandlePaused PROVE TypeOK'
  BY <1>12, <1>a DEF TypeOK, HandlePaused, HandleStartable, Handling, Perform, LoopPhase,
      JobCommand, NormalCommand, PriorityCommand, None, SetState, HandlerFor,
      FinishedJobState, JobState, Handler
<1>13. ASSUME HandleRunning PROVE TypeOK'
  BY <1>13, <1>a, ZenonT(60) DEF TypeOK, HandleRunning, Handling, Perform, LoopPhase, JobCommand,
      NormalCommand, PriorityCommand, None, SetState, HandlerFor, FinishedJobState, JobState,
      Handler
<1>14. ASSUME HandleFinished PROVE TypeOK'
  <2>1. FirstDue \in DueSets /\ "NOT_STARTED" \in ExecutionStatus
    BY DEF DueSets, ExecutionStatus
  <2>2. rootHalt' \in BOOLEAN /\ status' \in ExecutionStatus /\ due' \in DueSets
    BY <1>14, <1>a, <2>1 DEF HandleFinished, ResetProcedure, TypeOK
  <2>3. jobState' \in JobState /\ handler' \in Handler
    BY <1>14, <1>a
    DEF HandleFinished, TypeOK, SetState, HandlerFor, FinishedJobState, JobState, Handler
  <2> QED
    BY <1>14, <1>a, <2>2, <2>3 DEF HandleFinished, TypeOK, Handling, Perform, LoopPhase,
        JobCommand, NormalCommand, PriorityCommand, None
<1>15. ASSUME EnterRun PROVE TypeOK'
  BY <1>15, <1>a
  DEF TypeOK, EnterRun, LoopPhase, JobCommand, NormalCommand, PriorityCommand, None
<1>16. ASSUME StopRun PROVE TypeOK'
  BY <1>16, <1>a DEF TypeOK, StopRun, LoopPhase
<1>17. ASSUME HitBreakpoint PROVE TypeOK'
  BY <1>17, <1>a DEF TypeOK, HitBreakpoint, HitBreakpoints, ReleaseBreakpoints,
      NextInstructions, DueSets, BreakpointStatus, LoopPhase
<1>18. ASSUME ContinueRun PROVE TypeOK'
  BY <1>18, <1>a DEF TypeOK, ContinueRun, LoopPhase
<1>19. ASSUME EnterStep PROVE TypeOK'
  BY <1>19, <1>a DEF TypeOK, EnterStep, LoopPhase, None
<1>20. ASSUME BeginTick PROVE TypeOK'
  BY <1>20, <1>a DEF TypeOK, BeginTick, Preamble, ExecutionStatus, LoopPhase
<1>21. ASSUME EndTick PROVE TypeOK'
  BY <1>21, <1>a DEF TypeOK, EndTick, LoopPhase
<1>22. ASSUME RunCallback PROVE TypeOK'
  <2>1. bps' \in [Instructions -> BreakpointStatus]
    BY <1>22, <1>a DEF RunCallback, RearmBreakpoints, TypeOK, BreakpointStatus
  <2>2. jobState' \in JobState /\ handler' \in Handler
    BY <1>22, <1>a DEF RunCallback, SwitchStateOnFinished, TypeOK, SetState, HandlerFor,
        FinishedJobState, JobState, Handler
  <2>3. /\ queue' \in Seq(JobCommand)
        /\ pc' \in LoopPhase /\ cmd' \in JobCommand \union {None}
        /\ pc' \in {"handle", "polled"} <=> cmd' # None
    BY <1>22, <1>a, PopEffect
    DEF RunCallback, TypeOK, LoopPhase, JobCommand, NormalCommand, PriorityCommand, None
  <2> QED
    BY <1>22, <1>a, <2>1, <2>2, <2>3 DEF RunCallback, TypeOK
<1>23. ASSUME FinishStep PROVE TypeOK'
  BY <1>23, <1>a DEF TypeOK, FinishStep, SwitchStateOnFinished, RearmBreakpoints,
      BreakpointStatus, LoopPhase, SetState, HandlerFor, FinishedJobState, JobState, Handler
<1>24. ASSUME LeaveRun PROVE TypeOK'
  BY <1>24, <1>a
  DEF TypeOK, LeaveRun, LoopPhase, SetState, HandlerFor, FinishedJobState, JobState, Handler
<1>25. ASSUME UNCHANGED vars PROVE TypeOK'
  BY <1>25, <1>a DEF vars, TypeOK
<1> QED
  BY <1>1, <1>2, <1>3, <1>4, <1>5, <1>6, <1>7, <1>8, <1>9, <1>10, <1>11, <1>12, <1>13,
     <1>14, <1>15, <1>16, <1>17, <1>18, <1>19, <1>20, <1>21, <1>22, <1>23, <1>24, <1>25
  DEF Next, ClientStep, LoopStep

\* The order of the queue: only pushes and pops touch it, and nobody pushes while a
\* priority push is under way.
LEMMA NextQueueOK == IInv /\ [Next]_vars => QueueOK'
<1> SUFFICES ASSUME IInv, [Next]_vars PROVE QueueOK'
  OBVIOUS
<1> USE RunnerAssumption DEF queueVars, jobVars, loopVars, runnerVars, treeVars
<1>a. TypeOK /\ QueueOK
  BY DEF IInv
<1>1. ASSUME NEW c \in Clients, NEW k \in NormalCommand, Push(c, k) PROVE QueueOK'
  BY <1>1, <1>a, PushEffect DEF Push, QueueOK
<1>2. ASSUME NEW c \in Clients, Halt(c) PROVE QueueOK'
  BY <1>2, <1>a DEF Halt, Terminate, PriorityPush, TypeOK, QueueOK, Overtakes
<1>3. ASSUME NEW c \in Clients, Terminate(c) PROVE QueueOK'
  BY <1>3, <1>a DEF Halt, Terminate, PriorityPush, TypeOK, QueueOK, Overtakes
<1>4. ASSUME NEW c \in Clients, PriorityPushEnd(c) PROVE QueueOK'
  BY <1>4, <1>a, PriorityPushEffect DEF PriorityPushEnd, QueueOK
<1>5. ASSUME NEW c \in Clients, Joined(c) PROVE QueueOK'
  BY <1>5, <1>a DEF Joined, TypeOK, QueueOK, Overtakes, PriorityCommand
<1>6. ASSUME NEW c \in Clients, NEW i \in Breakpointable, SetBreakpoint(c, i) PROVE QueueOK'
  BY <1>6, <1>a DEF SetBreakpoint, TypeOK, QueueOK, Overtakes
<1>7. ASSUME NEW c \in Clients, NEW i \in Breakpointable, RemoveBreakpoint(c, i) PROVE QueueOK'
  BY <1>7, <1>a DEF RemoveBreakpoint, TypeOK, QueueOK, Overtakes
<1>8. ASSUME WaitForNextCommand PROVE QueueOK'
  BY <1>8, <1>a, PopEffect DEF WaitForNextCommand, QueueOK
<1>9. ASSUME LeaveLoop PROVE QueueOK'
  BY <1>9, <1>a DEF LeaveLoop, TypeOK, QueueOK, Overtakes
<1>10. ASSUME HandleTerminate PROVE QueueOK'
  BY <1>10, <1>a DEF HandleTerminate, QueueOK
<1>11. ASSUME HandleInitial PROVE QueueOK'
  BY <1>11, <1>a DEF HandleInitial, HandleStartable, QueueOK
<1>12. ASSUME HandlePaused PROVE QueueOK'
  BY <1>12, <1>a DEF HandlePaused, HandleStartable, QueueOK
<1>13. ASSUME HandleRunning PROVE QueueOK'
  BY <1>13, <1>a DEF HandleRunning, QueueOK
<1>14. ASSUME HandleFinished PROVE QueueOK'
  BY <1>14, <1>a DEF HandleFinished, QueueOK
<1>15. ASSUME EnterRun PROVE QueueOK'
  BY <1>15, <1>a DEF EnterRun, TypeOK, QueueOK, Overtakes
<1>16. ASSUME StopRun PROVE QueueOK'
  BY <1>16, <1>a DEF StopRun, TypeOK, QueueOK, Overtakes
<1>17. ASSUME HitBreakpoint PROVE QueueOK'
  BY <1>17, <1>a DEF HitBreakpoint, TypeOK, QueueOK, Overtakes
<1>18. ASSUME ContinueRun PROVE QueueOK'
  BY <1>18, <1>a DEF ContinueRun, TypeOK, QueueOK, Overtakes
<1>19. ASSUME EnterStep PROVE QueueOK'
  BY <1>19, <1>a DEF EnterStep, TypeOK, QueueOK, Overtakes
<1>20. ASSUME BeginTick PROVE QueueOK'
  BY <1>20, <1>a DEF BeginTick, TypeOK, QueueOK, Overtakes
<1>21. ASSUME EndTick PROVE QueueOK'
  BY <1>21, <1>a DEF EndTick, TypeOK, QueueOK, Overtakes
<1>22. ASSUME RunCallback PROVE QueueOK'
  BY <1>22, <1>a, PopEffect DEF RunCallback, QueueOK
<1>23. ASSUME FinishStep PROVE QueueOK'
  BY <1>23, <1>a DEF FinishStep, QueueOK
<1>24. ASSUME LeaveRun PROVE QueueOK'
  BY <1>24, <1>a DEF LeaveRun, QueueOK
<1>25. ASSUME UNCHANGED vars PROVE QueueOK'
  BY <1>25, <1>a DEF vars, TypeOK, QueueOK, Overtakes
<1> QED
  BY <1>1, <1>2, <1>3, <1>4, <1>5, <1>6, <1>7, <1>8, <1>9, <1>10, <1>11, <1>12, <1>13,
     <1>14, <1>15, <1>16, <1>17, <1>18, <1>19, <1>20, <1>21, <1>22, <1>23, <1>24, <1>25
  DEF Next, ClientStep, LoopStep

\* The agreement of job state, handler and loop thread.  A Halt that a running job
\* polls has set the tree's halt flag, so that its run is about to end (AlarmOK).
LEMMA NextStateOK == IInv /\ [Next]_vars => StateOK'
<1> SUFFICES ASSUME IInv, [Next]_vars PROVE StateOK'
  OBVIOUS
<1> USE RunnerAssumption DEF queueVars, jobVars, loopVars, runnerVars, treeVars
<1>a. TypeOK /\ StateOK /\ AlarmOK
  BY DEF IInv
<1>1. ASSUME NEW c \in Clients, NEW k \in NormalCommand, Push(c, k) PROVE StateOK'
  BY <1>1, <1>a DEF Push, TypeOK, StateOK, TickPhase, IsFinished
<1>2. ASSUME NEW c \in Clients, Halt(c) PROVE StateOK'
  BY <1>2, <1>a DEF Halt, PriorityPush, TypeOK, StateOK, TickPhase, IsFinished
<1>3. ASSUME NEW c \in Clients, Terminate(c) PROVE StateOK'
  BY <1>3, <1>a DEF Terminate, PriorityPush, TypeOK, StateOK, TickPhase, IsFinished
<1>4. ASSUME NEW c \in Clients, PriorityPushEnd(c) PROVE StateOK'
  BY <1>4, <1>a DEF PriorityPushEnd, TypeOK, StateOK, TickPhase, IsFinished
<1>5. ASSUME NEW c \in Clients, Joined(c) PROVE StateOK'
  BY <1>5, <1>a DEF Joined, TypeOK, StateOK, TickPhase, IsFinished
<1>6. ASSUME NEW c \in Clients, NEW i \in Breakpointable, SetBreakpoint(c, i) PROVE StateOK'
  BY <1>6, <1>a DEF SetBreakpoint, TypeOK, StateOK, TickPhase, IsFinished
<1>7. ASSUME NEW c \in Clients, NEW i \in Breakpointable, RemoveBreakpoint(c, i) PROVE StateOK'
  BY <1>7, <1>a DEF RemoveBreakpoint, TypeOK, StateOK, TickPhase, IsFinished
<1>8. ASSUME WaitForNextCommand PROVE StateOK'
  BY <1>8, <1>a DEF WaitForNextCommand, TypeOK, StateOK, TickPhase, IsFinished
<1>9. ASSUME LeaveLoop PROVE StateOK'
  BY <1>9, <1>a DEF LeaveLoop, TypeOK, StateOK, TickPhase, IsFinished
<1>10. ASSUME HandleTerminate PROVE StateOK'
  BY <1>10, <1>a DEF HandleTerminate, Perform, TypeOK, StateOK, TickPhase, IsFinished
<1>11. ASSUME HandleInitial PROVE StateOK'
  BY <1>11, <1>a DEF HandleInitial, HandleStartable, Handling, SetState, Perform, HandlerFor,
      FinishedJobState, JobState, TypeOK, StateOK, TickPhase, IsFinished
<1>12. ASSUME HandlePaused PROVE StateOK'
  BY <1>12, <1>a DEF HandlePaused, HandleStartable, Handling, SetState, Perform, HandlerFor,
      FinishedJobState, JobState, TypeOK, StateOK, TickPhase, IsFinished
<1>13. ASSUME HandleRunning PROVE StateOK'
  <2>1. cmd = "Halt" /\ pc = "polled" => rootHalt
    BY <1>a DEF AlarmOK, Urgent, PriorityCommand
  <2>2. jobState = "Running" /\ pc \in {"handle", "polled"}
    BY <1>13, <1>a DEF HandleRunning, Handling, TypeOK, StateOK, HandlerFor, FinishedJobState,
        JobState, TickPhase
  <2> QED
    BY <1>13, <1>a, <2>1, <2>2 DEF HandleRunning, Handling, SetState, Perform, HandlerFor,
        FinishedJobState, JobState, StateOK, TickPhase, IsFinished
<1>14. ASSUME HandleFinished PROVE StateOK'
  BY <1>14, <1>a DEF HandleFinished, ResetProcedure, Handling, SetState, Perform, HandlerFor,
      FinishedJobState, JobState, TypeOK, StateOK, TickPhase, IsFinished
<1>15. ASSUME EnterRun PROVE StateOK'
  BY <1>15, <1>a DEF EnterRun, TypeOK, StateOK, TickPhase, IsFinished
<1>16. ASSUME StopRun PROVE StateOK'
  BY <1>16, <1>a DEF StopRun, TypeOK, StateOK, TickPhase, IsFinished
<1>17. ASSUME HitBreakpoint PROVE StateOK'
  BY <1>17, <1>a DEF HitBreakpoint, TypeOK, StateOK, TickPhase, IsFinished
<1>18. ASSUME ContinueRun PROVE StateOK'
  BY <1>18, <1>a DEF ContinueRun, TypeOK, StateOK, TickPhase, IsFinished, None
<1>19. ASSUME EnterStep PROVE StateOK'
  BY <1>19, <1>a DEF EnterStep, TypeOK, StateOK, TickPhase, IsFinished, None
<1>20. ASSUME BeginTick PROVE StateOK'
  BY <1>20, <1>a DEF BeginTick, TypeOK, StateOK, TickPhase, IsFinished
<1>21. ASSUME EndTick PROVE StateOK'
  BY <1>21, <1>a DEF EndTick, TypeOK, StateOK, TickPhase, IsFinished
<1>22. ASSUME RunCallback PROVE StateOK'
  BY <1>22, <1>a DEF RunCallback, SwitchStateOnFinished, SetState, HandlerFor,
      FinishedJobState, JobState, TypeOK, StateOK, TickPhase, IsFinished
<1>23. ASSUME FinishStep PROVE StateOK'
  BY <1>23, <1>a DEF FinishStep, SwitchStateOnFinished, SetState, HandlerFor,
      FinishedJobState, JobState, TypeOK, StateOK, TickPhase, IsFinished
<1>24. ASSUME LeaveRun PROVE StateOK'
  BY <1>24, <1>a DEF LeaveRun, SetState, HandlerFor, FinishedJobState, JobState, TypeOK,
      StateOK, TickPhase, IsFinished
<1>25. ASSUME UNCHANGED vars PROVE StateOK'
  BY <1>25, <1>a DEF vars, StateOK, TickPhase, IsFinished
<1> QED
  BY <1>1, <1>2, <1>3, <1>4, <1>5, <1>6, <1>7, <1>8, <1>9, <1>10, <1>11, <1>12, <1>13,
     <1>14, <1>15, <1>16, <1>17, <1>18, <1>19, <1>20, <1>21, <1>22, <1>23, <1>24, <1>25
  DEF Next, ClientStep, LoopStep

\* The priority commands and the halt flag.
LEMMA NextAlarmOK == IInv /\ [Next]_vars => AlarmOK'
<1> SUFFICES ASSUME IInv, [Next]_vars PROVE AlarmOK'
  OBVIOUS
<1> USE RunnerAssumption DEF queueVars, jobVars, loopVars, runnerVars, treeVars
<1>a. TypeOK /\ QueueOK /\ StateOK /\ AlarmOK
  BY DEF IInv
<1>1. ASSUME NEW c \in Clients, NEW k \in NormalCommand, Push(c, k) PROVE AlarmOK'
  BY <1>1, <1>a, PushEffect DEF Push, AlarmOK, Urgent
<1>2. ASSUME NEW c \in Clients, Halt(c) PROVE AlarmOK'
  BY <1>2, <1>a
  DEF Halt, PriorityPush, TypeOK, StateOK, AlarmOK, TickPhase, Urgent, PriorityCommand, None
<1>3. ASSUME NEW c \in Clients, Terminate(c) PROVE AlarmOK'
  BY <1>3, <1>a DEF Terminate, PriorityPush, TypeOK, StateOK, AlarmOK, TickPhase, Urgent,
      PriorityCommand, None
<1>4. ASSUME NEW c \in Clients, PriorityPushEnd(c) PROVE AlarmOK'
  BY <1>4 DEF PriorityPushEnd, AlarmOK
<1>5. ASSUME NEW c \in Clients, Joined(c) PROVE AlarmOK'
  BY <1>5, <1>a DEF Joined, TypeOK, StateOK, AlarmOK, TickPhase, Urgent, PriorityCommand, None
<1>6. ASSUME NEW c \in Clients, NEW i \in Breakpointable, SetBreakpoint(c, i) PROVE AlarmOK'
  BY <1>6, <1>a
  DEF SetBreakpoint, TypeOK, StateOK, AlarmOK, TickPhase, Urgent, PriorityCommand, None
<1>7. ASSUME NEW c \in Clients, NEW i \in Breakpointable, RemoveBreakpoint(c, i) PROVE AlarmOK'
  BY <1>7, <1>a
  DEF RemoveBreakpoint, TypeOK, StateOK, AlarmOK, TickPhase, Urgent, PriorityCommand, None
<1>8. ASSUME WaitForNextCommand PROVE AlarmOK'
  BY <1>8, <1>a, PopEffect DEF WaitForNextCommand, AlarmOK, Urgent, PriorityCommand
<1>9. ASSUME LeaveLoop PROVE AlarmOK'
  BY <1>9, <1>a
  DEF LeaveLoop, TypeOK, StateOK, AlarmOK, TickPhase, Urgent, PriorityCommand, None
<1>10. ASSUME HandleTerminate PROVE AlarmOK'
  BY <1>10, <1>a DEF HandleTerminate, Perform, TypeOK, StateOK, AlarmOK, TickPhase, Urgent,
      PriorityCommand, None
<1>11. ASSUME HandleInitial PROVE AlarmOK'
  BY <1>11, <1>a DEF HandleInitial, HandleStartable, Handling, SetState, Perform, HandlerFor,
      FinishedJobState, JobState, TypeOK, StateOK, AlarmOK, TickPhase, Urgent,
      PriorityCommand, None
<1>12. ASSUME HandlePaused PROVE AlarmOK'
  BY <1>12, <1>a DEF HandlePaused, HandleStartable, Handling, SetState, Perform, HandlerFor,
      FinishedJobState, JobState, TypeOK, StateOK, AlarmOK, TickPhase, Urgent,
      PriorityCommand, None
<1>13. ASSUME HandleRunning PROVE AlarmOK'
  BY <1>13, <1>a DEF HandleRunning, Handling, SetState, Perform, HandlerFor, FinishedJobState,
      JobState, TypeOK, StateOK, AlarmOK, TickPhase, Urgent, PriorityCommand, None
<1>14. ASSUME HandleFinished PROVE AlarmOK'
  BY <1>14, <1>a DEF HandleFinished, ResetProcedure, Handling, SetState, Perform, HandlerFor,
      FinishedJobState, JobState, TypeOK, StateOK, AlarmOK, TickPhase, Urgent,
      PriorityCommand, None
<1>15. ASSUME EnterRun PROVE AlarmOK'
  BY <1>15, <1>a
  DEF EnterRun, TypeOK, StateOK, AlarmOK, TickPhase, Urgent, PriorityCommand, None
<1>16. ASSUME StopRun PROVE AlarmOK'
  BY <1>16, <1>a DEF StopRun, TypeOK, StateOK, AlarmOK, TickPhase, Urgent, PriorityCommand, None
<1>17. ASSUME HitBreakpoint PROVE AlarmOK'
  BY <1>17, <1>a
  DEF HitBreakpoint, TypeOK, StateOK, AlarmOK, TickPhase, Urgent, PriorityCommand, None
<1>18. ASSUME ContinueRun PROVE AlarmOK'
  BY <1>18, <1>a
  DEF ContinueRun, TypeOK, StateOK, AlarmOK, TickPhase, Urgent, PriorityCommand, None
<1>19. ASSUME EnterStep PROVE AlarmOK'
  BY <1>19, <1>a
  DEF EnterStep, TypeOK, StateOK, AlarmOK, TickPhase, Urgent, PriorityCommand, None
<1>20. ASSUME BeginTick PROVE AlarmOK'
  BY <1>20, <1>a
  DEF BeginTick, TypeOK, StateOK, AlarmOK, TickPhase, Urgent, PriorityCommand, None
<1>21. ASSUME EndTick PROVE AlarmOK'
  BY <1>21, <1>a DEF EndTick, TypeOK, StateOK, AlarmOK, TickPhase, Urgent, PriorityCommand, None
<1>22. ASSUME RunCallback PROVE AlarmOK'
  BY <1>22, <1>a, PopEffect DEF RunCallback, AlarmOK, Urgent, PriorityCommand
<1>23. ASSUME FinishStep PROVE AlarmOK'
  BY <1>23, <1>a DEF FinishStep, SwitchStateOnFinished, SetState, HandlerFor,
      FinishedJobState, JobState, TypeOK, StateOK, AlarmOK, TickPhase, Urgent,
      PriorityCommand, None
<1>24. ASSUME LeaveRun PROVE AlarmOK'
  BY <1>24, <1>a DEF LeaveRun, SetState, HandlerFor, FinishedJobState, JobState, TypeOK,
      StateOK, AlarmOK, TickPhase, Urgent, PriorityCommand, None
<1>25. ASSUME UNCHANGED vars PROVE AlarmOK'
  BY <1>25, <1>a DEF vars, TypeOK, StateOK, AlarmOK, TickPhase, Urgent, PriorityCommand, None
<1> QED
  BY <1>1, <1>2, <1>3, <1>4, <1>5, <1>6, <1>7, <1>8, <1>9, <1>10, <1>11, <1>12, <1>13,
     <1>14, <1>15, <1>16, <1>17, <1>18, <1>19, <1>20, <1>21, <1>22, <1>23, <1>24, <1>25
  DEF Next, ClientStep, LoopStep

\* Who answers for a finished or halted tree.
LEMMA NextOwnerOK == IInv /\ [Next]_vars => OwnerOK'
<1> SUFFICES ASSUME IInv, [Next]_vars PROVE OwnerOK'
  OBVIOUS
<1> USE RunnerAssumption DEF queueVars, jobVars, loopVars, runnerVars, treeVars
<1>a. TypeOK /\ QueueOK /\ StateOK /\ OwnerOK
  BY DEF IInv
<1>1. ASSUME NEW c \in Clients, NEW k \in NormalCommand, Push(c, k) PROVE OwnerOK'
  BY <1>1, <1>a, PushEffect DEF Push, OwnerOK, Urgent
<1>2. ASSUME NEW c \in Clients, Halt(c) PROVE OwnerOK'
  BY <1>2, <1>a DEF Halt, PriorityPush, TypeOK, StateOK, OwnerOK, IsFinishedStatus, Urgent,
      PriorityCommand, None
<1>3. ASSUME NEW c \in Clients, Terminate(c) PROVE OwnerOK'
  BY <1>3, <1>a DEF Terminate, PriorityPush, TypeOK, StateOK, OwnerOK, IsFinishedStatus,
      Urgent, PriorityCommand, None
<1>4. ASSUME NEW c \in Clients, PriorityPushEnd(c) PROVE OwnerOK'
  BY <1>4, <1>a, PriorityPushEffect DEF PriorityPushEnd, OwnerOK
<1>5. ASSUME NEW c \in Clients, Joined(c) PROVE OwnerOK'
  BY <1>5, <1>a
  DEF Joined, TypeOK, StateOK, OwnerOK, IsFinishedStatus, Urgent, PriorityCommand, None
<1>6. ASSUME NEW c \in Clients, NEW i \in Breakpointable, SetBreakpoint(c, i) PROVE OwnerOK'
  BY <1>6, <1>a
  DEF SetBreakpoint, TypeOK, StateOK, OwnerOK, IsFinishedStatus, Urgent, PriorityCommand, None
<1>7. ASSUME NEW c \in Clients, NEW i \in Breakpointable, RemoveBreakpoint(c, i) PROVE OwnerOK'
  BY <1>7, <1>a DEF RemoveBreakpoint, TypeOK, StateOK, OwnerOK, IsFinishedStatus, Urgent,
      PriorityCommand, None
<1>8. ASSUME WaitForNextCommand PROVE OwnerOK'
  BY <1>8, <1>a, PopEffect
  DEF WaitForNextCommand, TypeOK, OwnerOK, Urgent, PriorityCommand, None
<1>9. ASSUME LeaveLoop PROVE OwnerOK'
  BY <1>9, <1>a
  DEF LeaveLoop, TypeOK, StateOK, OwnerOK, IsFinishedStatus, Urgent, PriorityCommand, None
<1>10. ASSUME HandleTerminate PROVE OwnerOK'
  BY <1>10, <1>a DEF HandleTerminate, Perform, TypeOK, StateOK, OwnerOK, IsFinishedStatus,
      Urgent, PriorityCommand, None
<1>11. ASSUME HandleInitial PROVE OwnerOK'
  BY <1>11, <1>a DEF HandleInitial, HandleStartable, Handling, SetState, Perform, HandlerFor,
      FinishedJobState, JobState, TypeOK, StateOK, OwnerOK, IsFinishedStatus, Urgent,
      PriorityCommand, None
<1>12. ASSUME HandlePaused PROVE OwnerOK'
  BY <1>12, <1>a DEF HandlePaused, HandleStartable, Handling, SetState, Perform, HandlerFor,
      FinishedJobState, JobState, TypeOK, StateOK, OwnerOK, IsFinishedStatus, Urgent,
      PriorityCommand, None
<1>13. ASSUME HandleRunning PROVE OwnerOK'
  BY <1>13, <1>a DEF HandleRunning, Handling, SetState, Perform, HandlerFor, FinishedJobState,
      JobState, TypeOK, StateOK, OwnerOK, IsFinishedStatus, Urgent, PriorityCommand, None
<1>14. ASSUME HandleFinished PROVE OwnerOK'
  BY <1>14, <1>a DEF HandleFinished, ResetProcedure, Handling, SetState, Perform, HandlerFor,
      FinishedJobState, JobState, TypeOK, StateOK, OwnerOK, IsFinishedStatus, Urgent,
      PriorityCommand, None
<1>15. ASSUME EnterRun PROVE OwnerOK'
  BY <1>15, <1>a
  DEF EnterRun, TypeOK, StateOK, OwnerOK, IsFinishedStatus, Urgent, PriorityCommand, None
<1>16. ASSUME StopRun PROVE OwnerOK'
  BY <1>16, <1>a
  DEF StopRun, TypeOK, StateOK, OwnerOK, IsFinishedStatus, Urgent, PriorityCommand, None
<1>17. ASSUME HitBreakpoint PROVE OwnerOK'
  BY <1>17, <1>a
  DEF HitBreakpoint, TypeOK, StateOK, OwnerOK, IsFinishedStatus, Urgent, PriorityCommand, None
<1>18. ASSUME ContinueRun PROVE OwnerOK'
  BY <1>18, <1>a DEF ContinueRun, IsFinished, TypeOK, OwnerOK, IsFinishedStatus, Urgent
<1>19. ASSUME EnterStep PROVE OwnerOK'
  BY <1>19, <1>a
  DEF EnterStep, TypeOK, StateOK, OwnerOK, IsFinishedStatus, Urgent, PriorityCommand, None
<1>20. ASSUME BeginTick PROVE OwnerOK'
  BY <1>20, <1>a DEF BeginTick, Preamble, NeedsExecute, OwnerOK, IsFinishedStatus, Urgent
<1>21. ASSUME EndTick PROVE OwnerOK'
  BY <1>21, <1>a
  DEF EndTick, TypeOK, StateOK, OwnerOK, IsFinishedStatus, Urgent, PriorityCommand, None
<1>22. ASSUME RunCallback PROVE OwnerOK'
  BY <1>22, <1>a, PopEffect DEF RunCallback, SwitchStateOnFinished, SetState, HandlerFor,
      FinishedJobState, JobState, TypeOK, OwnerOK, Urgent, None, PriorityCommand
<1>23. ASSUME FinishStep PROVE OwnerOK'
  BY <1>23, <1>a DEF FinishStep, SwitchStateOnFinished, SetState, HandlerFor,
      FinishedJobState, JobState, TypeOK, StateOK, OwnerOK, IsFinishedStatus, TickPhase,
      Urgent, PriorityCommand, None
<1>24. ASSUME LeaveRun PROVE OwnerOK'
  BY <1>24, <1>a DEF LeaveRun, SetState, HandlerFor, FinishedJobState, JobState, TypeOK,
      StateOK, OwnerOK, IsFinishedStatus, Urgent, PriorityCommand, None
<1>25. ASSUME UNCHANGED vars PROVE OwnerOK'
  BY <1>25, <1>a
  DEF vars, TypeOK, StateOK, OwnerOK, IsFinishedStatus, Urgent, PriorityCommand, None
<1> QED
  BY <1>1, <1>2, <1>3, <1>4, <1>5, <1>6, <1>7, <1>8, <1>9, <1>10, <1>11, <1>12, <1>13,
     <1>14, <1>15, <1>16, <1>17, <1>18, <1>19, <1>20, <1>21, <1>22, <1>23, <1>24, <1>25
  DEF Next, ClientStep, LoopStep

\* What ends a run: a finished or halted tree, of which OwnerOK knows the owner, or
\* m_halt, which only a priority push leaves set in a job that stays Running.
LEMMA NextDrivenOK == IInv /\ [Next]_vars => DrivenOK'
<1> SUFFICES ASSUME IInv, [Next]_vars PROVE DrivenOK'
  OBVIOUS
<1> USE RunnerAssumption DEF queueVars, jobVars, loopVars, runnerVars, treeVars
<1>a. TypeOK /\ QueueOK /\ StateOK /\ OwnerOK /\ DrivenOK
  BY DEF IInv
<1>1. ASSUME NEW c \in Clients, NEW k \in NormalCommand, Push(c, k) PROVE DrivenOK'
  BY <1>1, <1>a, PushEffect DEF Push, DrivenOK, Stopping, Urgent
<1>2. ASSUME NEW c \in Clients, Halt(c) PROVE DrivenOK'
  BY <1>2, <1>a DEF Halt, PriorityPush, TypeOK, StateOK, DrivenOK, Stopping, TickPhase,
      Urgent, PriorityCommand, None
<1>3. ASSUME NEW c \in Clients, Terminate(c) PROVE DrivenOK'
  BY <1>3, <1>a DEF Terminate, PriorityPush, TypeOK, StateOK, DrivenOK, Stopping, TickPhase,
      Urgent, PriorityCommand, None
<1>4. ASSUME NEW c \in Clients, PriorityPushEnd(c) PROVE DrivenOK'
  BY <1>4, <1>a, PriorityPushEffect DEF PriorityPushEnd, DrivenOK, Stopping, Urgent
<1>5. ASSUME NEW c \in Clients, Joined(c) PROVE DrivenOK'
  BY <1>5, <1>a
  DEF Joined, TypeOK, StateOK, DrivenOK, Stopping, TickPhase, Urgent, PriorityCommand, None
<1>6. ASSUME NEW c \in Clients, NEW i \in Breakpointable, SetBreakpoint(c, i) PROVE DrivenOK'
  BY <1>6, <1>a DEF SetBreakpoint, TypeOK, StateOK, DrivenOK, Stopping, TickPhase, Urgent,
      PriorityCommand, None
<1>7. ASSUME NEW c \in Clients, NEW i \in Breakpointable, RemoveBreakpoint(c, i) PROVE DrivenOK'
  BY <1>7, <1>a DEF RemoveBreakpoint, TypeOK, StateOK, DrivenOK, Stopping, TickPhase, Urgent,
      PriorityCommand, None
<1>8. ASSUME WaitForNextCommand PROVE DrivenOK'
  BY <1>8, <1>a, PopEffect DEF WaitForNextCommand, TypeOK, DrivenOK, Stopping, Urgent, TickPhase
<1>9. ASSUME LeaveLoop PROVE DrivenOK'
  BY <1>9, <1>a
  DEF LeaveLoop, TypeOK, StateOK, DrivenOK, Stopping, TickPhase, Urgent, PriorityCommand, None
<1>10. ASSUME HandleTerminate PROVE DrivenOK'
  BY <1>10, <1>a DEF HandleTerminate, Perform, TypeOK, StateOK, DrivenOK, Stopping, TickPhase,
      Urgent, PriorityCommand, None
<1>11. ASSUME HandleInitial PROVE DrivenOK'
  BY <1>11, <1>a DEF HandleInitial, HandleStartable, Handling, SetState, Perform, HandlerFor,
      FinishedJobState, JobState, TypeOK, StateOK, DrivenOK, Stopping, TickPhase, Urgent,
      PriorityCommand, None
<1>12. ASSUME HandlePaused PROVE DrivenOK'
  BY <1>12, <1>a DEF HandlePaused, HandleStartable, Handling, SetState, Perform, HandlerFor,
      FinishedJobState, JobState, TypeOK, StateOK, DrivenOK, Stopping, TickPhase, Urgent,
      PriorityCommand, None
<1>13. ASSUME HandleRunning PROVE DrivenOK'
  BY <1>13, <1>a DEF HandleRunning, Handling, SetState, Perform, HandlerFor, FinishedJobState,
      JobState, TypeOK, StateOK, DrivenOK, Stopping, TickPhase, Urgent, PriorityCommand, None
<1>14. ASSUME HandleFinished PROVE DrivenOK'
  BY <1>14, <1>a DEF HandleFinished, ResetProcedure, Handling, SetState, Perform, HandlerFor,
      FinishedJobState, JobState, TypeOK, StateOK, DrivenOK, Stopping, TickPhase, Urgent,
      PriorityCommand, None
<1>15. ASSUME EnterRun PROVE DrivenOK'
  BY <1>15, <1>a
  DEF EnterRun, TypeOK, StateOK, DrivenOK, Stopping, TickPhase, Urgent, PriorityCommand, None
<1>16. ASSUME StopRun PROVE DrivenOK'
  BY <1>16, <1>a DEF StopRun, IsFinished, TypeOK, OwnerOK, DrivenOK, Stopping, TickPhase,
      Urgent, None, PriorityCommand
<1>17. ASSUME HitBreakpoint PROVE DrivenOK'
  BY <1>17, <1>a DEF HitBreakpoint, TypeOK, StateOK, DrivenOK, Stopping, TickPhase, Urgent,
      PriorityCommand, None
<1>18. ASSUME ContinueRun PROVE DrivenOK'
  BY <1>18, <1>a DEF ContinueRun, TypeOK, StateOK, DrivenOK, Stopping, TickPhase, Urgent,
      PriorityCommand, None
<1>19. ASSUME EnterStep PROVE DrivenOK'
  BY <1>19, <1>a
  DEF EnterStep, TypeOK, StateOK, DrivenOK, Stopping, TickPhase, Urgent, PriorityCommand, None
<1>20. ASSUME BeginTick PROVE DrivenOK'
  BY <1>20, <1>a
  DEF BeginTick, TypeOK, StateOK, DrivenOK, Stopping, TickPhase, Urgent, PriorityCommand, None
<1>21. ASSUME EndTick PROVE DrivenOK'
  BY <1>21, <1>a
  DEF EndTick, TypeOK, StateOK, DrivenOK, Stopping, TickPhase, Urgent, PriorityCommand, None
<1>22. ASSUME RunCallback PROVE DrivenOK'
  <2>1. CASE SwitchStateOnFinished
    BY <1>22, <1>a, <2>1 DEF RunCallback, SwitchStateOnFinished, SetState, HandlerFor,
        FinishedJobState, JobState, DrivenOK
  <2>2. CASE ~SwitchStateOnFinished /\ queue = << >>
    BY <1>22, <1>a, <2>2 DEF RunCallback, DrivenOK, Stopping, TickPhase, Alarmed, Urgent
  <2>3. CASE ~SwitchStateOnFinished /\ queue # << >>
    BY <1>22, <1>a, <2>3, PopEffect
    DEF RunCallback, TypeOK, DrivenOK, Stopping, TickPhase, Urgent, PriorityCommand, None
  <2> QED
    BY <2>1, <2>2, <2>3
<1>23. ASSUME FinishStep PROVE DrivenOK'
  BY <1>23, <1>a DEF FinishStep, SwitchStateOnFinished, SetState, HandlerFor,
      FinishedJobState, JobState, TypeOK, StateOK, DrivenOK, Stopping, TickPhase, Urgent,
      PriorityCommand, None
<1>24. ASSUME LeaveRun PROVE DrivenOK'
  BY <1>24, <1>a DEF LeaveRun, SetState, HandlerFor, FinishedJobState, JobState, TypeOK,
      StateOK, DrivenOK, Stopping, TickPhase, Urgent, PriorityCommand, None
<1>25. ASSUME UNCHANGED vars PROVE DrivenOK'
  BY <1>25, <1>a
  DEF vars, TypeOK, StateOK, DrivenOK, Stopping, TickPhase, Urgent, PriorityCommand, None
<1> QED
  BY <1>1, <1>2, <1>3, <1>4, <1>5, <1>6, <1>7, <1>8, <1>9, <1>10, <1>11, <1>12, <1>13,
     <1>14, <1>15, <1>16, <1>17, <1>18, <1>19, <1>20, <1>21, <1>22, <1>23, <1>24, <1>25
  DEF Next, ClientStep, LoopStep

\* Base case and step of the induction.
LEMMA InitIInv == Init => IInv
<1> SUFFICES ASSUME Init PROVE IInv
  OBVIOUS
<1> USE RunnerAssumption DEF Init
<1>1. TypeOK
  <2>1. FirstDue \in DueSets
    BY DEF DueSets
  <2>2. /\ queue \in Seq(JobCommand)
        /\ \A c \in Clients : client[c] \in PriorityCommand <=> mtx = c
    BY DEF PriorityCommand
  <2> QED
    BY <2>1, <2>2
    DEF TypeOK, JobState, Handler, LoopPhase, None, BreakpointStatus, ExecutionStatus
<1>2. QueueOK
  BY DEF QueueOK, Ordered
<1>3. StateOK
  BY DEF StateOK, HandlerFor, JobState, FinishedJobState, TickPhase
<1>4. AlarmOK /\ OwnerOK /\ DrivenOK
  BY DEF AlarmOK, OwnerOK, DrivenOK, Alarmed, Urgent, PriorityCommand, None, IsFinishedStatus
<1> QED
  BY <1>1, <1>2, <1>3, <1>4 DEF IInv

\* The step of every conjunct together.
LEMMA NextIInv == IInv /\ [Next]_vars => IInv'
BY NextTypeOK, NextQueueOK, NextStateOK, NextAlarmOK, NextOwnerOK, NextDrivenOK DEF IInv

\* The invariant holds in every reachable state.
LEMMA SpecIInv == Spec => []IInv
BY InitIInv, NextIInv, PTL DEF Spec

-----------------------------------------------------------------------------
(* Theorems for every procedure                                              *)

\* Every reachable state is well typed, and the queue's mutex is held by exactly
\* the client that runs a function under it.
THEOREM RunnerTypeCorrect == Spec => []TypeOK
<1>1. IInv => TypeOK
  BY DEF IInv
<1> QED
  BY <1>1, SpecIInv, PTL

\* The instruction tree is only ticked in a running or stepping job.
THEOREM TickOnlyWhenActiveHolds == Spec => []TickOnlyWhenActive
<1>1. IInv => TickOnlyWhenActive
  <2> SUFFICES ASSUME IInv, pc \in TickPhase PROVE jobState \in {"Running", "Stepping"}
    BY DEF TickOnlyWhenActive
  <2>1. TypeOK /\ StateOK
    BY DEF IInv
  <2>2. tickCb = "run" \/ tickCb = "step"
    BY <2>1 DEF TypeOK, StateOK
  <2> QED
    BY <2>1, <2>2 DEF StateOK
<1> QED
  BY <1>1, SpecIInv, PTL

\* A job in Running that nobody executes has the command that ends it on its way.
THEOREM RunningIsDrivenHolds == Spec => []RunningIsDriven
<1>1. IInv => RunningIsDriven
  BY DEF IInv, DrivenOK, RunningIsDriven, Stopping, Alarmed
<1> QED
  BY <1>1, SpecIInv, PTL

-----------------------------------------------------------------------------
(* The promise of a breakpoint                                               *)

\* The history variables only watch.
LEMMA PassageSpecRefines == PassageSpec => Spec
<1>1. PassageInit => Init
  BY DEF PassageInit
<1>2. [PassageNext]_passageVars => [Next]_vars
  <2>1. PassageNext => Next
    BY DEF PassageNext, ChangeBreakpoint, LookAtBreakpoints, ExecuteDue, ReportPause,
           OtherPassageStep, Next, ClientStep, LoopStep
  <2>2. UNCHANGED passageVars => UNCHANGED vars
    BY DEF passageVars
  <2> QED
    BY <2>1, <2>2
<1> QED
  BY <1>1, <1>2, PTL DEF PassageSpec, Spec

\* A breakpoint is released only where the job was paused for it or is about to be,
\* or while the tick that rearms it is under way.
ReleasedOK == \A i \in Instructions : bps[i] = "released" =>
                \/ i \in stopped
                \/ pc = "stopped" /\ i \in current
                \/ pc \in {"inTick", "ticked"}

\* Between the check and the tick, a breakpoint that the check has seen on a due
\* instruction is a released one.
CheckedOK == pc = "tick" /\ tickCb = "run" =>
               \A i \in Due \intersect checked : bps[i] = "released"

PassageInv == ReleasedOK /\ CheckedOK

\* Breakpoints are released where the run stops and armed again by the next tick.
LEMMA SpecPassageInv == PassageSpec => []PassageInv
<1> USE RunnerAssumption DEF queueVars, jobVars, loopVars, runnerVars, treeVars
<1>1. PassageInit => PassageInv
  BY DEF PassageInit, Init, PassageInv, ReleasedOK, CheckedOK
<1>2. ASSUME TypeOK, PassageInv, [PassageNext]_passageVars PROVE PassageInv'
  <2>a. bps \in [Instructions -> BreakpointStatus] /\ due \subseteq Instructions
    BY <1>2 DEF TypeOK, DueSets
  <2>1. ASSUME NEW c \in Clients, NEW i \in Breakpointable, ChangeBreakpoint(c, i)
        PROVE  PassageInv'
    <3>1. /\ UNCHANGED <<pc, tickCb, current, status, due>>
          /\ stopped' = stopped \ {i} /\ checked' = checked \ {i}
          /\ bps' = [bps EXCEPT ![i] = "set"] \/ bps' = [bps EXCEPT ![i] = "absent"]
      BY <2>1 DEF ChangeBreakpoint, SetBreakpoint, RemoveBreakpoint, WithBreakpoint,
                  WithoutBreakpoint
    <3>2. bps'[i] # "released" /\ \A j \in Instructions \ {i} : bps'[j] = bps[j]
      BY <2>a, <3>1
    <3>3. Due' = Due /\ Due \subseteq Instructions
      BY <2>a, <3>1 DEF Due
    <3>4. ReleasedOK'
      BY <1>2, <3>1, <3>2 DEF PassageInv, ReleasedOK
    <3>5. CheckedOK'
      BY <1>2, <3>1, <3>2, <3>3 DEF PassageInv, CheckedOK
    <3> QED
      BY <3>4, <3>5 DEF PassageInv
  <2>2. CASE LookAtBreakpoints
    <3>1. /\ pc = "check" /\ pc' = "tick" /\ ~IsFinished
          /\ UNCHANGED <<bps, stopped, status, due>>
          /\ HitBreakpoints(bps, NextInstructions) = {}
          /\ checked' = {i \in Instructions : bps[i] # "absent"}
      BY <2>2 DEF LookAtBreakpoints, ContinueRun
    <3>2. Due' \subseteq NextInstructions
      BY <1>2, <3>1 DEF Due, NextInstructions, IsFinished, TypeOK, ReadyForExecute,
                        IsFinishedStatus, ExecutionStatus
    <3>3. ReleasedOK'
      BY <1>2, <3>1 DEF PassageInv, ReleasedOK
    <3>4. CheckedOK'
      BY <2>a, <3>1, <3>2 DEF CheckedOK, HitBreakpoints, BreakpointStatus
    <3> QED
      BY <3>3, <3>4 DEF PassageInv
  <2>3. CASE ExecuteDue
    <3>1. /\ pc = "tick" /\ pc' \in {"inTick", "ticked"} /\ UNCHANGED bps
      BY <2>3 DEF ExecuteDue, BeginTick
    <3> QED
      BY <3>1 DEF PassageInv, ReleasedOK, CheckedOK
  <2>4. CASE ReportPause
    <3>1. /\ pc = "stopped" /\ pc' = "loop" /\ UNCHANGED <<bps, current>>
          /\ current # {} => jobState' = "Paused"
          /\ stopped' = IF jobState' = "Paused" THEN stopped \union current ELSE stopped
      BY <2>4 DEF ReportPause, LeaveRun, SetState
    <3> QED
      BY <1>2, <3>1 DEF PassageInv, ReleasedOK, CheckedOK
  <2>5. CASE HitBreakpoint /\ UNCHANGED <<stopped, checked>>
    <3>1. /\ pc = "check" /\ pc' = "stopped"
          /\ current' = HitBreakpoints(bps, NextInstructions)
          /\ bps' = [i \in Instructions |-> IF i \in current' THEN "released" ELSE bps[i]]
      BY <2>a, <2>5 DEF HitBreakpoint, ReleaseBreakpoints
    <3> QED
      BY <1>2, <2>5, <3>1 DEF PassageInv, ReleasedOK, CheckedOK
  <2>6. CASE (RunCallback \/ FinishStep) /\ UNCHANGED <<stopped, checked>>
    <3>1. pc' # "tick" /\ bps' = RearmBreakpoints(bps)
      BY <2>6 DEF RunCallback, FinishStep
    <3>2. \A i \in Instructions : bps'[i] # "released"
      BY <2>a, <3>1 DEF RearmBreakpoints
    <3> QED
      BY <3>1, <3>2 DEF PassageInv, ReleasedOK, CheckedOK
  <2>7. CASE EndTick /\ UNCHANGED <<stopped, checked>>
    BY <2>7 DEF EndTick, PassageInv, ReleasedOK, CheckedOK
  <2>8. CASE EnterStep /\ UNCHANGED <<stopped, checked>>
    BY <1>2, <2>8 DEF EnterStep, PassageInv, ReleasedOK, CheckedOK
  <2>9. CASE /\ \/ WaitForNextCommand \/ LeaveLoop
                \/ HandleTerminate \/ HandleInitial \/ HandlePaused \/ HandleRunning
                \/ HandleFinished \/ EnterRun \/ StopRun
             /\ UNCHANGED <<stopped, checked>>
    <3>1. /\ pc \notin {"stopped", "inTick", "ticked"} /\ pc' # "tick"
          /\ UNCHANGED <<bps, current, stopped>>
      BY <2>9 DEF WaitForNextCommand, LeaveLoop, HandleTerminate, HandleInitial, HandlePaused,
                  HandleStartable, HandleRunning, HandleFinished, Handling, Perform, EnterRun,
                  StopRun
    <3> QED
      BY <1>2, <3>1 DEF PassageInv, ReleasedOK, CheckedOK
  <2>10. ASSUME NEW c \in Clients, UNCHANGED <<stopped, checked>>,
                \/ \E k \in NormalCommand : Push(c, k)
                \/ Halt(c) \/ Terminate(c) \/ PriorityPushEnd(c) \/ Joined(c)
         PROVE  PassageInv'
    <3>1. UNCHANGED <<pc, tickCb, current, bps, status, due, stopped, checked>>
      BY <2>10 DEF Push, Halt, Terminate, PriorityPush, PriorityPushEnd, Joined
    <3> QED
      BY <1>2, <3>1 DEF PassageInv, ReleasedOK, CheckedOK, Due
  <2>11. CASE UNCHANGED passageVars
    BY <1>2, <2>11 DEF passageVars, vars, PassageInv, ReleasedOK, CheckedOK, Due
  <2> QED
    BY <1>2, <2>1, <2>2, <2>3, <2>4, <2>5, <2>6, <2>7, <2>8, <2>9, <2>10, <2>11
    DEF PassageNext, OtherPassageStep
<1>3. TypeOK /\ PassageInv /\ [PassageNext]_passageVars => PassageInv'
  BY <1>2
<1> QED
  BY <1>1, <1>3, PassageSpecRefines, RunnerTypeCorrect, PTL DEF PassageSpec

\* A run executes an instruction that carries a breakpoint only if the job was paused
\* for it since it was last executed.
THEOREM BreakpointsStopRunsHolds == PassageSpec => BreakpointsStopRuns
<1>1. ASSUME TypeOK, PassageInv, pc = "tick", pc' = "inTick", tickCb = "run"
      PROVE  Due \intersect checked \subseteq stopped
  <2>1. Due \subseteq Instructions
    BY <1>1 DEF Due, TypeOK, DueSets
  <2> QED
    BY <1>1, <2>1 DEF PassageInv, ReleasedOK, CheckedOK
<1>2. TypeOK /\ PassageInv /\ [PassageNext]_passageVars
        => [pc = "tick" /\ pc' = "inTick" /\ tickCb = "run"
              => Due \intersect checked \subseteq stopped]_passageVars
  BY <1>1
<1> QED
  BY <1>2, SpecPassageInv, PassageSpecRefines, RunnerTypeCorrect, PTL
  DEF PassageSpec, BreakpointsStopRuns

-----------------------------------------------------------------------------
(* Theorems for jobs without breakpoints                                     *)

\* Where no breakpoint is ever set, none is hit.
NeverHit == (\A i \in Instructions : bps[i] = "absent") /\ current = {}

\* Without breakpoints, HandleBreakpoints has nothing to return.
LEMMA SpecNeverHit == ASSUME Breakpointable = {} PROVE Spec => []NeverHit
<1> USE RunnerAssumption DEF queueVars, jobVars, loopVars, runnerVars, treeVars
<1>1. Init => NeverHit
  BY DEF Init, NeverHit
<1>2. NeverHit /\ TypeOK /\ [Next]_vars => NeverHit'
  <2> SUFFICES ASSUME NeverHit, TypeOK, [Next]_vars PROVE NeverHit'
    OBVIOUS
  <2>1. DOMAIN bps = Instructions
    BY DEF TypeOK
  <2>2. CASE HitBreakpoint
    <3>1. NextInstructions \subseteq Instructions
      BY DEF NextInstructions, TypeOK, DueSets
    <3> QED
      BY <2>2, <3>1 DEF HitBreakpoint, HitBreakpoints, NeverHit
  <2>3. CASE RunCallback \/ FinishStep
    BY <2>1, <2>3 DEF RunCallback, FinishStep, RearmBreakpoints, NeverHit
  <2>4. CASE ContinueRun
    BY <2>4 DEF ContinueRun, NeverHit
  <2>5. CASE \E c \in Clients : ClientStep(c)
    BY Breakpointable = {}, <2>5
    DEF ClientStep, Push, Halt, Terminate, PriorityPush, PriorityPushEnd, Joined, NeverHit
  <2>6. CASE \/ WaitForNextCommand \/ LeaveLoop
             \/ HandleTerminate \/ HandleInitial \/ HandlePaused \/ HandleRunning \/ HandleFinished
             \/ EnterRun \/ StopRun \/ EnterStep \/ BeginTick \/ EndTick \/ LeaveRun
    BY <2>6 DEF WaitForNextCommand, LeaveLoop, HandleTerminate, HandleInitial, HandlePaused,
                HandleStartable, HandleRunning, HandleFinished, EnterRun, StopRun, EnterStep,
                BeginTick, EndTick, LeaveRun, NeverHit
  <2>7. CASE UNCHANGED vars
    BY <2>7 DEF vars, NeverHit
  <2> QED
    BY <2>2, <2>3, <2>4, <2>5, <2>6, <2>7 DEF Next, LoopStep
<1> QED
  BY <1>1, <1>2, RunnerTypeCorrect, PTL DEF Spec

\* Every tree that was told to halt belongs to a job that is finished or about to
\* be: Halt and Reset leave no job behind that can be started but not executed.
THEOREM HaltedTreeHasOwnerHolds ==
  ASSUME Breakpointable = {} PROVE Spec => []HaltedTreeHasOwner
<1>1. IInv /\ NeverHit => HaltedTreeHasOwner
  <2> SUFFICES ASSUME IInv, NeverHit, rootHalt, handler # "Finished", ~IsFinishedStatus(status)
               PROVE  PriorityPending
    BY DEF HaltedTreeHasOwner
  <2>1. Alarmed(queue) \/ Urgent \/ ~keepAlive
    BY DEF IInv, OwnerOK, NeverHit
  <2>2. Alarmed(queue) => \E k \in PriorityCommand : Queued(queue, k)
    <3>1. queue # << >> => Head(queue) = queue[1] /\ 1 \in DOMAIN queue
      BY DEF IInv, TypeOK
    <3> QED
      BY <3>1 DEF Alarmed, Queued
  <2> QED
    BY <2>1, <2>2 DEF PriorityPending, Urgent
<1> QED
  BY <1>1, SpecIInv, SpecNeverHit, PTL

\* The runner goes through the job's life cycle, and executes instructions only
\* where the life cycle says so.
THEOREM RunnerImplementsLifecycle ==
  ASSUME Breakpointable = {} PROVE Spec => ImplementsLifecycle
<1> DEFINE Step == [Lifecycle!Next]_(Lifecycle!lifecycle)
<1>1. Init => Lifecycle!Init
  BY DEF Init, Lifecycle!Init
<1>2. ASSUME IInv, NeverHit, [Next]_vars PROVE Step
  <2> USE DEF queueVars, jobVars, loopVars, runnerVars, treeVars
  <2>a. TypeOK /\ StateOK
    BY <1>2 DEF IInv
  <2>1. ASSUME pc # "inTick", pc' # "inTick", UNCHANGED jobState PROVE Step
    BY <2>1 DEF Lifecycle!lifecycle
  <2>2. CASE \E c \in Clients : ClientStep(c)
    <3>1. UNCHANGED <<pc, jobState>>
      BY <2>2 DEF ClientStep, Push, Halt, Terminate, PriorityPush, PriorityPushEnd, Joined,
                  SetBreakpoint, RemoveBreakpoint
    <3> QED
      BY <3>1 DEF Lifecycle!lifecycle
  <2>3. CASE WaitForNextCommand \/ LeaveLoop \/ HandleTerminate
             \/ EnterRun \/ StopRun \/ HitBreakpoint \/ ContinueRun \/ EnterStep
    BY <2>1, <2>3
    DEF WaitForNextCommand, LeaveLoop, HandleTerminate, Perform, EnterRun, StopRun,
                      HitBreakpoint, ContinueRun, EnterStep
  <2>4. CASE HandleInitial \/ HandlePaused
    <3>1. /\ pc \in {"handle", "polled"} /\ jobState \in {"Initial", "Paused"}
          /\ HandleStartable
      BY <2>a, <2>4 DEF HandleInitial, HandlePaused, Handling, StateOK, TypeOK, HandlerFor,
                        JobState, FinishedJobState, TickPhase
    <3>2. pc # "inTick" /\ pc' # "inTick"
      BY <3>1 DEF HandleStartable, Perform
    <3>3. UNCHANGED jobState \/ jobState' \in {"Running", "Stepping", "Halted"}
      BY <3>1 DEF HandleStartable, SetState
    <3> QED
      BY <2>1, <3>1, <3>2, <3>3
      DEF Lifecycle!Next, Lifecycle!Start, Lifecycle!Step, Lifecycle!Halt, Lifecycle!Move,
          Lifecycle!Startable
  <2>5. CASE HandleRunning
    <3>1. pc \in {"handle", "polled"} /\ jobState = "Running"
      BY <2>a, <2>5 DEF HandleRunning, Handling, StateOK, TypeOK, HandlerFor,
                        JobState, FinishedJobState, TickPhase
    <3>2. pc # "inTick" /\ pc' # "inTick"
      BY <2>5, <3>1 DEF HandleRunning, Perform
    <3>3. UNCHANGED jobState \/ jobState' \in {"Paused", "Halted"}
      BY <2>5 DEF HandleRunning, SetState
    <3> QED
      BY <2>1, <3>1, <3>2, <3>3
      DEF Lifecycle!Next, Lifecycle!Pause, Lifecycle!Halt, Lifecycle!Move, Lifecycle!Startable
  <2>6. CASE HandleFinished
    <3>1. pc \in {"handle", "polled"} /\ jobState \in FinishedJobState
      BY <2>a, <2>6 DEF HandleFinished, Handling, StateOK, TypeOK, HandlerFor,
                        JobState, FinishedJobState, TickPhase
    <3>2. pc # "inTick" /\ pc' # "inTick"
      BY <2>6, <3>1 DEF HandleFinished, Perform
    <3>3. UNCHANGED jobState \/ jobState' = "Initial"
      BY <2>6 DEF HandleFinished, SetState
    <3> QED
      BY <2>1, <3>1, <3>2, <3>3
      DEF Lifecycle!Next, Lifecycle!Reset, Lifecycle!Move, Lifecycle!FinishedJobState,
          FinishedJobState
  <2>7. CASE BeginTick
    <3>1. jobState \in {"Running", "Stepping"}
      BY <2>a, <2>7 DEF BeginTick, StateOK, TypeOK, TickPhase
    <3>2. pc = "tick" /\ pc' \in {"inTick", "ticked"} /\ UNCHANGED jobState
      BY <2>7 DEF BeginTick
    <3> QED
      BY <2>1, <3>1, <3>2 DEF Lifecycle!Next, Lifecycle!BeginTick
  <2>8. CASE EndTick
    BY <2>8 DEF EndTick, Lifecycle!Next, Lifecycle!EndTick
  <2>9. CASE RunCallback \/ FinishStep
    <3>1. pc = "ticked" /\ jobState \in {"Running", "Stepping"} /\ pc' # "inTick"
      BY <2>a, <2>9 DEF RunCallback, FinishStep, StateOK, TickPhase
    <3>2. UNCHANGED jobState \/ jobState' \in {"Succeeded", "Failed", "Paused"}
      BY <2>9 DEF RunCallback, FinishStep, SwitchStateOnFinished, SetState
    <3> QED
      BY <2>1, <3>1, <3>2
      DEF Lifecycle!Next, Lifecycle!Finish, Lifecycle!Pause, Lifecycle!Move
  <2>10. CASE LeaveRun
    BY <1>2, <2>1, <2>10 DEF LeaveRun, NeverHit
  <2>11. CASE UNCHANGED vars
    BY <2>11 DEF vars, Lifecycle!lifecycle
  <2> HIDE DEF Step
  <2> QED
    BY <1>2, <2>2, <2>3, <2>4, <2>5, <2>6, <2>7, <2>8, <2>9, <2>10, <2>11 DEF Next, LoopStep
<1>3. IInv /\ NeverHit /\ [Next]_vars => Step
  BY <1>2
<1> QED
  BY <1>1, <1>3, SpecIInv, SpecNeverHit, PTL DEF Spec, ImplementsLifecycle, Lifecycle!Spec

-----------------------------------------------------------------------------
(* The promise of Halt                                                       *)

\* The history variable only watches.
LEMMA OrderSpecRefines == OrderSpec => Spec
<1>1. OrderInit => Init
  BY DEF OrderInit
<1>2. [OrderNext]_orderVars => [Next]_vars
  <2>1. OrderNext => Next
    BY CommandKinds DEF OrderNext, AcceptHalt, RequestReset, OtherClientStep, Next, ClientStep,
       NormalCommand
  <2>2. UNCHANGED orderVars => UNCHANGED vars
    BY DEF orderVars
  <2> QED
    BY <2>1, <2>2
<1> QED
  BY <1>1, <1>2, PTL DEF OrderSpec, Spec

\* A halt request with no reset pending keeps the tree's halt flag until a client
\* asks for a reset.
HaltHolds == haltOrder = "clean" => rootHalt /\ ~ResetPending

\* The halt flag is cleared by a reset only, and resets are requested first.
LEMMA SpecHaltHolds == OrderSpec => []HaltHolds
<1> USE RunnerAssumption DEF queueVars, jobVars, loopVars, runnerVars, treeVars
<1>1. OrderInit => HaltHolds
  BY DEF OrderInit, HaltHolds
<1>2. ASSUME IInv, HaltHolds, [OrderNext]_orderVars PROVE HaltHolds'
  <2>a. TypeOK /\ QueueOK /\ queue \in Seq(JobCommand)
    BY <1>2 DEF IInv, TypeOK
  <2>1. ASSUME NEW c \in Clients, AcceptHalt(c) PROVE HaltHolds'
    <3>1. /\ client[c] \in PriorityCommand /\ queue' = PushFront(queue, client[c])
          /\ rootHalt' /\ cmd' = cmd
      BY <2>1, <2>a, PriorityPushEffect DEF AcceptHalt, PriorityPushEnd
    <3>2. Queued(queue', "Reset") => Queued(queue, "Reset")
      <4>1. client[c] \in JobCommand /\ client[c] # "Reset"
        BY <3>1 DEF PriorityCommand, JobCommand
      <4>2. /\ DOMAIN queue' = 1 .. Len(queue) + 1 /\ queue'[1] = client[c]
            /\ \A i \in DOMAIN queue : queue'[i + 1] = queue[i]
        BY <2>a, <3>1, <4>1, PushFrontElements
      <4>3. ASSUME NEW i \in DOMAIN queue', queue'[i] = "Reset" PROVE Queued(queue, "Reset")
        <5>1. i - 1 \in DOMAIN queue /\ (i - 1) + 1 = i
          BY <2>a, <4>1, <4>2, <4>3
        <5> QED
          BY <4>2, <4>3, <5>1 DEF Queued
      <4> QED
        BY <4>3 DEF Queued
    <3>3. haltOrder' = "clean" => ~ResetPending
      BY <2>1 DEF AcceptHalt
    <3> QED
      BY <3>1, <3>2, <3>3 DEF HaltHolds, ResetPending
  <2>2. ASSUME NEW c \in Clients, RequestReset(c) PROVE HaltHolds'
    BY <2>2 DEF RequestReset, HaltHolds
  <2>3. ASSUME NEW c \in Clients, NEW k \in NormalCommand \ {"Reset"}, Push(c, k),
               UNCHANGED haltOrder
        PROVE  HaltHolds'
    <3>1. Queued(queue', "Reset") => Queued(queue, "Reset")
      <4>1. /\ k # "Reset" /\ k \in JobCommand /\ queue' = PushBack(queue, k)
        BY <2>3, CommandKinds DEF Push
      <4>2. /\ DOMAIN queue' = 1 .. Len(queue) + 1 /\ queue'[Len(queue) + 1] = k
            /\ \A i \in DOMAIN queue : queue'[i] = queue[i]
        BY <2>a, <4>1, PushBackElements
      <4>3. ASSUME NEW i \in DOMAIN queue', queue'[i] = "Reset" PROVE i \in DOMAIN queue
        BY <2>a, <4>1, <4>2, <4>3
      <4> QED
        BY <4>2, <4>3 DEF Queued
    <3> QED
      BY <1>2, <2>3, <3>1 DEF Push, HaltHolds, ResetPending
  <2>4. ASSUME queue # << >>, cmd' = Head(queue), queue' = Tail(queue)
        PROVE  (Queued(queue', "Reset") \/ cmd' = "Reset") => Queued(queue, "Reset")
    BY <2>a, <2>4, PopFrontElements DEF Queued
  <2>5. CASE (WaitForNextCommand \/ RunCallback) /\ UNCHANGED haltOrder
    BY <1>2, <2>4, <2>5 DEF WaitForNextCommand, RunCallback, HaltHolds, ResetPending
  <2>6. CASE HandleFinished /\ UNCHANGED haltOrder
    <3>1. cmd = "Reset" => haltOrder # "clean"
      BY <1>2 DEF HaltHolds, ResetPending
    <3>2. UNCHANGED <<queue, haltOrder>> /\ cmd' = None
      BY <2>6 DEF HandleFinished, Perform
    <3>3. cmd # "Reset" => rootHalt' = rootHalt
      BY <2>6 DEF HandleFinished
    <3> QED
      BY <1>2, <3>1, <3>2, <3>3 DEF HaltHolds, ResetPending, None
  <2>7. CASE EndTick /\ UNCHANGED haltOrder
    <3>1. UNCHANGED <<queue, cmd, haltOrder>> /\ (rootHalt => rootHalt')
      BY <2>7 DEF EndTick
    <3> QED
      BY <1>2, <3>1 DEF HaltHolds, ResetPending
  <2>8. CASE /\ \/ LeaveLoop \/ HandleTerminate \/ HandleInitial \/ HandlePaused \/ HandleRunning
                \/ EnterRun \/ StopRun \/ HitBreakpoint \/ ContinueRun \/ EnterStep \/ BeginTick
                \/ FinishStep \/ LeaveRun
             /\ UNCHANGED haltOrder
    BY <1>2, <2>8 DEF LeaveLoop, HandleTerminate, HandleInitial, HandlePaused, HandleStartable,
       HandleRunning, EnterRun, StopRun, HitBreakpoint, ContinueRun, EnterStep, BeginTick,
       FinishStep, LeaveRun, Perform, HaltHolds, ResetPending, None
  <2>9. ASSUME NEW c \in Clients, UNCHANGED haltOrder,
               \/ Halt(c) \/ Terminate(c) \/ Joined(c)
               \/ \E i \in Breakpointable : SetBreakpoint(c, i) \/ RemoveBreakpoint(c, i)
        PROVE  HaltHolds'
    BY <1>2, <2>9 DEF Halt, Terminate, PriorityPush, Joined, SetBreakpoint, RemoveBreakpoint,
       HaltHolds, ResetPending
  <2>10. CASE UNCHANGED orderVars
    BY <1>2, <2>10 DEF orderVars, vars, HaltHolds, ResetPending
  <2> QED
    BY <1>2, <2>1, <2>2, <2>3, <2>5, <2>6, <2>7, <2>8, <2>9, <2>10
    DEF OrderNext, OtherClientStep, LoopStep
<1>3. IInv /\ HaltHolds /\ [OrderNext]_orderVars => HaltHolds'
  BY <1>2
<1> QED
  BY <1>1, <1>3, OrderSpecRefines, SpecIInv, PTL DEF OrderSpec

\* After an accepted Halt that overtook no reset request, no tick executes the tree
\* until a client asks for a reset.
THEOREM HaltStopsExecutionHolds == OrderSpec => HaltStopsExecution
<1>1. ASSUME HaltHolds, [OrderNext]_orderVars, pc # "inTick", pc' = "inTick"
      PROVE  haltOrder # "clean"
  <2> USE DEF queueVars, jobVars, loopVars, runnerVars, treeVars
  <2>1. BeginTick
    <3>1. UNCHANGED orderVars => pc' = pc
      BY DEF orderVars, vars
    <3>2. (\E c \in Clients : AcceptHalt(c) \/ RequestReset(c) \/ OtherClientStep(c)) => pc' = pc
      BY DEF AcceptHalt, RequestReset, OtherClientStep, Push, Halt, Terminate, PriorityPush,
             PriorityPushEnd, Joined, SetBreakpoint, RemoveBreakpoint
    <3>3. LoopStep \/ EndTick => BeginTick
      BY <1>1 DEF LoopStep, WaitForNextCommand, LeaveLoop, HandleTerminate, HandleInitial,
                  HandlePaused, HandleStartable, HandleRunning, HandleFinished, Perform, EnterRun,
                  StopRun, HitBreakpoint, ContinueRun, EnterStep, EndTick, RunCallback,
                  FinishStep, LeaveRun
    <3> QED
      BY <1>1, <3>1, <3>2, <3>3 DEF OrderNext
  <2> QED
    BY <1>1, <2>1 DEF BeginTick, HaltHolds
<1>2. HaltHolds /\ [OrderNext]_orderVars
        => [pc # "inTick" /\ pc' = "inTick" => haltOrder # "clean"]_orderVars
  BY <1>1
<1> QED
  BY <1>2, SpecHaltHolds, PTL DEF OrderSpec, HaltStopsExecution

=============================================================================
