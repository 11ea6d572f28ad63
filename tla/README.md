# A formal model of oac-tree

oac-tree executes *procedures*: trees of instructions, ticked like a behaviour
tree, that read and write the variables of a workspace. A procedure is wrapped
into a *job*, whose execution thread any number of client threads command
(start, step, pause, reset, halt) while it runs, and whose progress an observer
follows. This directory holds TLA+ modules that model that program, the TLC
configurations that check them on small instances, and theorems that TLAPS
proves for every value of the constants.

Paths below are relative to `src/src/lib/sup/oac-tree/`, those of the programs to
`src/src/app/`. `map` in `PROJECT.json` names, for every definition, the lines it
models, `mutants` a plausible mistake in those lines for every property.

## 1. Inventory

| Component | State | Operations | Interacts through | Module |
|---|---|---|---|---|
| Command queue (`runner/job_command_queue.cpp`) | deque of commands, mutex, condition variable | Push, PriorityPush, TryPop, WaitForNextCommand | called by clients and by the execution loop | `JobCommandQueue` |
| Asynchronous runner (`runner/async_runner.cpp`) | current handler, keep-alive flag, loop thread | Start, Step, Pause, Reset, Halt, breakpoints, destructor; one handler per state | queue; Runner; job state callbacks | `AsyncRunner` |
| Runner (`runner/runner.cpp`) | halt flag, tick callback, list of hit breakpoints | ExecuteProcedure, ExecuteSingle, Halt, Pause | procedure, breakpoint manager | `AsyncRunner` |
| Breakpoint manager (`runner/breakpoint_manager.cpp`) | list of breakpoints, mutex | Set, Remove, Handle, Reset | clients and loop thread | `Breakpoints` |
| Procedure (`procedure/procedure.cpp`) | root instruction, workspace, preamble, status | Setup, ExecuteSingle, Halt, Reset, Teardown | instruction tree, workspace, procedure store | `Procedure`, `ProcedureText` |
| Procedure store (`procedure/procedure_store.cpp`) | cache of included procedures | Load, reset, tear down | Include, IncludeProcedure, Copy*Procedure | `Procedure`, `ProcedureText` |
| Instruction base (`instructions/instruction.cpp`) | status (mutex), halt flag (atomic), status of the last notification | ExecuteSingle, Halt, Reset, hooks | parent instruction, user interface | `InstructionTree`, `ValueInstructions` |
| Compounds and decorators (`instructions/sequence.cpp`, ...) | children, and for some a counter, cache or choice | ExecuteSingleImpl, ResetHook, HaltImpl, NextInstructionsImpl | children | `InstructionTree`, `RunCount`, `NextInstructions` |
| ParallelSequence, Async (`instructions/parallel_sequence.cpp`, `async_wrapper.cpp`) | one thread and cached status per child, thresholds | Tick, Halt, Reset | child threads | `InstructionTree` |
| Leaves that compute or wait (`instructions/`) | a deadline | attributes, variables, status | workspace | `ValueInstructions`, `LocalJob` |
| Leaves that ask the user (`input.cpp`, `user_*.cpp`) | future, choice | poll, HaltImpl, ResetHook | user interface | `UserInput`, `UserDialog` |
| Workspace, variables (`procedure/workspace.cpp`, `variables/`) | map of variables, values, availability | Setup, Teardown, Reset, Get, Set, WaitForVariable | callbacks | `Procedure`, `NamedCallbacks`, `LocalJob` |
| Callback manager (`named_callback_manager.h`) | listeners, mutex | Register, Unregister, Execute | variables, runner, instructions | `NamedCallbacks` |
| Set-up and tear-down actions (`setup_teardown_actions.h`) | registered actions by identifier | run once per workspace, undone once | variables | `Procedure` |
| Input adapter (`base/async_input_adapter.cpp`) | request queue, current id, replies, mutex, two condition variables, handler thread | add, cancel, poll, wait, get | instructions, the user's input function | `AsyncInputAdapter` |
| Job interface adapter, job map (`runner/job_interface_adapter.cpp`) | state per instruction, indices | status, breakpoint, variable and tick notifications | runner, clients, observer | `LocalJob`, `InstructionInfo` |
| Local job (`runner/local_job.cpp`) | procedure, adapter, runner | the job's public functions | all of the above | `LocalJob` |
| Job and instruction information (`job_info*.cpp`, `instruction_info*.cpp`) | records with indices | creation, conversion to structured values and back | clients, also remote ones | `InstructionInfo` |
| Attributes (`attributes/`) | lists, definitions, constraints | validation, values of literals and variables | instructions, variables | `Attributes` |
| Parser, registries (`parser/`, `instruction_registry.cpp`) | types known by name | text to procedure and back | files | `ProcedureText` |
| Programs (`oac-tree-cli`, `oac-tree-daemon`) | interface, job monitor | load, run, wait, report | local runner, terminal | `Programs`, `UserDialog` |

What is hard here:

* A Halt acts twice, at once on the tree from the thread of the client, and later
  on the job from the loop thread, while that thread ticks, resets or waits; the
  flags involved (`m_halt`, each instruction's `m_halt_requested`) are cleared by
  the loop thread at moments of its own.
* Children of a ParallelSequence run in threads of their own and share variables,
  whose resets and set-up do not take the mutex that their writes take; callbacks
  run under two mutexes and notify objects on other threads' stacks.
* A question to the user outlives the tick that asked it, is answered by a handler
  thread, and is withdrawn by whoever destroys its future.
* The observer is told of states in reports that several threads put together and
  send without a lock, after they have read the state.
* Set-up has many steps that may throw, and must leave what can be torn down.
* The destructor of the input adapter destroys what its handler thread uses before it
  waits for that thread.

The `hazards` of `PROJECT.json` list this line by line.

What makes each component correct:

* command queue: no lost wake-up, Halt and Terminate overtake and are not
  duplicated, a Terminate is always delivered;
* runner: only legal state changes, ticks only in an active job, no job that
  reports Running without anybody executing it, an accepted Halt takes effect
  and keeps its effect, the destructor returns;
* breakpoints: what a run executes and carries a breakpoint, the job was paused for,
  once per execution;
* instruction tree: a halted tree finishes, a reset tree is like new, a tick
  executes what was announced, a verdict is earned by the children;
* parallel instructions: the compound result agrees with the thresholds, no
  thread outlives a reset;
* input adapter: each request is answered at most once and to its future, a
  cancelled one never; destruction waits for no user;
* workspace: a job that may be started has a fresh one, set-up and tear-down
  actions balance but where an exception has cut a set-up short, a wait ends when
  its condition comes true and is notified;
* adapter and job: the observer's last word on an instruction or variable is the
  truth, an index means one instruction;
* text: what is written is read back as the same procedure; a procedure ends as
  the documentation of its instructions says, and a program exits accordingly.

## 2. Modules

| Module | Models | Used by |
|---|---|---|
| `JobTypes` | commands and their urgency, job states, statuses, container operations | the runner's modules |
| `JobCommandQueue` | the command queue with mutex and condition variable | `MCJobCommandQueue`, `MonitorProofs` |
| `PriorityMailbox` | what the queue promises (abstract) | `JobCommandQueue` |
| `Breakpoints` | the operations of the breakpoint manager | `AsyncRunner` |
| `AsyncRunner` | clients, execution loop, Runner, breakpoints, root of the tree | `HaltOrder`, `BreakpointPassage`, `MCAsyncRunner` |
| `JobLifecycle` | what a job promises its observers (abstract) | `AsyncRunner` |
| `HaltOrder` | `AsyncRunner` with a history of halt and reset requests | `MCHaltOrder`, `AsyncRunnerProofs` |
| `BreakpointPassage` | `AsyncRunner` with a history of what the job was paused for and has looked at | `MCBreakpointPassage`, `AsyncRunnerProofs` |
| `InstructionTree` | tick, halt and reset of a tree of instructions, with the threads of its asynchronous children | `RunCount`, `NextInstructions`, `InstructionTreeProofs`, `InstructionVerdictProofs` |
| `RunCount` | the tree with a history: how often the child of a Repeat or For that counts has finished | `MCRunCount`, `InstructionVerdictProofs` |
| `NextInstructions` | the tree with the instructions that each tick is announced to execute | `MCNextInstructions`, `InstructionVerdictProofs` |
| `AsyncInputAdapter` | questions, answers, waits, cancellation, handler thread, destruction | `MCAsyncInputAdapter`, `AsyncInputAdapterProofs` |
| `InputExchange` | what the adapter promises (abstract) | `AsyncInputAdapter`, `UserInput` |
| `UserDialog` | requests and replies as dynamically typed packets, and the terminal's answers | `UserInput`, `LocalJob` |
| `UserInput` | the instructions that ask, over `InputExchange`, in a job that is halted, reset and destroyed | `MCUserInput`, `UserInputProofs` |
| `Procedure` | set-up, reset and destruction of procedures and workspaces, with failures and threads at work | `MCProcedure`, `ProcedureProofs` |
| `NamedCallbacks` | notifications, waits for variables, and their three mutexes | `MCNamedCallbacks`, `MonitorProofs` |
| `Attributes`, `ValueInstructions`, `ProcedureText`, `InstructionInfo` | pure: attributes and values; what each leaf reads and decides; text to procedure and back; information for clients | `LocalJob` |
| `LocalJob` | a job from its text to the reports of its execution | `Programs` |
| `Programs` | the main functions that run one file | `JobTexts` |
| `JobTexts` | small procedures, each for one question, with what is expected of them | `MCLocalJob` |
| `SequenceLemmas` | lemmas on queues, agendas and induction that several proofs need | the proofs |
| `*Proofs` | lemmas and theorems, those of the tree in `InstructionTreeProofs` and, about its statuses, counts and announcements, `InstructionVerdictProofs` | - |
| `MC*` | instances for TLC | the `.cfg` files |

### The command queue

`queue` is `m_command_queue`. `Push` and `TryPop` are atomic, since all they do
is under the mutex. `PriorityPush` is split where it calls its function with the
mutex locked (`mtx`), because that function takes time and reaches into the
tree. Every push ends in a `NotifyOne` of its own, after the unlock. A waiting
consumer is `asleep` until a notification or a `SpuriousWakeup` makes it `woken`;
it then has to take the mutex again before it looks. A priority push that is
refused is no step: it changes nothing.

`Line` and `Alarms` map the deque to the mailbox: at most one Terminate, at most
one Halt, and after them the ordinary commands in the order they were pushed.

### The runner

One action per step of a thread between two points where another thread can see
or change something:

* clients: `Push`, `Halt` and `Terminate` (the accepted part of `PriorityPush`
  up to `m_halt.store(true)`), `PriorityPushEnd` (halt of the tree, `push_front`,
  unlock), `SetBreakpoint`, `RemoveBreakpoint`, `Joined` (the end of the
  destructor's `wait`);
* loop thread, by its position `pc`: `WaitForNextCommand`, one action per command
  handler and one for Terminate, `EnterRun`, `StopRun`, `HitBreakpoint`,
  `ContinueRun` (one round of `ExecuteProcedure`), `BeginTick` and `EndTick`
  (the root's preamble and the return of its `ExecuteSingleImpl`), `RunCallback`,
  `EnterStep`, `FinishStep`, `LeaveRun`, `LeaveLoop`.

The tree is abstracted to its root: a status, a halt flag, and the set of
instructions due in the next tick. `EndTick` lets a tick return any status and
any set of due instructions with the root in it, and lets a finished tick leave
the root's halt flag set, as a `ParallelSequence` does that halts its remaining
children.

`HaltOrder` adds one variable: whether a halt request is the last word of the
clients, and whether it was accepted in front of a reset request. This is
needed to state what Halt promises, because a Halt jumps the queue: a Reset
that was requested before it is performed after it, and so undoes it. That
outcome is part of the code's design and exempt from `HaltStopsExecution`.

`BreakpointPassage` adds two: `stopped`, the instructions the job has reported Paused for
and that have not been executed since, and `checked`, those that carried a breakpoint
when the run looked before the tick, and still do. `BreakpointsStopRuns` says that a run
executes an instruction that is `checked` only if it is `stopped`. That involves the
check, the release, the pause, whatever clients do then (a step, a new start, a removal
and a new breakpoint, a halt) and the rearming by the tick that follows.

### The instruction tree

`ExecuteSingle`, `Halt` and `Reset` are recursive walks. The model keeps for each
thread its `agenda`, the calls still to make, as `<<operation, instruction>>`: a
step takes the first and puts the calls it makes in its place. So a walk can be
interrupted by the others between any two accesses to what they share, the
status and the halt flag of each instruction:

| Operation | Code |
|---|---|
| `exec`, `body` | `ExecuteSingle`: `Preamble` with `InitHook`, then the look at status and halt flag |
| `work` | `ExecuteSingleImpl` of a leaf: returns any status, at any time or, if it blocks, when halted |
| `tick`, `conclude` | `AsyncWrapper::Tick` of a child, and the verdict of a `ParallelSequence` |
| `react`, `running`, `listen`, `choose` | the parts of `ExecuteSingleImpl` of the reactive compounds, `Listen`, `Choice`, `UserChoice` |
| `return` | the status computed from the children (`ImplStatus`) |
| `halt`, `drop` | `Halt` with `HaltImpl` |
| `reset`, `join`, `clear` | `Reset`: `ResetHook`, its wait for threads, and the status and flag at the end |

Threads are the `ticker` (the loop thread), the `halter` (a client inside Halt)
and one worker per child of a `ParallelSequence` or `Async`, named after the
child; its agenda is empty when `m_child_result` is ready. The wrapper's status,
`m_count`, the selections and the sets of children are only touched by the
thread that is inside their instruction, which is itself checked
(`ExclusiveExecution`), so that a tick may read them in one step with the status.

`halted` stands for the commands of the runner: after a halt the loop thread
does not tick before the next reset, and it takes no command while a halt is
walking, since Halt holds the queue's mutex. Both are what `AsyncRunner` shows. A
tick or reset that is already under way does overlap with the walk.

The tree is a constant; `Init` picks one of several (`Roots`). What a selector
variable, an array or a user can choose is nondeterministic, the thresholds and
counts are constants. The future of `UserChoice` is a flag here: its pointer is
the subject of `UserInput`.

`NextInstructions` adds `NextInstructionsImpl` of each type. The history variable
`announced` holds, per thread that ticks on the runner's behalf, the instructions
that `GetNextInstructionTree` had announced as its tick began, which is where the
runner looks for breakpoints and what the client shows.

### User input

In `AsyncInputAdapter` a critical section is one action and what follows its
unlock another: `AddUserInputRequest` and `NotifyHandler`; of the handler thread
`TakeRequest`, `EnterInput`, `ObeyInterrupt` or `UserResponds`, and `PublishReply`;
`GetReply`, `CancelInputRequest`, `WaitForRequestReady`, `Timeout`; and of the
destructor `Destroy`, `NotifyClose`, `DestroyMembers`, `Join`. A reply wakes any one of the
waiting futures. The members that are declared after `m_handler_future` are destroyed
before the future waits for the handler thread; when that thread still locks the mutex or
goes back to wait (`UseDestroyed`), the behaviour is undefined, and the model ends there
with the handler in `undefined`. The input function and
the interrupt function are the user's; the contract in `i_job_info_io.h` is that an
interrupt may come before the call it is meant for and is obeyed all the same.
`Phase` maps the adapter to `InputExchange`.

`UserInput` puts the three instruction types on top of `InputExchange`. Here the
pointer `m_future` is a variable, and each use of it two steps, reading it and
following it, since `HaltImpl` resets it in the thread of the client. When such a
use meets a null or dead future, that is undefined behaviour: `undefined` is set,
the behaviour ends there, and the properties speak of the others (`Defined`). The
order of destruction is that of `LocalJobImpl`: runner, adapter, procedure.
`UserDialog` models the packets: a reply that is not of the type asked for is a
failure of the instruction, what the terminal makes of a line, and what the user
interfaces do without a user.

### Procedure and workspace

`Procedure` gives each thread an agenda of calls as well: `Setup` of the job walks
through the procedure, its instructions (which load files into the store and set
those up), its workspace, its variables, and the set-up actions that these ask for. A
load, the set-up of a variable and a set-up action may throw if the file, the variable
or the identifier is in `Fragile`; the other calls do not. A throw leaves the remaining
calls undone and what was done as it is; with a set-up action that is also the list of
tear-down actions, which is complete by then, and `skipped` remembers the identifiers
whose set-up action did not come to its end. `Reset` and `Destroy` expand to the tear-down and set-up calls
the same way. Threads of asynchronous instructions (`Workers`) write and reset
variables in any workspace meanwhile, as long as the code lets them live: a reset
joins them (`ResetRoot`) only after it has torn down.

`NamedCallbacks` models a write as `SetValue` does it: it takes `m_access_mutex` and
keeps it, takes `m_notify_mutex`, and then calls the listeners one by one under the
manager's mutex; a reset notifies the same way but does without `m_access_mutex`. A
waiter registers, evaluates its predicate, sleeps, is woken or times out,
unregisters. The listener is the waiter's condition variable on its stack. A Local variable
is available when it is set up, a File variable when its file can be read as well, which
a write brings about; a write that fails changes nothing and notifies nobody.

### Texts and jobs

The pure modules turn a text, a tree of elements with attributes whose strings
are tokens, into a procedure and a workspace. An operation that may throw is the
*set* of its results, empty when it throws. `ValueInstructions` describes each
leaf as data: the attributes and constraints its constructor defines, what
`InitHook` and `ExecuteSingleImpl` read and in which order, and the outcome for the
values read. So a step of `LocalJob` can be the same for all: read the next
attribute (a variable is read in one step, under its mutex), or conclude. Values
carry their type; numbers are clipped to TLC's integers, no float has a fraction.

`LocalJob` loads one of the `Texts` (`SafeParseProcedure`, `Connect`,
`SetProcedure`, `InitializeInstructionTree`, `Inform`: the constructors in the order
in which they run, where parsing and set-up may refuse), executes the root (a leaf or a
`ParallelSequence` of leaves, one thread each) and sends the reports: `sending` is
the report a thread has put together, without a lock, and not delivered yet.
`crossed` names the instructions and variables whose reports have overlapped, which the
client's view is not held to. `seen` is what the client knows. The client sets and removes breakpoints and
halts. `Programs` adds the main functions: usage, refusal, run, wait, exit status.

## 3. Runs

| Run | Checks | Instance |
|---|---|---|
| `command_queue` | `NoLostWakeup`, `ImplementsMailbox`, `TerminateDelivered` | two clients, ordinary pushes up to length 3 |
| `runner_lifecycle` | `TypeOK`, `HaltedTreeHasOwner`, `ImplementsLifecycle`, `HaltStopsExecution` | two clients, root and leaf, no breakpoints, pushes up to length 2 |
| `runner_running` | `RunningIsDriven`, `BreakpointsStopRuns`, `HaltTakesEffect`, `DestructorReturns` | the same, with a breakpoint on the leaf, pushes up to length 1 |
| `runner_stale_breakpoint` | `FinishedOnlyLeftByReset` is violated | one client |
| `tree_ticks` | `NothingUnannounced`, `VerdictIsEarned`, `HaltReachesLeaves`, `NoWorkAfterHalt` | Sequence of Fallback(Include, leaf) and ForceSuccess; Choice(Inverter, leaf) with selections up to length 2; ParallelSequence of 3 (thresholds 2 and 3) and of 2 (defaults); Sequence with an Async |
| `tree_resets` | `ExclusiveExecution`, `RunningStandsAlone`, `ResetTreeIsNew`, `RepeatsExactly`, `HaltEndsTick`, `ResetEnds` | ReactiveSequence and ReactiveFallback of leaf, Async, leaf; Repeat (2, 0 and -1), For over a ParallelSequence, Listen with and without forceSuccess, UserChoice; Sequence, ParallelSequence |
| `tree_lost_halt` | `HaltReachesLeaves` is violated | Repeat; UserChoice |
| `input_adapter` | `RepliesHaveHolders`, `HandlerIsCalled`, `ImplementsExchange`, `DestructionEnds`, `AnswerReachesWaiter` | three questions |
| `user_input` | `ActsOnOwnAnswer`, `QuestionsHaveOwners` | each of the three types alone, two questions, answers -1, 0, 2 to two options |
| `procedure` | `ReadyIsFresh`, `ActionsBalanced`, `ExecutesInSetupWorkspace` | a main file whose two variables have set-up actions of their own, one file whose tree is included and whose two variables share an action, one file in whose workspace instructions execute; two workers; the load of the third file, three of the five variables and one of the two set-up actions may fail |
| `local_job` | `TextIsWhole`, `IndexMeansOneInstruction`, `ClientKnowsInstructions`, `ClientKnowsVariables`, `EndsAsDescribed`, `ExitMeansVerdict` | the texts of `JobTexts` |
| `callbacks` | `ListenersAreAlive`, `SleeperIsWoken`, `CallsReturn` | a File and a Local variable; one writer at the file, one at both; one waiter for the file to be available, one for either to be unavailable; two calls each side |

### Bounds

`MaxQueue` bounds ordinary pushes only: priority pushes are bounded by the code
itself, at one Terminate and one Halt. Two clients are enough for every pair of
calls to interleave, since a client does one call at a time and the mutex admits
one; queues of length 2 and 3 hold two ordinary commands behind an alarm, in
either order; with a single ordinary command a run with breakpoints still has
every command before and after every other, as the queue is refilled. One leaf
besides the root lets the due instructions be those of a root alone (an
instruction without children due, or one that runs) or of both.

The trees are small, but their state space is complete: `InstructionTree` has no
bound besides the trees (`RunCount` stops counting at `MaxRuns`, one above what
the loops may run), and a run ticks, halts and resets for ever. Three
children are the least for which a verdict leaves two children over or the
thresholds have to be clamped to each other; two runs are the least that need a
reset in between. `HaltReachesLeaves` and `NoWorkAfterHalt` are checked on trees
without an instruction that resets its child in a tick, since there they fail
(below); the other properties are checked on those as well.

`MaxRequests = 3` in the adapter: one question at the user, one queued behind
it that may be withdrawn, and one answered before; ids are never reused, so a
longer sequence repeats these relations. In `UserInput` the second question is
the one that an instruction asks after a halt, a reset or a race with them.
`MaxWrites = MaxWaits = 2` in `NamedCallbacks`: the calls of both writers together,
and of both waiters; the second write is the one that meets a listener which
unregisters. With two variables the waiters are entries of one list for the same
or for different names.

`Procedure` has no counter; resets and starts repeat for ever. The workers are
interchangeable (symmetry).

A text of `JobTexts` executes one leaf or two in parallel, as the questions
are about pairs: two leaves over one variable, a leaf and the client's halt or
breakpoint. Each kind of leaf, attribute constraint, refusal and include has a
text of its own, mostly with the expected outcome (`MCExpected`) taken from
`doc/coreinstructions.rst` and from the tests. The thresholds of its ParallelSequence are the
defaults; two File variables never share a file.

Configurations switch off the deadlock check where the system really stops: when
the owner has destroyed the job or the adapter, when the bounded calls or
questions are used up, and when a program has returned.

### Fairness

Loop threads, handler threads and threads inside a call run on (`WF`). No client
has to call anything, and no user to answer; timeouts pass where the property is
about the blocking helpers, which wait in rounds of a timeout. A tick is only required to end when
the root has been told to halt, since timers, variables and users decide about
the others and blocking instructions watch their halt flag. `InstructionTree`
refines that assumption: its fairness asks a leaf to return only if the leaf's
own flag is set, and `HaltEndsTick` derives the end of the tick. Where a halt does
not reach a leaf, as below, the runner's assumption holds only once that leaf
returns of its own. The input function is asked to return when it is interrupted,
never otherwise; `DestructionEnds` rests on that alone. In
`NamedCallbacks` neither timeouts nor spurious wake-ups are assumed, so
`SleeperIsWoken` is about the notifications.

### What the violations show

* `FinishedOnlyLeftByReset`. `ExecuteProcedure` overwrites the list of hit
  breakpoints only in rounds that look for breakpoints (`runner/runner.cpp:98-105`);
  there are no instructions due while the root is RUNNING. Hit a breakpoint, step
  until the root is RUNNING, start, and let the job succeed, fail or be halted:
  `RunProcedure` finds the list of the earlier hit and reports Paused after the
  finished state (`runner/async_runner.cpp:294`).
* `HaltReachesLeaves` on a Repeat. It resets its succeeded child and executes it
  again within one tick; the reset ends by clearing the halt flag, also one that
  a concurrent Halt has set in that moment (`instructions/repeat.cpp:71`,
  `instructions/instruction.cpp:139`). The child works in a halted procedure, and
  a blocking one is not told. For and Listen do the same; so does a
  ParallelSequence that halts a child with such an instruction in it.
* `HaltReachesLeaves` on a UserChoice. Its `HaltImpl` replaces the propagation to
  the children (`instructions/user_choice.cpp:110`); this needs no race.

Two theorems and the run `runner_lifecycle` are stated without breakpoints
because of `FinishedOnlyLeftByReset`. `HaltStopsExecution`, which that run checks
as well, is proved with breakpoints too.

### Observed while modelling

The models follow the code in these places as well; no run is spent on them.

* A reactive compound that finishes leaves an asynchronous child at work that an
  earlier tick left RUNNING (`instructions/reactive_sequence.cpp:60`);
  `doc/coreinstructions.rst:218` says it is interrupted. A reset of the compound
  halts it. `RunningStandsAlone` states what the code does guarantee.
* Choice reads its progress off the status of the selected children, so a repeated
  index is run once (`instructions/choice.cpp:70`, against
  `doc/coreinstructions.rst:37`).
* `m_future` is checked, used and reset by two threads without a lock
  (`instructions/input.cpp:86`, `instructions/user_choice.cpp:112`).
* The comment in `~Procedure` ("Wait for termination of instructions first") and
  `Teardown` disagree: the workspace is torn down first, instructions are waited
  for last (`procedure/procedure.cpp:68`, `:321`). Reset does the same, so that
  threads of asynchronous children see unavailable variables for a while; a
  write between the tear-down and the set-up of an included workspace survives
  the reset (the second part of `ReadyIsFresh` excludes it).
* Set-up actions are run once per workspace and identifier, not once per class of
  variables (`variable.h:90`).
* `Workspace::Setup` keeps the tear-down actions before it runs the set-up actions
  (`procedure/workspace.cpp:102-107`). When one of these throws, the workspace is not set
  up, but its next `Teardown`, or its destructor, undoes what was never done, once;
  `ActionsBalanced` says so of the identifiers in `skipped`.
* The handler's future is declared before the mutex, the condition variables and the
  flag that the handler thread uses (`async_input_adapter.h:83-87`), so they are destroyed
  before the wait for it (`base/async_input_adapter.cpp:86-105`). Any handler that has
  not returned by then uses them: one that was asleep or with the user, say.
* `SetupImpl` of a variable notifies before `m_setup_successful` is set
  (`variables/variable.cpp:85-86`), and nothing notifies after it. So a thread that waits
  for a Local variable to be available, which is a matter of its set-up alone, looks too
  early and sees the change at its timeout; one that waits for it to be unavailable is
  notified, but may look too late. `SleeperIsWoken` excludes these changes (`missed`); what
  it holds the code to are the writes that make a file readable.
* `Variable::Reset` does not take `m_access_mutex`, so that reports of a write and
  of a reset may reach the client in the wrong order (`crossed` in `LocalJob`).
* `WaitForVariable` looks and goes to sleep without a lock that notifications
  take: a change in between is noticed at the timeout only. The call returns whether the
  condition holds at the end, which after a timeout may be true
  (`procedure/workspace.cpp:170`, against `workspace.h:122`).
* `varType` of WaitForVariables may refer to a variable by its definition, but is
  taken literally (`instructions/wait_for_variables.cpp:73`).
* The attributes of the procedure are not in its XML string
  (`parser/procedure_to_treedata_utils.cpp`), which `ReadsBack` therefore does not
  compare.
* An Include of its own tree recurses without end (`instructions/include.cpp:49`);
  the texts have none.
* An unknown log level lets everything through; the daemon's level hides Message and Output at
  WARNING; the command line program returns 0 and the daemon 1 on arguments they
  do not understand.
* Breakpoints on instructions that a tick reaches only after it has reset them
  (children of Repeat, For, Listen, of reactive compounds) or chosen them
  (UserChoice) are not seen before that tick: `NothingUnannounced` speaks of the
  other compounds.

A breakpoint that was hit is released until the next tick callback. Halt and
Reset from that pause tick nothing, and Reset does not touch the breakpoint
manager, so in the model as in the code the next run of the reset job passes it: for
`BreakpointsStopRuns` the job was paused for it, and the instruction has not been executed
since. A breakpoint that a client sets between the check and the tick is passed by that
tick and counts from the next check on.

The state diagram `doc/job-controller-states.png` differs from the code in two
more places: it shows Halt as a self-loop of Initial where `HandleInitial` goes to
Halted, and an arrow from Stepping to Halted where the code reports Paused in
between. `JobLifecycle` follows the code.

## 4. Theorems

All proofs assume only the named assumptions on the constants
(`QueueAssumption`, `NoClientAssumption`, `RunnerAssumption`, `TreeAssumption`,
`SubtreeAssumption`, `LeafAssumption`, `RunsAssumption`, `RequestsAssumption`, `CallbackAssumption`, `ProcedureAssumption`,
`InputAssumption`): any set of clients, threads, variables, included procedures,
any tree, any bound. `TreeAssumption` says that the trees are trees, as the code
guarantees by owning children through unique pointers: within one, no two
instructions share a child and none is below itself, the children of an
instruction are distinct, and those of a reactive one have no other parent.
`SubtreeAssumption` says that there are finitely many instructions and that the
recursive `Subtree` has nothing but an instruction and what its children lead to;
only the theorem that speaks of the whole `Subtree` of the root needs it.
`LeafAssumption` says that an instruction without children is not of a compound kind, as
`SetupChildren` and `SetupChild` throw for a compound or decorator without children.
`RunsAssumption` lets the history variable of `RunCount` count further than any loop may.

* `SequenceLemmas`: a set of numbers has a least one, and from that induction in a
  form that needs no operator parameter (a set of numbers that has 0 and with each
  number the next one is all of them); what replacing the first call of an agenda by others, and
  erasing an element of a queue, leave of it. For the command queue, the urgency is a total order that puts Halt and Terminate on
  top; a deque that is *ordered* (a priority command is preceded only by more
  urgent ones) stays ordered under `push_back` of an ordinary command, `pop_front`
  and `push_front` of a command that overtakes the front; in an ordered deque a
  priority command is at the front or directly behind a Terminate.
* `MonitorProofs`, about the two objects that a mutex and a condition variable guard,
  the command queue and the callback manager. For the queue, `QueueTypeCorrect`, `PriorityOrderHolds`,
  `NoLostWakeupHolds` from an invariant that adds one fact: while a client runs
  its function under the mutex, its command still overtakes the front
  (`PendingOvertakes`). `QueueImplementsMailbox` then maps each step to a step of
  the mailbox or none; its core are three lemmas on what the container
  operations do to `Line` and to the alarms.
  For the callback manager, `ListenersAreAliveHolds`, for any number of writers,
  waiters and variables, from three facts: calls are made by the holder of the
  manager's mutex, what is still to be called is registered, and a waiter has
  exactly one entry from its registration until it unregisters.
* `AsyncRunnerProofs`: an invariant of six parts, `TypeOK`, `QueueOK` (the deque
  is ordered, and the pending push overtakes), `StateOK` (program counter, handler
  and job state agree), `AlarmOK` (a queued alarm means a halted tree, or a reset
  has intervened and the alarm is about to be taken), `OwnerOK` (who answers for a
  finished or halted tree), `DrivenOK` (when `m_halt` may be set in a Running job).
  They depend on each other: that ticks happen only in an active job needs
  `AlarmOK`, since a polled Halt ends a run only because the root is already
  halted. From it follow `RunnerTypeCorrect`, `TickOnlyWhenActiveHolds`,
  `RunningIsDrivenHolds`; with no breakpoints
  `HaltedTreeHasOwnerHolds` and `RunnerImplementsLifecycle`; and, with the
  additional invariant that only a requested reset clears the root's halt flag,
  `HaltStopsExecutionHolds`, for any breakpoints. `BreakpointsStopRunsHolds` needs an
  invariant of its own (`PassageInv`): a breakpoint is released only where the job stops
  for it, is stopped for it, or executes the tick that will arm it again (`ReleasedOK`); and
  between check and tick a breakpoint that the check has seen on a due instruction is a
  released one (`CheckedOK`).
* `InstructionTreeProofs`: the sum of the two thresholds of a `ParallelSequence`
  exceeds the number of children by one at most, so that once all wrappers
  report a verdict one threshold is reached (`AllReportedHasVerdict`: the children
  split into those that succeeded and those that failed). `WrapperKnowsThreadHolds`
  needs no strengthening but the domains of two functions: a thread that is
  running has a wrapper that says RUNNING, and every change of a wrapper either
  waits for its thread or makes it RUNNING as it is launched.
  `ExclusiveExecutionHolds` is the long one. That two agendas never name the same
  instruction is not inductive: it has to be known what an agenda will still do.
  The invariant says so of the agenda of each thread (`Proper`), seen from the
  instruction where it starts, the root or the child that the thread runs: whoever
  is inside an instruction is inside everything above it up to there, because the
  call that ends each of these is still to come (`Held`); a child that is to be
  launched is not entered by its parent's thread (`Ticks`); a walk does not go down
  again by itself (`Ascending`); and a child with a thread is reset only behind the
  `join` that waits for it, or when it rests (`Joined`). A running thread belongs to
  a child of an instruction of the tree (`Busy`), and no other thread is inside that
  child (`Apart`). The proof has three layers. On trees: two instructions with a
  common one below them lie on one line (`OneLine`), from which the property
  follows, for if two threads were inside the same instruction, the upper one would
  be inside of the child where the lower one starts. On agendas: replacing the
  first call by calls that fit keeps each part, and lets the thread into no child
  with a thread but one that rests. On the code: what each instruction type calls
  fits (`FitsBody`, `FitsReset`, ...), one lemma per kind of body. Launching a child is
  the one step of its own kind: nobody else is inside the parent, so nobody else
  can be inside the child or about to reset it.
  `HaltReachesLeavesHolds` and `NoWorkAfterHaltHolds` are for trees where nothing
  resets a child within a tick or keeps a halt to itself (`HearsHalts`; on the others
  the property fails, see `tree_lost_halt`). They need `ExclusiveExecution` and what the
  client's halt has yet to do (`TellInv`): from the moment it is asked for until a reset,
  each instruction that some thread is still to enter has its flag set or is below an
  instruction on the halt's way (`Told`). A flag that is cleared meanwhile, by the reset
  of a child of a reactive compound, must not be one that a thread relies on: a walk
  does not enter what it has still to reset (`Onward`), and nobody else can, since
  nobody else is inside. An instruction that is executed although its halt is under
  way only enters its children, and these are below it.
  `ResetTreeIsNewHolds` needs two invariants on top of `ExclusiveInv`. The first,
  `StartInv`, says that who is under way has started: the calls of an agenda about one
  instruction come in the order in which the code makes them (`Layout`), an instruction
  that is about to return shows a child that has been executed (`Prepared`), so that
  the status it takes is never NOT_STARTED (`Sure`), and an instruction with threads has
  its wrappers, unless it is being reset (`Unwrapped`, `Launched`). Without it a status
  could fall back to NOT_STARTED by any other call than the one that clears it, and a
  procedure could look like a new one in the middle of a tick. `StepMoves`
  reduces every step of a thread to one form, `Moves`, that says what the call does
  to each table. The second, `ResetInv`, is about the reset itself: while the root has
  a `clear` to come, each status, flag, selection and wrapper that is left of the
  earlier run is one that the walk will still take back (`Remains`), and whatever the walk
  halts or joins on its way it resets afterwards (`WalksBack`). The workers that still
  run meanwhile may write anywhere below their child; they are threads of an
  instruction the walk has still to join, so what they write is covered as well
  (`WorkerCovered`). The client's halt cannot interfere, because it is only over when
  the reset begins, and sets `halted` if it starts later.
* `InstructionVerdictProofs`, on top of the invariants of `InstructionTreeProofs`:
  `VerdictIsEarnedHolds` and `RunningStandsAloneHolds` speak of the statuses that a parent
  and its children have together. For both it has to be known what each kind of call
  does with the status it takes (`Means`, beyond what `Moves` says of all calls), and that
  an instruction under way has started and has no verdict (`Lively`). For the first,
  `EarnInv` says that a finished instruction has earned its verdict or is going to be
  cleared (`Deserved`); that a wrapper that reports a verdict reports the one its child
  has (`Reports`), as nobody touches that child between the end of its thread and the
  join; and that when all wrappers have reported there is a verdict or somebody on the way
  to it (`Decided`). The verdict of a parent whose children ran in threads is kept by
  the reports and not by the children's statuses, which is why it is stated of them first
  (`EarnedAs`). The argument is `Settled`: a verdict, and what it rests on, is not
  touched by anyone who is not about to clear the parent.
  For the second, `RunInv` follows the turn of a reactive compound. Between turns the
  children are in order (`InOrder`: nothing after a RUNNING child has started). While the
  child it has executed is still to be looked at, that child is the first that was not
  finished, and the thread has nothing left to do with the others (`ReactAt`); this is
  also the moment when the order is broken, since a child may have become RUNNING before
  one that already is. When it was RUNNING, each other child is as new or is on the agenda
  to be reset (`Singled`), and the RUNNING one is not. A compound takes its status, and
  whoever clears it does so, when all that is left before is to take children back
  (`BacksAt`). `ReactiveMarked` shows that no other thread interferes: whoever changes a child
  of a reactive compound has a call of the compound left.
  `RepeatsExactlyHolds` compares `m_count` with the history of `RunCount`. Between ticks they
  are equal (`BetweenTicks`); within one, a run that has ended is not counted yet
  (`WithinTick`), unless the child is about to be reset (`TakenBack`), which is how the next run
  begins. The ticking thread has one call left about the root, its last (`Bottomed`), so that
  this call says which of the two holds, and nobody else touches the child.
  `NothingUnannouncedHolds` follows an announcement, made of the whole tree before the
  tick, down to the leaf whose turn may come last. What a thread has still to execute
  leads to certain leaves as things are (`StartsFrom`: on the way down every instruction is
  ready, is the next of the one above it, and no thread is at it), and the invariant
  `NextInv` says that these were announced to that thread (`Announces`). Before the tick they
  are leaves of the tree shown (`StartsAreShown`); a step that gives a thread another call
  about an instruction below adds no leaf (`StartsDown`), a thread that is launched
  takes over what was announced to the one that launches it, and what other threads
  do meanwhile adds none either, since only those inside an instruction
  change what is below it (`ExclusiveExecution`). That needs the announcement and the execution
  to go by the same statuses, which is what the other parts are for. `Agrees`: in a sequential
  compound or decorator everything before the first unfinished child has passed, and that
  child is RUNNING when the compound is (`Sorted`); otherwise the body would execute a child
  that `NextInstructionsImpl` does not name. `Occupied`: when a compound with threads reports
  RUNNING, none of them is to be launched, as its next instructions are not shown then. `Fresh`: what
  has not started has children that have not, and no threads, so that `Agrees` holds when
  it begins. `InPlace`: a reset clears the children before their parent, and a
  ParallelSequence takes its status after it has tried to launch every child, for
  `Fresh` and `Occupied`. `Usual`: in the trees of the property only a Choice chooses, once
  in a run, and nothing is reset within a tick. `RunInv` and `HaltInv` supply who is inside
  which instruction.
* `AsyncInputAdapterProofs`: `RepliesHaveHoldersHolds` and `HandlerIsCalledHolds`
  for any number of questions, and `AdapterImplementsExchange`. The invariant adds
  to the types what `current` says of the handler thread (`CurrentIsAtInput`); that
  the ids in the queue grow and follow whatever was asked or answered before
  (`InOrder`), without which the exchange's order of answers does not follow; and
  that a live question is queued, at the user, or answered (`NoneIsLost`). The
  step that matters is `PublishReply` after a cancellation: the id is no longer
  current, so that the answer is dropped.
* `ProcedureProofs`: `TypeCorrect`, `Readiness`, `Balanced` and `ExecutesSetUp`, for
  any included procedures, variables and threads, and any failure of a load, of a
  variable's set-up or of a set-up action. A workspace is often not what the properties ask of it while a walk is
  under way, so the invariant speaks of what the rest of the job's agenda will do:
  a workspace that instructions execute in is set up or going to be, and set up
  again after each tear-down that is left (`Prepared`); a variable of a workspace that is set up is
  as new or about to be (`Settling`); the job's own workspace stays torn down until
  its instructions are waited for, so that no thread of theirs reaches the new one
  (`MainWaits`); only workspaces in the cache have something to undo (`Held`); a
  destruction sets nothing up and still has each tear-down to make that is owed
  (`Destroying`); and at each moment exactly the actions kept for tear-down are
  active, one less where a set-up action was skipped (`Balance`), after which the job has
  failed and sets nothing up any more (`CutShort`). The agenda is built with `Flatten`, a recursive function:
  `FlattenEquation` proves by induction that the function exists, and
  `FlattenParts` that it lays the lists one behind the other. The rest is one
  lemma per call on what the agenda that replaces it contains and in which order.
* `UserInputProofs`: `OwnAnswers`, `OwnedQuestions`, and `UsesExchange`, the refinement
  of `InputExchange`, for any procedure made of the instructions that ask. The
  facts that had to be found: a new instruction holds no question and remembers
  no choice (`Resetting`); the question an instruction holds, and the answer it is
  about to take, are of its present run (`OwnRun`); it holds one only while it
  waits, or while the halt that takes it is at that instruction (`Awaited`); a
  question that is still with the user is held by the instruction that asked it,
  by its reset, by the halt, or is one that the race between a halt and a tick has
  lost (`Responsible`).

The invariants were checked with TLC on the instances above before they were
proved.

Only model-checked: the liveness properties (`TerminateDelivered`,
`HaltTakesEffect`, `DestructorReturns`, `DestructionEnds`, `HaltEndsTick`, `ResetEnds`,
`AnswerReachesWaiter`, `SleeperIsWoken`, `CallsReturn`), which rest on fairness and
`ENABLED`; the violations; everything about texts, whose modules declare RECURSIVE
operators (`TextIsWhole`, `IndexMeansOneInstruction`, `ClientKnowsInstructions`,
`ClientKnowsVariables`, `EndsAsDescribed`, `ExitMeansVerdict`).

## 5. Not modelled

* Exceptions thrown out of a tick, which end the loop thread silently. An
  exception in the reset of a procedure is modelled (phase `failed`).
* Tear-down actions that throw (in a destructor that ends the program), and variables
  that register only one of the two actions.
* Time: a timeout has passed or not. The tick timeout and timing accuracy of a procedure are
  attributes without effect here.
* From characters to the tree of elements and back, which is the XML library's;
  conversions of numbers beyond their ranges; the loading of shared libraries
  (a set of names that load).
* Wording of messages, the warnings and errors that failing instructions log (the
  log messages that *are* an instruction's purpose are modelled), colours and
  layout of the programs' output, most of their options.
* In `LocalJob`: `NextInstructionsUpdated`, which `NextInstructions` covers; reports
  before a refusal, as the client gets no job; pauses, steps and resets, which are
  `AsyncRunner`'s and `Procedure`'s; liveness. The parts of a job are modelled and
  meet at their interfaces (a halt is a flag set from outside, a reset a walk from
  above, a question an entry in `InputExchange`), but no module composes the
  whole, whose state space would be the product.
* In `UserInput` the subtrees that a UserChoice selects: a chosen child is a tick
  that ends in any way.
* Accessors, constructors of records and the registration of types at start-up
  are behind the operations that use them and have no action of their own.

## 6. Plan

1. *Done.* Command queue, runner, breakpoints, their abstract specifications,
   their invariants and refinements proved.
2. *Done.* `InstructionTree`, `RunCount`, `NextInstructions`: tick, halt and reset of a
   tree against a concurrent halt, with the threads of asynchronous children, and
   what is announced before a tick.
3. *Done.* `AsyncInputAdapter` with `InputExchange` and the refinement, proved;
   `UserInput` and `UserDialog`.
4. *Done.* `Procedure`, `NamedCallbacks`; the latter's safety proved.
5. *Done.* Texts, information, `LocalJob` and `Programs`.
6. Theorems on the tree. *Done:* `ExclusiveExecution`, whose invariant says what an
   agenda will still do; `HaltReachesLeaves`, `NoWorkAfterHalt` and `ResetTreeIsNew`, which
   build on it; `VerdictIsEarned`, `RunningStandsAlone` and `RepeatsExactly`, for which the statuses of
   parents and children were added; `NothingUnannounced`.
7. *Done.* Theorems on `Procedure` and on `UserInput`, with its refinement.
