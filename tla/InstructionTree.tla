---------------------------- MODULE InstructionTree ----------------------------
(***************************************************************************)
(* instructions/*.cpp: a tree of instructions that one thread ticks and    *)
(* resets while another halts it.  ExecuteSingle, Halt and Reset are       *)
(* recursive walks over the tree; a walk is the agenda of its thread, the  *)
(* calls it still has to make.  ParallelSequence and Async run each child  *)
(* in a thread of its own, named after the child.  The threads share the   *)
(* status and the halt flag of every instruction and no lock, so that each *)
(* access is a step.                                                       *)
(***************************************************************************)
EXTENDS JobTypes, FiniteSets

CONSTANTS
  Instructions,  \* every instruction of every tree
  Roots,         \* the trees to choose from, by their root instruction
  Kind,          \* per instruction its type
  Children,      \* per instruction the sequence of its children
  MaxCount,      \* per Repeat or For: m_max_count, or the length of the array
  SuccessTh,     \* per ParallelSequence: the attribute successThreshold, or -1
  FailureTh,     \* the same for failureThreshold
  ForceSuccess,  \* the Listen instructions with the attribute forceSuccess
  Selectors      \* per Choice: the indices from 0 that its selector variable may hold,
                 \* where a number below 0 stands for what is no index

VARIABLES
  root,      \* the tree of this procedure; never changes
  status,    \* per instruction: m_status
  haltReq,   \* per instruction: m_halt_requested
  wrapper,   \* per child of a ParallelSequence or Async: its AsyncWrapper's m_status
  count,     \* per instruction: m_count
  selected,  \* per Choice or UserChoice: << >> or <<the children selected>>
  future,    \* the UserChoice instructions whose m_future is set
  agenda,    \* per thread: the calls left to make, each <<operation, instruction>>
  halted     \* the procedure was halted since its last reset began

vars == <<root, status, haltReq, wrapper, count, selected, future, agenda, halted>>

Threaded  == {"ParallelSequence", "Async"}
Reactive  == {"ReactiveSequence", "ReactiveFallback"}
Counting  == {"Repeat", "For"}
Leaf      == {i \in Instructions : Children[i] = << >>}

ChildSet(i) == {Children[i][k] : k \in DOMAIN Children[i]}
Parent == [c \in Instructions |-> CHOOSE p \in Instructions : c \in ChildSet(p)]
Child(i) == Children[i][1]
Wrapped(i) == IF Kind[i] \in Threaded THEN ChildSet(i) ELSE {}

Subtree ==
  LET Within[n \in Nat] ==
        IF n = 0 THEN [i \in Instructions |-> {i}]
        ELSE [i \in Instructions |-> {i} \union UNION {Within[n - 1][c] : c \in ChildSet(i)}]
  IN Within[Cardinality(Instructions)]

Ticker == "ticker"
Halter == "halter"
Workers == UNION {Wrapped(i) : i \in Instructions}
Threads == {Ticker, Halter} \union Workers

Compounds == Threaded \union Reactive \union Counting \union
             {"Sequence", "Fallback", "Choice", "UserChoice", "Inverter", "ForceSuccess", "Include", "Listen"}

(* Each instruction owns its children, so that no two of a tree share one, and
   none is below itself: Subtree goes down to the leaves. *)
ASSUME TreeAssumption ==
  /\ Roots \subseteq Instructions
  /\ {Ticker, Halter} \intersect Instructions = {}
  /\ Children \in [Instructions -> Seq(Instructions)]
  /\ \A i \in Instructions \ Leaf : Kind[i] \in Compounds
  /\ MaxCount \in [Instructions -> Int]
  /\ SuccessTh \in [Instructions -> Nat \union {-1}]
  /\ FailureTh \in [Instructions -> Nat \union {-1}]
  /\ \A i \in Instructions : Selectors[i] \subseteq Seq(Int)
  /\ \A i \in Instructions : \A j, k \in DOMAIN Children[i] :
       Children[i][j] = Children[i][k] => j = k
  /\ \A i \in Instructions : Kind[i] \in Reactive => \A c \in ChildSet(i) : Parent[c] = i
  /\ \A i \in Instructions :
       /\ i \in Subtree[i] /\ \A j \in Subtree[i] : ChildSet(j) \subseteq Subtree[i]
       /\ \A c \in ChildSet(i) : i \notin Subtree[c]
  /\ \A r \in Roots : \A p, q \in Subtree[r] : p # q => ChildSet(p) \intersect ChildSet(q) = {}

(* Trees are finite, and Subtree goes down from children to children only. *)
ASSUME SubtreeAssumption ==
  /\ IsFiniteSet(Instructions)
  /\ \A i \in Instructions :
       /\ Subtree[i] \subseteq Instructions
       /\ \A j \in Subtree[i] \ {i} : \E p \in Subtree[i] : j \in ChildSet(p)

(* SetupChildren and SetupChild refuse a compound or decorator without children. *)
ASSUME LeafAssumption == \A i \in Leaf : Kind[i] \notin Compounds

Init == /\ root \in Roots
        /\ status = [i \in Instructions |-> "NOT_STARTED"]
        /\ haltReq = [i \in Instructions |-> FALSE]
        /\ wrapper = [i \in Instructions |-> "absent"]
        /\ count = [i \in Instructions |-> 0]
        /\ selected = [i \in Instructions |-> << >>]
        /\ future = {}
        /\ agenda = [t \in Threads |-> << >>]
        /\ halted = FALSE

-----------------------------------------------------------------------------
(* Agendas                                                                   *)

Due(t, operation, i) == agenda[t] # << >> /\ agenda[t][1] = <<operation, i>>

Replace(t, calls) == [agenda EXCEPT ![t] = calls \o Tail(@)]

Continue(t, calls) == agenda' = Replace(t, calls)

Call(operation, i) == <<<<operation, i>>>>

ForEach(operation, s) == [k \in DOMAIN s |-> <<operation, s[k]>>]

(* The call ends with status s. *)
Return(t, i, s) == /\ status' = [status EXCEPT ![i] = s]
                   /\ Continue(t, << >>)

-----------------------------------------------------------------------------
(* The status of a parent                                                    *)

FirstIn(S) == CHOOSE k \in S : \A j \in S : k <= j

\* Faulty variant: a child that was not started does not keep its parent open.
FirstVerdictSkipping(s, pass) ==
  LET open == {k \in DOMAIN s : status[s[k]] \notin {pass, "NOT_STARTED"}}
      st == status[s[FirstIn(open)]]
  IN IF open = {} THEN pass
     ELSE IF ReadyForExecute(st) THEN "NOT_FINISHED" ELSE st

(* CalculateCompoundStatus of the sequential compounds: the first child that
   does not pass decides. *)
FirstVerdict(s, pass) ==
  LET open == {k \in DOMAIN s : status[s[k]] # pass}
      st == status[s[FirstIn(open)]]
  IN IF open = {} THEN pass
     ELSE IF ReadyForExecute(st) THEN "NOT_FINISHED" ELSE st

(* ParallelSequence::InitThresholds *)
Min2(a, b) == IF a <= b THEN a ELSE b

SuccessAtMost(n, s, f) == IF s < 0 /\ f >= 0 THEN n + 1 - Min2(n, f)
                          ELSE IF s < 0 THEN n ELSE Min2(n, s)

FailureAtMost(n, s, f) ==
  LET own == Min2(n, IF f < 0 THEN 1 ELSE f)
  IN IF s < 0 THEN own ELSE Min2(own, n - Min2(n, s) + 1)

Enough(i) == SuccessAtMost(Len(Children[i]), SuccessTh[i], FailureTh[i])
TooMany(i) == FailureAtMost(Len(Children[i]), SuccessTh[i], FailureTh[i])

Reporting(i, s) == Cardinality({c \in ChildSet(i) : wrapper[c] = s})

ThresholdVerdict(i) ==
  IF Reporting(i, "SUCCESS") >= Enough(i) THEN "SUCCESS"
  ELSE IF Reporting(i, "FAILURE") >= TooMany(i) THEN "FAILURE"
  ELSE IF Reporting(i, "NOT_FINISHED") > 0 THEN "NOT_FINISHED" ELSE "RUNNING"

(* m_count after a tick of the child *)
Counted(i) == IF MaxCount[i] > 0 /\ IsFinishedStatus(status[Child(i)])
              THEN count[i] + 1 ELSE count[i]

SequenceStatus(i)   == FirstVerdict(Children[i], "SUCCESS")
FallbackStatus(i)   == FirstVerdict(Children[i], "FAILURE")
ReactiveSequenceStatus(i) == FirstVerdict(Children[i], "SUCCESS")
ReactiveFallbackStatus(i) == FirstVerdict(Children[i], "FAILURE")
ChoiceStatus(i)     == FirstVerdict(selected[i][1], "SUCCESS")
UserChoiceStatus(i) == status[selected[i][1][1]]
AsyncStatus(i)      == wrapper[Child(i)]
IncludeStatus(i)    == status[Child(i)]

Inverted(s) == CASE s = "SUCCESS" -> "FAILURE" [] s = "FAILURE" -> "SUCCESS" [] OTHER -> s

InverterStatus(i) == Inverted(status[Child(i)])

ForceSuccessStatus(i) == IF status[Child(i)] = "FAILURE" THEN "SUCCESS" ELSE status[Child(i)]

CalculateStatus(i) ==
  IF status[Child(i)] = "SUCCESS" /\ Counted(i) # MaxCount[i] THEN "NOT_FINISHED" ELSE status[Child(i)]

CountingStatus(i) == IF MaxCount[i] = 0 THEN "SUCCESS" ELSE CalculateStatus(i)

ListenStatus(i) ==
  LET goesOn == IF i \in ForceSuccess THEN {"SUCCESS", "FAILURE"} ELSE {"SUCCESS"}
  IN IF status[Child(i)] \in goesOn THEN "NOT_FINISHED" ELSE status[Child(i)]

ImplStatus(i) ==
  CASE Kind[i] = "Sequence" -> SequenceStatus(i)
    [] Kind[i] = "Fallback" -> FallbackStatus(i)
    [] Kind[i] = "ReactiveSequence" -> ReactiveSequenceStatus(i)
    [] Kind[i] = "ReactiveFallback" -> ReactiveFallbackStatus(i)
    [] Kind[i] = "Choice" -> ChoiceStatus(i)
    [] Kind[i] = "UserChoice" -> UserChoiceStatus(i)
    [] Kind[i] = "ParallelSequence" -> ThresholdVerdict(i)
    [] Kind[i] = "Async" -> AsyncStatus(i)
    [] Kind[i] = "Inverter" -> InverterStatus(i)
    [] Kind[i] = "ForceSuccess" -> ForceSuccessStatus(i)
    [] Kind[i] = "Include" -> IncludeStatus(i)
    [] Kind[i] \in Counting -> CountingStatus(i)
    [] Kind[i] = "Listen" -> ListenStatus(i)

-----------------------------------------------------------------------------
(* Instruction::ExecuteSingle                                                *)

\* Faulty variant: the count of an earlier run is kept.
InitHookKeepingCount(i) ==
  /\ \A c \in Wrapped(i) : agenda[c] = << >>
  /\ wrapper' = [c \in Instructions |-> IF c \in Wrapped(i) THEN "NOT_STARTED" ELSE wrapper[c]]
  /\ status' = [status EXCEPT ![i] = "NOT_FINISHED"]
  /\ future' = IF Kind[i] = "UserChoice" THEN future \union {i} ELSE future
  /\ UNCHANGED count

\* The hooks that read an attribute may fail: Repeat, For, Listen, UserChoice, leaves.
ReadsAttribute(i) == Kind[i] \in Counting \union {"Listen", "UserChoice"} \/ i \in Leaf

InitCount(i) == count' = [count EXCEPT ![i] = 0]

\* InitHook: destroying the wrappers of an earlier run joins their threads.
InitHook(i) ==
  /\ \A c \in Wrapped(i) : agenda[c] = << >>
  /\ wrapper' = [c \in Instructions |-> IF c \in Wrapped(i) THEN "NOT_STARTED" ELSE wrapper[c]]
  /\ InitCount(i)
  /\ \/ /\ status' = [status EXCEPT ![i] = "NOT_FINISHED"]
        /\ future' = IF Kind[i] = "UserChoice" THEN future \union {i} ELSE future
     \/ /\ ReadsAttribute(i)
        /\ status' = [status EXCEPT ![i] = "FAILURE"]
        /\ UNCHANGED future

Preamble(t, i) ==
  /\ Due(t, "exec", i)
  /\ Continue(t, Call("body", i))
  /\ \/ status[i] # "NOT_STARTED" /\ UNCHANGED <<status, wrapper, count, future>>
     \/ status[i] = "NOT_STARTED" /\ InitHook(i)
  /\ UNCHANGED <<root, haltReq, selected, halted>>

\* Faulty variant: the halt flag is not looked at.
EnteredAnyway(t, i) == Due(t, "body", i) /\ NeedsExecute(status[i])

Entered(t, i) == Due(t, "body", i) /\ NeedsExecute(status[i]) /\ ~haltReq[i]

SkipBody(t, i) ==
  /\ Due(t, "body", i)
  /\ IsFinishedStatus(status[i]) \/ haltReq[i]
  /\ Continue(t, << >>)
  /\ UNCHANGED <<root, status, haltReq, wrapper, count, selected, future, halted>>

(* The child that a sequential compound ticks next, if any. *)
FirstUnfinished(s) ==
  LET open == {k \in DOMAIN s : NeedsExecute(status[s[k]])}
  IN IF open = {} THEN << >> ELSE <<s[FirstIn(open)]>>

(* What the body of each type calls. *)
SequentialCalls(i, s) == ForEach("exec", FirstUnfinished(s)) \o Call("return", i)

ReactiveCalls(i) ==
  LET c == FirstUnfinished(Children[i])
  IN IF c = << >> THEN Call("return", i) ELSE ForEach("exec", c) \o ForEach("react", c)

ChoiceCalls(i) == IF selected[i] = << >> THEN Call("choose", i)
                  ELSE SequentialCalls(i, selected[i][1])

ParallelCalls(i) == ForEach("tick", Children[i]) \o Call("conclude", i)

AsyncCalls(i) == Call("tick", Child(i)) \o Call("return", i)

ChildCalls(i) == Call("exec", Child(i)) \o Call("return", i)

CountingCalls(i) ==
  IF MaxCount[i] = 0 THEN Call("return", i)
  ELSE IF status[Child(i)] = "SUCCESS" THEN Call("reset", Child(i)) \o ChildCalls(i)
  ELSE ChildCalls(i)

BodyCalls(i) ==
  IF i \in Leaf THEN Call("work", i)
  ELSE CASE Kind[i] \in {"Sequence", "Fallback"} -> SequentialCalls(i, Children[i])
         [] Kind[i] \in Reactive -> ReactiveCalls(i)
         [] Kind[i] = "Choice" -> ChoiceCalls(i)
         [] Kind[i] = "UserChoice" -> Call("choose", i)
         [] Kind[i] = "ParallelSequence" -> ParallelCalls(i)
         [] Kind[i] = "Async" -> AsyncCalls(i)
         [] Kind[i] \in Counting -> CountingCalls(i)
         [] Kind[i] = "Listen" -> Call("listen", i)
         [] Kind[i] \in {"Inverter", "ForceSuccess", "Include"} -> ChildCalls(i)

Body(t, i) == /\ Entered(t, i)
              /\ Continue(t, BodyCalls(i))
              /\ UNCHANGED <<root, status, haltReq, wrapper, count, selected, future, halted>>

(* A leaf may return anything it can; one that blocks may also stay. *)
Work(t, i) ==
  /\ Due(t, "work", i)
  /\ \E s \in ExecutionStatus \ {"NOT_STARTED"} : Return(t, i, s)
  /\ UNCHANGED <<root, haltReq, wrapper, count, selected, future, halted>>

(* The end of ExecuteSingleImpl: the parent takes the status it computes. *)
SetStatus(t, i) ==
  /\ Due(t, "return", i)
  /\ Return(t, i, ImplStatus(i))
  /\ count' = IF Kind[i] \in Counting THEN [count EXCEPT ![i] = Counted(i)] ELSE count
  /\ UNCHANGED <<root, haltReq, wrapper, selected, future, halted>>

(* For: the variable holds no array, or the element cannot be written. *)
ElementFails(t, i) ==
  /\ Entered(t, i) /\ Kind[i] = "For" /\ MaxCount[i] # 0
  /\ Return(t, i, "FAILURE")
  /\ UNCHANGED <<root, haltReq, wrapper, count, selected, future, halted>>

\* Faulty variant: only the children before c are reset.
ReactBefore(t, c) ==
  LET p == Parent[c]
      at == CHOOSE k \in DOMAIN Children[p] : Children[p][k] = c
  IN /\ Due(t, "react", c)
     /\ Continue(t, IF status[c] = "RUNNING"
                    THEN ForEach("reset", SubSeq(Children[p], 1, at - 1)) \o Call("running", p)
                    ELSE Call("return", p))
     /\ UNCHANGED <<root, status, haltReq, wrapper, count, selected, future, halted>>

ResetOtherChildren(p, c) ==
  LET s == Children[p]
      at == CHOOSE k \in DOMAIN s : s[k] = c
  IN ForEach("reset", SubSeq(s, 1, at - 1) \o SubSeq(s, at + 1, Len(s)))

(* Reactive compounds, after the tick of child c *)
React(t, c) ==
  LET p == Parent[c]
  IN /\ Due(t, "react", c)
     /\ Continue(t, IF status[c] = "RUNNING"
                    THEN ResetOtherChildren(p, c) \o Call("running", p)
                    ELSE Call("return", p))
     /\ UNCHANGED <<root, status, haltReq, wrapper, count, selected, future, halted>>

ReturnRunning(t, i) ==
  /\ Due(t, "running", i)
  /\ Return(t, i, "RUNNING")
  /\ UNCHANGED <<root, haltReq, wrapper, count, selected, future, halted>>

(* Listen::ExecuteSingleImpl; whether the cache has changed is up to the
   workspace. *)
ListenHalted(t, i) ==
  /\ Due(t, "listen", i) /\ haltReq[i]
  /\ Return(t, i, "FAILURE")
  /\ UNCHANGED <<root, haltReq, wrapper, count, selected, future, halted>>

Listen(t, i) ==
  LET c == Child(i)
      again == ChildCalls(i)
  IN /\ Due(t, "listen", i) /\ ~haltReq[i]
     /\ \/ status[c] \in {"NOT_FINISHED", "RUNNING"} /\ Continue(t, again)
        \/ /\ status[c] \in {"NOT_STARTED", "SUCCESS", "FAILURE"}
           /\ \E calls \in {again, Call("running", i)} :
                Continue(t, (IF IsFinishedStatus(status[c]) THEN Call("reset", c) ELSE << >>)
                            \o calls)
     /\ UNCHANGED <<root, status, haltReq, wrapper, count, selected, future, halted>>

(* What the selector may give: no list when one of its elements is no index. *)
GetIndexListFromVariable(i) == {s \in Selectors[i] : \A k \in DOMAIN s : s[k] >= 0}

(* Choice::CreateInstructionList, of the children at these indices.  The variable
   may be out of reach, or hold no list or an index that is too large. *)
CreateInstructionList(t, i) ==
  /\ Due(t, "choose", i) /\ Kind[i] = "Choice"
  /\ \/ \E s \in GetIndexListFromVariable(i) :
          /\ \A k \in DOMAIN s : s[k] < Len(Children[i])
          /\ selected' = [selected EXCEPT ![i] = <<[k \in DOMAIN s |-> Children[i][s[k] + 1]]>>]
          /\ Return(t, i, "NOT_FINISHED")
     \/ /\ selected' = [selected EXCEPT ![i] = <<<< >>>>]
        /\ Return(t, i, "FAILURE")
  /\ UNCHANGED <<root, haltReq, wrapper, count, future, halted>>

(* UserChoice::ExecuteSingleImpl *)
AskUser(t, i) ==
  /\ Due(t, "choose", i) /\ Kind[i] = "UserChoice"
  /\ i \in future /\ ~haltReq[i]
  /\ \/ /\ selected[i] = << >>
        /\ \E s \in {"RUNNING", "FAILURE"} : Return(t, i, s)
        /\ UNCHANGED selected
     \/ /\ selected[i] = << >>
        /\ \E c \in ChildSet(i) : selected' = [selected EXCEPT ![i] = <<<<c>>>>]
        /\ Return(t, i, "NOT_FINISHED")
     \/ /\ selected[i] # << >>
        /\ Continue(t, ForEach("exec", selected[i][1]) \o Call("return", i))
        /\ UNCHANGED <<status, selected>>
  /\ UNCHANGED <<root, haltReq, wrapper, count, future, halted>>

NoAnswer(t, i) ==
  /\ Due(t, "choose", i) /\ Kind[i] = "UserChoice"
  /\ i \notin future \/ haltReq[i]
  /\ Return(t, i, "FAILURE")
  /\ UNCHANGED <<root, haltReq, wrapper, count, selected, future, halted>>

-----------------------------------------------------------------------------
(* AsyncWrapper::Tick of child c, if its wrapper needs one, by the thread of *)
(* the parent: only when the child's thread has ended is the wrapper's       *)
(* status brought up to date or, when it is, the child launched.             *)

TickNothing(t, c) ==
  /\ Due(t, "tick", c)
  /\ IsFinishedStatus(wrapper[c]) \/ agenda[c] # << >>
  /\ Continue(t, << >>)
  /\ UNCHANGED <<root, status, haltReq, wrapper, count, selected, future, halted>>

UpdateStatus(t, c) ==
  /\ Due(t, "tick", c) /\ NeedsExecute(wrapper[c]) /\ agenda[c] = << >>
  /\ wrapper[c] # status[c]
  /\ wrapper' = [wrapper EXCEPT ![c] = status[c]]
  /\ Continue(t, << >>)
  /\ UNCHANGED <<root, status, haltReq, count, selected, future, halted>>

LaunchChild(t, c) ==
  /\ Due(t, "tick", c) /\ NeedsExecute(wrapper[c]) /\ agenda[c] = << >>
  /\ wrapper[c] = status[c]
  /\ wrapper' = [wrapper EXCEPT ![c] = "RUNNING"]
  /\ agenda' = [Replace(t, << >>) EXCEPT ![c] = Call("exec", c)]
  /\ UNCHANGED <<root, status, haltReq, count, selected, future, halted>>

(* ParallelSequence: with a verdict, halt the remaining children. *)
Conclude(t, i) ==
  /\ Due(t, "conclude", i)
  /\ Continue(t, (IF IsFinishedStatus(ThresholdVerdict(i)) THEN Call("halt", i) ELSE << >>)
                 \o Call("return", i))
  /\ UNCHANGED <<root, status, haltReq, wrapper, count, selected, future, halted>>

-----------------------------------------------------------------------------
(* Instruction::Halt and Instruction::Reset                                  *)

\* Faulty variant: only the first child is told.
HaltCallsFirst(i) == IF Kind[i] = "UserChoice" THEN Call("drop", i)
                     ELSE ForEach("halt", SubSeq(Children[i], 1, Min2(1, Len(Children[i]))))

(* HaltImpl passes the request on to the children; UserChoice drops its
   future instead. *)
HaltCalls(i) == IF Kind[i] = "UserChoice" THEN Call("drop", i) ELSE ForEach("halt", Children[i])

Halt(t, i) ==
  /\ Due(t, "halt", i)
  /\ haltReq' = [haltReq EXCEPT ![i] = TRUE]
  /\ Continue(t, HaltCalls(i))
  /\ UNCHANGED <<root, status, wrapper, count, selected, future, halted>>

DropFuture(t, i) ==
  /\ Due(t, "drop", i)
  /\ future' = future \ {i}
  /\ Continue(t, << >>)
  /\ UNCHANGED <<root, status, haltReq, wrapper, count, selected, halted>>

\* Faulty variant: threads are joined without being told to stop.
NeverHalts(i) == FALSE

(* ResetHook: instructions with threads halt them and wait for them. *)
HaltsOnReset(i) == CASE Kind[i] = "ParallelSequence" -> status[i] \in {"RUNNING", "NOT_FINISHED"}
                     [] Kind[i] = "Async" -> status[i] = "RUNNING"
                     [] OTHER -> Kind[i] = "UserChoice"

\* Faulty variant: the children are not reset.
ResetCallsOwn(i) ==
  (IF HaltsOnReset(i) THEN Call("halt", i) ELSE << >>)
  \o (IF Kind[i] \in Threaded THEN Call("join", i) ELSE << >>) \o Call("clear", i)

ResetCalls(i) ==
  (IF HaltsOnReset(i) THEN Call("halt", i) ELSE << >>)
  \o (IF Kind[i] \in Threaded THEN Call("join", i) ELSE << >>)
  \o ForEach("reset", Children[i]) \o Call("clear", i)

Reset(t, i) ==
  /\ Due(t, "reset", i)
  /\ selected' = [selected EXCEPT ![i] = << >>]
  /\ Continue(t, ResetCalls(i))
  /\ UNCHANGED <<root, status, haltReq, wrapper, count, future, halted>>

\* Faulty variant: the threads are detached.
Detach(t, i) ==
  /\ Due(t, "join", i)
  /\ wrapper' = [c \in Instructions |-> IF c \in ChildSet(i) THEN "absent" ELSE wrapper[c]]
  /\ Continue(t, << >>)
  /\ UNCHANGED <<root, status, haltReq, count, selected, future, halted>>

Join(t, i) ==
  /\ Due(t, "join", i)
  /\ \A c \in ChildSet(i) : agenda[c] = << >>
  /\ wrapper' = [c \in Instructions |-> IF c \in ChildSet(i) THEN "absent" ELSE wrapper[c]]
  /\ Continue(t, << >>)
  /\ UNCHANGED <<root, status, haltReq, count, selected, future, halted>>

Clear(t, i) ==
  /\ Due(t, "clear", i)
  /\ haltReq' = [haltReq EXCEPT ![i] = FALSE]
  /\ Return(t, i, "NOT_STARTED")
  /\ UNCHANGED <<root, wrapper, count, selected, future, halted>>

-----------------------------------------------------------------------------
(* The job: the loop thread ticks and resets the tree, a client halts it.    *)
(* After a halt the loop thread does not tick before the next reset, and it  *)
(* takes no command while a client's halt walks under the queue's mutex.     *)

Idle(t) == agenda[t] = << >>

BeginTick ==
  /\ Idle(Ticker) /\ ~halted /\ NeedsExecute(status[root])
  /\ agenda' = [agenda EXCEPT ![Ticker] = Call("exec", root)]
  /\ UNCHANGED <<root, status, haltReq, wrapper, count, selected, future, halted>>

BeginReset ==
  /\ Idle(Ticker) /\ Idle(Halter) /\ (halted \/ IsFinishedStatus(status[root]))
  /\ agenda' = [agenda EXCEPT ![Ticker] = Call("reset", root)]
  /\ halted' = FALSE
  /\ UNCHANGED <<root, status, haltReq, wrapper, count, selected, future>>

BeginHalt ==
  /\ Idle(Halter)
  /\ agenda' = [agenda EXCEPT ![Halter] = Call("halt", root)]
  /\ halted' = TRUE
  /\ UNCHANGED <<root, status, haltReq, wrapper, count, selected, future>>

(* The instruction that the next call of a thread is about. *)
Current(t) == IF agenda[t] = << >> THEN {} ELSE {agenda[t][1][2]}

(* What a thread does of its own, but for the work of a leaf. *)
Step(t, i) ==
  \/ Preamble(t, i)     \/ SkipBody(t, i)     \/ Body(t, i)
  \/ SetStatus(t, i)    \/ ElementFails(t, i) \/ React(t, i)
  \/ ReturnRunning(t, i) \/ ListenHalted(t, i) \/ Listen(t, i)
  \/ CreateInstructionList(t, i) \/ AskUser(t, i) \/ NoAnswer(t, i)
  \/ TickNothing(t, i)  \/ UpdateStatus(t, i) \/ LaunchChild(t, i)
  \/ Conclude(t, i)     \/ Halt(t, i)         \/ DropFuture(t, i)
  \/ Reset(t, i)        \/ Join(t, i)         \/ Clear(t, i)

Next == \/ BeginTick \/ BeginReset \/ BeginHalt
        \/ \E t \in Threads : \E i \in Current(t) : Step(t, i) \/ Work(t, i)

Spec == Init /\ [][Next]_vars

(* Threads run on.  A leaf need not return, unless it is told to halt. *)
Fairness ==
  \A t \in Threads :
    /\ WF_vars(\E i \in Current(t) : Step(t, i))
    /\ WF_vars(\E i \in Current(t) : haltReq[i] /\ Work(t, i))

FairSpec == Spec /\ Fairness

-----------------------------------------------------------------------------
(* Properties                                                                *)

(* The instructions a thread is inside of: a reset that waits for its turn
   and the signals a thread sends to others do not count. *)
Owner(call) == IF call[1] = "react" THEN Parent[call[2]] ELSE call[2]

InsideOf(t) ==
  {Owner(agenda[t][k]) : k \in {j \in DOMAIN agenda[t] :
     /\ agenda[t][j][1] \notin {"halt", "drop", "tick"}
     /\ agenda[t][j][1] = "reset" => j = 1}}

AtRest(i) == \A t \in Threads : i \notin InsideOf(t)

AtWork == {i \in Leaf : \E t \in Threads : Due(t, "work", i)}

(* Nothing locks an instruction, and Reset is only for one that nothing executes
   (instruction.h:140-142): no two threads are ever inside the same one. *)
ExclusiveExecution ==
  \A t, u \in Threads : t # u => InsideOf(t) \intersect InsideOf(u) = {}

(* A wrapper that reports anything but RUNNING has no thread, so that it and
   its child can be destroyed or reset (async_wrapper.h:42-47). *)
WrapperKnowsThread == \A c \in Workers : wrapper[c] # "RUNNING" => Idle(c)

(* A procedure that was reset and not halted since starts like a new one: no
   thread, status, halt flag or selection of the earlier run is left, however
   that run ended. *)
ResetTreeIsNew ==
  (status[root] = "NOT_STARTED" /\ Idle(Ticker) /\ ~halted) =>
     \A i \in Subtree[root] :
       /\ status[i] = "NOT_STARTED" /\ ~haltReq[i]
       /\ wrapper[i] = "absent" /\ selected[i] = << >>
       /\ i \in Workers => Idle(i)

(* A finished parent has children that explain its status, also when these
   ran in other threads, were reset in between or were halted. *)
With(S, s) == {c \in S : status[c] = s}

Earned(i) ==
  LET C == ChildSet(i)
      All(S, s) == With(S, s) = S
  IN CASE Kind[i] \in {"Sequence", "ReactiveSequence"} ->
            IF status[i] = "SUCCESS" THEN All(C, "SUCCESS") ELSE With(C, "FAILURE") # {}
       [] Kind[i] \in {"Fallback", "ReactiveFallback"} ->
            IF status[i] = "FAILURE" THEN All(C, "FAILURE") ELSE With(C, "SUCCESS") # {}
       [] Kind[i] = "ParallelSequence" ->
            IF status[i] = "SUCCESS" THEN Cardinality(With(C, "SUCCESS")) >= Enough(i)
            ELSE Cardinality(With(C, "FAILURE")) >= TooMany(i)
       [] Kind[i] = "Choice" ->
            status[i] = "SUCCESS" =>
              \A k \in DOMAIN selected[i][1] : status[selected[i][1][k]] = "SUCCESS"
       [] Kind[i] \in {"Async", "Include"} -> status[Child(i)] = status[i]
       [] Kind[i] = "Inverter" -> status[Child(i)] = Inverted(status[i])
       [] OTHER -> TRUE

(* And the thresholds of a ParallelSequence leave no combination undecided:
   once all wrappers report a verdict it has one itself (coreinstructions.rst:124). *)
AllReported(i) == /\ Kind[i] = "ParallelSequence" /\ status[i] # "NOT_STARTED"
                  /\ \A c \in ChildSet(i) : IsFinishedStatus(wrapper[c])

VerdictIsEarned ==
  \A i \in Subtree[root] : AtRest(i) =>
    /\ IsFinishedStatus(status[i]) => Earned(i)
    /\ AllReported(i) => IsFinishedStatus(status[i])

(* A reactive compound that is RUNNING has one child under way: the earlier
   ones have passed again or were reset, the later ones were reset
   (coreinstructions.rst:154, :215). *)
RunningStandsAlone ==
  \A i \in Subtree[root] :
    (Kind[i] \in Reactive /\ AtRest(i) /\ status[i] = "RUNNING") =>
      LET st(k) == status[Children[i][k]]
          pass == IF Kind[i] = "ReactiveSequence" THEN "SUCCESS" ELSE "FAILURE"
      IN \E k \in DOMAIN Children[i] :
           /\ st(k) = "RUNNING"
           /\ \A j \in DOMAIN Children[i] \ {k} :
                st(j) = "NOT_STARTED" \/ (j < k /\ st(j) = pass)

(* Once a halt of the procedure has returned, a leaf that still blocks its
   thread has been told to stop. *)
HaltReachesLeaves ==
  (halted /\ Idle(Halter)) => \A i \in AtWork : haltReq[i]

(* Once a halt of the procedure has returned, no leaf begins to work. *)
NoWorkAfterHalt == [][(halted /\ Idle(Halter)) => AtWork' \subseteq AtWork]_vars

(* Trees in which every halt is heard: nothing resets a child within a tick or
   keeps the halt to itself (see HaltReachesLeaves). *)
HearsHalts == \A i \in Subtree[root] : Kind[i] \notin Counting \union {"Listen", "UserChoice"}

(* A halted procedure ends its tick, whatever its leaves wait for. *)
HaltEndsTick == (halted /\ HearsHalts) ~> Idle(Ticker)

(* A reset of the procedure ends: every thread it waits for was told to stop. *)
ResetEnds == Due(Ticker, "reset", root) ~> Idle(Ticker)
=============================================================================
