------------------------- MODULE InstructionVerdictProofs -------------------------
(***************************************************************************)
(* Proofs about the statuses in InstructionTree, for any trees and on the  *)
(* invariants of InstructionTreeProofs: a finished parent has children     *)
(* that explain its status, a reactive compound that is RUNNING has one    *)
(* child under way, a Repeat or For runs its child as often as it is told  *)
(* to before it succeeds, and no leaf begins that was not announced.       *)
(***************************************************************************)
EXTENDS InstructionTreeProofs, RunCount, NextInstructions

-----------------------------------------------------------------------------
(* What each kind of call does                                               *)

Workless(calls) == Makes(calls, Operations \ {"work"})

\* What becomes of a call of kind op about i, beyond what Moves says of all of them.
Means(op, i, calls) ==
  /\ op = "exec" => \/ status[i] # "NOT_STARTED" /\ UNCHANGED status
                    \/ status[i] = "NOT_STARTED" /\ status' = [status EXCEPT ![i] = "NOT_FINISHED"]
                    \/ status[i] = "NOT_STARTED" /\ ReadsAttribute(i)
  /\ op = "body" => \/ calls = << >> /\ UNCHANGED status
                    \/ calls = << >> /\ Kind[i] = "For" /\ NeedsExecute(status[i])
                    \/ calls = BodyCalls(i) /\ NeedsExecute(status[i]) /\ UNCHANGED status
  /\ op = "work" => calls = << >>
  /\ op = "return" => calls = << >> /\ status' = [status EXCEPT ![i] = ImplStatus(i)]
  /\ op = "running" => calls = << >> /\ status' = [status EXCEPT ![i] = "RUNNING"]
  /\ op = "react" => /\ UNCHANGED status
                     /\ calls = IF status[i] = "RUNNING"
                                THEN ResetOtherChildren(Parent[i], i) \o Call("running", Parent[i])
                                ELSE Call("return", Parent[i])
  /\ op = "listen" => Kind[i] = "Listen" /\ (calls = << >> \/ (UNCHANGED status /\ Workless(calls)))
  /\ op = "choose" => \/ Kind[i] = "Choice" /\ calls = << >>
                         /\ \E s \in {"NOT_FINISHED", "FAILURE"} : status' = [status EXCEPT ![i] = s]
                      \/ Kind[i] = "UserChoice" /\ (calls = << >> \/ (UNCHANGED status /\ Workless(calls)))
  /\ op = "conclude" => /\ UNCHANGED status
                        /\ \E h \in {Call("halt", i), << >>} : calls = h \o Call("return", i)

\* The same sequence follows only the same.
LEMMA SamePrefix ==
  ASSUME NEW S, NEW p \in Seq(S), NEW q \in Seq(S), NEW s \in Seq(S), p \o s = q \o s
  PROVE  p = q
<1>1. Len(p \o s) = Len(p) + Len(s) /\ Len(q \o s) = Len(q) + Len(s)
  OBVIOUS
<1>2. Len(p) \in Nat /\ Len(q) \in Nat /\ Len(s) \in Nat
  OBVIOUS
<1>3. Len(p) = Len(q)
  BY <1>1, <1>2
<1>4. ASSUME NEW k \in 1 .. Len(p)  PROVE p[k] = q[k]
  <2>1. (p \o s)[k] = p[k]
    OBVIOUS
  <2>2. (q \o s)[k] = q[k]
    BY <1>3
  <2> QED  BY <2>1, <2>2
<1> QED  BY <1>3, <1>4

\* What is due, and what takes its place, is known from the step.
LEMMA SameOperation ==
  ASSUME NEW t, NEW op, NEW i, NEW calls, Moves(t, op, i, calls), NEW o, Due(t, o, i)
  PROVE  op = o
<1>1. agenda[t][1] = <<op, i>> /\ agenda[t][1] = <<o, i>>
  BY DEF Moves, Due
<1>2. <<op, i>>[1] = <<o, i>>[1]
  BY <1>1
<1> QED  BY <1>2

LEMMA SameMove ==
  ASSUME ExclusiveInv, NEW t \in Threads, NEW op, NEW i, NEW calls, Moves(t, op, i, calls),
         NEW o, Due(t, o, i), NEW d \in Seq(AnyCall), Continue(t, d)
  PROVE  op = o /\ calls = d
<1>1. op = o
  BY SameOperation
<1>2. agenda \in [Threads -> Seq(AnyCall)] /\ agenda[t] # << >>
  BY DEF ExclusiveInv, Walks, Due
<1>3. agenda'[t] = d \o Tail(agenda[t])
  BY <1>2 DEF Continue, Replace
<1>4. agenda'[t] = calls \o Tail(agenda[t])
  BY DEF Moves, Takes
<1>5. calls \in Seq(AnyCall)
  BY DEF Moves, Replaces, Fits
<1>6. Tail(agenda[t]) \in Seq(AnyCall)
  BY <1>2
<1>7. calls = d
  BY <1>3, <1>4, <1>5, <1>6, SamePrefix
<1> QED  BY <1>1, <1>7

LEMMA WorklessCalls ==
  /\ Workless(<< >>)
  /\ \A op \in Operations \ {"work"}, x \in Instructions : Workless(Call(op, x)) /\ Call(op, x) \in Seq(AnyCall)
  /\ \A op \in Operations \ {"work"}, s \in Seq(Instructions) : Workless(ForEach(op, s)) /\ ForEach(op, s) \in Seq(AnyCall)
  /\ \A p, q \in Seq(AnyCall) : Workless(p) /\ Workless(q) => Workless(p \o q) /\ p \o q \in Seq(AnyCall)
<1>1. ASSUME NEW op \in Operations \ {"work"}, NEW x \in Instructions
      PROVE  Workless(Call(op, x)) /\ Call(op, x) \in Seq(AnyCall)
  BY MakesCalls, SeqsOfCalls DEF Workless
<1>2. ASSUME NEW op \in Operations \ {"work"}, NEW s \in Seq(Instructions)
      PROVE  Workless(ForEach(op, s)) /\ ForEach(op, s) \in Seq(AnyCall)
  BY MakesEach, SeqsOfCalls DEF Workless
<1>3. ASSUME NEW p \in Seq(AnyCall), NEW q \in Seq(AnyCall), Workless(p), Workless(q)
      PROVE  Workless(p \o q) /\ p \o q \in Seq(AnyCall)
  BY <1>3, MakesBoth DEF Workless
<1>4. Workless(<< >>)
  BY MakesCalls DEF Workless
<1> QED  BY <1>1, <1>2, <1>3, <1>4

LEMMA ChildWorkless ==
  ASSUME NEW i \in Instructions, i \notin Leaf
  PROVE  /\ Workless(ChildCalls(i)) /\ ChildCalls(i) \in Seq(AnyCall)
         /\ Workless(Call("reset", Child(i)) \o ChildCalls(i)) /\ Call("reset", Child(i)) \o ChildCalls(i) \in Seq(AnyCall)
<1>1. Child(i) \in Instructions
  BY ChildIsChild
<1>2. {"exec", "return", "reset"} \subseteq Operations \ {"work"}
  BY DEF Operations
<1>3. /\ Workless(Call("exec", Child(i))) /\ Call("exec", Child(i)) \in Seq(AnyCall)
      /\ Workless(Call("return", i)) /\ Call("return", i) \in Seq(AnyCall)
      /\ Workless(Call("reset", Child(i))) /\ Call("reset", Child(i)) \in Seq(AnyCall)
  BY <1>1, <1>2, WorklessCalls
<1>4. Workless(ChildCalls(i)) /\ ChildCalls(i) \in Seq(AnyCall)
  BY <1>3, WorklessCalls DEF ChildCalls
<1> QED  BY <1>3, <1>4, WorklessCalls

LEMMA SequentialWorkless ==
  ASSUME NEW i \in Instructions, NEW s \in Seq(Instructions)
  PROVE  Workless(SequentialCalls(i, s))
<1>1. FirstUnfinished(s) \in Seq(Instructions)
  <2>1. << >> \in Seq(Instructions) /\ \A c \in Instructions : <<c>> \in Seq(Instructions)
    OBVIOUS
  <2> QED  BY <2>1, FirstUnfinishedIsOne
<1>2. {"exec", "return"} \subseteq Operations \ {"work"}
  BY DEF Operations
<1>3. /\ Workless(ForEach("exec", FirstUnfinished(s))) /\ ForEach("exec", FirstUnfinished(s)) \in Seq(AnyCall)
      /\ Workless(Call("return", i)) /\ Call("return", i) \in Seq(AnyCall)
  BY <1>1, <1>2, WorklessCalls
<1> QED  BY <1>3, WorklessCalls DEF SequentialCalls

\* Each kind of instruction begins with the calls of its own type.
LEMMA BodyByKind ==
  ASSUME NEW i \in Instructions, i \notin Leaf
  PROVE  /\ Kind[i] \in {"Sequence", "Fallback"} => BodyCalls(i) = SequentialCalls(i, Children[i])
         /\ Kind[i] \in Reactive => BodyCalls(i) = ReactiveCalls(i)
         /\ Kind[i] = "Choice" => BodyCalls(i) = ChoiceCalls(i)
         /\ Kind[i] = "UserChoice" => BodyCalls(i) = Call("choose", i)
         /\ Kind[i] = "ParallelSequence" => BodyCalls(i) = ParallelCalls(i)
         /\ Kind[i] = "Async" => BodyCalls(i) = AsyncCalls(i)
         /\ Kind[i] \in Counting => BodyCalls(i) = CountingCalls(i)
         /\ Kind[i] = "Listen" => BodyCalls(i) = Call("listen", i)
         /\ Kind[i] \in {"Inverter", "ForceSuccess", "Include"} => BodyCalls(i) = ChildCalls(i)
<1>1. Kind[i] \in {"Sequence", "Fallback"} => BodyCalls(i) = SequentialCalls(i, Children[i])
  BY DEF BodyCalls, Reactive, Counting
<1>2. Kind[i] \in Reactive => BodyCalls(i) = ReactiveCalls(i)
  BY DEF BodyCalls, Reactive, Counting
<1>3. Kind[i] = "Choice" => BodyCalls(i) = ChoiceCalls(i)
  BY DEF BodyCalls, Reactive, Counting
<1>4. Kind[i] = "UserChoice" => BodyCalls(i) = Call("choose", i)
  BY DEF BodyCalls, Reactive, Counting
<1>5. Kind[i] = "ParallelSequence" => BodyCalls(i) = ParallelCalls(i)
  BY DEF BodyCalls, Reactive, Counting
<1>6. Kind[i] = "Async" => BodyCalls(i) = AsyncCalls(i)
  BY DEF BodyCalls, Reactive, Counting
<1>7. Kind[i] \in Counting => BodyCalls(i) = CountingCalls(i)
  BY DEF BodyCalls, Reactive, Counting
<1>8. Kind[i] = "Listen" => BodyCalls(i) = Call("listen", i)
  BY DEF BodyCalls, Reactive, Counting
<1>9. Kind[i] \in {"Inverter", "ForceSuccess", "Include"} => BodyCalls(i) = ChildCalls(i)
  BY DEF BodyCalls, Reactive, Counting
<1> QED  BY <1>1, <1>2, <1>3, <1>4, <1>5, <1>6, <1>7, <1>8, <1>9

\* Only a leaf works.
LEMMA BodyWorkless ==
  ASSUME Selections, NEW i \in Instructions, i \notin Leaf
  PROVE  Workless(BodyCalls(i))
<1>1. Children[i] \in Seq(Instructions)
  BY ChildrenAreInstructions
<1>2. Child(i) \in Instructions
  BY ChildIsChild
<1>3. {"exec", "return", "reset", "react", "tick", "conclude", "choose", "listen"} \subseteq Operations \ {"work"}
  BY DEF Operations
<1>4. Kind[i] \in Compounds
  BY TreeAssumption
<1>5. CASE Kind[i] \in {"Sequence", "Fallback"}
  BY <1>1, <1>5, SequentialWorkless, BodyByKind
<1>6. CASE Kind[i] \in Reactive
  <2>1. PICK c : c = FirstUnfinished(Children[i])
    OBVIOUS
  <2>2. c \in Seq(Instructions)
    <3>1. << >> \in Seq(Instructions) /\ \A x \in Instructions : <<x>> \in Seq(Instructions)
      OBVIOUS
    <3> QED  BY <1>1, <2>1, <3>1, FirstUnfinishedIsOne
  <2>3. /\ Workless(ForEach("exec", c)) /\ ForEach("exec", c) \in Seq(AnyCall)
        /\ Workless(ForEach("react", c)) /\ ForEach("react", c) \in Seq(AnyCall)
        /\ Workless(Call("return", i))
    BY <1>3, <2>2, WorklessCalls
  <2>4. Workless(ReactiveCalls(i))
    BY <2>1, <2>3, WorklessCalls DEF ReactiveCalls
  <2> QED  BY <1>6, <2>4, BodyByKind
<1>7. CASE Kind[i] = "Choice"
  <2>1. CASE selected[i] = << >>
    BY <1>3, <1>7, <2>1, WorklessCalls, BodyByKind DEF ChoiceCalls
  <2>2. CASE selected[i] # << >>
    <3>1. PICK s \in Seq(ChildSet(i)) : selected[i] = <<s>>
      BY <2>2 DEF Selections
    <3>2. s \in Seq(Instructions) /\ selected[i][1] = s
      BY <3>1, ChildrenAreInstructions
    <3>3. Workless(SequentialCalls(i, selected[i][1]))
      BY <3>2, SequentialWorkless
    <3> QED  BY <1>7, <2>2, <3>3, BodyByKind DEF ChoiceCalls
  <2> QED  BY <2>1, <2>2
<1>8. CASE Kind[i] \in {"UserChoice", "Listen"}
  <2>1. Workless(Call("choose", i)) /\ Workless(Call("listen", i))
    BY <1>3, WorklessCalls
  <2> QED  BY <1>8, <2>1, BodyByKind
<1>9. CASE Kind[i] = "ParallelSequence"
  <2>1. /\ Workless(ForEach("tick", Children[i])) /\ ForEach("tick", Children[i]) \in Seq(AnyCall)
        /\ Workless(Call("conclude", i)) /\ Call("conclude", i) \in Seq(AnyCall)
    BY <1>1, <1>3, WorklessCalls
  <2>2. Workless(ParallelCalls(i))
    BY <2>1, WorklessCalls DEF ParallelCalls
  <2> QED  BY <1>9, <2>2, BodyByKind
<1>10. CASE Kind[i] = "Async"
  <2>1. /\ Workless(Call("tick", Child(i))) /\ Call("tick", Child(i)) \in Seq(AnyCall)
        /\ Workless(Call("return", i)) /\ Call("return", i) \in Seq(AnyCall)
    BY <1>2, <1>3, WorklessCalls
  <2>2. Workless(AsyncCalls(i))
    BY <2>1, WorklessCalls DEF AsyncCalls
  <2> QED  BY <1>10, <2>2, BodyByKind
<1>11. CASE Kind[i] \in Counting
  <2>1. Workless(CountingCalls(i))
    BY <1>3, ChildWorkless, WorklessCalls DEF CountingCalls
  <2> QED  BY <1>11, <2>1, BodyByKind
<1>12. CASE Kind[i] \in {"Inverter", "ForceSuccess", "Include"}
  BY <1>12, ChildWorkless, BodyByKind
<1> QED  BY <1>4, <1>5, <1>6, <1>7, <1>8, <1>9, <1>10, <1>11, <1>12 DEF Compounds, Threaded

\* A call that returns does so in place of the call that was due.
LEMMA MeansReturn ==
  ASSUME ExclusiveInv, NEW t \in Threads, NEW op, NEW i, NEW calls, Moves(t, op, i, calls),
         NEW o, Due(t, o, i), Continue(t, << >>)
  PROVE  op = o /\ calls = << >>
<1>1. << >> \in Seq(AnyCall)
  OBVIOUS
<1> QED  BY <1>1, SameMove

LEMMA StepMeans ==
  ASSUME ExclusiveInv, Answers, NEW t \in Threads, NEW i, Step(t, i) \/ Work(t, i),
         NEW op, NEW calls, Moves(t, op, i, calls)
  PROVE  Means(op, i, calls)
<1>0. Selections /\ i \in Instructions
  BY DueCall DEF ExclusiveInv, Moves
<1>q. \A o \in {"tick", "halt", "drop", "reset", "join", "clear"} : Due(t, o, i) => Means(op, i, calls)
  <2> SUFFICES ASSUME NEW o \in {"tick", "halt", "drop", "reset", "join", "clear"}, Due(t, o, i)
               PROVE  Means(op, i, calls)
    OBVIOUS
  <2>1. op = o
    BY SameOperation
  <2> QED  BY <2>1 DEF Means
<1>1. CASE Preamble(t, i)
  <2>1. op = "exec"
    BY <1>1, SameOperation DEF Preamble
  <2> QED  BY <1>1, <2>1 DEF Preamble, InitHook, Means
<1>2. CASE SkipBody(t, i)
  <2>1. op = "body" /\ calls = << >>
    BY <1>2, MeansReturn DEF SkipBody
  <2> QED  BY <1>2, <2>1 DEF SkipBody, Means
<1>3. CASE Body(t, i)
  <2>1. Due(t, "body", i) /\ Continue(t, BodyCalls(i)) /\ NeedsExecute(status[i]) /\ UNCHANGED status
    BY <1>3 DEF Body, Entered
  <2>2. BodyCalls(i) \in Seq(AnyCall)
    BY <1>0, FitsBody DEF Fits
  <2>3. op = "body" /\ calls = BodyCalls(i)
    BY <2>1, <2>2, SameMove
  <2> QED  BY <2>1, <2>3 DEF Means
<1>4. CASE SetStatus(t, i)
  <2>1. op = "return" /\ calls = << >> /\ status' = [status EXCEPT ![i] = ImplStatus(i)]
    BY <1>4, MeansReturn DEF SetStatus, Return
  <2> QED  BY <2>1 DEF Means
<1>5. CASE ElementFails(t, i)
  <2>1. op = "body" /\ calls = << >> /\ Kind[i] = "For" /\ NeedsExecute(status[i])
    BY <1>5, MeansReturn DEF ElementFails, Entered, Return
  <2> QED  BY <2>1 DEF Means
<1>6. CASE React(t, i)
  <2>1. PICK d : /\ d = IF status[i] = "RUNNING"
                        THEN ResetOtherChildren(Parent[i], i) \o Call("running", Parent[i])
                        ELSE Call("return", Parent[i])
                 /\ Due(t, "react", i) /\ Continue(t, d) /\ UNCHANGED status
    BY <1>6 DEF React
  <2>2. Shaped(<<"react", i>>) /\ Owner(<<"react", i>>) \in Instructions
    BY <2>1, DueCall DEF Signals
  <2>3. Parent[i] \in Instructions /\ Kind[Parent[i]] \in Reactive /\ i \in ChildSet(Parent[i])
    BY <2>2 DEF Owner, Shaped
  <2>4. /\ Fits(Parent[i], FALSE, ResetOtherChildren(Parent[i], i) \o Call("running", Parent[i]))
        /\ Fits(Parent[i], FALSE, Call("return", Parent[i]))
    BY <1>0, <2>3, FitsReact
  <2>5. d \in Seq(AnyCall)
    BY <2>1, <2>4 DEF Fits
  <2>6. op = "react" /\ calls = d
    <3>1. Due(t, "react", i) /\ Continue(t, d)
      BY <2>1
    <3> QED  BY <2>5, <3>1, SameMove
  <2> QED  BY <2>1, <2>6 DEF Means
<1>7. CASE ReturnRunning(t, i)
  <2>1. op = "running" /\ calls = << >> /\ status' = [status EXCEPT ![i] = "RUNNING"]
    BY <1>7, MeansReturn DEF ReturnRunning, Return
  <2> QED  BY <2>1 DEF Means
<1>8. CASE ListenHalted(t, i)
  <2>1. Due(t, "listen", i) /\ Continue(t, << >>)
    BY <1>8 DEF ListenHalted, Return
  <2>2. op = "listen" /\ calls = << >>
    BY <2>1, MeansReturn
  <2>3. Kind[i] = "Listen"
    BY <2>1, DueCall DEF Signals, Shaped
  <2> QED  BY <2>2, <2>3 DEF Means
<1>9. CASE Listen(t, i)
  <2>1. PICK again \in {ChildCalls(i), Call("running", i)} :
          \E d \in {again, Call("reset", Child(i)) \o again, << >> \o again} :
             Due(t, "listen", i) /\ Continue(t, d) /\ UNCHANGED status
    BY <1>9 DEF Listen
  <2>2. Kind[i] = "Listen" /\ i \notin Leaf
    BY <2>1, DueCall DEF Signals, Shaped
  <2>3. {"reset", "running"} \subseteq Operations \ {"work"} /\ Child(i) \in Instructions
    BY <1>0, <2>2, ChildIsChild DEF Operations
  <2>4. /\ Workless(again) /\ again \in Seq(AnyCall)
        /\ Workless(Call("reset", Child(i))) /\ Call("reset", Child(i)) \in Seq(AnyCall)
        /\ Workless(<< >>) /\ << >> \in Seq(AnyCall)
    BY <1>0, <2>1, <2>2, <2>3, ChildWorkless, WorklessCalls
  <2>5. PICK d \in {again, Call("reset", Child(i)) \o again, << >> \o again} :
             Due(t, "listen", i) /\ Continue(t, d) /\ UNCHANGED status
    BY <2>1
  <2>6. Workless(d) /\ d \in Seq(AnyCall)
    BY <2>4, <2>5, WorklessCalls
  <2>7. op = "listen" /\ calls = d
    BY <2>5, <2>6, SameMove
  <2> QED  BY <2>2, <2>5, <2>6, <2>7 DEF Means
<1>10. CASE CreateInstructionList(t, i)
  <2>1. /\ Due(t, "choose", i) /\ Kind[i] = "Choice" /\ Continue(t, << >>)
        /\ \E s \in {"NOT_FINISHED", "FAILURE"} : status' = [status EXCEPT ![i] = s]
    BY <1>10 DEF CreateInstructionList, Return
  <2>2. op = "choose" /\ calls = << >>
    BY <2>1, MeansReturn
  <2> QED  BY <2>1, <2>2 DEF Means
<1>11. CASE AskUser(t, i)
  <2>1. Due(t, "choose", i) /\ Kind[i] = "UserChoice"
    BY <1>11 DEF AskUser
  <2>2. CASE Continue(t, << >>)
    <3>1. op = "choose" /\ calls = << >>
      BY <2>1, <2>2, MeansReturn
    <3> QED  BY <2>1, <3>1 DEF Means
  <2>3. CASE selected[i] # << >> /\ UNCHANGED status
             /\ Continue(t, ForEach("exec", selected[i][1]) \o Call("return", i))
    <3>1. PICK c \in ChildSet(i) : selected[i] = <<<<c>>>>
      BY <1>0, <2>1, <2>3 DEF Answers
    <3>2. PICK u \in Seq(Instructions) : selected[i][1] = u
      <4>1. c \in Instructions
        BY <1>0, ChildrenAreInstructions
      <4>2. <<c>> \in Seq(Instructions) /\ selected[i][1] = <<c>>
        BY <3>1, <4>1
      <4> QED  BY <4>2
    <3>3. {"exec", "return"} \subseteq Operations \ {"work"}
      BY DEF Operations
    <3>4. /\ Workless(ForEach("exec", u)) /\ ForEach("exec", u) \in Seq(AnyCall)
          /\ Workless(Call("return", i)) /\ Call("return", i) \in Seq(AnyCall)
      BY <1>0, <3>3, WorklessCalls
    <3>5. PICK d : d = ForEach("exec", u) \o Call("return", i)
      OBVIOUS
    <3>6. Workless(d) /\ d \in Seq(AnyCall)
      BY <3>4, <3>5, WorklessCalls
    <3>7. op = "choose" /\ calls = d
      BY <2>1, <2>3, <3>2, <3>5, <3>6, SameMove
    <3> QED  BY <2>1, <2>3, <3>6, <3>7 DEF Means
  <2> QED  BY <1>11, <2>2, <2>3 DEF AskUser, Return
<1>12. CASE NoAnswer(t, i)
  <2>1. op = "choose" /\ calls = << >> /\ Kind[i] = "UserChoice"
    BY <1>12, MeansReturn DEF NoAnswer, Return
  <2> QED  BY <2>1 DEF Means
<1>13. CASE TickNothing(t, i) \/ UpdateStatus(t, i) \/ LaunchChild(t, i)
  BY <1>13, <1>q DEF TickNothing, UpdateStatus, LaunchChild
<1>14. CASE Conclude(t, i)
  <2>1. PICK h \in {Call("halt", i), << >>} :
          Due(t, "conclude", i) /\ Continue(t, h \o Call("return", i)) /\ UNCHANGED status
    BY <1>14 DEF Conclude
  <2>2. PICK d : d = h \o Call("return", i)
    OBVIOUS
  <2>3. Fits(i, FALSE, d)
    BY <1>0, <2>2, FitsConclude
  <2>4. op = "conclude" /\ calls = d
    BY <2>1, <2>2, <2>3, SameMove, ZenonT(60) DEF Fits
  <2> QED  BY <2>1, <2>2, <2>4 DEF Means
<1>15. CASE Halt(t, i) \/ DropFuture(t, i) \/ Reset(t, i) \/ Join(t, i) \/ Clear(t, i)
  BY <1>15, <1>q DEF Halt, DropFuture, Reset, Join, Clear
<1>16. CASE Work(t, i)
  <2>1. op = "work" /\ calls = << >>
    BY <1>16, MeansReturn DEF Work, Return
  <2> QED  BY <2>1 DEF Means
<1> QED  BY <1>1, <1>2, <1>3, <1>4, <1>5, <1>6, <1>7, <1>8, <1>9, <1>10, <1>11, <1>12, <1>13, <1>14, <1>15, <1>16 DEF Step
-----------------------------------------------------------------------------
(* Who does something with a child holds its parent                          *)

\* A thread that is about a child, other than what it was started for, has a call
\* of the parent left that ends it.
LEMMA HoldsParent ==
  ASSUME StartInv, NEW t \in Doers, NEW op, NEW i, Due(t, op, i), op \notin Signals,
         NEW x, x = Owner(<<op, i>>), NEW p \in Below(root), x \in ChildSet(p), x # t
  PROVE  /\ p \in Below(Base(t))
         /\ \E m \in 2 .. Len(agenda[t]) : agenda[t][m][1] \in Holding /\ Owner(agenda[t][m]) = p
<1>1. ExclusiveInv
  BY DEF StartInv
<1>2. 1 \in 1 .. Len(agenda[t]) /\ agenda[t][1] = <<op, i>>
  BY <1>1, AtFront
<1>3. ~Quiet(agenda[t][1]) /\ Owner(agenda[t][1]) = x
  BY <1>2 DEF Quiet
<1>4. p \in Below(Base(t))
  BY <1>1, <1>2, <1>3, InParent
<1>5. /\ Held(Base(t), agenda[t]) /\ Len(agenda[t]) \in Nat
      /\ p \in Instructions
  BY <1>1, <1>2, AtCall DEF Proper
<1>6. x \in StrictlyBelow(p)
  BY <1>5, ChildBelow
<1>7. \E m \in 1 + 1 .. Len(agenda[t]) : agenda[t][m][1] \in Holding /\ Owner(agenda[t][m]) = p
  BY <1>2, <1>3, <1>4, <1>5, <1>6 DEF Held
<1> QED  BY <1>4, <1>7

\* Who is started for a child is a thread of the parent.
LEMMA StartedFor ==
  ASSUME StartInv, NEW t \in Doers, ~Idle(t), NEW p \in Below(root), t \in ChildSet(p)
  PROVE  t \in Workers /\ Kind[p] \in Threaded
<1>1. ExclusiveInv /\ Busy /\ root \in Roots
  BY DEF StartInv, ExclusiveInv
<1>2. t \in Instructions
  <2>1. root \in Instructions
    BY <1>1, TreeAssumption
  <2>2. p \in Instructions
    BY <2>1, BelowClosed
  <2> QED  BY <2>2, ChildrenAreInstructions
<1>3. t \in Workers
  BY <1>2, TreeAssumption DEF Doers
<1>4. PICK q \in Below(root) : Kind[q] \in Threaded /\ t \in ChildSet(q)
  BY <1>1, <1>3 DEF Busy
<1>5. p = q
  BY <1>1, <1>4, SameParent
<1> QED  BY <1>3, <1>4, <1>5

\* The status of a child changes by a thread that holds the parent or that the parent
\* started for the child.
LEMMA ChildMarked ==
  ASSUME StartInv, NEW t \in Doers, NEW op, NEW i, NEW calls, Moves(t, op, i, calls),
         NEW p \in Below(root), NEW c \in ChildSet(p), status'[c] # status[c]
  PROVE  /\ i = c /\ c \in Instructions /\ Owner(<<op, i>>) = c
         /\ \/ op = "clear" /\ status'[c] = "NOT_STARTED"
            \/ op \in (UnderWay \ {"react"}) \union {"exec"} /\ status'[c] \in Started
         /\ \/ c = t /\ t \in Workers /\ ~Idle(t) /\ Kind[p] \in Threaded
            \/ /\ c # t /\ p \in Below(Base(t))
               /\ \E m \in 2 .. Len(agenda[t]) : agenda[t][m][1] \in Holding /\ Owner(agenda[t][m]) = p
<1>1. ExclusiveInv /\ Tables /\ Due(t, op, i)
  BY DEF StartInv, Moves
<1>2. i \in Instructions /\ ~Idle(t)
  BY <1>1, AtFront DEF Idle
<1>3. c \in Instructions
  <2>1. root \in Instructions
    BY <1>1, TreeAssumption DEF ExclusiveInv
  <2>2. p \in Instructions
    BY <2>1, BelowClosed
  <2> QED  BY <2>2, ChildrenAreInstructions
<1>4. /\ i = c
      /\ \/ op = "clear" /\ status'[c] = "NOT_STARTED"
         \/ op \in (UnderWay \ {"react"}) \union {"exec"} /\ status'[c] \in Started
  BY <1>1, <1>2, <1>3, Remarked
<1>5. Owner(<<op, i>>) = c /\ op \notin Signals
  BY <1>4 DEF Owner, Signals, UnderWay
<1>6. CASE c = t
  BY <1>2, <1>3, <1>4, <1>5, <1>6, StartedFor
<1>7. CASE c # t
  BY <1>1, <1>3, <1>4, <1>5, <1>7, HoldsParent
<1> QED  BY <1>6, <1>7

-----------------------------------------------------------------------------
(* What is under way is not finished                                         *)

\* An instruction that is being executed has started and has no verdict yet, and only a
\* leaf works.
LiveCall(call) ==
  /\ call[1] \in UnderWay => status[Owner(call)] # "NOT_STARTED"
  /\ call[1] \in UnderWay \ {"body"} => NeedsExecute(status[Owner(call)])
  /\ call[1] = "work" => call[2] \in Leaf

\* A walk that starts at b leaves the children with threads to these.
DetachedCall(b, call) ==
  call[1] \in {"exec"} \union UnderWay =>
    \A p \in Below(b) : Kind[p] \in Threaded => Owner(call) \notin ChildSet(p)

Lively == \A u \in Doers : \A k \in 1 .. Len(agenda[u]) :
            LiveCall(agenda[u][k]) /\ DetachedCall(Base(u), agenda[u][k])

LEMMA OldLive ==
  ASSUME StartInv, NEW t \in Doers, NEW op, NEW i, NEW calls, Moves(t, op, i, calls),
         NEW u \in Doers, NEW k \in 1 .. Len(agenda[u]), u = t => k # 1,
         NEW call, call = agenda[u][k], LiveCall(call)
  PROVE  LiveCall(call)'
<1>1. ExclusiveInv /\ Laid /\ Tables /\ Due(t, op, i)
  BY DEF StartInv, Moves
<1>2. i \in Instructions
  BY <1>1, AtFront
<1>3. PICK p : p = Owner(call)
  OBVIOUS
<1>4. ASSUME call[1] \in UnderWay  PROVE status'[p] = status[p]
  <2>1. p \in Instructions
    BY <1>3, <1>4, KeptUnderWay
  <2>2. op \notin Signals \union {"tick"} => Owner(<<op, i>>) # p
    BY <1>1, <1>3, <1>4, UnderWayAlone
  <2> SUFFICES ASSUME status'[p] # status[p]  PROVE FALSE
    OBVIOUS
  <2>3. i = p /\ op \in {"clear", "exec"} \union (UnderWay \ {"react"})
    BY <1>1, <1>2, <2>1, Remarked
  <2> QED  BY <2>2, <2>3 DEF Owner, Signals, UnderWay
<1>5. p = Owner(call)'
  BY <1>3 DEF Owner, Parent, ChildSet
<1>6. call[1] \in UnderWay =>
        status'[p] # "NOT_STARTED" /\ (call[1] # "body" => NeedsExecute(status'[p]))
  BY <1>3, <1>4 DEF LiveCall
<1>7. call[1] = "work" => call[2] \in Leaf
  BY DEF LiveCall
<1> QED  BY <1>5, <1>6, <1>7 DEF LiveCall

\* A call that takes the place of another and is under way belongs to an instruction
\* that begins, or is under way.
LEMMA NewUnderWay ==
  ASSUME StartInv, NEW t \in Doers, NEW op, NEW i, NEW calls, Moves(t, op, i, calls),
         NEW x, x = Owner(<<op, i>>), NEW k \in 1 .. Len(calls), calls[k][1] \in UnderWay \union {"exec"}
  PROVE  /\ op \in UnderWay \union {"exec"} /\ x \in Below(root) /\ x \in Instructions
         /\ calls[k][1] \in UnderWay => Owner(calls[k]) = x
         /\ calls[k][1] = "exec" => Owner(calls[k]) \in ChildSet(x) /\ Kind[x] \notin Threaded
<1>1. PICK e : e = agenda[t]
  OBVIOUS
<1>2. PICK f : f = agenda'[t]
  OBVIOUS
<1>3. Advances(t, op, i, calls, e, f)
  BY <1>1, <1>2 DEF Advances
<1>4. ~Quiet(calls[k])
  BY DEF UnderWay, Quiet, Signals
<1>5. /\ op \notin Signals \union {"tick", "join", "clear"} /\ x \in Below(root) /\ x \in Instructions
      /\ FitsAt(x, FALSE, calls, k) /\ NeatAt(op, x, calls, k)
  BY <1>3, <1>4, NewCall
<1>6. op # "reset"
  BY <1>4, <1>5 DEF NeatAt, Backward, UnderWay
<1>7. op \in UnderWay \union {"exec"}
  <2>1. <<op, i>> \in AnyCall
    <3>1. ExclusiveInv /\ Due(t, op, i)
      BY DEF StartInv, Moves
    <3>2. 1 \in 1 .. Len(agenda[t]) /\ agenda[t][1] = <<op, i>>
      BY <3>1, AtFront
    <3> QED  BY <3>1, <3>2, AtCall
  <2> QED  BY <1>5, <1>6, <2>1 DEF AnyCall, Operations, Signals, UnderWay
<1>8. calls[k][1] \in UnderWay => Owner(calls[k]) = x
  BY <1>4, <1>5 DEF NeatAt
<1>9. ASSUME calls[k][1] = "exec"  PROVE Owner(calls[k]) \in ChildSet(x) /\ Kind[x] \notin Threaded
  <2>1. Owner(calls[k]) # x
    BY <1>4, <1>5, <1>6, <1>9 DEF NeatAt, UnderWay
  <2> QED  BY <1>5, <1>9, <2>1 DEF FitsAt, Signals
<1> QED  BY <1>5, <1>7, <1>8, <1>9

LEMMA NewLive ==
  ASSUME StartInv, NEW t \in Doers, NEW op, NEW i, NEW calls, Moves(t, op, i, calls), Means(op, i, calls),
         LiveCall(<<op, i>>), NEW k \in 1 .. Len(calls), NEW call, call = calls[k]
  PROVE  LiveCall(call)'
<1>x. PICK x : x = Owner(<<op, i>>)
  OBVIOUS
<1>0. ExclusiveInv /\ Tables /\ Selections /\ Due(t, op, i) /\ calls # << >>
  BY DEF StartInv, ExclusiveInv, Moves
<1>i. i \in Instructions
  BY <1>0, AtFront
<1> SUFFICES ASSUME call[1] \in UnderWay
             PROVE  /\ status'[x] # "NOT_STARTED"
                    /\ call[1] # "body" => NeedsExecute(status'[x])
                    /\ call[1] = "work" => call[2] \in Leaf
  <2>1. call[1] \in UnderWay => Owner(call) = x
    BY <1>x, NewUnderWay
  <2>2. Owner(call)' = Owner(call)
    BY DEF Owner, Parent, ChildSet
  <2>3. "work" \in UnderWay
    BY DEF UnderWay
  <2> QED  BY <2>1, <2>2, <2>3 DEF LiveCall
<1>1. op \in UnderWay \union {"exec"} /\ x \in Instructions /\ Owner(call) = x
  BY <1>x, NewUnderWay
<1>2. CASE op = "exec"
  <2>1. calls = Call("body", i) /\ x = i
    BY <1>x, <1>2 DEF Moves, MakesAlways, Owner
  <2>2. call = <<"body", i>>
    BY <2>1 DEF Call
  <2>3. status'[i] # "NOT_STARTED"
    BY <1>0, <1>2, <1>i, ExecStarts
  <2> QED  BY <2>1, <2>2, <2>3
<1>3. CASE op \in UnderWay
  <2>1. UNCHANGED status /\ (op = "body" => calls = BodyCalls(i) /\ NeedsExecute(status[i]))
    BY <1>0, <1>1, <1>3 DEF Means, UnderWay
  <2>2. status[x] # "NOT_STARTED" /\ (op # "body" => NeedsExecute(status[x]))
    BY <1>3, <1>x DEF LiveCall
  <2>3. op = "body" => x = i
    BY <1>x DEF Owner
  <2>4. ASSUME call[1] = "work"  PROVE call[2] \in Leaf
    <3>1. ~Workless(calls)
      BY <2>4 DEF Workless, Makes
    <3>2. CASE op = "body"
      <4>1. i \in Leaf
        BY <1>0, <1>i, <2>1, <3>1, <3>2, BodyWorkless
      <4>2. call[2] = x
        BY <1>1, <2>4 DEF Owner
      <4> QED  BY <2>3, <3>2, <4>1, <4>2
    <3>3. CASE op = "react"
      <4>1. Shaped(<<"react", i>>) /\ Owner(<<"react", i>>) \in Instructions
        BY <1>0, <3>3, DueCall, ThreadNames DEF Signals
      <4>2. Parent[i] \in Instructions /\ Kind[Parent[i]] \in Reactive /\ i \in ChildSet(Parent[i])
        BY <4>1 DEF Shaped, Owner
      <4>3. BacksOut(<<"react", i>>, calls)
        BY <1>i, <3>3, <4>2, ReactBacksOut DEF Means
      <4> QED  BY <2>4, <4>3 DEF BacksOut, Makes, Entering
    <3>4. CASE op = "conclude"
      <4>1. BacksOut(<<"conclude", i>>, calls)
        BY <1>i, <3>4, OthersBackOut DEF Means
      <4> QED  BY <2>4, <4>1 DEF BacksOut, Makes, Entering
    <3>5. CASE op \in {"work", "return", "running", "listen", "choose"}
      BY <1>0, <3>1, <3>5 DEF Means
    <3> QED  BY <1>3, <3>2, <3>3, <3>4, <3>5 DEF UnderWay
  <2> QED  BY <2>1, <2>2, <2>3, <2>4
<1> QED  BY <1>1, <1>2, <1>3

LEMMA NewDetached ==
  ASSUME StartInv, NEW t \in Doers, NEW op, NEW i, NEW calls, Moves(t, op, i, calls),
         NEW b, b = Base(t), DetachedCall(b, <<op, i>>), NEW k \in 1 .. Len(calls), NEW call, call = calls[k]
  PROVE  DetachedCall(b, call)
<1>x. PICK x : x = Owner(<<op, i>>)
  OBVIOUS
<1> SUFFICES ASSUME call[1] \in {"exec"} \union UnderWay, NEW p \in Below(b), Kind[p] \in Threaded
             PROVE  Owner(call) \notin ChildSet(p)
  BY DEF DetachedCall
<1>0. ExclusiveInv /\ Due(t, op, i)
  BY DEF StartInv, Moves
<1>1. /\ op \in UnderWay \union {"exec"} /\ x \in Below(root) /\ x \in Instructions
      /\ call[1] \in UnderWay => Owner(call) = x
      /\ call[1] = "exec" => Owner(call) \in ChildSet(x) /\ Kind[x] \notin Threaded
  BY <1>x, NewUnderWay
<1>2. x \notin ChildSet(p)
  BY <1>1, <1>x DEF DetachedCall
<1>3. CASE call[1] \in UnderWay
  BY <1>1, <1>2, <1>3
<1>4. CASE call[1] = "exec"
  <2> SUFFICES ASSUME Owner(call) \in ChildSet(p)  PROVE FALSE
    OBVIOUS
  <2>1. 1 \in 1 .. Len(agenda[t])
    BY <1>0, AtFront
  <2>2. p \in Below(root)
    BY <1>0, <2>1, AtCall
  <2>3. x = p
    BY <1>0, <1>1, <1>4, <2>2, SameParent
  <2> QED  BY <1>1, <1>4, <2>3
<1> QED  BY <1>3, <1>4

\* A walk that begins is lively.
LEMMA BeginLively ==
  ASSUME NEW b \in Instructions, NEW op \in {"exec", "reset"}, NEW k \in 1 .. Len(Call(op, b)),
         NEW call, call = Call(op, b)[k]
  PROVE  LiveCall(call)' /\ DetachedCall(b, call)
<1>1. call = <<op, b>>
  BY DEF Call
<1>2. LiveCall(call)'
  BY <1>1 DEF LiveCall, UnderWay
<1>3. ASSUME NEW p \in Below(b)  PROVE Owner(<<op, b>>) \notin ChildSet(p)
  <2>1. p \in Instructions
    BY BelowClosed
  <2>2. b \in ChildSet(p) => p \notin Below(b)
    BY <2>1, ChildBelow
  <2> QED  BY <2>2 DEF Owner
<1>4. DetachedCall(b, call)
  BY <1>1, <1>3 DEF DetachedCall
<1> QED  BY <1>2, <1>4

LEMMA LivelyKept ==
  ASSUME StartInv, Lively, NEW t \in Threads, NEW op, NEW i, NEW calls, Moves(t, op, i, calls), Means(op, i, calls)
  PROVE  Lively'
<1>0. UNCHANGED root /\ Takes(t, op, i, calls)
  BY DEF Moves
<1> SUFFICES ASSUME NEW u \in Doers, NEW k \in 1 .. Len(agenda'[u])
             PROVE  LiveCall(agenda[u][k])' /\ DetachedCall(Base(u), agenda[u][k])'
  BY DEF Lively, Doers, Workers, Wrapped, ChildSet
<1>b. PICK b : b = Base(u) /\ b = Base(u)'
  BY <1>0 DEF Base
<1>c. PICK call : call = agenda'[u][k]
  OBVIOUS
<1> SUFFICES LiveCall(call)' /\ DetachedCall(b, call)
  BY <1>b, <1>c DEF LiveCall, DetachedCall, Owner, Parent, ChildSet, Below, Closed
<1>1. ASSUME t \in Doers, NEW j \in 1 .. Len(agenda[u]), u = t => j # 1, call = agenda[u][j]
      PROVE  LiveCall(call)' /\ DetachedCall(b, call)
  <2>1. LiveCall(call) /\ DetachedCall(b, call)
    BY <1>1, <1>b DEF Lively
  <2> QED  BY <1>1, <2>1, OldLive
<1>2. CASE t = Halter
  <2>1. UNCHANGED status /\ agenda'[u] = agenda[u]
    BY <1>2, HalterQuiet
  <2>2. LiveCall(call) /\ DetachedCall(b, call)
    BY <1>b, <1>c, <2>1 DEF Lively
  <2> QED  BY <2>1, <2>2 DEF LiveCall, Owner, Parent, ChildSet
<1>3. CASE t \in Doers /\ u = t
  <2>1. PICK e : e = agenda[t]
    OBVIOUS
  <2>2. PICK f : f = agenda'[t]
    OBVIOUS
  <2>3. Advances(t, op, i, calls, e, f)
    BY <2>1, <2>2 DEF Advances
  <2>x. PICK x : x = Owner(<<op, i>>)
    OBVIOUS
  <2>4. Spliced(e, calls, f) /\ e[1] = <<op, i>> /\ 1 \in 1 .. Len(e)
    BY <1>3, <2>3, <2>x, Advanced
  <2>5. \/ k \in 1 .. Len(calls) /\ call = calls[k]
        \/ \E j \in 2 .. Len(e) : call = e[j]
    BY <1>3, <1>c, <2>2, <2>4 DEF Spliced
  <2>6. CASE k \in 1 .. Len(calls) /\ call = calls[k]
    <3>1. LiveCall(<<op, i>>) /\ DetachedCall(b, <<op, i>>)
      BY <1>3, <1>b, <2>1, <2>4 DEF Lively
    <3>2. LiveCall(call)'
      BY <1>3, <2>6, <3>1, NewLive
    <3>3. b = Base(t)
      BY <1>3, <1>b
    <3>4. DetachedCall(b, call)
      BY <1>3, <2>6, <3>1, <3>3, NewDetached
    <3> QED  BY <3>2, <3>4
  <2>7. ASSUME NEW j \in 2 .. Len(e), call = e[j]  PROVE LiveCall(call)' /\ DetachedCall(b, call)
    <3>1. j \in 1 .. Len(agenda[u]) /\ j # 1 /\ call = agenda[u][j]
      BY <1>3, <2>1, <2>7
    <3> QED  BY <1>1, <1>3, <3>1
  <2> QED  BY <2>5, <2>6, <2>7
<1>4. CASE t \in Doers /\ u # t
  <2>1. CASE agenda'[u] = agenda[u]
    BY <1>1, <1>4, <1>c, <2>1
  <2>2. CASE agenda'[u] # agenda[u]
    <3>1. u = i /\ agenda'[u] = Call("exec", u) /\ op = "tick"
      BY <1>0, <1>4, <2>2 DEF Takes
    <3>2. i \in Instructions
      <4>1. ExclusiveInv /\ Due(t, op, i)
        BY DEF StartInv, Moves
      <4> QED  BY <1>4, <4>1, AtFront
    <3>3. b = u
      BY <1>b, <3>1, <3>2, TreeAssumption DEF Base
    <3> QED  BY <1>c, <3>1, <3>2, <3>3, BeginLively
  <2> QED  BY <2>1, <2>2
<1> QED  BY <1>2, <1>3, <1>4, ThreadNames
-----------------------------------------------------------------------------
(* What a returned verdict says of the children                              *)

\* The first child that does not pass decides.
LEMMA VerdictMeans ==
  ASSUME status \in [Instructions -> ExecutionStatus], NEW s \in Seq(Instructions),
         NEW pass \in {"SUCCESS", "FAILURE"}, NEW v, v = FirstVerdict(s, pass)
  PROVE  \/ v = pass /\ \A k \in 1 .. Len(s) : status[s[k]] = pass
         \/ \E k \in 1 .. Len(s) :
              /\ status[s[k]] # pass /\ \A j \in 1 .. k - 1 : status[s[j]] = pass
              /\ v # pass
              /\ v = IF ReadyForExecute(status[s[k]]) THEN "NOT_FINISHED" ELSE status[s[k]]
<1> DEFINE open == {k \in DOMAIN s : status[s[k]] # pass}
<1>1. DOMAIN s = 1 .. Len(s) /\ Len(s) \in Nat
  OBVIOUS
<1>2. CASE open = {}
  BY <1>1, <1>2 DEF FirstVerdict
<1>3. CASE open # {}
  <2>1. open \in SUBSET Nat
    BY <1>1
  <2>2. \E k \in open : \A j \in open : k <= j
    <3> HIDE DEF open
    <3> QED  BY <1>3, <2>1, LeastNumber
  <2>3. FirstIn(open) \in open /\ \A j \in open : FirstIn(open) <= j
    <3> HIDE DEF open
    <3> QED  BY <2>2 DEF FirstIn
  <2>4. PICK k : k = FirstIn(open)
    OBVIOUS
  <2>5. k \in 1 .. Len(s) /\ status[s[k]] # pass
    BY <1>1, <2>3, <2>4
  <2>6. ASSUME NEW j \in 1 .. k - 1  PROVE status[s[j]] = pass
    <3>1. j \in 1 .. Len(s) /\ ~(k <= j)
      BY <1>1, <2>5
    <3>2. j \notin open
      BY <2>3, <2>4, <3>1
    <3> QED  BY <1>1, <3>1, <3>2
  <2>7. v = IF ReadyForExecute(status[s[k]]) THEN "NOT_FINISHED" ELSE status[s[k]]
    BY <1>3, <2>4 DEF FirstVerdict
  <2>8. v # pass
    BY <2>5, <2>7
  <2> QED  BY <2>5, <2>6, <2>7, <2>8
<1> QED  BY <1>2, <1>3

\* Each kind of parent returns the status of its own type.
LEMMA StatusByKind ==
  ASSUME NEW i \in Instructions
  PROVE  /\ Kind[i] \in {"Sequence", "ReactiveSequence"} => ImplStatus(i) = FirstVerdict(Children[i], "SUCCESS")
         /\ Kind[i] \in {"Fallback", "ReactiveFallback"} => ImplStatus(i) = FirstVerdict(Children[i], "FAILURE")
         /\ Kind[i] = "Choice" => ImplStatus(i) = FirstVerdict(selected[i][1], "SUCCESS")
         /\ Kind[i] = "ParallelSequence" => ImplStatus(i) = ThresholdVerdict(i)
         /\ Kind[i] = "Async" => ImplStatus(i) = wrapper[Child(i)]
         /\ Kind[i] = "Include" => ImplStatus(i) = status[Child(i)]
         /\ Kind[i] = "Inverter" => ImplStatus(i) = Inverted(status[Child(i)])
<1>1. Kind[i] \in {"Sequence", "ReactiveSequence"} => ImplStatus(i) = FirstVerdict(Children[i], "SUCCESS")
  BY DEF ImplStatus, Counting, SequenceStatus, ReactiveSequenceStatus
<1>2. Kind[i] \in {"Fallback", "ReactiveFallback"} => ImplStatus(i) = FirstVerdict(Children[i], "FAILURE")
  BY DEF ImplStatus, Counting, FallbackStatus, ReactiveFallbackStatus
<1>3. Kind[i] = "Choice" => ImplStatus(i) = FirstVerdict(selected[i][1], "SUCCESS")
  BY DEF ImplStatus, Counting, ChoiceStatus
<1>4. Kind[i] = "ParallelSequence" => ImplStatus(i) = ThresholdVerdict(i)
  BY DEF ImplStatus, Counting
<1>5. Kind[i] = "Async" => ImplStatus(i) = wrapper[Child(i)]
  BY DEF ImplStatus, Counting, AsyncStatus
<1>6. Kind[i] = "Include" => ImplStatus(i) = status[Child(i)]
  BY DEF ImplStatus, Counting, IncludeStatus
<1>7. Kind[i] = "Inverter" => ImplStatus(i) = Inverted(status[Child(i)])
  BY DEF ImplStatus, Counting, InverterStatus
<1> QED  BY <1>1, <1>2, <1>3, <1>4, <1>5, <1>6, <1>7

\* A parent has earned its verdict from what its threads have reported, or a Choice from
\* the children that it has selected.
EarnedBy(i) ==
  CASE Kind[i] = "Async" -> wrapper[Child(i)] = status[i]
    [] Kind[i] = "ParallelSequence" ->
         IF status[i] = "SUCCESS" THEN Reporting(i, "SUCCESS") >= Enough(i)
         ELSE Reporting(i, "FAILURE") >= TooMany(i)
    [] Kind[i] = "Choice" ->
         status[i] = "SUCCESS" =>
           /\ selected[i] # << >>
           /\ \A k \in DOMAIN selected[i][1] : status[selected[i][1][k]] = "SUCCESS"
    [] OTHER -> Earned(i)

\* The same for each kind of parent.
EarnedAs(i) ==
  /\ Kind[i] \in {"Sequence", "ReactiveSequence"} =>
       IF status[i] = "SUCCESS" THEN \A c \in ChildSet(i) : status[c] = "SUCCESS"
       ELSE \E c \in ChildSet(i) : status[c] = "FAILURE"
  /\ Kind[i] \in {"Fallback", "ReactiveFallback"} =>
       IF status[i] = "FAILURE" THEN \A c \in ChildSet(i) : status[c] = "FAILURE"
       ELSE \E c \in ChildSet(i) : status[c] = "SUCCESS"
  /\ Kind[i] = "Async" => wrapper[Child(i)] = status[i]
  /\ Kind[i] = "ParallelSequence" =>
       IF status[i] = "SUCCESS" THEN Reporting(i, "SUCCESS") >= Enough(i)
       ELSE Reporting(i, "FAILURE") >= TooMany(i)
  /\ Kind[i] = "Choice" =>
       (status[i] = "SUCCESS" =>
          /\ selected[i] # << >>
          /\ \A k \in DOMAIN selected[i][1] : status[selected[i][1][k]] = "SUCCESS")
  /\ Kind[i] = "Include" => status[Child(i)] = status[i]
  /\ Kind[i] = "Inverter" => status[Child(i)] = Inverted(status[i])

LEMMA EarnedIsAs ==
  ASSUME NEW i \in Instructions
  PROVE  EarnedBy(i) <=> EarnedAs(i)
<1>1. CASE Kind[i] \in {"Sequence", "ReactiveSequence"}
  <2>1. EarnedBy(i) <=> IF status[i] = "SUCCESS" THEN With(ChildSet(i), "SUCCESS") = ChildSet(i)
                        ELSE With(ChildSet(i), "FAILURE") # {}
    BY <1>1 DEF EarnedBy, Earned
  <2> QED  BY <1>1, <2>1 DEF EarnedAs, With
<1>2. CASE Kind[i] \in {"Fallback", "ReactiveFallback"}
  <2>1. EarnedBy(i) <=> IF status[i] = "FAILURE" THEN With(ChildSet(i), "FAILURE") = ChildSet(i)
                        ELSE With(ChildSet(i), "SUCCESS") # {}
    BY <1>2 DEF EarnedBy, Earned
  <2> QED  BY <1>2, <2>1 DEF EarnedAs, With
<1>3. CASE Kind[i] = "Async"
  BY <1>3 DEF EarnedBy, EarnedAs
<1>4. CASE Kind[i] = "ParallelSequence"
  BY <1>4 DEF EarnedBy, EarnedAs
<1>5. CASE Kind[i] = "Choice"
  BY <1>5 DEF EarnedBy, EarnedAs
<1>6. CASE Kind[i] = "Include"
  BY <1>6 DEF EarnedBy, Earned, EarnedAs
<1>7. CASE Kind[i] = "Inverter"
  BY <1>7 DEF EarnedBy, Earned, EarnedAs
<1>8. CASE Kind[i] \notin {"Sequence", "ReactiveSequence", "Fallback", "ReactiveFallback", "Async",
                           "ParallelSequence", "Choice", "Include", "Inverter"}
  BY <1>8 DEF EarnedBy, Earned, EarnedAs
<1> QED  BY <1>1, <1>2, <1>3, <1>4, <1>5, <1>6, <1>7, <1>8

\* What a parent returns it has earned.
LEMMA ReturnEarns ==
  ASSUME Tables, Selections, NEW i \in Instructions, i \notin Leaf,
         Kind[i] = "Choice" => selected[i] # << >>,
         status' = [status EXCEPT ![i] = ImplStatus(i)], UNCHANGED <<wrapper, selected>>,
         IsFinishedStatus(ImplStatus(i))
  PROVE  EarnedAs(i)'
<1>1. status'[i] = ImplStatus(i) /\ \A c \in ChildSet(i) : c \in Instructions /\ c # i /\ status'[c] = status[c]
  <2>1. status'[i] = ImplStatus(i) /\ \A c \in Instructions \ {i} : status'[c] = status[c]
    BY DEF Tables
  <2>2. \A c \in ChildSet(i) : c \in Instructions /\ c # i
    BY ChildBelow DEF StrictlyBelow
  <2> QED  BY <2>1, <2>2
<1>2. status \in [Instructions -> ExecutionStatus] /\ ImplStatus(i) \in {"SUCCESS", "FAILURE"}
  BY DEF Tables, IsFinishedStatus
<1>3. /\ Children[i] \in Seq(Instructions)
      /\ \A k \in 1 .. Len(Children[i]) : Children[i][k] \in ChildSet(i)
      /\ \A c \in ChildSet(i) : \E k \in 1 .. Len(Children[i]) : c = Children[i][k]
  BY ChildrenAreInstructions DEF ChildSet
<1>c. Child(i) \in ChildSet(i)
  BY ChildIsChild
<1>4. ASSUME NEW pass \in {"SUCCESS", "FAILURE"}, ImplStatus(i) = FirstVerdict(Children[i], pass)
      PROVE  IF status'[i] = pass THEN \A c \in ChildSet(i) : status'[c] = pass
             ELSE \E c \in ChildSet(i) : status'[c] # pass /\ status'[c] = status'[i]
  <2>1. PICK v : v = FirstVerdict(Children[i], pass) /\ v = ImplStatus(i)
    BY <1>4
  <2>2. \/ v = pass /\ \A k \in 1 .. Len(Children[i]) : status[Children[i][k]] = pass
        \/ \E k \in 1 .. Len(Children[i]) :
              /\ status[Children[i][k]] # pass /\ v # pass
              /\ v = IF ReadyForExecute(status[Children[i][k]]) THEN "NOT_FINISHED" ELSE status[Children[i][k]]
    <3>1. PICK s : s = Children[i]
      OBVIOUS
    <3>2. status \in [Instructions -> ExecutionStatus] /\ s \in Seq(Instructions) /\ v = FirstVerdict(s, pass)
      BY <1>2, <1>3, <2>1, <3>1
    <3>3. \/ v = pass /\ \A k \in 1 .. Len(s) : status[s[k]] = pass
          \/ \E k \in 1 .. Len(s) :
                /\ status[s[k]] # pass /\ \A j \in 1 .. k - 1 : status[s[j]] = pass
                /\ v # pass
                /\ v = IF ReadyForExecute(status[s[k]]) THEN "NOT_FINISHED" ELSE status[s[k]]
      BY <3>2, VerdictMeans
    <3> QED  BY <3>1, <3>3
  <2> QED  BY <1>1, <1>2, <1>3, <2>1, <2>2
<1>5. Kind[i] \in {"Sequence", "ReactiveSequence"} =>
        IF status'[i] = "SUCCESS" THEN \A c \in ChildSet(i) : status'[c] = "SUCCESS"
        ELSE \E c \in ChildSet(i) : status'[c] = "FAILURE"
  BY <1>1, <1>2, <1>4, StatusByKind
<1>6. Kind[i] \in {"Fallback", "ReactiveFallback"} =>
        IF status'[i] = "FAILURE" THEN \A c \in ChildSet(i) : status'[c] = "FAILURE"
        ELSE \E c \in ChildSet(i) : status'[c] = "SUCCESS"
  BY <1>1, <1>2, <1>4, StatusByKind
<1>7. Kind[i] = "Async" => wrapper'[Child(i)] = status'[i]
  BY <1>1, StatusByKind
<1>8. Kind[i] = "ParallelSequence" =>
        IF status'[i] = "SUCCESS" THEN Reporting(i, "SUCCESS")' >= Enough(i)
        ELSE Reporting(i, "FAILURE")' >= TooMany(i)
  <2>1. \A s : Reporting(i, s)' = Reporting(i, s)
    BY DEF Reporting
  <2>2. Kind[i] = "ParallelSequence" => status'[i] = ThresholdVerdict(i)
    BY <1>1, StatusByKind
  <2>3. ThresholdVerdict(i) = "SUCCESS" => Reporting(i, "SUCCESS") >= Enough(i)
    BY DEF ThresholdVerdict
  <2>4. ThresholdVerdict(i) = "FAILURE" => Reporting(i, "FAILURE") >= TooMany(i)
    BY DEF ThresholdVerdict
  <2> QED  BY <1>1, <1>2, <2>1, <2>2, <2>3, <2>4
<1>9. Kind[i] = "Choice" =>
       (status'[i] = "SUCCESS" =>
          /\ selected'[i] # << >>
          /\ \A k \in DOMAIN selected'[i][1] : status'[selected'[i][1][k]] = "SUCCESS")
  <2> SUFFICES ASSUME Kind[i] = "Choice", status'[i] = "SUCCESS", NEW k \in DOMAIN selected'[i][1]
               PROVE  status'[selected'[i][1][k]] = "SUCCESS"
    OBVIOUS
  <2>1. PICK s \in Seq(ChildSet(i)) : selected[i] = <<s>>
    BY DEF Selections
  <2>2. s \in Seq(Instructions) /\ selected[i][1] = s /\ DOMAIN s = 1 .. Len(s) /\ s[k] \in ChildSet(i)
    BY <1>1, <2>1
  <2>3. PICK v : v = FirstVerdict(s, "SUCCESS")
    OBVIOUS
  <2>4. v = "SUCCESS"
    BY <1>1, <2>2, <2>3, StatusByKind
  <2>5. \A j \in 1 .. Len(s) : status[s[j]] = "SUCCESS"
    BY <1>2, <2>2, <2>3, <2>4, VerdictMeans
  <2> QED  BY <1>1, <2>2, <2>5
<1>10. Kind[i] = "Include" => status'[Child(i)] = status'[i]
  BY <1>1, <1>c, StatusByKind
<1>11. Kind[i] = "Inverter" => status'[Child(i)] = Inverted(status'[i])
  <2>1. status[Child(i)] \in ExecutionStatus
    BY <1>1, <1>2, <1>c
  <2>2. Inverted(status[Child(i)]) \in {"SUCCESS", "FAILURE"} => status[Child(i)] = Inverted(Inverted(status[Child(i)]))
    BY <2>1 DEF Inverted, ExecutionStatus
  <2> QED  BY <1>1, <1>2, <1>c, <2>2, StatusByKind
<1> QED  BY <1>5, <1>6, <1>7, <1>8, <1>9, <1>10, <1>11 DEF EarnedAs, Child, ChildSet, Enough, TooMany

\* As long as the parent, what it looks at and what it has selected stay, so does this.
LEMMA EarnedKept ==
  ASSUME Selections, NEW i \in Instructions, i \notin Leaf, EarnedAs(i),
         status'[i] = status[i], selected'[i] = selected[i],
         Kind[i] \in Threaded => \A c \in ChildSet(i) : wrapper'[c] = wrapper[c],
         Kind[i] \notin Threaded => \A c \in ChildSet(i) : status'[c] = status[c]
  PROVE  EarnedAs(i)'
<1>c. Child(i) \in ChildSet(i)
  BY ChildIsChild
<1>1. Kind[i] = "ParallelSequence" => \A s : Reporting(i, s)' = Reporting(i, s)
  BY DEF Reporting, Threaded, ChildSet
<1>2. ASSUME Kind[i] = "Choice", status[i] = "SUCCESS", NEW k \in DOMAIN selected[i][1]
      PROVE  status'[selected[i][1][k]] = "SUCCESS"
  <2>1. selected[i] # << >> /\ status[selected[i][1][k]] = "SUCCESS"
    BY <1>2 DEF EarnedAs
  <2>2. PICK s \in Seq(ChildSet(i)) : selected[i] = <<s>>
    BY <2>1 DEF Selections
  <2>3. selected[i][1][k] \in ChildSet(i)
    BY <1>2, <2>2
  <2> QED  BY <1>2, <2>1, <2>3 DEF Threaded
<1>3. Kind[i] = "Choice" =>
       (status'[i] = "SUCCESS" =>
          /\ selected'[i] # << >>
          /\ \A k \in DOMAIN selected'[i][1] : status'[selected'[i][1][k]] = "SUCCESS")
  BY <1>2 DEF EarnedAs
<1>4. Kind[i] = "ParallelSequence" =>
        IF status'[i] = "SUCCESS" THEN Reporting(i, "SUCCESS")' >= Enough(i)
        ELSE Reporting(i, "FAILURE")' >= TooMany(i)
  BY <1>1 DEF EarnedAs
<1>5. /\ Kind[i] \in {"Sequence", "ReactiveSequence"} =>
           IF status'[i] = "SUCCESS" THEN \A c \in ChildSet(i) : status'[c] = "SUCCESS"
           ELSE \E c \in ChildSet(i) : status'[c] = "FAILURE"
      /\ Kind[i] \in {"Fallback", "ReactiveFallback"} =>
           IF status'[i] = "FAILURE" THEN \A c \in ChildSet(i) : status'[c] = "FAILURE"
           ELSE \E c \in ChildSet(i) : status'[c] = "SUCCESS"
  BY DEF EarnedAs, Threaded
<1>6. /\ Kind[i] = "Async" => wrapper'[Child(i)] = status'[i]
      /\ Kind[i] = "Include" => status'[Child(i)] = status'[i]
      /\ Kind[i] = "Inverter" => status'[Child(i)] = Inverted(status'[i])
  BY <1>c DEF EarnedAs, Threaded
<1> QED  BY <1>3, <1>4, <1>5, <1>6 DEF EarnedAs, Child, ChildSet, Enough, TooMany
-----------------------------------------------------------------------------
(* What is still to be done                                                  *)

Awaits(call) == \E u \in Doers : \E k \in 1 .. Len(agenda[u]) : agenda[u][k] = call

\* An instruction that is going to be cleared, and one that is going to have a new status.
Clearing(i) == Awaits(<<"clear", i>>)
Concluding(i) == Clearing(i) \/ Awaits(<<"return", i>>) \/ Awaits(<<"conclude", i>>)

\* A call waits until it is made.
LEMMA AwaitedStays ==
  ASSUME StartInv, NEW t \in Threads, NEW op, NEW i, NEW calls, Moves(t, op, i, calls),
         NEW call, Awaits(call), call # <<op, i>>
  PROVE  Awaits(call)'
<1>0. PICK u \in Doers : \E k \in 1 .. Len(agenda[u]) : agenda[u][k] = call
  BY DEF Awaits
<1>1. PICK k \in 1 .. Len(agenda[u]) : agenda[u][k] = call
  BY <1>0
<1>2. u = t => k # 1
  BY <1>1 DEF Moves, Due
<1>3. PICK m \in 1 .. Len(agenda'[u]) : agenda'[u][m] = agenda[u][k]
  BY <1>2, StillThere
<1> QED  BY <1>1, <1>3 DEF Awaits, Doers, Workers, Wrapped, ChildSet

LEMMA LaterAwaited ==
  ASSUME StartInv, NEW t \in Doers, NEW op, NEW i, NEW calls, Moves(t, op, i, calls),
         NEW m \in 2 .. Len(agenda[t]), NEW call, call = agenda[t][m]
  PROVE  Awaits(call)'
<1>1. t \in Threads
  BY ThreadNames
<1>2. Len(agenda[t]) \in Nat
  <2>1. ExclusiveInv /\ Due(t, op, i)
    BY DEF StartInv, Moves
  <2>2. 1 \in 1 .. Len(agenda[t])
    BY <2>1, AtFront
  <2> QED  BY <2>1, <2>2, AtCall
<1>3. m \in 1 .. Len(agenda[t]) /\ m # 1
  BY <1>2
<1>4. PICK l \in 1 .. Len(agenda'[t]) : agenda'[t][l] = agenda[t][m]
  BY <1>1, <1>3, StillThere
<1> QED  BY <1>4 DEF Awaits, Doers, Workers, Wrapped, ChildSet

LEMMA NewAwaited ==
  ASSUME StartInv, NEW t \in Doers, NEW op, NEW i, NEW calls, Moves(t, op, i, calls),
         NEW k \in 1 .. Len(calls), NEW call, call = calls[k]
  PROVE  Awaits(call)'
<1>1. PICK e : e = agenda[t]
  OBVIOUS
<1>2. PICK f : f = agenda'[t]
  OBVIOUS
<1>x. PICK x : x = Owner(<<op, i>>)
  OBVIOUS
<1>3. Advances(t, op, i, calls, e, f)
  BY <1>1, <1>2 DEF Advances
<1>4. Spliced(e, calls, f)
  BY <1>3, <1>x, Advanced
<1>5. k \in 1 .. Len(f) /\ f[k] = call
  BY <1>4 DEF Spliced
<1> QED  BY <1>2, <1>5 DEF Awaits, Doers, Workers, Wrapped, ChildSet

\* Nothing is under way about an instruction that is finished and not being reset.
LEMMA FinishedFree ==
  ASSUME StartInv, Lively, NEW z, IsFinishedStatus(status[z]), ~Clearing(z),
         NEW u \in Doers, NEW k \in 1 .. Len(agenda[u]), Owner(agenda[u][k]) = z
  PROVE  agenda[u][k][1] \notin Holding \union (UnderWay \ {"body"})
<1>1. agenda[u][k] \in AnyCall
  BY AtCall DEF StartInv
<1>2. PICK call : call = agenda[u][k]
  OBVIOUS
<1>3. call \in AnyCall /\ LiveCall(call) /\ Owner(call) = z
  BY <1>1, <1>2 DEF Lively
<1>4. ~NeedsExecute(status[z])
  BY DEF IsFinishedStatus, NeedsExecute
<1>5. call[1] \notin UnderWay \ {"body"}
  BY <1>3, <1>4 DEF LiveCall
<1>6. call[1] # "clear"
  <2> SUFFICES ASSUME call[1] = "clear"  PROVE FALSE
    OBVIOUS
  <2>1. call = <<"clear", z>>
    BY <1>3 DEF AnyCall, Owner
  <2> QED  BY <1>2, <2>1 DEF Clearing, Awaits
<1> QED  BY <1>2, <1>5, <1>6 DEF Holding, UnderWay

-----------------------------------------------------------------------------
(* What a finished instruction has taken its verdict from stays              *)

\* The wrappers of an instruction change by its own preamble, by a reset that clears it
\* after that, or while it is going to conclude.
WrapperMoves(t, op, i, p, c) ==
  \/ op = "exec" /\ i = p /\ status[p] = "NOT_STARTED" /\ wrapper'[c] = "NOT_STARTED"
  \/ /\ op = "join" /\ i = p /\ wrapper'[c] = "absent"
     /\ \E m \in 2 .. Len(agenda[t]) : agenda[t][m] = <<"clear", p>>
  \/ /\ op = "tick" /\ i = c /\ wrapper'[c] \in {status[c], "RUNNING"}
     /\ \E m \in 2 .. Len(agenda[t]) : agenda[t][m] \in {<<"return", p>>, <<"conclude", p>>}

LEMMA WrapperHeld ==
  ASSUME StartInv, NEW t \in Doers, NEW op, NEW i, NEW calls, Moves(t, op, i, calls),
         NEW p \in Below(root), Kind[p] \in Threaded, NEW c \in ChildSet(p), wrapper'[c] # wrapper[c]
  PROVE  WrapperMoves(t, op, i, p, c)
<1> USE DEF WrapperMoves
<1>1. ExclusiveInv /\ Tables /\ Due(t, op, i) /\ Layout(t, agenda[t])
  BY DEF StartInv, Moves, Laid
<1>2. /\ i \in Instructions /\ 1 \in 1 .. Len(agenda[t]) /\ agenda[t][1] = <<op, i>>
      /\ op \notin Signals => Owner(<<op, i>>) \in Below(root)
  BY <1>1, AtFront
<1>3. /\ root \in Instructions /\ Below(root) \subseteq Instructions /\ Len(agenda[t]) \in Nat
      /\ Held(Base(t), agenda[t]) /\ Below(Base(t)) \subseteq Below(root)
  BY <1>1, <1>2, AtCall DEF Proper
<1>4. c \in Instructions
  BY <1>3, ChildrenAreInstructions
<1>5. \/ op = "exec" /\ status[i] = "NOT_STARTED" /\ c \in Wrapped(i) /\ wrapper'[c] = "NOT_STARTED"
      \/ op = "join" /\ c \in ChildSet(i) /\ wrapper'[c] = "absent"
      \/ op = "tick" /\ i = c /\ wrapper'[c] \in {status[c], "RUNNING"}
  BY <1>1, <1>2, <1>4, Rewrapped
<1>6. CASE op = "exec" /\ status[i] = "NOT_STARTED" /\ c \in Wrapped(i) /\ wrapper'[c] = "NOT_STARTED"
  <2>1. i \in Below(root) /\ c \in ChildSet(i)
    BY <1>2, <1>6 DEF Signals, Owner, Wrapped
  <2>2. i = p
    BY <1>1, <2>1, SameParent
  <2> QED  BY <1>6, <2>2
<1>7. CASE op = "join" /\ c \in ChildSet(i) /\ wrapper'[c] = "absent"
  <2>1. i \in Below(root)
    BY <1>2, <1>7 DEF Signals, Owner
  <2>2. i = p
    BY <1>1, <1>7, <2>1, SameParent
  <2>j. JoinsEnd(agenda[t]) /\ agenda[t][1][1] = "join" /\ agenda[t][1][2] = i
    BY <1>1, <1>2, <1>7 DEF Layout
  <2>3. \E m \in 1 + 1 .. Len(agenda[t]) : agenda[t][m] = <<"clear", i>>
    BY <1>2, <2>j DEF JoinsEnd
  <2> QED  BY <1>7, <2>2, <2>3
<1>8. CASE op = "tick" /\ i = c /\ wrapper'[c] \in {status[c], "RUNNING"}
  <2>1. PICK m \in 1 + 1 .. Len(agenda[t]) : Concludes(agenda[t][m], c)
    BY <1>1, <1>2, <1>8 DEF Layout, TicksEnd
  <2>2. m \in 1 .. Len(agenda[t]) /\ m \in 2 .. Len(agenda[t])
    BY <1>3, <2>1
  <2>3. PICK call : call = agenda[t][m]
    OBVIOUS
  <2>4. call \in AnyCall /\ call[1] \in {"return", "conclude"} /\ c \in ChildSet(call[2])
    BY <1>1, <2>1, <2>2, <2>3, AtCall DEF Concludes
  <2>5. call[2] \in Below(root)
    BY <1>3, <2>2, <2>3, <2>4 DEF Held, Quiet, Signals, Owner
  <2>6. call[2] = p
    BY <1>1, <2>4, <2>5, SameParent
  <2>7. call \in {<<"return", p>>, <<"conclude", p>>}
    BY <2>4, <2>6 DEF AnyCall
  <2> QED  BY <1>8, <2>2, <2>3, <2>7
<1> QED  BY <1>5, <1>6, <1>7, <1>8

\* So nothing of this changes before the instruction is going to be cleared.
LEMMA Settled ==
  ASSUME StartInv, Lively, NEW t \in Doers, NEW op, NEW i, NEW calls, Moves(t, op, i, calls), Means(op, i, calls),
         NEW z \in Below(root), IsFinishedStatus(status[z]), ~Clearing(z), ~Clearing(z)'
  PROVE  /\ status'[z] = status[z] /\ selected'[z] = selected[z]
         /\ Kind[z] \in Threaded => \A c \in ChildSet(z) : wrapper'[c] = wrapper[c]
         /\ Kind[z] \notin Threaded => \A c \in ChildSet(z) : status'[c] = status[c]
<1>1. ExclusiveInv /\ Tables /\ Selections /\ Due(t, op, i)
  BY DEF StartInv, ExclusiveInv, Moves
<1>2. i \in Instructions /\ 1 \in 1 .. Len(agenda[t]) /\ agenda[t][1] = <<op, i>>
  BY <1>1, AtFront
<1>3. Below(root) \subseteq Instructions /\ Len(agenda[t]) \in Nat
  BY <1>1, <1>2, AtCall
<1>f. status[z] # "NOT_STARTED" /\ ~NeedsExecute(status[z])
  BY DEF IsFinishedStatus, NeedsExecute
<1>4. i = z => op \notin {"return", "running", "conclude", "clear", "work", "choose", "listen"}
  <2> SUFFICES ASSUME i = z, op \in {"return", "running", "conclude", "clear", "work", "choose", "listen"}
               PROVE  FALSE
    OBVIOUS
  <2>1. Owner(agenda[t][1]) = z /\ agenda[t][1][1] \in Holding \union (UnderWay \ {"body"})
    BY <1>2 DEF Owner, Holding, UnderWay
  <2> QED  BY <1>2, <2>1, FinishedFree
<1>5. status'[z] = status[z]
  <2> SUFFICES ASSUME status'[z] # status[z]  PROVE FALSE
    OBVIOUS
  <2>1. i = z /\ op \in {"clear", "exec"} \union (UnderWay \ {"react"})
    BY <1>1, <1>2, <1>3, Remarked
  <2>2. op \in {"exec", "body"}
    BY <1>4, <2>1 DEF UnderWay
  <2>3. status' = status
    BY <1>f, <2>1, <2>2 DEF Means
  <2> QED  BY <2>3
<1>6. selected'[z] = selected[z]
  <2> SUFFICES ASSUME selected'[z] # selected[z]  PROVE FALSE
    OBVIOUS
  <2>1. i = z /\ op \in {"reset", "choose"}
    BY <1>1, <1>2, <1>3, Reselected
  <2>2. calls = ResetCalls(z)
    BY <1>4, <2>1 DEF Moves, MakesAlways
  <2>3. z \in Instructions
    BY <1>3
  <2>4. PICK a \in 0 .. 2 : ResetShape(z, calls, a)
    BY <2>2, <2>3, ResetHasShape
  <2>5. PICK n : n = Len(Children[z])
    OBVIOUS
  <2>6. ResetPlaced(z, calls, a, n)
    BY <2>3, <2>4, <2>5, ResetPlaces
  <2>7. PICK k \in 1 .. Len(calls) : calls[k] = <<"clear", z>>
    BY <2>6 DEF ResetPlaced
  <2>8. Awaits(<<"clear", z>>)'
    BY <2>7, NewAwaited
  <2> QED  BY <2>8 DEF Clearing
<1>7. ASSUME Kind[z] \in Threaded, NEW c \in ChildSet(z)  PROVE wrapper'[c] = wrapper[c]
  <2> SUFFICES ASSUME wrapper'[c] # wrapper[c]  PROVE FALSE
    OBVIOUS
  <2>h. \/ status[z] = "NOT_STARTED"
        \/ \E m \in 2 .. Len(agenda[t]) : agenda[t][m] = <<"clear", z>>
        \/ \E m \in 2 .. Len(agenda[t]) : agenda[t][m] \in {<<"return", z>>, <<"conclude", z>>}
    <3>1. WrapperMoves(t, op, i, z, c)
      BY <1>7, WrapperHeld
    <3> QED  BY <3>1 DEF WrapperMoves
  <2>1. \E m \in 2 .. Len(agenda[t]) : agenda[t][m] \in {<<"clear", z>>, <<"return", z>>, <<"conclude", z>>}
    BY <1>f, <2>h
  <2>2. PICK m \in 1 .. Len(agenda[t]) : agenda[t][m] \in {<<"clear", z>>, <<"return", z>>, <<"conclude", z>>}
    BY <1>3, <2>1
  <2>3. Owner(agenda[t][m]) = z /\ agenda[t][m][1] \in Holding \union (UnderWay \ {"body"})
    BY <2>2 DEF Owner, Holding, UnderWay
  <2> QED  BY <2>2, <2>3, FinishedFree
<1>8. ASSUME Kind[z] \notin Threaded, NEW c \in ChildSet(z)  PROVE status'[c] = status[c]
  <2> SUFFICES ASSUME status'[c] # status[c]  PROVE FALSE
    OBVIOUS
  <2>1. \E m \in 2 .. Len(agenda[t]) : agenda[t][m][1] \in Holding /\ Owner(agenda[t][m]) = z
    BY <1>8, ChildMarked
  <2>2. PICK m \in 1 .. Len(agenda[t]) : agenda[t][m][1] \in Holding /\ Owner(agenda[t][m]) = z
    BY <1>3, <2>1
  <2> QED  BY <2>2, FinishedFree
<1> QED  BY <1>5, <1>6, <1>7, <1>8
-----------------------------------------------------------------------------
(* Verdicts are earned                                                       *)

\* A wrapper that reports a verdict reports that of its child.
Reports ==
  \A p \in Below(root) : Kind[p] \in Threaded => \A c \in ChildSet(p) :
    IsFinishedStatus(wrapper[c]) => wrapper[c] = status[c]

\* A finished instruction has earned its verdict, or is going to be cleared.
Deserved == \A z \in Below(root) : IsFinishedStatus(status[z]) => Clearing(z) \/ EarnedAs(z)

\* When all wrappers report a verdict there is one, or is going to be.
Decided == \A z \in Below(root) : AllReported(z) => IsFinishedStatus(status[z]) \/ Concluding(z)

EarnInv == StartInv /\ Lively /\ Reports /\ Deserved /\ Decided

LEMMA ReportsKept ==
  ASSUME EarnInv, NEW t \in Doers, NEW op, NEW i, NEW calls, Moves(t, op, i, calls),
         NEW p \in Below(root), Kind[p] \in Threaded, NEW c \in ChildSet(p), IsFinishedStatus(wrapper'[c])
  PROVE  wrapper'[c] = status'[c]
<1>1. StartInv /\ Lively /\ ExclusiveInv /\ Due(t, op, i)
  BY DEF EarnInv, StartInv, Moves
<1>2. 1 \in 1 .. Len(agenda[t]) /\ agenda[t][1] = <<op, i>>
  BY <1>1, AtFront
<1>3. CASE wrapper'[c] # wrapper[c]
  <2>1. wrapper'[c] \notin {"absent", "NOT_STARTED", "RUNNING"}
    BY DEF IsFinishedStatus
  <2>2. op = "tick" /\ wrapper'[c] = status[c]
    <3>1. \/ op = "exec" /\ wrapper'[c] = "NOT_STARTED"
          \/ op = "join" /\ wrapper'[c] = "absent"
          \/ op = "tick" /\ wrapper'[c] \in {status[c], "RUNNING"}
      <4>1. WrapperMoves(t, op, i, p, c)
        BY <1>1, <1>3, WrapperHeld
      <4> QED  BY <4>1 DEF WrapperMoves
    <3> QED  BY <2>1, <3>1
  <2>3. UNCHANGED status
    BY <2>2 DEF Moves, Effects, Marks, UnderWay
  <2> QED  BY <2>2, <2>3
<1>4. CASE wrapper'[c] = wrapper[c]
  <2>1. wrapper[c] = status[c] /\ wrapper[c] \notin {"absent", "RUNNING"}
    BY <1>4 DEF EarnInv, Reports, IsFinishedStatus
  <2> SUFFICES ASSUME status'[c] # status[c]  PROVE FALSE
    BY <1>4, <2>1
  <2>2. /\ i = c /\ Owner(<<op, i>>) = c
        /\ op \in {"clear", "exec"} \union UnderWay
        /\ \/ c = t /\ t \in Workers /\ ~Idle(t)
           \/ p \in Below(Base(t))
    BY <1>1, ChildMarked
  <2>3. CASE c = t /\ t \in Workers /\ ~Idle(t)
    BY <1>1, <2>1, <2>3 DEF StartInv, WrapperInv, WrapperKnowsThread
  <2>4. CASE p \in Below(Base(t)) /\ op = "clear"
    <3>1. JoinedAt(Base(t), agenda[t], 1)
      BY <1>1, <1>2 DEF StartInv, AllPrepared, Prepared
    <3> QED  BY <1>2, <2>1, <2>2, <2>4, <3>1 DEF JoinedAt
  <2>5. CASE p \in Below(Base(t)) /\ op \in {"exec"} \union UnderWay
    <3>1. DetachedCall(Base(t), <<op, i>>)
      BY <1>1, <1>2 DEF Lively
    <3> QED  BY <2>2, <2>5, <3>1 DEF DetachedCall
  <2> QED  BY <2>2, <2>3, <2>4, <2>5
<1> QED  BY <1>3, <1>4

\* Instructions of other kinds have nothing to show.
LEMMA EarnsNothing ==
  ASSUME NEW z \in Instructions,
         z \in Leaf \/ Kind[z] \notin {"Sequence", "ReactiveSequence", "Fallback", "ReactiveFallback", "Async",
                                      "ParallelSequence", "Choice", "Include", "Inverter"}
  PROVE  EarnedAs(z)'
<1>1. Kind[z] \notin {"Sequence", "ReactiveSequence", "Fallback", "ReactiveFallback", "Async",
                     "ParallelSequence", "Choice", "Include", "Inverter"}
  BY LeafAssumption DEF Compounds, Threaded, Reactive
<1> QED  BY <1>1 DEF EarnedAs

\* A verdict that is new has been earned.
LEMMA NewlyEarned ==
  ASSUME EarnInv, NEW t \in Doers, NEW op, NEW i, NEW calls, Moves(t, op, i, calls), Means(op, i, calls),
         NEW z \in Below(root), status'[z] # status[z], IsFinishedStatus(status'[z])
  PROVE  EarnedAs(z)'
<1>1. StartInv /\ Lively /\ ExclusiveInv /\ Tables /\ Selections /\ Due(t, op, i)
  BY DEF EarnInv, StartInv, ExclusiveInv, Moves
<1>2. /\ i \in Instructions /\ 1 \in 1 .. Len(agenda[t]) /\ agenda[t][1] = <<op, i>>
  BY <1>1, AtFront
<1>3. Below(root) \subseteq Instructions
  BY <1>1, <1>2, AtCall
<1>4. z \in Instructions /\ i = z /\ op \in {"clear", "exec"} \union (UnderWay \ {"react"})
  BY <1>1, <1>2, <1>3, Remarked
<1>5. status'[z] \notin {"NOT_STARTED", "NOT_FINISHED", "RUNNING"}
  BY DEF IsFinishedStatus
<1>s. \A s : status' = [status EXCEPT ![z] = s] => status'[z] = s
  BY <1>1, <1>4 DEF Tables
<1>6. CASE op = "clear"
  <2>1. status' = [status EXCEPT ![i] = "NOT_STARTED"]
    BY <1>6 DEF Moves, Effects, Marks, UnderWay
  <2> QED  BY <1>4, <1>5, <1>s, <2>1
<1>7. CASE op = "exec"
  <2>1. UNCHANGED status \/ status' = [status EXCEPT ![i] = "NOT_FINISHED"] \/ ReadsAttribute(i)
    BY <1>7 DEF Means
  <2>2. ReadsAttribute(z)
    BY <1>4, <1>5, <1>s, <2>1
  <2>3. z \in Leaf \/ Kind[z] \in {"Repeat", "For", "Listen", "UserChoice"}
    BY <2>2 DEF ReadsAttribute, Counting
  <2> QED  BY <1>4, <2>3, EarnsNothing
<1>8. CASE op = "return"
  <2>1. status' = [status EXCEPT ![z] = ImplStatus(z)]
    BY <1>4, <1>8 DEF Means
  <2>2. status'[z] = ImplStatus(z)
    BY <1>s, <2>1
  <2>3. UNCHANGED <<wrapper, selected>>
    BY <1>8 DEF Moves, Effects, Wraps, Selects
  <2>4. ChosenFor(agenda[t][1]) /\ OfParent(agenda[t][1])
    BY <1>1, <1>2 DEF StartInv, AllPrepared, Prepared, Laid, Layout, OfParents
  <2>5. z \notin Leaf /\ (Kind[z] = "Choice" => selected[z] # << >>)
    BY <1>2, <1>4, <1>8, <2>4 DEF ChosenFor, OfParent
  <2> QED  BY <1>1, <1>4, <2>1, <2>2, <2>3, <2>5, ReturnEarns
<1>9. CASE op = "body"
  <2>1. UNCHANGED status \/ Kind[z] = "For"
    BY <1>4, <1>9 DEF Means
  <2> QED  BY <1>4, <2>1, EarnsNothing
<1>10. CASE op = "work"
  <2>1. LiveCall(<<op, i>>)
    BY <1>1, <1>2 DEF Lively
  <2>2. z \in Leaf
    BY <1>4, <1>10, <2>1 DEF LiveCall
  <2> QED  BY <1>4, <2>2, EarnsNothing
<1>11. CASE op = "choose"
  <2>1. \/ Kind[z] = "Choice" /\ \E s \in {"NOT_FINISHED", "FAILURE"} : status' = [status EXCEPT ![z] = s]
        \/ Kind[z] = "UserChoice"
    BY <1>4, <1>11 DEF Means
  <2>2. CASE Kind[z] = "UserChoice"
    BY <1>4, <2>2, EarnsNothing
  <2>3. CASE Kind[z] = "Choice" /\ status'[z] # "SUCCESS"
    BY <2>3 DEF EarnedAs
  <2> QED  BY <1>s, <2>1, <2>2, <2>3
<1>12. CASE op = "listen"
  <2>1. Kind[z] = "Listen"
    BY <1>4, <1>12 DEF Means
  <2> QED  BY <1>4, <2>1, EarnsNothing
<1>13. CASE op = "running"
  <2>1. status' = [status EXCEPT ![z] = "RUNNING"]
    BY <1>4, <1>13 DEF Means
  <2> QED  BY <1>5, <1>s, <2>1
<1>14. CASE op = "conclude"
  BY <1>14 DEF Means
<1> QED  BY <1>4, <1>6, <1>7, <1>8, <1>9, <1>10, <1>11, <1>12, <1>13, <1>14 DEF UnderWay

LEMMA DeservedKept ==
  ASSUME EarnInv, NEW t \in Doers, NEW op, NEW i, NEW calls, Moves(t, op, i, calls), Means(op, i, calls),
         NEW z \in Below(root), IsFinishedStatus(status'[z])
  PROVE  Clearing(z)' \/ EarnedAs(z)'
<1>1. StartInv /\ Lively /\ ExclusiveInv /\ Tables /\ Selections /\ Due(t, op, i) /\ t \in Threads
  BY ThreadNames DEF EarnInv, StartInv, ExclusiveInv, Moves
<1>2. /\ i \in Instructions /\ 1 \in 1 .. Len(agenda[t]) /\ agenda[t][1] = <<op, i>>
  BY <1>1, AtFront
<1>3. z \in Instructions
  BY <1>1, <1>2, AtCall
<1>4. CASE status'[z] # status[z]
  BY <1>4, NewlyEarned
<1>5. CASE status'[z] = status[z] /\ Clearing(z)
  <2>1. CASE <<"clear", z>> # <<op, i>>
    <3>1. Awaits(<<"clear", z>>)
      BY <1>5 DEF Clearing
    <3>2. Awaits(<<"clear", z>>)'
      BY <1>1, <2>1, <3>1, AwaitedStays
    <3> QED  BY <3>2 DEF Clearing
  <2>2. CASE <<"clear", z>> = <<op, i>>
    <3>1. op = "clear" /\ i = z
      BY <2>2
    <3>2. status' = [status EXCEPT ![z] = "NOT_STARTED"]
      BY <3>1 DEF Moves, Effects, Marks, UnderWay
    <3>3. status'[z] = "NOT_STARTED"
      BY <1>1, <1>3, <3>2 DEF Tables
    <3> QED  BY <3>3 DEF IsFinishedStatus
  <2> QED  BY <2>1, <2>2
<1>6. CASE status'[z] = status[z] /\ ~Clearing(z)
  <2>1. EarnedAs(z) /\ IsFinishedStatus(status[z])
    BY <1>6 DEF EarnInv, Deserved
  <2>2. CASE z \in Leaf
    BY <1>3, <2>2, EarnsNothing
  <2>3. CASE z \notin Leaf /\ ~Clearing(z)'
    <3>1. /\ status'[z] = status[z] /\ selected'[z] = selected[z]
          /\ Kind[z] \in Threaded => \A c \in ChildSet(z) : wrapper'[c] = wrapper[c]
          /\ Kind[z] \notin Threaded => \A c \in ChildSet(z) : status'[c] = status[c]
      BY <1>1, <1>6, <2>1, <2>3, Settled
    <3> QED  BY <1>1, <1>3, <2>1, <2>3, <3>1, EarnedKept
  <2> QED  BY <2>2, <2>3
<1> QED  BY <1>4, <1>5, <1>6

LEMMA DecidedKept ==
  ASSUME EarnInv, NEW t \in Doers, NEW op, NEW i, NEW calls, Moves(t, op, i, calls), Means(op, i, calls),
         NEW z \in Below(root), AllReported(z)'
  PROVE  IsFinishedStatus(status'[z]) \/ Concluding(z)'
<1>1. StartInv /\ Lively /\ ExclusiveInv /\ Tables /\ Selections /\ Due(t, op, i) /\ t \in Threads
  BY ThreadNames DEF EarnInv, StartInv, ExclusiveInv, Moves
<1>2. /\ i \in Instructions /\ 1 \in 1 .. Len(agenda[t]) /\ agenda[t][1] = <<op, i>>
  BY <1>1, AtFront
<1>3. z \in Instructions
  BY <1>1, <1>2, AtCall
<1>4. /\ Kind[z] = "ParallelSequence" /\ Kind[z] \in Threaded /\ status'[z] # "NOT_STARTED"
      /\ \A c \in ChildSet(z) : IsFinishedStatus(wrapper'[c])
  BY DEF AllReported, ChildSet, Threaded
<1>s. \A s : status' = [status EXCEPT ![z] = s] => status'[z] = s
  BY <1>1, <1>3 DEF Tables
<1>5. CASE AllReported(z) /\ Concluding(z)
  <2>1. PICK o \in {"clear", "return", "conclude"} : Awaits(<<o, z>>)
    BY <1>5 DEF Concluding, Clearing
  <2>2. CASE <<o, z>> # <<op, i>>
    <3>1. Awaits(<<o, z>>)'
      BY <1>1, <2>1, <2>2, AwaitedStays
    <3> QED  BY <2>1, <3>1 DEF Concluding, Clearing
  <2>3. CASE op = "clear" /\ i = z
    <3>1. status' = [status EXCEPT ![z] = "NOT_STARTED"]
      BY <2>3 DEF Moves, Effects, Marks, UnderWay
    <3> QED  BY <1>4, <1>s, <3>1
  <2>4. CASE op = "return" /\ i = z
    <3>1. status' = [status EXCEPT ![z] = ImplStatus(z)]
      BY <2>4 DEF Means
    <3>2. status'[z] = ThresholdVerdict(z)
      BY <1>3, <1>4, <1>s, <3>1, StatusByKind
    <3>3. IsFinishedStatus(ThresholdVerdict(z))
      <4>1. \A c \in ChildSet(z) : IsFinishedStatus(wrapper[c])
        BY <1>5 DEF AllReported
      <4> QED  BY <1>3, <4>1, AllReportedHasVerdict
    <3> QED  BY <3>2, <3>3
  <2>5. CASE op = "conclude" /\ i = z
    <3>1. PICK h \in {Call("halt", z), << >>} : calls = h \o Call("return", z)
      BY <2>5 DEF Means
    <3>2. \E k \in 1 .. Len(calls) : calls[k] = <<"return", z>>
      <4>1. PICK q : q = Call("return", z)
        OBVIOUS
      <4>2. h \in Seq(AnyCall) /\ q \in Seq(AnyCall)
        <5>1. {"halt", "return"} \subseteq Operations
          BY DEF Operations
        <5> QED  BY <1>3, <3>1, <4>1, <5>1, SeqsOfCalls
      <4>3. Parts(calls, h, q)
        BY <3>1, <4>1, <4>2, BothParts
      <4>4. Len(q) = 1 /\ q[1] = <<"return", z>> /\ Len(h) \in Nat
        BY <4>1, <4>2 DEF Call
      <4>5. Len(h) + 1 \in 1 .. Len(calls) /\ calls[Len(h) + 1] = <<"return", z>>
        BY <4>3, <4>4 DEF Parts
      <4> QED  BY <4>5
    <3>3. PICK k \in 1 .. Len(calls) : calls[k] = <<"return", z>>
      BY <3>2
    <3>4. Awaits(<<"return", z>>)'
      BY <1>1, <3>3, NewAwaited
    <3> QED  BY <3>4 DEF Concluding
  <2> QED  BY <2>1, <2>2, <2>3, <2>4, <2>5
<1>6. CASE AllReported(z) /\ ~Concluding(z)
  <2>1. IsFinishedStatus(status[z]) /\ ~Clearing(z)
    BY <1>6 DEF EarnInv, Decided, Concluding
  <2>2. CASE Clearing(z)'
    BY <2>2 DEF Concluding
  <2>3. CASE ~Clearing(z)'
    <3>1. status'[z] = status[z]
      BY <1>1, <2>1, <2>3, Settled
    <3> QED  BY <2>1, <3>1
  <2> QED  BY <2>2, <2>3
<1>7. CASE status[z] = "NOT_STARTED"
  <2>1. i = z /\ op \in {"clear", "exec"} \union (UnderWay \ {"react"})
    BY <1>1, <1>2, <1>3, <1>4, <1>7, Remarked
  <2>2. op # "clear"
    <3>1. op = "clear" => status' = [status EXCEPT ![z] = "NOT_STARTED"]
      BY <2>1 DEF Moves, Effects, Marks, UnderWay
    <3> QED  BY <1>4, <1>s, <3>1
  <2>3. op \notin UnderWay \ {"react"}
    <3>1. LiveCall(<<op, i>>)
      BY <1>1, <1>2 DEF Lively
    <3> QED  BY <1>7, <2>1, <3>1 DEF LiveCall, Owner
  <2>4. op = "exec"
    BY <2>1, <2>2, <2>3
  <2>5. wrapper' = [c \in Instructions |-> IF c \in Wrapped(z) THEN "NOT_STARTED" ELSE wrapper[c]]
    BY <1>7, <2>1, <2>4 DEF Moves, Effects, Wraps
  <2>6. z \notin Leaf
    BY <1>4, LeafAssumption DEF Compounds, Threaded
  <2>7. Child(z) \in ChildSet(z) /\ Child(z) \in Instructions /\ Child(z) \in Wrapped(z)
    BY <1>3, <1>4, <2>6, ChildIsChild DEF Wrapped
  <2>8. wrapper'[Child(z)] = "NOT_STARTED"
    BY <2>5, <2>7
  <2> QED  BY <1>4, <2>7, <2>8 DEF IsFinishedStatus
<1>8. CASE status[z] # "NOT_STARTED" /\ ~AllReported(z)
  <2>1. PICK c \in ChildSet(z) : ~IsFinishedStatus(wrapper[c])
    BY <1>4, <1>8 DEF AllReported
  <2>2. wrapper'[c] # wrapper[c] /\ wrapper'[c] \notin {"NOT_STARTED", "absent"}
    BY <1>4, <2>1 DEF IsFinishedStatus
  <2>3. \/ wrapper'[c] = "NOT_STARTED"
        \/ wrapper'[c] = "absent"
        \/ \E m \in 2 .. Len(agenda[t]) : agenda[t][m] \in {<<"return", z>>, <<"conclude", z>>}
    <3>1. WrapperMoves(t, op, i, z, c)
      BY <1>1, <1>4, <2>2, WrapperHeld
    <3> QED  BY <3>1 DEF WrapperMoves
  <2>4. PICK m \in 2 .. Len(agenda[t]) : agenda[t][m] \in {<<"return", z>>, <<"conclude", z>>}
    BY <2>2, <2>3
  <2>5. PICK call : call = agenda[t][m]
    OBVIOUS
  <2>6. Awaits(call)'
    BY <1>1, <2>5, LaterAwaited
  <2> QED  BY <2>4, <2>5, <2>6 DEF Concluding
<1> QED  BY <1>5, <1>6, <1>7, <1>8
-----------------------------------------------------------------------------
(* Every step keeps verdicts earned                                          *)

LEMMA EarnMove ==
  ASSUME EarnInv, StartInv', NEW t \in Doers, NEW op, NEW i, NEW calls, Moves(t, op, i, calls), Means(op, i, calls)
  PROVE  EarnInv'
<1>1. StartInv /\ Lively /\ t \in Threads
  BY ThreadNames DEF EarnInv
<1>2. Lively'
  BY <1>1, LivelyKept
<1>3. UNCHANGED root
  BY DEF Moves
<1>4. Reports'
  <2>1. \A p \in Below(root) : Kind[p] \in Threaded => \A c \in ChildSet(p) :
          IsFinishedStatus(wrapper'[c]) => wrapper'[c] = status'[c]
    BY ReportsKept
  <2> QED  BY <1>3, <2>1 DEF Reports, Below, Closed, ChildSet
<1>5. Deserved'
  <2>1. \A z \in Below(root) : IsFinishedStatus(status'[z]) => Clearing(z)' \/ EarnedAs(z)'
    BY DeservedKept
  <2> QED  BY <1>3, <2>1 DEF Deserved, Below, Closed, ChildSet
<1>6. Decided'
  <2>1. \A z \in Below(root) : AllReported(z)' => IsFinishedStatus(status'[z]) \/ Concluding(z)'
    BY DecidedKept
  <2> QED  BY <1>3, <2>1 DEF Decided, Below, Closed, ChildSet
<1> QED  BY <1>2, <1>4, <1>5, <1>6 DEF EarnInv

\* What the client's thread does, and a walk that begins, changes nothing of this.
LEMMA LivelyBegins ==
  ASSUME StartInv, Lively, UNCHANGED <<root, status>>,
         \A u \in Doers : \/ agenda'[u] = agenda[u]
                          \/ /\ agenda[u] = << >>
                             /\ \E op \in {"exec", "reset"} : agenda'[u] = Call(op, root) /\ u = Ticker
  PROVE  Lively'
<1> SUFFICES ASSUME NEW u \in Doers, NEW k \in 1 .. Len(agenda'[u])
             PROVE  LiveCall(agenda[u][k])' /\ DetachedCall(Base(u), agenda[u][k])'
  BY DEF Lively, Doers, Workers, Wrapped, ChildSet
<1>b. PICK b : b = Base(u) /\ b = Base(u)'
  BY DEF Base
<1>c. PICK call : call = agenda'[u][k]
  OBVIOUS
<1> SUFFICES LiveCall(call)' /\ DetachedCall(b, call)
  <2>1. LiveCall(call)' => LiveCall(agenda[u][k])'
    BY <1>c DEF LiveCall, Owner, Parent, ChildSet
  <2>2. DetachedCall(b, call) => DetachedCall(Base(u), agenda[u][k])'
    BY <1>b, <1>c DEF DetachedCall, Owner, Parent, ChildSet, Below, Closed
  <2> QED  BY <2>1, <2>2
<1>1. CASE agenda'[u] = agenda[u]
  <2>1. LiveCall(call) /\ DetachedCall(b, call)
    BY <1>1, <1>b, <1>c DEF Lively
  <2> QED  BY <2>1 DEF LiveCall, Owner, Parent, ChildSet
<1>2. CASE u = Ticker /\ \E op \in {"exec", "reset"} : agenda'[u] = Call(op, root)
  <2>1. b = root /\ root \in Instructions
    BY <1>2, <1>b, TreeAssumption DEF Base, StartInv, ExclusiveInv
  <2>2. PICK op \in {"exec", "reset"} : agenda'[u] = Call(op, b)
    BY <1>2, <2>1
  <2> QED  BY <1>c, <2>1, <2>2, BeginLively
<1> QED  BY <1>1, <1>2

LEMMA EarnBegins ==
  ASSUME EarnInv, StartInv', UNCHANGED <<root, status, wrapper, selected>>,
         \A u \in Doers : \/ agenda'[u] = agenda[u]
                          \/ /\ agenda[u] = << >>
                             /\ \E op \in {"exec", "reset"} : agenda'[u] = Call(op, root) /\ u = Ticker
  PROVE  EarnInv'
<1>1. Lively'
  BY LivelyBegins DEF EarnInv
<1>2. ASSUME NEW call, Awaits(call)  PROVE Awaits(call)'
  <2>1. PICK u \in Doers : \E k \in 1 .. Len(agenda[u]) : agenda[u][k] = call
    BY <1>2 DEF Awaits
  <2>2. agenda[u] # << >>
    <3>1. 1 .. Len(<< >>) = {}
      OBVIOUS
    <3> QED  BY <2>1, <3>1
  <2>3. agenda'[u] = agenda[u]
    BY <2>2
  <2> QED  BY <2>1, <2>3 DEF Awaits, Doers, Workers, Wrapped, ChildSet
<1>3. \A z : (Clearing(z) => Clearing(z)') /\ (Concluding(z) => Concluding(z)')
  BY <1>2 DEF Clearing, Concluding
<1>4. Reports'
  BY DEF EarnInv, Reports, Below, Closed, ChildSet
<1>5. Deserved'
  <2>1. ASSUME NEW z \in Below(root), IsFinishedStatus(status[z])  PROVE Clearing(z)' \/ EarnedAs(z)'
    <3>1. Clearing(z) \/ EarnedAs(z)
      BY <2>1 DEF EarnInv, Deserved
    <3>2. EarnedAs(z) => EarnedAs(z)'
      BY DEF EarnedAs, Reporting, Child, ChildSet, Enough, TooMany
    <3> QED  BY <1>3, <3>1, <3>2
  <2> QED  BY <2>1 DEF Deserved, Below, Closed, ChildSet
<1>6. Decided'
  <2>1. ASSUME NEW z \in Below(root), AllReported(z)'  PROVE IsFinishedStatus(status[z]) \/ Concluding(z)'
    <3>1. AllReported(z)
      BY <2>1 DEF AllReported, ChildSet
    <3> QED  BY <1>3, <3>1 DEF EarnInv, Decided
  <2> QED  BY <2>1 DEF Decided, Below, Closed, ChildSet
<1> QED  BY <1>1, <1>4, <1>5, <1>6 DEF EarnInv

LEMMA EarnInit == Init => EarnInv
<1> SUFFICES ASSUME Init  PROVE EarnInv
  OBVIOUS
<1>1. StartInv
  BY StartInit
<1>2. Below(root) \subseteq Instructions
  <2>1. root \in Instructions
    BY TreeAssumption DEF Init
  <2> QED  BY <2>1, BelowClosed
<1>3. Lively
  <2>1. \A u \in Doers : agenda[u] = << >>
    BY ThreadNames DEF Init
  <2>2. 1 .. Len(<< >>) = {}
    OBVIOUS
  <2> QED  BY <2>1, <2>2 DEF Lively
<1>4. Reports
  <2>1. \A c \in Instructions : ~IsFinishedStatus(wrapper[c])
    BY DEF Init, IsFinishedStatus
  <2>2. \A p \in Below(root) : ChildSet(p) \subseteq Instructions
    BY <1>2, ChildrenAreInstructions
  <2> QED  BY <2>1, <2>2 DEF Reports
<1>5. \A z \in Below(root) : status[z] = "NOT_STARTED"
  BY <1>2 DEF Init
<1>6. Deserved
  BY <1>5 DEF Deserved, IsFinishedStatus
<1>7. Decided
  BY <1>5 DEF Decided, AllReported
<1> QED  BY <1>1, <1>3, <1>4, <1>6, <1>7 DEF EarnInv

LEMMA EarnStep ==
  ASSUME EarnInv, [Next]_vars  PROVE EarnInv'
<1>0. StartInv /\ StartInv' /\ agenda \in [Threads -> Seq(AnyCall)]
  BY StartStep DEF EarnInv, StartInv, ExclusiveInv, Walks
<1>n. /\ Doers \subseteq Threads /\ Ticker \in Doers /\ Halter \notin Doers
      /\ Threads = Doers \union {Halter}
  BY ThreadNames DEF Doers
<1>1. CASE BeginTick
  <2>1. \A u \in Doers : \/ agenda'[u] = agenda[u]
                         \/ agenda[u] = << >> /\ agenda'[u] = Call("exec", root) /\ u = Ticker
    BY <1>0, <1>n, <1>1 DEF BeginTick, Idle
  <2> QED  BY <1>0, <1>1, <2>1, EarnBegins DEF BeginTick
<1>2. CASE BeginReset
  <2>1. \A u \in Doers : \/ agenda'[u] = agenda[u]
                         \/ agenda[u] = << >> /\ agenda'[u] = Call("reset", root) /\ u = Ticker
    BY <1>0, <1>n, <1>2 DEF BeginReset, Idle
  <2> QED  BY <1>0, <1>2, <2>1, EarnBegins DEF BeginReset
<1>3. CASE BeginHalt
  <2>1. \A u \in Doers : agenda'[u] = agenda[u]
    BY <1>0, <1>n, <1>3 DEF BeginHalt
  <2> QED  BY <1>0, <1>3, <2>1, EarnBegins DEF BeginHalt
<1>4. CASE UNCHANGED vars
  BY <1>0, <1>4, EarnBegins DEF vars
<1>5. ASSUME NEW t \in Threads, NEW i, Step(t, i) \/ Work(t, i)  PROVE EarnInv'
  <2>1. ExclusiveInv /\ Laid /\ Answers /\ Sure
    BY <1>0, InvIsSure DEF StartInv
  <2>2. PICK op, calls : Moves(t, op, i, calls)
    BY <1>5, <2>1, StepMoves
  <2>3. CASE t \in Doers
    <3>1. Means(op, i, calls)
      BY <1>5, <2>1, <2>2, StepMeans
    <3> QED  BY <1>0, <2>2, <2>3, <3>1, EarnMove
  <2>4. CASE t = Halter
    <3>1. Moves(Halter, op, i, calls)
      BY <2>2, <2>4
    <3>2. UNCHANGED <<root, status, wrapper, selected>> /\ \A u \in Doers : agenda'[u] = agenda[u]
      BY <1>0, <3>1, HalterQuiet
    <3> QED  BY <1>0, <3>2, EarnBegins
  <2> QED  BY <1>n, <2>3, <2>4
<1> QED  BY <1>1, <1>2, <1>3, <1>4, <1>5 DEF Next

\* An instruction at rest is not going to be cleared, nor to have a new status.
LEMMA RestAwaitsNothing ==
  ASSUME ExclusiveInv, NEW z, AtRest(z), NEW op \in {"clear", "return", "conclude", "running"}
  PROVE  ~Awaits(<<op, z>>)
<1> SUFFICES ASSUME Awaits(<<op, z>>)  PROVE FALSE
  OBVIOUS
<1>1. PICK u \in Doers : \E k \in 1 .. Len(agenda[u]) : agenda[u][k] = <<op, z>>
  BY DEF Awaits
<1>2. PICK k \in 1 .. Len(agenda[u]) : agenda[u][k] = <<op, z>>
  BY <1>1
<1>3. agenda[u] \in Seq(AnyCall) /\ u \in Threads
  BY ThreadNames DEF ExclusiveInv, Walks
<1>4. k \in DOMAIN agenda[u]
  BY <1>3
<1>5. agenda[u][k][1] = op /\ Owner(agenda[u][k]) = z
  BY <1>2 DEF Owner
<1>6. z \in InsideOf(u)
  BY <1>4, <1>5 DEF InsideOf
<1> QED  BY <1>3, <1>6 DEF AtRest

\* As many children as the wrappers report have that status.
LEMMA ReportsCount ==
  ASSUME Reports, NEW z \in Below(root), z \in Instructions, Kind[z] = "ParallelSequence", NEW s, IsFinishedStatus(s)
  PROVE  /\ Reporting(z, s) <= Cardinality(With(ChildSet(z), s))
         /\ Reporting(z, s) \in Nat /\ Cardinality(With(ChildSet(z), s)) \in Nat
<1>1. IsFiniteSet(ChildSet(z))
  BY ChildCount
<1>2. PICK R : R = {c \in ChildSet(z) : wrapper[c] = s}
  OBVIOUS
<1>3. PICK W : W = With(ChildSet(z), s)
  OBVIOUS
<1>4. R \subseteq W /\ W \subseteq ChildSet(z)
  BY <1>2, <1>3 DEF Reports, Threaded, With
<1>5. /\ IsFiniteSet(W) /\ IsFiniteSet(R) /\ Cardinality(R) <= Cardinality(W)
      /\ Cardinality(R) \in Nat /\ Cardinality(W) \in Nat
  BY <1>1, <1>4, FS_Subset, FS_CardinalityType
<1> QED  BY <1>2, <1>3, <1>5 DEF Reporting

LEMMA InvIsEarned == EarnInv => VerdictIsEarned
<1> SUFFICES ASSUME EarnInv, NEW z \in Subtree[root], AtRest(z)
             PROVE  /\ IsFinishedStatus(status[z]) => Earned(z)
                    /\ AllReported(z) => IsFinishedStatus(status[z])
  BY DEF VerdictIsEarned
<1>1. ExclusiveInv /\ root \in Instructions /\ Reports
  BY TreeAssumption DEF EarnInv, StartInv, ExclusiveInv
<1>2. z \in Below(root) /\ z \in Instructions
  BY <1>1, SubtreeIsBelow, BelowClosed
<1>3. ~Clearing(z) /\ ~Concluding(z)
  BY <1>1, RestAwaitsNothing DEF Clearing, Concluding
<1>4. AllReported(z) => IsFinishedStatus(status[z])
  BY <1>2, <1>3 DEF EarnInv, Decided
<1>5. ASSUME IsFinishedStatus(status[z])  PROVE Earned(z)
  <2>1. EarnedAs(z) /\ EarnedBy(z)
    BY <1>2, <1>3, <1>5, EarnedIsAs DEF EarnInv, Deserved
  <2>2. CASE Kind[z] = "Async"
    <3>1. wrapper[Child(z)] = status[z]
      BY <2>1, <2>2 DEF EarnedAs
    <3>2. z \notin Leaf
      BY <2>2, LeafAssumption DEF Compounds, Threaded
    <3>3. Child(z) \in ChildSet(z)
      BY <1>2, <3>2, ChildIsChild
    <3>4. status[Child(z)] = status[z]
      BY <1>1, <1>2, <1>5, <2>2, <3>1, <3>3 DEF Reports, Threaded
    <3> QED  BY <2>2, <3>4 DEF Earned
  <2>3. CASE Kind[z] = "ParallelSequence"
    <3>1. IF status[z] = "SUCCESS" THEN Reporting(z, "SUCCESS") >= Enough(z)
          ELSE Reporting(z, "FAILURE") >= TooMany(z)
      BY <2>1, <2>3 DEF EarnedAs
    <3>2. IsFinishedStatus("SUCCESS") /\ IsFinishedStatus("FAILURE")
      BY DEF IsFinishedStatus
    <3>3. /\ Reporting(z, "SUCCESS") <= Cardinality(With(ChildSet(z), "SUCCESS"))
          /\ Reporting(z, "SUCCESS") \in Nat /\ Cardinality(With(ChildSet(z), "SUCCESS")) \in Nat
          /\ Reporting(z, "FAILURE") <= Cardinality(With(ChildSet(z), "FAILURE"))
          /\ Reporting(z, "FAILURE") \in Nat /\ Cardinality(With(ChildSet(z), "FAILURE")) \in Nat
      BY <1>1, <1>2, <2>3, <3>2, ReportsCount
    <3>4. /\ Enough(z) \in Int /\ TooMany(z) \in Int
      <4>1. Len(Children[z]) \in Nat
        BY <1>2, ChildrenAreInstructions
      <4>2. SuccessTh[z] \in Threshold /\ FailureTh[z] \in Threshold
        BY <1>2, TreeAssumption DEF Threshold
      <4>3. PICK n \in Nat : n = Len(Children[z])
        BY <4>1
      <4>4. SuccessAtMost(n, SuccessTh[z], FailureTh[z]) \in Nat /\ FailureAtMost(n, SuccessTh[z], FailureTh[z]) \in Nat
        BY <4>2, ThresholdSum
      <4> QED  BY <4>3, <4>4 DEF Enough, TooMany
    <3>5. IF status[z] = "SUCCESS" THEN Cardinality(With(ChildSet(z), "SUCCESS")) >= Enough(z)
          ELSE Cardinality(With(ChildSet(z), "FAILURE")) >= TooMany(z)
      BY <3>1, <3>3, <3>4
    <3> QED  BY <2>3, <3>5 DEF Earned
  <2>4. CASE Kind[z] = "Choice"
    BY <2>1, <2>4 DEF EarnedAs, Earned
  <2>5. CASE Kind[z] \notin {"Async", "ParallelSequence", "Choice"}
    BY <2>1, <2>5 DEF EarnedBy
  <2> QED  BY <2>2, <2>3, <2>4, <2>5
<1> QED  BY <1>4, <1>5

\* Whatever the tree, and whoever halts or resets it: a finished instruction at rest has
\* children that explain its status, also when these ran in other threads, and a
\* ParallelSequence whose threads have all reported has a verdict (CalculateCompoundStatus and
\* SetStatus of the compounds, AsyncWrapper::Tick).
THEOREM VerdictIsEarnedHolds == Spec => []VerdictIsEarned
<1> QED  BY EarnInit, EarnStep, InvIsEarned, PTL DEF Spec

-----------------------------------------------------------------------------
(* What is known of the children of a reactive compound                      *)

\* Nothing after a child that is RUNNING has started.
NoneAfter(s, j) == status[s[j]] = "RUNNING" => \A l \in j + 1 .. Len(s) : status[s[l]] = "NOT_STARTED"
InOrder(s) == \A j \in 1 .. Len(s) : NoneAfter(s, j)

\* One child of p is under way, and all that is before it has passed.
Pass(p) == IF Kind[p] = "ReactiveSequence" THEN "SUCCESS" ELSE "FAILURE"
StandsAlone(p, s) ==
  \E k \in 1 .. Len(s) :
    /\ status[s[k]] = "RUNNING"
    /\ \A j \in 1 .. Len(s) : j # k =>
         status[s[j]] = "NOT_STARTED" \/ (j < k /\ status[s[j]] = Pass(p))

\* A reactive compound has its status and a thread its next call about it, when nothing
\* else is to be done with its children than to reset them.
BacksAt(e, k) ==
  \/ e[k][1] = "clear"
  \/ e[k][1] \in {"running", "return"} /\ Kind[e[k][2]] \in Reactive
  => \A m \in 1 .. k - 1 : e[m][1] \in Backward

\* The child that it has executed is the first that was not finished, and no other is
\* entered before it looks at that one.
FirstOpen(s, c) ==
  \E n \in 1 .. Len(s) :
    /\ s[n] = c
    /\ \A j \in 1 .. n - 1 : IsFinishedStatus(status[s[j]])
    /\ \A j \in 1 .. Len(s) : j # n => NoneAfter(s, j)
OnlyChild(e, k, p, c) == \A m \in 1 .. k - 1 : Quiet(e[m]) \/ Owner(e[m]) \notin ChildSet(p) \ {c}
ReactAt(e, k) ==
  \A c, p : e[k] = <<"react", c>> /\ p = Parent[c] => FirstOpen(Children[p], c) /\ OnlyChild(e, k, p, c)

\* When that one is RUNNING, the others have been reset, or are going to be.
Untouched(e, k, c) == \A m \in 1 .. k - 1 : Quiet(e[m]) \/ Owner(e[m]) # c
Renewed(e, k, d) == \/ status[d] = "NOT_STARTED"
                    \/ \E m \in 1 .. k - 1 : e[m] \in {<<"reset", d>>, <<"clear", d>>}
Singled(e, k, p) ==
  \E c \in ChildSet(p) : /\ status[c] = "RUNNING" /\ Untouched(e, k, c)
                         /\ \A d \in ChildSet(p) \ {c} : Renewed(e, k, d)
RunAt(e, k) == e[k][1] = "running" /\ Kind[e[k][2]] \in Reactive => Singled(e, k, e[k][2])

Stages == \A u \in Doers : \A k \in 1 .. Len(agenda[u]) :
            BacksAt(agenda[u], k) /\ ReactAt(agenda[u], k) /\ RunAt(agenda[u], k)

\* The calls after which a compound has looked at its children again, and all that gives
\* it a status by them.
Rounds == {"react", "running"}
Closes == {"react", "running", "return", "clear"}

\* A thread has a call of one of these kinds about an instruction left.
Owes(p, ops) == \E u \in Doers : \E k \in 1 .. Len(agenda[u]) : agenda[u][k][1] \in ops /\ Owner(agenda[u][k]) = p

Choosing ==
  \A p \in Below(root) : Kind[p] \in Reactive =>
    /\ Owes(p, Rounds) \/ InOrder(Children[p])
    /\ status[p] = "RUNNING" =>
         StandsAlone(p, Children[p]) \/ Owes(p, Closes)

RunInv == StartInv /\ Lively /\ Stages /\ Choosing

-----------------------------------------------------------------------------
(* The children of a reactive compound as a sequence                         *)

LEMMA ChildList ==
  ASSUME NEW p \in Instructions, NEW s, s = Children[p]
  PROVE  /\ s \in Seq(Instructions) /\ DOMAIN s = 1 .. Len(s) /\ Len(s) \in Nat
         /\ \A k \in 1 .. Len(s) : s[k] \in ChildSet(p) /\ s[k] \in Instructions
         /\ \A c \in ChildSet(p) : \E k \in 1 .. Len(s) : s[k] = c
         /\ \A j, k \in 1 .. Len(s) : s[j] = s[k] => j = k
<1>1. s \in Seq(Instructions) /\ \A k \in 1 .. Len(s) : s[k] \in ChildSet(p)
  BY ChildrenAreInstructions
<1>2. DOMAIN s = 1 .. Len(s) /\ Len(s) \in Nat /\ \A k \in 1 .. Len(s) : s[k] \in Instructions
  BY <1>1
<1>3. \A c \in ChildSet(p) : \E k \in 1 .. Len(s) : s[k] = c
  BY <1>2 DEF ChildSet
<1>4. \A j, k \in DOMAIN Children[p] : Children[p][j] = Children[p][k] => j = k
  BY TreeAssumption
<1>5. \A j, k \in 1 .. Len(s) : s[j] = s[k] => j = k
  BY <1>2, <1>4
<1> QED  BY <1>1, <1>2, <1>3, <1>5

\* Taking children back leaves the order as it is.
LEMMA OrderedCleared ==
  ASSUME NEW s, InOrder(s),
         \A j \in 1 .. Len(s) : status'[s[j]] = status[s[j]] \/ status'[s[j]] = "NOT_STARTED",
         Len(s) \in Nat
  PROVE  InOrder(s)'
<1> SUFFICES ASSUME NEW j \in 1 .. Len(s), status'[s[j]] = "RUNNING", NEW l \in j + 1 .. Len(s)
             PROVE  status'[s[l]] = "NOT_STARTED"
  BY DEF InOrder, NoneAfter
<1>1. status[s[j]] = "RUNNING"
  OBVIOUS
<1>2. l \in 1 .. Len(s)
  OBVIOUS
<1>3. status[s[l]] = "NOT_STARTED"
  BY <1>1 DEF InOrder, NoneAfter
<1> QED  BY <1>2, <1>3

\* One child that is RUNNING while no other has started stands alone.
LEMMA SingledStands ==
  ASSUME NEW p \in Instructions, NEW s, s = Children[p], NEW c \in ChildSet(p), status[c] = "RUNNING",
         \A d \in ChildSet(p) \ {c} : status[d] = "NOT_STARTED"
  PROVE  StandsAlone(p, s) /\ InOrder(s)
<1>1. /\ Len(s) \in Nat /\ \A k \in 1 .. Len(s) : s[k] \in ChildSet(p)
      /\ \E k \in 1 .. Len(s) : s[k] = c
      /\ \A j, k \in 1 .. Len(s) : s[j] = s[k] => j = k
  BY ChildList
<1>2. PICK k \in 1 .. Len(s) : s[k] = c
  BY <1>1
<1>3. \A j \in 1 .. Len(s) : j # k => status[s[j]] = "NOT_STARTED"
  BY <1>1, <1>2
<1>4. StandsAlone(p, s)
  BY <1>2, <1>3 DEF StandsAlone
<1>5. InOrder(s)
  <2> SUFFICES ASSUME NEW j \in 1 .. Len(s), status[s[j]] = "RUNNING", NEW l \in j + 1 .. Len(s)
               PROVE  status[s[l]] = "NOT_STARTED"
    BY DEF InOrder, NoneAfter
  <2>1. j = k
    BY <1>3
  <2>2. l \in 1 .. Len(s) /\ l # k
    BY <1>1, <2>1
  <2> QED  BY <1>3, <2>2
<1> QED  BY <1>4, <1>5

\* So does the child that keeps the compound from passing, when nothing after it has started.
LEMMA VerdictStands ==
  ASSUME status \in [Instructions -> ExecutionStatus], NEW p \in Instructions, Kind[p] \in Reactive,
         NEW s, s = Children[p], InOrder(s), ImplStatus(p) = "RUNNING"
  PROVE  StandsAlone(p, s)
<1>1. s \in Seq(Instructions) /\ Len(s) \in Nat
  BY ChildList
<1>2. PICK pass \in {"SUCCESS", "FAILURE"} : pass = Pass(p)
  BY DEF Pass
<1>3. ImplStatus(p) = FirstVerdict(s, pass)
  BY <1>2, StatusByKind DEF Pass, Reactive
<1>4. PICK v : v = FirstVerdict(s, pass) /\ v = "RUNNING"
  BY <1>3
<1>5. \/ v = pass /\ \A k \in 1 .. Len(s) : status[s[k]] = pass
      \/ \E k \in 1 .. Len(s) :
           /\ status[s[k]] # pass /\ \A j \in 1 .. k - 1 : status[s[j]] = pass
           /\ v # pass
           /\ v = IF ReadyForExecute(status[s[k]]) THEN "NOT_FINISHED" ELSE status[s[k]]
  <2>1. /\ status \in [Instructions -> ExecutionStatus] /\ s \in Seq(Instructions)
        /\ pass \in {"SUCCESS", "FAILURE"} /\ v = FirstVerdict(s, pass)
    BY <1>1, <1>4
  <2> QED  BY <2>1, VerdictMeans
<1>6. PICK k \in 1 .. Len(s) : status[s[k]] = "RUNNING" /\ \A j \in 1 .. k - 1 : status[s[j]] = pass
  BY <1>4, <1>5
<1>7. \A l \in k + 1 .. Len(s) : status[s[l]] = "NOT_STARTED"
  BY <1>6 DEF InOrder, NoneAfter
<1>8. ASSUME NEW j \in 1 .. Len(s), j # k
      PROVE  status[s[j]] = "NOT_STARTED" \/ (j < k /\ status[s[j]] = Pass(p))
  <2>1. j \in 1 .. k - 1 \/ j \in k + 1 .. Len(s)
    BY <1>1, <1>8
  <2>2. j \in 1 .. k - 1 => j < k
    BY <1>1
  <2> QED  BY <1>2, <1>6, <1>7, <2>1, <2>2
<1> QED  BY <1>6, <1>8 DEF StandsAlone

-----------------------------------------------------------------------------
(* What a reactive compound calls                                            *)

\* It executes the first child that is not finished, and looks at it then.
Opens(s, calls) ==
  \E n \in 1 .. Len(s) :
    /\ Len(calls) = 2 /\ calls[1] = <<"exec", s[n]>> /\ calls[2] = <<"react", s[n]>>
    /\ \A j \in 1 .. n - 1 : ~NeedsExecute(status[s[j]])

\* It resets all children but one, each of them, and then returns RUNNING.
Resets(p, c, calls) ==
  \E l \in Nat :
    /\ Len(calls) = l + 1 /\ calls[l + 1] = <<"running", p>>
    /\ \A m \in 1 .. l : \E d \in ChildSet(p) \ {c} : calls[m] = <<"reset", d>>
    /\ \A d \in ChildSet(p) \ {c} : \E m \in 1 .. l : calls[m] = <<"reset", d>>

LEMMA ReactiveBegins ==
  ASSUME NEW p \in Instructions, Kind[p] \in Reactive, NEW s, s = Children[p], NEW calls, calls = ReactiveCalls(p)
  PROVE  calls = Call("return", p) \/ Opens(s, calls)
<1> DEFINE open == {k \in DOMAIN s : NeedsExecute(status[s[k]])}
<1>1. s \in Seq(Instructions) /\ DOMAIN s = 1 .. Len(s) /\ Len(s) \in Nat
  BY ChildList
<1>2. CASE open = {}
  BY <1>2 DEF ReactiveCalls, FirstUnfinished
<1>3. CASE open # {}
  <2>1. open \in SUBSET Nat
    BY <1>1
  <2>2. \E k \in open : \A j \in open : k <= j
    <3> HIDE DEF open
    <3> QED  BY <1>3, <2>1, LeastNumber
  <2>3. FirstIn(open) \in open /\ \A j \in open : FirstIn(open) <= j
    <3> HIDE DEF open
    <3> QED  BY <2>2 DEF FirstIn
  <2>4. PICK n : n = FirstIn(open)
    OBVIOUS
  <2>5. n \in 1 .. Len(s)
    BY <1>1, <2>3, <2>4
  <2>6. ASSUME NEW j \in 1 .. n - 1  PROVE ~NeedsExecute(status[s[j]])
    <3>1. j \in 1 .. Len(s) /\ ~(n <= j)
      BY <1>1, <2>5
    <3>2. j \notin open
      BY <2>3, <2>4, <3>1
    <3> QED  BY <1>1, <3>1, <3>2
  <2>7. FirstUnfinished(s) = <<s[n]>>
    BY <1>3, <2>4 DEF FirstUnfinished
  <2>8. PICK c \in Instructions : c = s[n]
    BY <1>1, <2>5
  <2>9. <<c>> # << >>
    OBVIOUS
  <2>10. calls = Call("exec", c) \o Call("react", c)
    BY <2>7, <2>8, <2>9, ForEachOne DEF ReactiveCalls
  <2>11. Call("exec", c) \in Seq(AnyCall) /\ Call("react", c) \in Seq(AnyCall)
    BY SeqsOfCalls DEF Operations
  <2>12. Parts(calls, Call("exec", c), Call("react", c))
    BY <2>10, <2>11, BothParts
  <2>13. /\ Len(Call("exec", c)) = 1 /\ Call("exec", c)[1] = <<"exec", c>>
         /\ Len(Call("react", c)) = 1 /\ Call("react", c)[1] = <<"react", c>>
    BY DEF Call
  <2>14. Len(calls) = 2 /\ calls[1] = <<"exec", c>> /\ calls[2] = <<"react", c>>
    BY <2>12, <2>13 DEF Parts
  <2> QED  BY <2>5, <2>6, <2>8, <2>14 DEF Opens
<1> QED  BY <1>2, <1>3

LEMMA ResetsOthers ==
  ASSUME NEW p \in Instructions, NEW c \in ChildSet(p), NEW calls,
         calls = ResetOtherChildren(p, c) \o Call("running", p)
  PROVE  Resets(p, c, calls)
<1>a. PICK all : all = Children[p]
  OBVIOUS
<1>1. /\ all \in Seq(ChildSet(p)) /\ DOMAIN all = 1 .. Len(all) /\ Len(all) \in Nat
      /\ ChildSet(p) \subseteq Instructions
      /\ \A k \in 1 .. Len(all) : all[k] \in ChildSet(p)
      /\ \A d \in ChildSet(p) : \E k \in 1 .. Len(all) : all[k] = d
      /\ \A j, k \in 1 .. Len(all) : all[j] = all[k] => j = k
  <2>1. /\ all \in Seq(Instructions) /\ DOMAIN all = 1 .. Len(all) /\ Len(all) \in Nat
        /\ \A k \in 1 .. Len(all) : all[k] \in ChildSet(p)
        /\ \A d \in ChildSet(p) : \E k \in 1 .. Len(all) : all[k] = d
        /\ \A j, k \in 1 .. Len(all) : all[j] = all[k] => j = k
    BY <1>a, ChildList
  <2>2. all \in Seq(ChildSet(p))
    BY <2>1
  <2> QED  BY <2>1, <2>2, ChildrenAreInstructions
<1>2. PICK at : at = CHOOSE k \in DOMAIN all : all[k] = c
  OBVIOUS
<1>3. at \in 1 .. Len(all) /\ all[at] = c
  BY <1>1, <1>2
<1>4. PICK s : s = RemoveAt(all, at)
  BY Zenon
<1>5. /\ s \in Seq(ChildSet(p)) /\ Len(s) = Len(all) - 1
      /\ \A j \in 1 .. at - 1 : s[j] = all[j]
      /\ \A j \in at .. Len(all) - 1 : s[j] = all[j + 1]
  <2>1. all \in Seq(ChildSet(p)) /\ at \in 1 .. Len(all)
    BY <1>1, <1>3
  <2> QED  BY <1>4, <2>1, ErasedAt, ZenonT(60)
<1>6. ResetOtherChildren(p, c) = ForEach("reset", s)
  BY <1>a, <1>2, <1>4 DEF ResetOtherChildren, RemoveAt
<1>7. PICK r : r = ForEach("reset", s)
  OBVIOUS
<1>8. Len(s) \in Nat /\ s \in Seq(Instructions) /\ DOMAIN s = 1 .. Len(s)
  BY <1>1, <1>5
<1>9. /\ r \in Seq(AnyCall) /\ Len(r) = Len(s) /\ \A m \in 1 .. Len(s) : r[m] = <<"reset", s[m]>>
  <2>1. r \in Seq(AnyCall)
    BY <1>7, <1>8, SeqsOfCalls DEF Operations
  <2>2. DOMAIN r = 1 .. Len(s) /\ \A m \in 1 .. Len(s) : r[m] = <<"reset", s[m]>>
    BY <1>7, <1>8 DEF ForEach
  <2>3. Len(r) = Len(s)
    BY <1>8, <2>1, <2>2
  <2> QED  BY <2>1, <2>2, <2>3
<1>10. PICK q : q = Call("running", p) /\ q \in Seq(AnyCall) /\ Len(q) = 1 /\ q[1] = <<"running", p>>
  <2>1. "running" \in Operations
    BY DEF Operations
  <2>2. Call("running", p) \in Seq(AnyCall)
    BY <2>1, SeqsOfCalls
  <2>3. Len(Call("running", p)) = 1 /\ Call("running", p)[1] = <<"running", p>>
    BY DEF Call
  <2> QED  BY <2>2, <2>3
<1>11. Parts(calls, r, q)
  BY <1>6, <1>7, <1>9, <1>10, BothParts
<1>12. PICK l \in Nat : l = Len(s)
  BY <1>8
<1>13. /\ Len(calls) = l + 1 /\ calls[l + 1] = <<"running", p>>
       /\ \A m \in 1 .. l : calls[m] = <<"reset", s[m]>>
  BY <1>9, <1>10, <1>11, <1>12 DEF Parts
<1>14. ASSUME NEW m \in 1 .. l  PROVE s[m] \in ChildSet(p) \ {c}
  <2>1. s[m] \in ChildSet(p)
    BY <1>5, <1>12
  <2>2. CASE m < at
    <3>1. m \in 1 .. at - 1 /\ m \in 1 .. Len(all) /\ m # at
      BY <1>1, <1>3, <2>2
    <3> QED  BY <1>1, <1>3, <1>5, <2>1, <3>1
  <2>3. CASE ~(m < at)
    <3>1. m \in at .. Len(all) - 1 /\ m + 1 \in 1 .. Len(all) /\ m + 1 # at
      BY <1>1, <1>3, <1>5, <1>12, <2>3
    <3> QED  BY <1>1, <1>3, <1>5, <2>1, <3>1
  <2> QED  BY <2>2, <2>3
<1>15. ASSUME NEW d \in ChildSet(p) \ {c}  PROVE \E m \in 1 .. l : s[m] = d
  <2>1. PICK k \in 1 .. Len(all) : all[k] = d
    BY <1>1
  <2>2. CASE k < at
    <3>1. k \in 1 .. at - 1 /\ k \in 1 .. l
      BY <1>1, <1>3, <1>5, <1>12, <2>2
    <3> QED  BY <1>5, <2>1, <3>1
  <2>3. CASE ~(k < at)
    <3>1. k # at
      BY <1>3, <2>1
    <3>2. k - 1 \in at .. Len(all) - 1 /\ k - 1 \in 1 .. l /\ k - 1 + 1 = k
      BY <1>1, <1>3, <1>5, <1>12, <2>3, <3>1
    <3>3. s[k - 1] = all[k - 1 + 1]
      BY <1>5, <3>2
    <3> QED  BY <2>1, <3>2, <3>3
  <2> QED  BY <2>2, <2>3
<1>16. \A m \in 1 .. l : \E d \in ChildSet(p) \ {c} : calls[m] = <<"reset", d>>
  BY <1>13, <1>14
<1>17. \A d \in ChildSet(p) \ {c} : \E m \in 1 .. l : calls[m] = <<"reset", d>>
  BY <1>13, <1>15
<1> QED  BY <1>13, <1>16, <1>17 DEF Resets

-----------------------------------------------------------------------------
(* Who changes the children of a reactive compound                           *)

LEMMA ReactiveKind ==
  ASSUME NEW p \in Instructions, Kind[p] \in Reactive
  PROVE  /\ p \notin Leaf /\ ~ReadsAttribute(p)
         /\ Kind[p] \notin Threaded \union Counting \union {"Listen", "Choice", "UserChoice"}
         /\ p \notin ChildSet(p)
         /\ \A c \in ChildSet(p) : c \in Instructions /\ Parent[c] = p
<1>1. p \notin Leaf
  BY LeafAssumption DEF Compounds
<1>2. Kind[p] \notin Threaded \union Counting \union {"Listen", "Choice", "UserChoice"}
  BY DEF Reactive, Threaded, Counting
<1>3. ~ReadsAttribute(p)
  BY <1>1, <1>2 DEF ReadsAttribute
<1>4. \A c \in ChildSet(p) : c \in Instructions /\ Parent[c] = p
  <2>1. \A c \in ChildSet(p) : Parent[c] = p
    BY TreeAssumption
  <2> QED  BY <2>1, ChildrenAreInstructions
<1>5. p \notin ChildSet(p)
  <2>1. p \in Below(p)
    BY BelowClosed
  <2> QED  BY <2>1, ChildBelow
<1> QED  BY <1>1, <1>2, <1>3, <1>4, <1>5

\* Of what ends an instruction, and of what it does under way, only one call is left.
LEMMA OneHolder ==
  ASSUME StartInv, NEW u \in Doers, NEW k \in 1 .. Len(agenda[u]),
         NEW v \in Doers, NEW m \in 1 .. Len(agenda[v]),
         agenda[u][k][1] \in UnderWay \union {"clear"}, agenda[v][m][1] \in UnderWay \union {"clear"},
         Owner(agenda[u][k]) = Owner(agenda[v][m])
  PROVE  u = v /\ k = m
<1>1. ExclusiveInv /\ Laid
  BY DEF StartInv
<1>2. Owner(agenda[u][k]) \in Inside(agenda[u]) /\ ~Quiet(agenda[u][k])
  BY DEF Inside, UnderWay, Quiet, Signals
<1>3. Owner(agenda[v][m]) \in Inside(agenda[v]) /\ ~Quiet(agenda[v][m])
  BY DEF Inside, UnderWay, Quiet, Signals
<1>4. u = v
  BY <1>1, <1>2, <1>3, InsidesApart
<1>5. Alone(agenda[u]) /\ Len(agenda[u]) \in Nat
  BY <1>1, AtCall DEF Laid, Layout
<1>6. CASE m \in k + 1 .. Len(agenda[u])
  <2>1. MayFollow(agenda[u][k][1], agenda[u][m][1])
    BY <1>2, <1>3, <1>4, <1>5, <1>6 DEF Alone
  <2> QED  BY <1>4, <2>1 DEF MayFollow, UnderWay, Undoing
<1>7. CASE k \in m + 1 .. Len(agenda[u])
  <2>1. MayFollow(agenda[u][m][1], agenda[u][k][1])
    BY <1>2, <1>3, <1>4, <1>5, <1>7 DEF Alone
  <2> QED  BY <1>4, <2>1 DEF MayFollow, UnderWay, Undoing
<1>8. k = m \/ m \in k + 1 .. Len(agenda[u]) \/ k \in m + 1 .. Len(agenda[u])
  BY <1>4, <1>5
<1> QED  BY <1>4, <1>6, <1>7, <1>8

\* The status of a child of a reactive compound is changed by a thread that is going to
\* return to the compound: it is cleared, or it is the child that the thread executes.
HeldFor(e, op, p, c) ==
  \E m \in 2 .. Len(e) : /\ e[m][1] \in {"return", "running", "clear", "react"} /\ Owner(e[m]) = p
                         /\ op = "clear" \/ e[m] = <<"react", c>>

LEMMA ReactiveMarked ==
  ASSUME StartInv, Stages, NEW t \in Doers, NEW op, NEW i, NEW calls, Moves(t, op, i, calls),
         NEW p \in Below(root), Kind[p] \in Reactive, NEW c \in ChildSet(p), status'[c] # status[c]
  PROVE  /\ i = c /\ Owner(<<op, i>>) = c /\ op \notin Signals
         /\ HeldFor(agenda[t], op, p, c) /\ (op = "clear" => status'[c] = "NOT_STARTED")
<1>1. ExclusiveInv /\ Laid /\ Due(t, op, i)
  BY DEF StartInv, Moves
<1>2. 1 \in 1 .. Len(agenda[t]) /\ agenda[t][1] = <<op, i>>
  BY <1>1, AtFront
<1>3. Len(agenda[t]) \in Nat /\ p \in Instructions
  BY <1>1, <1>2, AtCall
<1>4. Kind[p] \notin Threaded /\ Kind[p] # "ParallelSequence"
  BY <1>3, ReactiveKind DEF Threaded
<1>5. /\ i = c /\ Owner(<<op, i>>) = c
      /\ \/ op = "clear" /\ status'[c] = "NOT_STARTED"
         \/ op \in (UnderWay \ {"react"}) \union {"exec"}
      /\ \E m \in 2 .. Len(agenda[t]) : agenda[t][m][1] \in Holding /\ Owner(agenda[t][m]) = p
  BY <1>4, ChildMarked
<1>6. PICK m \in 2 .. Len(agenda[t]) : agenda[t][m][1] \in Holding /\ Owner(agenda[t][m]) = p
  BY <1>5
<1>7. PICK call : call = agenda[t][m]
  OBVIOUS
<1>8. m \in 1 .. Len(agenda[t]) /\ call \in AnyCall /\ 1 \in 1 .. m - 1
  <2>1. m \in 1 .. Len(agenda[t]) /\ 1 \in 1 .. m - 1
    BY <1>3
  <2> QED  BY <1>1, <1>7, <2>1, AtCall
<1>9. call[1] # "conclude"
  <2>1. OfParent(call)
    BY <1>1, <1>7, <1>8 DEF Laid, Layout, OfParents
  <2> QED  BY <1>4, <1>6, <1>7, <2>1 DEF OfParent, Owner
<1>10. call[1] \in {"return", "running", "clear", "react"}
  BY <1>6, <1>7, <1>9 DEF Holding
<1>11. BacksAt(agenda[t], m) /\ ReactAt(agenda[t], m)
  BY <1>8 DEF Stages
<1>12. CASE op = "clear" /\ status'[c] = "NOT_STARTED"
  <2>1. op \notin Signals
    BY <1>12 DEF Signals
  <2>2. HeldFor(agenda[t], op, p, c)
    BY <1>6, <1>7, <1>10, <1>12 DEF HeldFor
  <2> QED  BY <1>5, <1>12, <2>1, <2>2
<1>13. CASE op \in (UnderWay \ {"react"}) \union {"exec"}
  <2>1. op \notin Backward
    BY <1>13 DEF Backward, UnderWay
  <2>2. ~(\A l \in 1 .. m - 1 : agenda[t][l][1] \in Backward)
    BY <1>2, <1>8, <2>1
  <2>3. call[1] # "clear" /\ ~(call[1] \in {"running", "return"} /\ Kind[call[2]] \in Reactive)
    BY <1>7, <1>11, <2>2 DEF BacksAt
  <2>4. call[1] = "react"
    BY <1>6, <1>7, <1>10, <2>3 DEF Owner
  <2>5. OnlyChild(agenda[t], m, p, call[2])
    <3>1. call = <<"react", call[2]>> /\ p = Parent[call[2]]
      BY <1>6, <1>7, <1>8, <2>4 DEF AnyCall, Owner
    <3> QED  BY <1>7, <1>11, <3>1 DEF ReactAt
  <2>6. ~Quiet(agenda[t][1]) /\ Owner(agenda[t][1]) = c
    BY <1>2, <1>5, <1>13 DEF Quiet, Signals, UnderWay
  <2>7. c = call[2]
    BY <1>8, <2>5, <2>6 DEF OnlyChild
  <2>8. call = <<"react", c>>
    BY <1>8, <2>4, <2>7 DEF AnyCall
  <2>9. op \notin Signals
    BY <1>13 DEF Signals, UnderWay
  <2>10. HeldFor(agenda[t], op, p, c)
    BY <1>6, <1>7, <1>10, <2>8 DEF HeldFor
  <2>11. op # "clear"
    BY <1>13 DEF UnderWay
  <2> QED  BY <1>5, <2>9, <2>10, <2>11
<1> QED  BY <1>5, <1>12, <1>13

\* A reactive compound that has begun its turn executes a child or returns, and after that
\* child it resets the others or returns.
Turn(op, i, x, calls) ==
  \/ op = "body" /\ i = x /\ (calls = Call("return", x) \/ Opens(Children[x], calls))
  \/ op = "react" /\ i \in ChildSet(x) /\ (status[i] # "RUNNING" => calls = Call("return", x))
     /\ (status[i] = "RUNNING" => Resets(x, i, calls))

LEMMA ReactiveTurn ==
  ASSUME StartInv, NEW t \in Doers, NEW op, NEW i, NEW calls, Moves(t, op, i, calls), Means(op, i, calls),
         NEW x, x = Owner(<<op, i>>), Kind[x] \in Reactive,
         NEW k \in 1 .. Len(calls), calls[k][1] \in UnderWay \ {"body"}
  PROVE  x \in Below(root) /\ x \in Instructions /\ UNCHANGED status /\ Turn(op, i, x, calls)
<1>1. ExclusiveInv /\ Laid /\ Due(t, op, i) /\ t \in Threads
  BY ThreadNames DEF StartInv, Moves
<1>2. 1 \in 1 .. Len(agenda[t]) /\ agenda[t][1] = <<op, i>>
  BY <1>1, AtFront
<1>3. op \in UnderWay \union {"exec"} /\ x \in Below(root) /\ x \in Instructions
  BY NewUnderWay
<1>4. /\ x \notin Leaf
      /\ Kind[x] \notin Threaded \union Counting \union {"Listen", "Choice", "UserChoice"}
  BY <1>3, ReactiveKind
<1>5. calls # << >>
  <2>1. 1 .. Len(<< >>) = {}
    OBVIOUS
  <2> QED  BY <2>1
<1>6. CASE op = "exec"
  <2>1. calls = Call("body", i)
    BY <1>6 DEF Moves, MakesAlways
  <2>2. calls[k][1] = "body"
    BY <2>1 DEF Call
  <2> QED  BY <2>2
<1>7. CASE op = "body"
  <2>1. i = x
    BY <1>7 DEF Owner
  <2>2. calls = BodyCalls(x) /\ UNCHANGED status
    BY <1>5, <1>7, <2>1 DEF Means
  <2>3. calls = ReactiveCalls(x)
    BY <1>3, <1>4, <2>2, BodyByKind
  <2>4. calls = Call("return", x) \/ Opens(Children[x], calls)
    BY <1>3, <2>3, ReactiveBegins
  <2> QED  BY <1>3, <1>7, <2>1, <2>2, <2>4 DEF Turn
<1>8. CASE op = "react"
  <2>1. Parent[i] = x
    BY <1>8 DEF Owner
  <2>2. Shaped(<<"react", i>>)
    BY <1>1, <1>8, DueCall DEF Signals
  <2>3. i \in ChildSet(x)
    BY <2>1, <2>2 DEF Shaped
  <2>4. /\ UNCHANGED status
        /\ status[i] = "RUNNING" => calls = ResetOtherChildren(x, i) \o Call("running", x)
        /\ status[i] # "RUNNING" => calls = Call("return", x)
    BY <1>8, <2>1 DEF Means
  <2>5. status[i] = "RUNNING" => Resets(x, i, calls)
    BY <1>3, <2>3, <2>4, ResetsOthers
  <2> QED  BY <1>3, <1>8, <2>3, <2>4, <2>5 DEF Turn
<1>9. CASE op \in {"work", "return", "running"}
  BY <1>5, <1>9 DEF Means
<1>10. CASE op \in {"listen", "choose"}
  BY <1>4, <1>10 DEF Means, Owner
<1>11. CASE op = "conclude"
  <2>1. OfParent(<<op, i>>)
    BY <1>1, <1>2 DEF Laid, Layout, OfParents
  <2> QED  BY <1>4, <1>11, <2>1 DEF OfParent, Owner, Threaded
<1> QED  BY <1>3, <1>6, <1>7, <1>8, <1>9, <1>10, <1>11 DEF UnderWay

\* Calls that take the place of one that goes back do so as well.
LEMMA StaysBackward ==
  ASSUME StartInv, NEW t \in Doers, NEW op \in Backward, NEW i, NEW calls, NEW e, NEW f, Advances(t, op, i, calls, e, f),
         NEW m \in 1 .. Len(calls)
  PROVE  calls[m][1] \in Backward
<1>x. PICK x : x = Owner(<<op, i>>)
  OBVIOUS
<1>1. CASE Quiet(calls[m])
  BY <1>1 DEF Quiet, Signals, Backward
<1>2. CASE ~Quiet(calls[m])
  <2>1. NeatAt(op, x, calls, m)
    BY <1>2, <1>x, NewCall
  <2> QED  BY <1>2, <2>1 DEF NeatAt
<1> QED  BY <1>1, <1>2

LEMMA BacksKept ==
  ASSUME StartInv, Stages, NEW t \in Doers, NEW op, NEW i, NEW calls, NEW e, NEW f, Advances(t, op, i, calls, e, f),
         Means(op, i, calls), NEW l \in 1 .. Len(f)
  PROVE  BacksAt(f, l)
<1>x. PICK x : x = Owner(<<op, i>>)
  OBVIOUS
<1>y. PICK b : b = Base(t)
  OBVIOUS
<1>1. Spliced(e, calls, f) /\ e[1] = <<op, i>> /\ 1 \in 1 .. Len(e) /\ e = agenda[t]
  <2>1. Spliced(e, calls, f) /\ e[1] = <<op, i>> /\ 1 \in 1 .. Len(e)
    BY <1>x, <1>y, Advanced
  <2> QED  BY <2>1 DEF Advances
<1>n. Len(calls) \in Nat /\ Len(e) \in Nat \ {0}
  BY <1>1 DEF Spliced
<1>m. Moves(t, op, i, calls)
  BY DEF Advances
<1> SUFFICES ASSUME f[l][1] = "clear" \/ (f[l][1] \in {"running", "return"} /\ Kind[f[l][2]] \in Reactive),
                    NEW m \in 1 .. l - 1
             PROVE  f[m][1] \in Backward
  BY DEF BacksAt
<1>2. ASSUME NEW k \in 2 .. Len(e), l = Len(calls) + k - 1, f[l] = e[k]  PROVE f[m][1] \in Backward
  <2>1. k \in 1 .. Len(agenda[t])
    BY <1>1, <1>n
  <2>2. \A j \in 1 .. k - 1 : e[j][1] \in Backward
    <3>1. BacksAt(e, k)
      BY <1>1, <2>1 DEF Stages
    <3> QED  BY <1>2, <3>1 DEF BacksAt
  <2>3. m \in 1 .. Len(f)
    BY <1>n, <1>1 DEF Spliced
  <2>4. CASE m \in 1 .. Len(calls) /\ f[m] = calls[m]
    <3>1. 1 \in 1 .. k - 1
      BY <1>n
    <3>2. op \in Backward
      BY <1>1, <2>2, <3>1
    <3> QED  BY <2>4, <3>2, StaysBackward
  <2>5. ASSUME NEW j \in 2 .. Len(e), m = Len(calls) + j - 1, f[m] = e[j]  PROVE f[m][1] \in Backward
    <3>1. j \in 1 .. k - 1
      BY <1>2, <1>n, <2>5
    <3> QED  BY <2>2, <2>5, <3>1
  <2> QED  BY <1>1, <2>3, <2>4, <2>5 DEF Spliced
<1>3. CASE l \in 1 .. Len(calls) /\ f[l] = calls[l]
  <2>1. m \in 1 .. Len(calls)
    BY <1>3, <1>n
  <2>m. f[m] = calls[m]
    BY <1>1, <2>1 DEF Spliced
  <2>2. CASE f[l][1] = "clear"
    <3>1. ~Quiet(calls[l])
      BY <1>3, <2>2 DEF Quiet, Signals
    <3>2. NeatAt(op, x, calls, l)
      BY <1>3, <1>x, <3>1, NewCall
    <3>3. op \in Backward
      BY <1>3, <2>2, <3>1, <3>2 DEF NeatAt, Backward
    <3> QED  BY <2>1, <2>m, <3>3, StaysBackward
  <2>3. CASE f[l][1] \in {"running", "return"} /\ Kind[f[l][2]] \in Reactive
    <3>1. calls[l][1] \in UnderWay \ {"body"} /\ Owner(calls[l]) = calls[l][2]
      BY <1>3, <2>3 DEF UnderWay, Owner
    <3>2. Owner(calls[l]) = x
      BY <1>3, <1>m, <1>x, <3>1, NewUnderWay
    <3>3. Kind[x] \in Reactive
      BY <1>3, <2>3, <3>1, <3>2
    <3>4. Turn(op, i, x, calls)
      <4>1. l \in 1 .. Len(calls) /\ calls[l][1] \in UnderWay \ {"body"}
        BY <1>3, <3>1
      <4> QED  BY <1>m, <1>x, <3>3, <4>1, ReactiveTurn
    <3>5. CASE calls = Call("return", x)
      <4>1. Len(calls) = 1
        BY <3>5 DEF Call
      <4> QED  BY <1>3, <4>1
    <3>6. CASE Opens(Children[x], calls)
      <4>1. PICK n : Len(calls) = 2 /\ calls[1] = <<"exec", Children[x][n]>> /\ calls[2] = <<"react", Children[x][n]>>
        BY <3>6 DEF Opens
      <4>2. l \in {1, 2}
        BY <1>3, <4>1
      <4> QED  BY <1>3, <2>3, <4>1, <4>2
    <3>7. CASE Resets(x, i, calls)
      <4>1. PICK n \in Nat : /\ Len(calls) = n + 1 /\ calls[n + 1] = <<"running", x>>
                             /\ \A j \in 1 .. n : \E d \in ChildSet(x) \ {i} : calls[j] = <<"reset", d>>
        BY <3>7 DEF Resets
      <4>2. m \in 1 .. n
        BY <1>3, <4>1
      <4>3. calls[m][1] = "reset"
        BY <4>1, <4>2
      <4> QED  BY <2>m, <4>3 DEF Backward
    <3> QED  BY <3>4, <3>5, <3>6, <3>7 DEF Turn
  <2> QED  BY <2>2, <2>3
<1> QED  BY <1>1, <1>2, <1>3 DEF Spliced

-----------------------------------------------------------------------------
(* The child that a reactive compound has executed                           *)

\* What a thread has left for a reactive compound is about an instruction of the tree.
LEMMA ReactAbout ==
  ASSUME StartInv, NEW u \in Doers, NEW k \in 1 .. Len(agenda[u]), NEW c, agenda[u][k] = <<"react", c>>
  PROVE  /\ Parent[c] \in Below(root) /\ Parent[c] \in Instructions /\ Kind[Parent[c]] \in Reactive
         /\ c \in ChildSet(Parent[c]) /\ c \in Instructions /\ Owner(agenda[u][k]) = Parent[c]
<1>1. ExclusiveInv
  BY DEF StartInv
<1>2. /\ Proper(Base(u), agenda[u], Rest) /\ Below(Base(u)) \subseteq Below(root)
      /\ Below(root) \subseteq Instructions
  BY <1>1, AtCall
<1>3. Shaped(agenda[u][k]) /\ (~Quiet(agenda[u][k]) => Owner(agenda[u][k]) \in Below(Base(u)))
  BY <1>2 DEF Proper, Held
<1>4. Kind[Parent[c]] \in Reactive /\ c \in ChildSet(Parent[c])
  BY <1>3 DEF Shaped
<1>5. Owner(agenda[u][k]) = Parent[c] /\ ~Quiet(agenda[u][k])
  BY DEF Owner, Quiet, Signals
<1>6. Parent[c] \in Below(root) /\ Parent[c] \in Instructions
  BY <1>2, <1>3, <1>5
<1>7. c \in Instructions
  BY <1>4, <1>6, ChildrenAreInstructions
<1> QED  BY <1>4, <1>5, <1>6, <1>7

\* It stays the first that was not finished, as no other child changes meanwhile.
LEMMA FirstOpenKept ==
  ASSUME NEW p \in Instructions, NEW s, s = Children[p], NEW c \in ChildSet(p), FirstOpen(s, c),
         \A d \in ChildSet(p) \ {c} : status'[d] = status[d]
  PROVE  FirstOpen(s, c)'
<1>1. /\ Len(s) \in Nat /\ \A k \in 1 .. Len(s) : s[k] \in ChildSet(p)
      /\ \A j, k \in 1 .. Len(s) : s[j] = s[k] => j = k
  BY ChildList
<1>2. PICK n \in 1 .. Len(s) :
        /\ s[n] = c
        /\ \A j \in 1 .. n - 1 : IsFinishedStatus(status[s[j]])
        /\ \A j \in 1 .. Len(s) : j # n => NoneAfter(s, j)
  BY DEF FirstOpen
<1>3. \A j \in 1 .. Len(s) : j # n => status'[s[j]] = status[s[j]]
  BY <1>1, <1>2
<1>4. \A j \in 1 .. n - 1 : IsFinishedStatus(status'[s[j]])
  <2> SUFFICES ASSUME NEW j \in 1 .. n - 1  PROVE IsFinishedStatus(status'[s[j]])
    OBVIOUS
  <2>1. j \in 1 .. Len(s) /\ j # n
    BY <1>1
  <2> QED  BY <1>2, <1>3, <2>1
<1>5. ASSUME NEW j \in 1 .. Len(s), j # n, status'[s[j]] = "RUNNING", NEW l \in j + 1 .. Len(s)
      PROVE  status'[s[l]] = "NOT_STARTED"
  <2>1. status[s[j]] = "RUNNING"
    BY <1>3, <1>5
  <2>2. status[s[l]] = "NOT_STARTED"
    BY <1>2, <1>5, <2>1 DEF NoneAfter
  <2>3. l \in 1 .. Len(s)
    BY <1>1, <1>5
  <2>4. l # n
    <3> SUFFICES ASSUME l = n  PROVE FALSE
      OBVIOUS
    <3>1. j \in 1 .. n - 1
      BY <1>1, <1>5
    <3>2. IsFinishedStatus(status[s[j]])
      BY <1>2, <3>1
    <3> QED  BY <2>1, <3>2 DEF IsFinishedStatus
  <2> QED  BY <1>3, <2>2, <2>3, <2>4
<1>6. \A j \in 1 .. Len(s) : j # n => NoneAfter(s, j)'
  BY <1>5 DEF NoneAfter
<1> QED  BY <1>2, <1>4, <1>6 DEF FirstOpen

LEMMA OldReact ==
  ASSUME StartInv, Stages, NEW t \in Doers, NEW op, NEW i, NEW calls, Moves(t, op, i, calls),
         NEW u \in Doers, NEW k \in 1 .. Len(agenda[u]), u = t => k # 1,
         NEW c, agenda[u][k] = <<"react", c>>, NEW p, p = Parent[c]
  PROVE  FirstOpen(Children[p], c)'
<1>1. /\ p \in Below(root) /\ p \in Instructions /\ Kind[p] \in Reactive
      /\ c \in ChildSet(p) /\ Owner(agenda[u][k]) = p
  BY ReactAbout
<1>2. ReactAt(agenda[u], k)
  BY DEF Stages
<1>3. FirstOpen(Children[p], c) /\ OnlyChild(agenda[u], k, p, c)
  BY <1>2 DEF ReactAt
<1>4. ASSUME NEW d \in ChildSet(p) \ {c}, status'[d] # status[d]  PROVE FALSE
  <2>1. i = d /\ Owner(<<op, i>>) = d /\ op \notin Signals /\ HeldFor(agenda[t], op, p, d)
    BY <1>1, <1>4, ReactiveMarked
  <2>2. PICK m \in 2 .. Len(agenda[t]) :
              agenda[t][m][1] \in {"return", "running", "clear", "react"} /\ Owner(agenda[t][m]) = p
    BY <2>1 DEF HeldFor
  <2>3. ExclusiveInv /\ Due(t, op, i)
    BY DEF StartInv, Moves
  <2>4. 1 \in 1 .. Len(agenda[t]) /\ agenda[t][1] = <<op, i>>
    BY <2>3, AtFront
  <2>5. Len(agenda[t]) \in Nat
    BY <2>3, <2>4, AtCall
  <2>6. m \in 1 .. Len(agenda[t]) /\ 1 \in 1 .. m - 1
    BY <2>5
  <2>7. t = u /\ m = k
    <3>1. agenda[u][k][1] \in UnderWay \union {"clear"} /\ agenda[t][m][1] \in UnderWay \union {"clear"}
      BY <2>2 DEF UnderWay
    <3>2. m \in 1 .. Len(agenda[t]) /\ Owner(agenda[u][k]) = Owner(agenda[t][m])
      BY <1>1, <2>2, <2>6
    <3> QED  BY <3>1, <3>2, OneHolder
  <2>8. Quiet(agenda[t][1]) \/ Owner(agenda[t][1]) \notin ChildSet(p) \ {c}
    BY <1>3, <2>6, <2>7 DEF OnlyChild
  <2> QED  BY <1>4, <2>1, <2>4, <2>8 DEF Quiet
<1>5. PICK s : s = Children[p]
  OBVIOUS
<1>6. FirstOpen(s, c)'
  BY <1>1, <1>3, <1>4, <1>5, FirstOpenKept
<1>7. FirstOpen(s, c)' => FirstOpen(Children[p], c)'
  BY <1>5 DEF FirstOpen, NoneAfter
<1> QED  BY <1>6, <1>7

\* What a thread has left to do, when it makes its next call, about a child of a reactive
\* compound that it is going to return to.
LEMMA PushApart ==
  ASSUME StartInv, NEW t \in Doers, NEW op, NEW i, NEW calls, NEW e, NEW f, Advances(t, op, i, calls, e, f),
         NEW p \in Below(root), NEW k \in 2 .. Len(e), e[k][1] \in UnderWay, Owner(e[k]) = p,
         NEW S, S \subseteq ChildSet(p), Quiet(e[1]) \/ Owner(e[1]) \notin S,
         NEW m \in 1 .. Len(calls)
  PROVE  Quiet(calls[m]) \/ Owner(calls[m]) \notin S
<1>x. PICK x : x = Owner(<<op, i>>)
  OBVIOUS
<1>y. PICK b : b = Base(t)
  OBVIOUS
<1>1. Layout(t, e) /\ e[1] = <<op, i>> /\ 1 \in 1 .. Len(e) /\ Len(e) \in Nat
  BY <1>x, <1>y, Advanced
<1>2. ExclusiveInv
  BY DEF StartInv
<1> SUFFICES ASSUME ~Quiet(calls[m]), Owner(calls[m]) \in S  PROVE FALSE
  OBVIOUS
<1>3. op \notin Signals /\ x \in Below(root) /\ FitsAt(x, FALSE, calls, m)
  BY <1>x, NewCall
<1>4. Owner(calls[m]) \in {x} \union ChildSet(x)
  BY <1>3 DEF FitsAt, Quiet
<1>5. ~Quiet(e[1]) /\ Owner(e[1]) = x /\ e[1][1] = op
  BY <1>1, <1>3, <1>x DEF Quiet
<1>6. x \notin S
  BY <1>5
<1>7. x # p
  <2> SUFFICES ASSUME x = p  PROVE FALSE
    OBVIOUS
  <2>1. Alone(e) /\ k \in 1 + 1 .. Len(e) /\ ~Quiet(e[k])
    BY <1>1 DEF Layout, Quiet, Signals, UnderWay
  <2>2. MayFollow(op, e[k][1])
    BY <1>1, <1>5, <2>1 DEF Alone
  <2> QED  BY <2>2 DEF MayFollow, UnderWay
<1>8. Owner(calls[m]) \in ChildSet(x) \intersect ChildSet(p)
  BY <1>4, <1>6
<1>9. x = p
  BY <1>2, <1>3, <1>8, SameParent
<1> QED  BY <1>7, <1>9

LEMMA OldOnly ==
  ASSUME StartInv, Stages, NEW t \in Doers, NEW op, NEW i, NEW calls, NEW e, NEW f, Advances(t, op, i, calls, e, f),
         NEW k \in 2 .. Len(e), NEW c, e[k] = <<"react", c>>, NEW p, p = Parent[c],
         NEW l, l = Len(calls) + k - 1
  PROVE  OnlyChild(f, l, p, c)
<1>x. PICK x : x = Owner(<<op, i>>)
  OBVIOUS
<1>y. PICK b : b = Base(t)
  OBVIOUS
<1>1. Spliced(e, calls, f) /\ e = agenda[t]
  BY <1>x, <1>y, Advanced DEF Advances
<1>n. Len(calls) \in Nat /\ Len(e) \in Nat \ {0}
  BY <1>1 DEF Spliced
<1>2. k \in 1 .. Len(agenda[t]) /\ 1 \in 1 .. k - 1
  BY <1>1, <1>n
<1>3. p \in Below(root) /\ Owner(e[k]) = p
  BY <1>1, <1>2, ReactAbout
<1>4. OnlyChild(e, k, p, c)
  <2>1. ReactAt(e, k)
    BY <1>1, <1>2 DEF Stages
  <2> QED  BY <2>1 DEF ReactAt
<1>5. PICK S : S = ChildSet(p) \ {c}
  OBVIOUS
<1>6. S \subseteq ChildSet(p) /\ (Quiet(e[1]) \/ Owner(e[1]) \notin S)
  BY <1>2, <1>4, <1>5 DEF OnlyChild
<1>7. ASSUME NEW m \in 1 .. l - 1  PROVE Quiet(f[m]) \/ Owner(f[m]) \notin S
  <2>1. CASE m \in 1 .. Len(calls) /\ f[m] = calls[m]
    <3>1. e[k][1] \in UnderWay
      BY DEF UnderWay
    <3>2. Quiet(calls[m]) \/ Owner(calls[m]) \notin S
      BY <1>3, <1>6, <2>1, <3>1, PushApart
    <3> QED  BY <2>1, <3>2
  <2>2. ASSUME NEW j \in 2 .. Len(e), m = Len(calls) + j - 1, f[m] = e[j]
        PROVE  Quiet(f[m]) \/ Owner(f[m]) \notin S
    <3>1. j \in 1 .. k - 1
      BY <1>7, <1>n, <2>2
    <3> QED  BY <1>4, <1>5, <2>2, <3>1 DEF OnlyChild
  <2>3. m \in 1 .. Len(f)
    BY <1>1, <1>n, <1>7 DEF Spliced
  <2> QED  BY <1>1, <2>1, <2>2, <2>3 DEF Spliced
<1> QED  BY <1>5, <1>7 DEF OnlyChild

\* A compound that begins its turn finds its children in order.
LEMMA TurnInOrder ==
  ASSUME StartInv, Choosing, NEW u \in Doers, NEW k \in 1 .. Len(agenda[u]), NEW p \in Below(root), Kind[p] \in Reactive,
         Owner(agenda[u][k]) = p, agenda[u][k][1] \in (UnderWay \ {"react", "running"}) \union {"clear"}
  PROVE  InOrder(Children[p])
<1> SUFFICES ASSUME Owes(p, Rounds)  PROVE FALSE
  BY DEF Choosing
<1>1. PICK v \in Doers : \E m \in 1 .. Len(agenda[v]) : agenda[v][m][1] \in {"react", "running"} /\ Owner(agenda[v][m]) = p
  BY DEF Owes, Rounds
<1>2. PICK m \in 1 .. Len(agenda[v]) : agenda[v][m][1] \in {"react", "running"} /\ Owner(agenda[v][m]) = p
  BY <1>1
<1>3. agenda[v][m][1] \in UnderWay \union {"clear"} /\ agenda[u][k][1] \in UnderWay \union {"clear"}
      /\ Owner(agenda[v][m]) = Owner(agenda[u][k])
  BY <1>2 DEF UnderWay
<1>4. v = u /\ m = k
  BY <1>3, OneHolder
<1> QED  BY <1>2, <1>4

LEMMA NewReact ==
  ASSUME StartInv, Choosing, NEW t \in Doers, NEW op, NEW i, NEW calls, Moves(t, op, i, calls), Means(op, i, calls),
         NEW k \in 1 .. Len(calls), NEW c, calls[k] = <<"react", c>>, NEW p, p = Parent[c]
  PROVE  FirstOpen(Children[p], c)' /\ OnlyChild(calls, k, p, c)
<1>x. PICK x : x = Owner(<<op, i>>)
  OBVIOUS
<1>1. calls[k][1] \in UnderWay \ {"body"} /\ Owner(calls[k]) = p /\ ~Quiet(calls[k])
  BY DEF UnderWay, Owner, Quiet, Signals
<1>2. x = p
  BY <1>1, <1>x, NewUnderWay
<1>3. Kind[p] \in Reactive
  <2>1. PICK e : e = agenda[t]
    OBVIOUS
  <2>2. PICK f : f = agenda'[t]
    OBVIOUS
  <2>3. Advances(t, op, i, calls, e, f)
    BY <2>1, <2>2 DEF Advances
  <2>4. FitsAt(x, FALSE, calls, k)
    BY <1>1, <1>x, <2>3, NewCall
  <2> QED  BY <2>4 DEF FitsAt, Shaped
<1>4. p \in Below(root) /\ p \in Instructions /\ UNCHANGED status /\ Turn(op, i, p, calls)
  BY <1>1, <1>2, <1>3, <1>x, ReactiveTurn
<1>5. PICK s : s = Children[p]
  OBVIOUS
<1>6. op = "body" /\ i = p /\ Opens(s, calls)
  <2>1. CASE calls = Call("return", p)
    <3>1. k = 1 /\ calls[1][1] = "return"
      BY <2>1 DEF Call
    <3> QED  BY <3>1
  <2>2. CASE Resets(p, i, calls)
    <3>1. PICK l \in Nat : /\ Len(calls) = l + 1 /\ calls[l + 1] = <<"running", p>>
                           /\ \A m \in 1 .. l : \E d \in ChildSet(p) \ {i} : calls[m] = <<"reset", d>>
      BY <2>2 DEF Resets
    <3>2. k = l + 1 \/ k \in 1 .. l
      BY <3>1
    <3>3. calls[k][1] \in {"running", "reset"}
      BY <3>1, <3>2
    <3> QED  BY <3>3
  <2> QED  BY <1>4, <1>5, <2>1, <2>2 DEF Turn
<1>7. PICK n \in 1 .. Len(s) :
        /\ Len(calls) = 2 /\ calls[1] = <<"exec", s[n]>> /\ calls[2] = <<"react", s[n]>>
        /\ \A j \in 1 .. n - 1 : ~NeedsExecute(status[s[j]])
  BY <1>6 DEF Opens
<1>8. k = 2 /\ c = s[n]
  BY <1>7
<1>9. /\ Len(s) \in Nat /\ \A j \in 1 .. Len(s) : s[j] \in Instructions
  BY <1>4, <1>5, ChildList
<1>10. ASSUME NEW j \in 1 .. n - 1  PROVE IsFinishedStatus(status[s[j]])
  <2>1. ~NeedsExecute(status[s[j]]) /\ j \in 1 .. Len(s)
    BY <1>7, <1>9
  <2>2. status[s[j]] \in ExecutionStatus
    BY <1>9, <2>1 DEF StartInv, Tables
  <2> QED  BY <2>1, <2>2 DEF ExecutionStatus, NeedsExecute, IsFinishedStatus
<1>11. InOrder(s)
  <2>1. ExclusiveInv /\ Due(t, op, i)
    BY DEF StartInv, Moves
  <2>2. 1 \in 1 .. Len(agenda[t]) /\ agenda[t][1] = <<op, i>>
    BY <2>1, AtFront
  <2>3. Owner(agenda[t][1]) = p /\ agenda[t][1][1] = "body"
    BY <1>2, <1>6, <1>x, <2>2
  <2>4. agenda[t][1][1] \in (UnderWay \ {"react", "running"}) \union {"clear"}
    BY <2>3 DEF UnderWay
  <2> QED  BY <1>3, <1>4, <1>5, <2>2, <2>3, <2>4, TurnInOrder
<1>12. FirstOpen(s, c)
  BY <1>7, <1>8, <1>10, <1>11 DEF FirstOpen, InOrder
<1>13. FirstOpen(Children[p], c)'
  <2>1. c \in ChildSet(p)
    <3>1. \A j \in 1 .. Len(s) : s[j] \in ChildSet(p)
      BY <1>4, <1>5, ChildList
    <3> QED  BY <1>7, <1>8, <3>1
  <2>2. \A d \in ChildSet(p) \ {c} : status'[d] = status[d]
    BY <1>4
  <2>3. FirstOpen(s, c)'
    BY <1>4, <1>5, <1>12, <2>1, <2>2, FirstOpenKept
  <2>4. FirstOpen(s, c)' => FirstOpen(Children[p], c)'
    BY <1>5, SMTT(30) DEF FirstOpen, NoneAfter
  <2> QED  BY <2>3, <2>4
<1>14. OnlyChild(calls, k, p, c)
  <2> SUFFICES ASSUME NEW m \in 1 .. k - 1  PROVE Owner(calls[m]) = c
    BY DEF OnlyChild
  <2>1. m = 1
    BY <1>8
  <2> QED  BY <1>7, <1>8, <2>1 DEF Owner
<1> QED  BY <1>13, <1>14

-----------------------------------------------------------------------------
(* The others are reset                                                      *)

\* A child that is going to be reset or cleared is, as long as nothing else happens to it.
LEMMA OldRun ==
  ASSUME StartInv, Stages, NEW t \in Doers, NEW op, NEW i, NEW calls, Moves(t, op, i, calls),
         NEW u \in Doers, NEW k \in 1 .. Len(agenda[u]), u = t => k # 1,
         NEW p \in Below(root), agenda[u][k] = <<"running", p>>, Kind[p] \in Reactive,
         NEW d \in ChildSet(p), status'[d] # status[d]
  PROVE  u = t /\ op = "clear" /\ i = d /\ status'[d] = "NOT_STARTED"
<1>1. /\ i = d /\ Owner(<<op, i>>) = d /\ op \notin Signals
      /\ HeldFor(agenda[t], op, p, d) /\ (op = "clear" => status'[d] = "NOT_STARTED")
  <2>1. StartInv /\ Stages /\ Moves(t, op, i, calls) /\ Kind[p] \in Reactive /\ status'[d] # status[d]
    OBVIOUS
  <2> QED  BY <2>1, ReactiveMarked
<1>2. PICK m \in 2 .. Len(agenda[t]) :
           /\ agenda[t][m][1] \in {"return", "running", "clear", "react"} /\ Owner(agenda[t][m]) = p
           /\ op = "clear" \/ agenda[t][m] = <<"react", d>>
  BY <1>1 DEF HeldFor
<1>3. ExclusiveInv /\ Due(t, op, i)
  BY DEF StartInv, Moves
<1>4. 1 \in 1 .. Len(agenda[t])
  BY <1>3, AtFront
<1>5. m \in 1 .. Len(agenda[t])
  BY <1>3, <1>4, AtCall
<1>6. /\ agenda[u][k][1] \in UnderWay \union {"clear"} /\ agenda[t][m][1] \in UnderWay \union {"clear"}
      /\ Owner(agenda[u][k]) = Owner(agenda[t][m])
  BY <1>2 DEF UnderWay, Owner
<1>7. u = t /\ k = m
  BY <1>5, <1>6, OneHolder
<1>8. agenda[t][m] # <<"react", d>>
  BY <1>7
<1> QED  BY <1>1, <1>2, <1>7, <1>8

\* A reset of an instruction is going to clear it.
LEMMA ResetClears ==
  ASSUME NEW d \in Instructions, NEW calls, calls = ResetCalls(d)
  PROVE  \E m \in 1 .. Len(calls) : calls[m] = <<"clear", d>>
<1>1. PICK a \in 0 .. 2 : ResetShape(d, calls, a)
  BY ResetHasShape
<1>2. PICK n : n = Len(Children[d])
  OBVIOUS
<1>3. ResetPlaced(d, calls, a, n)
  BY <1>1, <1>2, ResetPlaces
<1> QED  BY <1>3 DEF ResetPlaced

LEMMA OldRenewed ==
  ASSUME StartInv, Stages, NEW t \in Doers, NEW op, NEW i, NEW calls, NEW e, NEW f, Advances(t, op, i, calls, e, f),
         NEW k \in 2 .. Len(e), NEW p \in Below(root), e[k] = <<"running", p>>, Kind[p] \in Reactive,
         NEW d \in ChildSet(p), Renewed(e, k, d), NEW l, l = Len(calls) + k - 1
  PROVE  Renewed(f, l, d)'
<1>x. PICK x : x = Owner(<<op, i>>)
  OBVIOUS
<1>y. PICK b : b = Base(t)
  OBVIOUS
<1>1. /\ Spliced(e, calls, f) /\ e = agenda[t] /\ e[1] = <<op, i>> /\ Moves(t, op, i, calls)
      /\ Below(root) \subseteq Instructions
  <2>1. Advances(t, op, i, calls, e, f) /\ StartInv
    OBVIOUS
  <2>2. Spliced(e, calls, f) /\ e[1] = <<op, i>> /\ Below(root) \subseteq Instructions
    BY <1>x, <1>y, <2>1, Advanced
  <2> QED  BY <2>1, <2>2 DEF Advances
<1>n. Len(calls) \in Nat /\ Len(e) \in Nat \ {0}
  BY <1>1 DEF Spliced
<1>d. d \in Instructions
  BY <1>1, ChildrenAreInstructions
<1>2. k \in 1 .. Len(agenda[t]) /\ k # 1 /\ agenda[t][k] = <<"running", p>>
  BY <1>1, <1>n
<1>3. CASE status[d] = "NOT_STARTED"
  <2>1. status'[d] = "NOT_STARTED"
    BY <1>1, <1>2, <1>3, OldRun
  <2> QED  BY <2>1 DEF Renewed
<1>4. ASSUME NEW m \in 1 .. k - 1, e[m] \in {<<"reset", d>>, <<"clear", d>>}, m # 1  PROVE Renewed(f, l, d)'
  <2>1. m \in 2 .. Len(e)
    BY <1>4, <1>n
  <2>2. f[Len(calls) + m - 1] = e[m]
    BY <1>1, <2>1 DEF Spliced
  <2>3. Len(calls) + m - 1 \in 1 .. l - 1
    BY <1>4, <1>n
  <2>4. \E j \in 1 .. l - 1 : f[j] \in {<<"reset", d>>, <<"clear", d>>}
    BY <1>4, <2>2, <2>3
  <2> QED  BY <2>4 DEF Renewed
<1>5. CASE <<op, i>> = <<"clear", d>>
  <2>1. op = "clear" /\ i = d
    BY <1>5
  <2>2. status' = [status EXCEPT ![d] = "NOT_STARTED"]
    BY <1>1, <2>1 DEF Moves, Effects, Marks, UnderWay
  <2>3. status'[d] = "NOT_STARTED"
    BY <1>d, <2>2 DEF StartInv, Tables
  <2> QED  BY <2>3 DEF Renewed
<1>6. CASE <<op, i>> = <<"reset", d>>
  <2>1. op = "reset" /\ i = d
    BY <1>6
  <2>2. calls = ResetCalls(d)
    BY <1>1, <2>1 DEF Moves, MakesAlways
  <2>3. PICK m \in 1 .. Len(calls) : calls[m] = <<"clear", d>>
    BY <1>d, <2>2, ResetClears
  <2>4. f[m] = calls[m]
    BY <1>1 DEF Spliced
  <2>5. m \in 1 .. l - 1
    BY <1>n
  <2>6. \E j \in 1 .. l - 1 : f[j] \in {<<"reset", d>>, <<"clear", d>>}
    BY <2>3, <2>4, <2>5
  <2> QED  BY <2>6 DEF Renewed
<1>7. status[d] = "NOT_STARTED" \/ \E m \in 1 .. k - 1 : e[m] \in {<<"reset", d>>, <<"clear", d>>}
  BY DEF Renewed
<1>8. \/ status[d] = "NOT_STARTED"
      \/ \E m \in 1 .. k - 1 : e[m] \in {<<"reset", d>>, <<"clear", d>>} /\ m # 1
      \/ e[1] \in {<<"reset", d>>, <<"clear", d>>}
  BY <1>7
<1> QED  BY <1>1, <1>3, <1>4, <1>5, <1>6, <1>8

\* The child that is RUNNING stays so, and the others are reset as before.
LEMMA OldSingled ==
  ASSUME StartInv, Stages, NEW t \in Doers, NEW op, NEW i, NEW calls, NEW e, NEW f, Advances(t, op, i, calls, e, f),
         NEW k \in 2 .. Len(e), NEW p \in Below(root), e[k] = <<"running", p>>, Kind[p] \in Reactive,
         NEW l, l = Len(calls) + k - 1
  PROVE  Singled(f, l, p)'
<1>x. PICK x : x = Owner(<<op, i>>)
  OBVIOUS
<1>y. PICK b : b = Base(t)
  OBVIOUS
<1>1. /\ Spliced(e, calls, f) /\ e = agenda[t] /\ e[1] = <<op, i>> /\ Moves(t, op, i, calls)
      /\ Below(root) \subseteq Instructions
  <2>1. Advances(t, op, i, calls, e, f) /\ StartInv
    OBVIOUS
  <2>2. Spliced(e, calls, f) /\ e[1] = <<op, i>> /\ Below(root) \subseteq Instructions
    BY <1>x, <1>y, <2>1, Advanced
  <2> QED  BY <2>1, <2>2 DEF Advances
<1>n. Len(calls) \in Nat /\ Len(e) \in Nat \ {0}
  BY <1>1 DEF Spliced
<1>2. k \in 1 .. Len(agenda[t]) /\ k # 1 /\ agenda[t][k] = <<"running", p>> /\ 1 \in 1 .. k - 1
  BY <1>1, <1>n
<1>3. Singled(e, k, p)
  <2>1. RunAt(e, k)
    BY <1>1, <1>2 DEF Stages
  <2> QED  BY <2>1 DEF RunAt
<1>4. PICK c \in ChildSet(p) : /\ status[c] = "RUNNING" /\ Untouched(e, k, c)
                               /\ \A d \in ChildSet(p) \ {c} : Renewed(e, k, d)
  BY <1>3 DEF Singled
<1>5. Quiet(e[1]) \/ Owner(e[1]) # c
  BY <1>2, <1>4 DEF Untouched
<1>6. status'[c] = "RUNNING"
  <2> SUFFICES ASSUME status'[c] # status[c]  PROVE FALSE
    BY <1>4
  <2>1. /\ t \in Doers /\ k \in 1 .. Len(agenda[t]) /\ (t = t => k # 1) /\ agenda[t][k] = <<"running", p>>
        /\ StartInv /\ Stages /\ Moves(t, op, i, calls) /\ Kind[p] \in Reactive
        /\ c \in ChildSet(p) /\ status'[c] # status[c]
    BY <1>1, <1>2
  <2>2. op = "clear" /\ i = c
    BY <2>1, OldRun
  <2> QED  BY <1>1, <1>5, <2>2 DEF Quiet, Signals, Owner
<1>7. ASSUME NEW m \in 1 .. l - 1  PROVE Quiet(f[m]) \/ Owner(f[m]) # c
  <2>1. CASE m \in 1 .. Len(calls) /\ f[m] = calls[m]
    <3>1. e[k][1] \in UnderWay /\ Owner(e[k]) = p
      BY DEF UnderWay, Owner
    <3>2. PICK S : S = {c}
      OBVIOUS
    <3>3. S \subseteq ChildSet(p) /\ (Quiet(e[1]) \/ Owner(e[1]) \notin S)
      BY <1>5, <3>2
    <3>4. Quiet(calls[m]) \/ Owner(calls[m]) \notin S
      BY <2>1, <3>1, <3>3, PushApart
    <3> QED  BY <2>1, <3>2, <3>4
  <2>2. ASSUME NEW j \in 2 .. Len(e), m = Len(calls) + j - 1, f[m] = e[j]
        PROVE  Quiet(f[m]) \/ Owner(f[m]) # c
    <3>1. j \in 1 .. k - 1
      BY <1>7, <1>n, <2>2
    <3> QED  BY <1>4, <2>2, <3>1 DEF Untouched
  <2>3. m \in 1 .. Len(f)
    BY <1>1, <1>n, <1>7 DEF Spliced
  <2> QED  BY <1>1, <2>1, <2>2, <2>3 DEF Spliced
<1>8. Untouched(f, l, c)
  BY <1>7 DEF Untouched
<1>9. \A d \in ChildSet(p) \ {c} : Renewed(f, l, d)'
  BY <1>4, OldRenewed
<1>10. \E a \in ChildSet(p) : /\ status'[a] = "RUNNING" /\ Untouched(f, l, a)
                              /\ \A d \in ChildSet(p) \ {a} : Renewed(f, l, d)'
  BY <1>6, <1>8, <1>9
<1> QED  BY <1>10 DEF Singled, Untouched, Owner, Parent, ChildSet

\* No other thread disturbs this.
LEMMA OtherSingled ==
  ASSUME StartInv, Stages, NEW t \in Doers, NEW op, NEW i, NEW calls, Moves(t, op, i, calls),
         NEW u \in Doers \ {t}, NEW k \in 1 .. Len(agenda[u]), NEW e, e = agenda[u],
         NEW p \in Below(root), e[k] = <<"running", p>>, Kind[p] \in Reactive
  PROVE  Singled(e, k, p)'
<1>1. Singled(e, k, p)
  <2>1. RunAt(e, k)
    BY DEF Stages
  <2> QED  BY <2>1 DEF RunAt
<1>2. PICK c \in ChildSet(p) : /\ status[c] = "RUNNING" /\ Untouched(e, k, c)
                               /\ \A d \in ChildSet(p) \ {c} : Renewed(e, k, d)
  BY <1>1 DEF Singled
<1>3. \A d \in ChildSet(p) : status'[d] = status[d]
  BY OldRun
<1>4. \A d \in ChildSet(p) \ {c} : Renewed(e, k, d)'
  BY <1>2, <1>3 DEF Renewed
<1>5. \E a \in ChildSet(p) : /\ status'[a] = "RUNNING" /\ Untouched(e, k, a)
                             /\ \A d \in ChildSet(p) \ {a} : Renewed(e, k, d)'
  BY <1>2, <1>3, <1>4
<1> QED  BY <1>5 DEF Singled, Untouched, Owner, Parent, ChildSet

\* After its child has returned RUNNING, a reactive compound resets the others.
LEMMA NewSingled ==
  ASSUME StartInv, NEW t \in Doers, NEW op, NEW i, NEW calls, Moves(t, op, i, calls), Means(op, i, calls),
         NEW k \in 1 .. Len(calls), NEW p, calls[k] = <<"running", p>>, Kind[p] \in Reactive
  PROVE  Singled(calls, k, p)'
<1>x. PICK x : x = Owner(<<op, i>>)
  OBVIOUS
<1>1. calls[k][1] \in UnderWay \ {"body"} /\ Owner(calls[k]) = p
  BY DEF UnderWay, Owner
<1>2. x = p
  BY <1>1, <1>x, NewUnderWay
<1>3. p \in Instructions /\ UNCHANGED status /\ Turn(op, i, p, calls)
  BY <1>1, <1>2, <1>x, ReactiveTurn
<1>4. i \in ChildSet(p) /\ status[i] = "RUNNING" /\ Resets(p, i, calls)
  <2>1. CASE calls = Call("return", p)
    <3>1. k = 1 /\ calls[1][1] = "return"
      BY <2>1 DEF Call
    <3> QED  BY <3>1
  <2>2. CASE Opens(Children[p], calls)
    <3>1. PICK n : Len(calls) = 2 /\ calls[1] = <<"exec", Children[p][n]>> /\ calls[2] = <<"react", Children[p][n]>>
      BY <2>2 DEF Opens
    <3>2. k \in {1, 2}
      BY <3>1
    <3> QED  BY <3>1, <3>2
  <2> QED  BY <1>3, <2>1, <2>2 DEF Turn
<1>5. PICK l \in Nat :
        /\ Len(calls) = l + 1 /\ calls[l + 1] = <<"running", p>>
        /\ \A m \in 1 .. l : \E d \in ChildSet(p) \ {i} : calls[m] = <<"reset", d>>
        /\ \A d \in ChildSet(p) \ {i} : \E m \in 1 .. l : calls[m] = <<"reset", d>>
  BY <1>4 DEF Resets
<1>6. k = l + 1
  <2>1. k \in 1 .. l => calls[k][1] = "reset"
    BY <1>5
  <2> QED  BY <1>5, <2>1
<1>7. \A m \in 1 .. k - 1 : \E d \in ChildSet(p) \ {i} : calls[m] = <<"reset", d>>
  BY <1>5, <1>6
<1>8. Untouched(calls, k, i)
  <2> SUFFICES ASSUME NEW m \in 1 .. k - 1  PROVE Owner(calls[m]) # i
    BY DEF Untouched
  <2>1. PICK d \in ChildSet(p) \ {i} : calls[m] = <<"reset", d>>
    BY <1>7
  <2> QED  BY <2>1 DEF Owner
<1>9. ASSUME NEW d \in ChildSet(p) \ {i}  PROVE Renewed(calls, k, d)'
  <2>1. \E m \in 1 .. k - 1 : calls[m] = <<"reset", d>>
    BY <1>5, <1>6
  <2> QED  BY <2>1 DEF Renewed
<1>10. \E a \in ChildSet(p) : /\ status'[a] = "RUNNING" /\ Untouched(calls, k, a)
                              /\ \A d \in ChildSet(p) \ {a} : Renewed(calls, k, d)'
  BY <1>3, <1>4, <1>8, <1>9
<1> QED  BY <1>10 DEF Singled, Untouched, Owner, Parent, ChildSet

-----------------------------------------------------------------------------
(* Every call keeps its place                                                *)

\* What there is to show of a call.
LEMMA ReactAtMeans ==
  ASSUME NEW e, NEW k,
         \A c, p : e[k] = <<"react", c>> /\ p = Parent[c] => FirstOpen(Children[p], c)' /\ OnlyChild(e, k, p, c)
  PROVE  ReactAt(e, k)'
<1>1. Parent' = Parent
  BY DEF Parent, ChildSet
<1>2. \A c, p : OnlyChild(e, k, p, c) => OnlyChild(e, k, p, c)'
  <2>1. \A call : Owner(call)' = Owner(call)
    BY <1>1 DEF Owner
  <2>2. \A p : ChildSet(p)' = ChildSet(p)
    BY DEF ChildSet
  <2> QED  BY <2>1, <2>2 DEF OnlyChild, Quiet
<1> QED  BY <1>1, <1>2 DEF ReactAt

LEMMA RunAtMeans ==
  ASSUME NEW e, NEW k, e[k] \in AnyCall,
         \A p : e[k] = <<"running", p>> /\ Kind[p] \in Reactive => Singled(e, k, p)'
  PROVE  RunAt(e, k)'
<1> SUFFICES ASSUME e[k][1] = "running", Kind[e[k][2]] \in Reactive
             PROVE  Singled(e, k, e[k][2])'
  BY DEF RunAt
<1>1. PICK p : p = e[k][2]
  OBVIOUS
<1>2. e[k] = <<"running", p>>
  BY <1>1 DEF AnyCall
<1>3. Singled(e, k, p)'
  BY <1>1, <1>2
<1>p. Parent' = Parent
  BY DEF Parent, ChildSet
<1> QED  BY <1>1, <1>3, <1>p DEF Singled, Untouched, Renewed, Quiet, Owner, ChildSet

\* It looks at the calls before it only.
LEMMA SamePlace ==
  ASSUME NEW e, NEW f, NEW k, \A m \in 1 .. k - 1 : f[m] = e[m]
  PROVE  /\ \A p, c : OnlyChild(e, k, p, c) => OnlyChild(f, k, p, c)
         /\ \A p : Singled(e, k, p)' => Singled(f, k, p)'
<1>1. \A p, c : OnlyChild(e, k, p, c) => OnlyChild(f, k, p, c)
  BY DEF OnlyChild
<1>2. ASSUME NEW p, Singled(e, k, p)'  PROVE Singled(f, k, p)'
  <2>1. \E c \in ChildSet(p) : /\ status'[c] = "RUNNING" /\ Untouched(e, k, c)
                               /\ \A d \in ChildSet(p) \ {c} : Renewed(e, k, d)'
    BY <1>2 DEF Singled, Untouched, Quiet, Owner, Parent, ChildSet
  <2>2. \A c : Untouched(e, k, c) => Untouched(f, k, c)
    BY DEF Untouched
  <2>3. \A d : Renewed(e, k, d)' => Renewed(f, k, d)'
    BY DEF Renewed
  <2>4. \E c \in ChildSet(p) : /\ status'[c] = "RUNNING" /\ Untouched(f, k, c)
                               /\ \A d \in ChildSet(p) \ {c} : Renewed(f, k, d)'
    BY <2>1, <2>2, <2>3
  <2> QED  BY <2>4 DEF Singled, Untouched, Quiet, Owner, Parent, ChildSet
<1> QED  BY <1>1, <1>2

LEMMA RunAbout ==
  ASSUME StartInv, NEW u \in Doers, NEW k \in 1 .. Len(agenda[u]), NEW p, agenda[u][k] = <<"running", p>>
  PROVE  p \in Below(root) /\ p \in Instructions
<1>1. ExclusiveInv
  BY DEF StartInv
<1>2. /\ Proper(Base(u), agenda[u], Rest) /\ Below(Base(u)) \subseteq Below(root)
      /\ Below(root) \subseteq Instructions
  BY <1>1, AtCall
<1>3. ~Quiet(agenda[u][k]) => Owner(agenda[u][k]) \in Below(Base(u))
  BY <1>2 DEF Proper, Held
<1>4. Owner(agenda[u][k]) = p /\ ~Quiet(agenda[u][k])
  BY DEF Owner, Quiet, Signals
<1> QED  BY <1>2, <1>3, <1>4

\* The calls of the other threads keep their place.
LEMMA OtherStage ==
  ASSUME StartInv, Stages, NEW t \in Doers, NEW op, NEW i, NEW calls, Moves(t, op, i, calls),
         NEW u \in Doers \ {t}, NEW k \in 1 .. Len(agenda[u]), NEW e, e = agenda[u]
  PROVE  BacksAt(e, k) /\ ReactAt(e, k)' /\ RunAt(e, k)'
<1>1. BacksAt(e, k)
  BY DEF Stages
<1>2. e[k] \in AnyCall
  BY AtCall DEF StartInv
<1>3. ReactAt(e, k)
  BY DEF Stages
<1>4. ASSUME NEW c, e[k] = <<"react", c>>, NEW p, p = Parent[c]
      PROVE  FirstOpen(Children[p], c)' /\ OnlyChild(e, k, p, c)
  <2>1. OnlyChild(e, k, p, c)
    BY <1>3, <1>4 DEF ReactAt
  <2>2. u # t /\ agenda[u][k] = <<"react", c>> /\ p = Parent[c]
    BY <1>4
  <2>3. FirstOpen(Children[p], c)'
    BY <2>2, OldReact
  <2> QED  BY <2>1, <2>3
<1>5. ReactAt(e, k)'
  BY <1>2, <1>4, ReactAtMeans
<1>6. ASSUME NEW p, e[k] = <<"running", p>>, Kind[p] \in Reactive  PROVE Singled(e, k, p)'
  <2>1. p \in Below(root)
    BY <1>6, RunAbout
  <2> QED  BY <1>6, <2>1, OtherSingled
<1>7. RunAt(e, k)'
  BY <1>2, <1>6, RunAtMeans
<1> QED  BY <1>1, <1>5, <1>7

\* So do those that are left of the thread's own, and the new ones find theirs.
LEMMA OwnStage ==
  ASSUME StartInv, Stages, Choosing, NEW t \in Doers, NEW op, NEW i, NEW calls, NEW e, NEW f,
         Advances(t, op, i, calls, e, f), Means(op, i, calls), NEW l \in 1 .. Len(f)
  PROVE  BacksAt(f, l) /\ ReactAt(f, l)' /\ RunAt(f, l)'
<1>x. PICK x : x = Owner(<<op, i>>)
  OBVIOUS
<1>y. PICK b : b = Base(t)
  OBVIOUS
<1>1. BacksAt(f, l)
  BY BacksKept
<1>m. Moves(t, op, i, calls) /\ e = agenda[t]
  BY DEF Advances
<1>2. Spliced(e, calls, f) /\ e \in Seq(AnyCall) /\ calls \in Seq(AnyCall)
  BY <1>x, <1>y, Advanced
<1>n. Len(calls) \in Nat /\ Len(e) \in Nat \ {0}
  BY <1>2 DEF Spliced
<1>3. CASE l \in 1 .. Len(calls) /\ f[l] = calls[l]
  <2>1. f[l] \in AnyCall
    BY <1>2, <1>3
  <2>2. \A m \in 1 .. l - 1 : f[m] = calls[m]
    <3> SUFFICES ASSUME NEW m \in 1 .. l - 1  PROVE f[m] = calls[m]
      OBVIOUS
    <3>1. m \in 1 .. Len(calls)
      BY <1>3, <1>n
    <3> QED  BY <1>2, <3>1 DEF Spliced
  <2>3. ASSUME NEW c, f[l] = <<"react", c>>, NEW p, p = Parent[c]
        PROVE  FirstOpen(Children[p], c)' /\ OnlyChild(f, l, p, c)
    <3>1. l \in 1 .. Len(calls) /\ calls[l] = <<"react", c>> /\ p = Parent[c]
      BY <1>3, <2>3
    <3>2. FirstOpen(Children[p], c)' /\ OnlyChild(calls, l, p, c)
      BY <1>m, <3>1, NewReact
    <3> QED  BY <2>2, <3>2, SamePlace
  <2>4. ReactAt(f, l)'
    BY <2>1, <2>3, ReactAtMeans
  <2>5. ASSUME NEW p, f[l] = <<"running", p>>, Kind[p] \in Reactive  PROVE Singled(f, l, p)'
    <3>1. l \in 1 .. Len(calls) /\ calls[l] = <<"running", p>> /\ Kind[p] \in Reactive
      BY <1>3, <2>5
    <3>2. Singled(calls, l, p)'
      BY <1>m, <3>1, NewSingled
    <3> QED  BY <2>2, <3>2, SamePlace
  <2>6. RunAt(f, l)'
    BY <2>1, <2>5, RunAtMeans
  <2> QED  BY <1>1, <2>4, <2>6
<1>4. ASSUME NEW k \in 2 .. Len(e), l = Len(calls) + k - 1, f[l] = e[k]
      PROVE  ReactAt(f, l)' /\ RunAt(f, l)'
  <2>1. f[l] \in AnyCall /\ k \in 1 .. Len(agenda[t]) /\ k # 1
    BY <1>m, <1>2, <1>4
  <2>3. ASSUME NEW c, f[l] = <<"react", c>>, NEW p, p = Parent[c]
        PROVE  FirstOpen(Children[p], c)' /\ OnlyChild(f, l, p, c)
    <3>1. /\ e[k] = <<"react", c>> /\ agenda[t][k] = <<"react", c>> /\ p = Parent[c]
          /\ l = Len(calls) + k - 1 /\ (t = t => k # 1)
      BY <1>m, <1>4, <2>1, <2>3
    <3>2. OnlyChild(f, l, p, c)
      BY <3>1, OldOnly
    <3>3. FirstOpen(Children[p], c)'
      BY <1>m, <2>1, <3>1, OldReact
    <3> QED  BY <3>2, <3>3
  <2>4. ReactAt(f, l)'
    BY <2>1, <2>3, ReactAtMeans
  <2>5. ASSUME NEW p, f[l] = <<"running", p>>, Kind[p] \in Reactive  PROVE Singled(f, l, p)'
    <3>1. e[k] = <<"running", p>> /\ agenda[t][k] = <<"running", p>> /\ l = Len(calls) + k - 1
      BY <1>m, <1>4, <2>5
    <3>2. p \in Below(root)
      BY <2>1, <3>1, RunAbout
    <3> QED  BY <2>5, <3>1, <3>2, OldSingled
  <2>6. RunAt(f, l)'
    BY <2>1, <2>5, RunAtMeans
  <2> QED  BY <2>4, <2>6
<1> QED  BY <1>1, <1>2, <1>3, <1>4 DEF Spliced

\* A walk that begins is not about children of anything.
LEMMA FreshStage ==
  ASSUME NEW f, NEW op \in {"exec", "reset"}, NEW z \in Instructions, f = Call(op, z), NEW k \in 1 .. Len(f)
  PROVE  BacksAt(f, k) /\ ReactAt(f, k)' /\ RunAt(f, k)'
<1>1. k = 1 /\ f[1] = <<op, z>>
  BY DEF Call
<1>2. f[k][1] \in {"exec", "reset"}
  BY <1>1
<1> QED  BY <1>2 DEF BacksAt, ReactAt, RunAt

LEMMA StagesFrom ==
  ASSUME \A u \in Doers : \A f : f = agenda'[u] =>
           \A k \in 1 .. Len(f) : BacksAt(f, k) /\ ReactAt(f, k)' /\ RunAt(f, k)'
  PROVE  Stages'
<1> SUFFICES ASSUME NEW u \in Doers, NEW k \in 1 .. Len(agenda'[u])
             PROVE  BacksAt(agenda[u], k)' /\ ReactAt(agenda[u], k)' /\ RunAt(agenda[u], k)'
  BY DEF Stages, Doers, Workers, Wrapped, ChildSet
<1>1. PICK f : f = agenda'[u]
  OBVIOUS
<1>p. Parent' = Parent
  BY DEF Parent, ChildSet
<1>2. BacksAt(f, k) /\ ReactAt(f, k)' /\ RunAt(f, k)'
  BY <1>1
<1>3. BacksAt(agenda[u], k)'
  BY <1>1, <1>2 DEF BacksAt
<1>4. ReactAt(agenda[u], k)'
  <2>1. \A c, p : OnlyChild(f, k, p, c)' => OnlyChild(agenda[u], k, p, c)'
    BY <1>1, <1>p DEF OnlyChild, Quiet, Owner, ChildSet
  <2> QED  BY <1>1, <1>2, <2>1 DEF ReactAt
<1>5. RunAt(agenda[u], k)'
  BY <1>1, <1>2, <1>p DEF RunAt, Singled, Untouched, Renewed, Quiet, Owner, ChildSet
<1> QED  BY <1>3, <1>4, <1>5

LEMMA StagesKept ==
  ASSUME StartInv, Stages, Choosing, NEW t \in Doers, NEW op, NEW i, NEW calls, Moves(t, op, i, calls), Means(op, i, calls)
  PROVE  Stages'
<1>0. Takes(t, op, i, calls)
  BY DEF Moves
<1> SUFFICES ASSUME NEW u \in Doers, NEW f, f = agenda'[u], NEW k \in 1 .. Len(f)
             PROVE  BacksAt(f, k) /\ ReactAt(f, k)' /\ RunAt(f, k)'
  BY StagesFrom
<1>2. CASE u = t
  <2>1. PICK e : e = agenda[t]
    OBVIOUS
  <2>2. Advances(t, op, i, calls, e, f)
    BY <1>2, <2>1 DEF Advances
  <2> QED  BY <2>2, OwnStage
<1>3. CASE u # t /\ agenda'[u] = agenda[u]
  <2>1. u \in Doers \ {t} /\ k \in 1 .. Len(agenda[u]) /\ f = agenda[u]
    BY <1>3
  <2> QED  BY <2>1, OtherStage
<1>4. CASE u # t /\ agenda'[u] # agenda[u]
  <2>1. u = i /\ agenda'[u] = Call("exec", u)
    BY <1>0, <1>4 DEF Takes
  <2>2. i \in Instructions
    <3>1. ExclusiveInv /\ Due(t, op, i)
      BY DEF StartInv, Moves
    <3> QED  BY <3>1, AtFront
  <2>3. f = Call("exec", u) /\ u \in Instructions
    BY <2>1, <2>2
  <2> QED  BY <2>3, FreshStage
<1> QED  BY <1>2, <1>3, <1>4

-----------------------------------------------------------------------------
(* The children of a reactive compound, step by step                         *)

\* What is not taken up yet is still owed, and what a call leaves is from now on.
LEMMA OwedStays ==
  ASSUME StartInv, NEW t \in Doers, NEW op, NEW i, NEW calls, Moves(t, op, i, calls),
         NEW u \in Doers, NEW k \in 1 .. Len(agenda[u]), u = t => k # 1,
         NEW p, NEW ops, agenda[u][k][1] \in ops, Owner(agenda[u][k]) = p
  PROVE  Owes(p, ops)'
<1>1. \E m \in 1 .. Len(agenda'[u]) : agenda'[u][m] = agenda[u][k]
  BY StillThere, ThreadNames
<1>2. PICK m \in 1 .. Len(agenda'[u]) : agenda'[u][m] = agenda[u][k]
  BY <1>1
<1>3. PICK call : call = agenda'[u][m]
  OBVIOUS
<1>4. call[1] \in ops /\ Owner(call) = p
  BY <1>2, <1>3
<1>5. \E v \in Doers : \E j \in 1 .. Len(agenda'[v]) : agenda'[v][j] = call
  BY <1>3
<1> QED  BY <1>4, <1>5 DEF Owes, Owner, Parent, ChildSet, Doers, Workers, Wrapped

LEMMA NewOwed ==
  ASSUME StartInv, NEW t \in Doers, NEW op, NEW i, NEW calls, Moves(t, op, i, calls),
         NEW k \in 1 .. Len(calls), NEW p, NEW ops, calls[k][1] \in ops, Owner(calls[k]) = p
  PROVE  Owes(p, ops)'
<1>1. PICK e : e = agenda[t]
  OBVIOUS
<1>2. PICK f : f = agenda'[t]
  OBVIOUS
<1>3. Advances(t, op, i, calls, e, f)
  BY <1>1, <1>2 DEF Advances
<1>x. PICK x : x = Owner(<<op, i>>)
  OBVIOUS
<1>y. PICK b : b = Base(t)
  OBVIOUS
<1>4. Spliced(e, calls, f)
  BY <1>3, <1>x, <1>y, Advanced
<1>5. k \in 1 .. Len(f) /\ f[k] = calls[k]
  BY <1>4 DEF Spliced
<1>6. PICK call : call = f[k]
  OBVIOUS
<1>7. call[1] \in ops /\ Owner(call) = p
  BY <1>5, <1>6
<1>8. \E v \in Doers : \E j \in 1 .. Len(agenda'[v]) : agenda'[v][j] = call
  BY <1>2, <1>5, <1>6
<1> QED  BY <1>7, <1>8 DEF Owes, Owner, Parent, ChildSet, Doers, Workers, Wrapped

\* A child changes while its compound still has to return, and when that is not because
\* the compound executes it, it is cleared.
LEMMA ChildSteps ==
  ASSUME StartInv, Stages, NEW t \in Doers, NEW op, NEW i, NEW calls, Moves(t, op, i, calls),
         NEW p \in Below(root), Kind[p] \in Reactive, NEW d \in ChildSet(p), status'[d] # status[d]
  PROVE  Owes(p, Closes)' /\ (Owes(p, Rounds)' \/ status'[d] = "NOT_STARTED")
<1>1. i = d /\ HeldFor(agenda[t], op, p, d) /\ (op = "clear" => status'[d] = "NOT_STARTED")
  <2>1. StartInv /\ Stages /\ Moves(t, op, i, calls) /\ Kind[p] \in Reactive /\ status'[d] # status[d]
    OBVIOUS
  <2> QED  BY <2>1, ReactiveMarked
<1>2. PICK m \in 2 .. Len(agenda[t]) :
           /\ agenda[t][m][1] \in {"return", "running", "clear", "react"} /\ Owner(agenda[t][m]) = p
           /\ op = "clear" \/ agenda[t][m] = <<"react", d>>
  BY <1>1 DEF HeldFor
<1>3. ExclusiveInv /\ Due(t, op, i)
  BY DEF StartInv, Moves
<1>4. 1 \in 1 .. Len(agenda[t])
  BY <1>3, AtFront
<1>5. m \in 1 .. Len(agenda[t]) /\ m # 1
  BY <1>3, <1>4, AtCall
<1>6. Owes(p, Closes)'
  <2>1. agenda[t][m][1] \in Closes /\ Owner(agenda[t][m]) = p
    BY <1>2 DEF Closes
  <2>2. t = t => m # 1
    BY <1>5
  <2> QED  BY <1>5, <2>1, <2>2, OwedStays
<1>7. CASE agenda[t][m] = <<"react", d>>
  <2>1. agenda[t][m][1] \in Rounds /\ Owner(agenda[t][m]) = p
    BY <1>2, <1>7 DEF Rounds
  <2>2. t = t => m # 1
    BY <1>5
  <2>3. Owes(p, Rounds)'
    BY <1>5, <2>1, <2>2, OwedStays
  <2> QED  BY <1>6, <2>3
<1> QED  BY <1>1, <1>2, <1>6, <1>7

\* A compound looks at the child that it has executed.
LEMMA FrontReacts ==
  ASSUME StartInv, Stages, NEW t \in Doers, NEW i, NEW calls, Moves(t, "react", i, calls), Means("react", i, calls),
         NEW p, p = Parent[i]
  PROVE  /\ UNCHANGED status /\ FirstOpen(Children[p], i)
         /\ Owes(p, Closes)' /\ (status[i] = "RUNNING" => Owes(p, Rounds)')
<1>1. ExclusiveInv /\ Due(t, "react", i)
  BY DEF StartInv, Moves
<1>2. 1 \in 1 .. Len(agenda[t]) /\ agenda[t][1] = <<"react", i>>
  BY <1>1, AtFront
<1>3. p \in Instructions /\ i \in ChildSet(p)
  BY <1>2, ReactAbout
<1>4. FirstOpen(Children[p], i)
  <2>1. ReactAt(agenda[t], 1)
    BY <1>2 DEF Stages
  <2> QED  BY <1>2, <2>1 DEF ReactAt
<1>5. /\ UNCHANGED status
      /\ status[i] = "RUNNING" => calls = ResetOtherChildren(p, i) \o Call("running", p)
      /\ status[i] # "RUNNING" => calls = Call("return", p)
  BY DEF Means
<1>6. CASE status[i] = "RUNNING"
  <2>1. Resets(p, i, calls)
    BY <1>3, <1>5, <1>6, ResetsOthers
  <2>2. PICK l \in Nat : Len(calls) = l + 1 /\ calls[l + 1] = <<"running", p>>
    BY <2>1 DEF Resets
  <2>3. PICK k \in 1 .. Len(calls) : calls[k] = <<"running", p>>
    BY <2>2
  <2>4. calls[k][1] \in Closes /\ calls[k][1] \in Rounds /\ Owner(calls[k]) = p
    BY <2>3 DEF Closes, Rounds, Owner
  <2>5. Owes(p, Closes)'
    BY <2>4, NewOwed
  <2>6. Owes(p, Rounds)'
    BY <2>4, NewOwed
  <2> QED  BY <1>4, <1>5, <2>5, <2>6
<1>7. CASE status[i] # "RUNNING"
  <2>1. 1 \in 1 .. Len(calls) /\ calls[1] = <<"return", p>>
    BY <1>5, <1>7 DEF Call
  <2>2. calls[1][1] \in Closes /\ Owner(calls[1]) = p
    BY <2>1 DEF Closes, Owner
  <2>3. Owes(p, Closes)'
    BY <2>1, <2>2, NewOwed
  <2> QED  BY <1>4, <1>5, <1>7, <2>3
<1> QED  BY <1>6, <1>7

\* A compound that returns RUNNING has one child under way.
LEMMA FrontSingled ==
  ASSUME StartInv, Stages, NEW t \in Doers, NEW p, Due(t, "running", p), Kind[p] \in Reactive
  PROVE  StandsAlone(p, Children[p]) /\ InOrder(Children[p])
<1>1. ExclusiveInv
  BY DEF StartInv
<1>2. 1 \in 1 .. Len(agenda[t]) /\ agenda[t][1] = <<"running", p>> /\ p \in Instructions
  BY <1>1, AtFront
<1>3. Singled(agenda[t], 1, p)
  <2>1. RunAt(agenda[t], 1)
    BY <1>2 DEF Stages
  <2> QED  BY <1>2, <2>1 DEF RunAt
<1>4. PICK c \in ChildSet(p) : status[c] = "RUNNING" /\ \A d \in ChildSet(p) \ {c} : Renewed(agenda[t], 1, d)
  BY <1>3 DEF Singled
<1>5. \A d \in ChildSet(p) \ {c} : status[d] = "NOT_STARTED"
  <2>1. 1 .. 1 - 1 = {}
    OBVIOUS
  <2> QED  BY <1>4, <2>1 DEF Renewed
<1>6. PICK s : s = Children[p]
  OBVIOUS
<1>7. StandsAlone(p, s) /\ InOrder(s)
  BY <1>2, <1>4, <1>5, <1>6, SingledStands
<1> QED  BY <1>6, <1>7


\* Its children stay in order, except while it looks at the one that it has executed.
LEMMA OrderKept ==
  ASSUME StartInv, Stages, Choosing, NEW t \in Doers, NEW op, NEW i, NEW calls, Moves(t, op, i, calls),
         Means(op, i, calls), NEW p \in Below(root), Kind[p] \in Reactive
  PROVE  Owes(p, Rounds)' \/ InOrder(Children[p])'
<1> SUFFICES ASSUME ~Owes(p, Rounds)'  PROVE InOrder(Children[p])'
  OBVIOUS
<1>1. ExclusiveInv /\ Due(t, op, i)
  BY DEF StartInv, Moves
<1>2. 1 \in 1 .. Len(agenda[t]) /\ agenda[t][1] = <<op, i>>
  BY <1>1, AtFront
<1>3. p \in Instructions
  BY <1>1, <1>2, AtCall
<1>4. PICK s : s = Children[p]
  OBVIOUS
<1>5. /\ Len(s) \in Nat /\ \A k \in 1 .. Len(s) : s[k] \in ChildSet(p)
      /\ \A j, k \in 1 .. Len(s) : s[j] = s[k] => j = k
  BY <1>3, <1>4, ChildList
<1>6. \A j \in 1 .. Len(s) : status'[s[j]] = status[s[j]] \/ status'[s[j]] = "NOT_STARTED"
  <2>1. \A c \in ChildSet(p) : status'[c] = status[c] \/ status'[c] = "NOT_STARTED"
    BY ChildSteps
  <2> QED  BY <1>5, <2>1
<1>7. SUFFICES InOrder(s)
  <2>1. InOrder(s) => InOrder(s)'
    BY <1>5, <1>6, OrderedCleared
  <2>2. InOrder(s)' => InOrder(Children[p])'
    BY <1>4 DEF InOrder, NoneAfter
  <2> QED  BY <2>1, <2>2
<1>8. SUFFICES ASSUME Owes(p, Rounds)  PROVE InOrder(s)
  BY <1>4 DEF Choosing
<1>9. PICK u \in Doers : \E k \in 1 .. Len(agenda[u]) : agenda[u][k][1] \in Rounds /\ Owner(agenda[u][k]) = p
  BY <1>8 DEF Owes
<1>10. PICK k \in 1 .. Len(agenda[u]) : agenda[u][k][1] \in Rounds /\ Owner(agenda[u][k]) = p
  BY <1>9
<1>11. u = t /\ k = 1
  <2> SUFFICES ASSUME u = t => k # 1  PROVE FALSE
    OBVIOUS
  <2>1. Owes(p, Rounds)'
    BY <1>10, OwedStays
  <2> QED  BY <2>1
<1>12. op \in Rounds /\ Owner(<<op, i>>) = p
  BY <1>2, <1>10, <1>11
<1>13. CASE op = "react"
  <2>1. p = Parent[i]
    BY <1>12, <1>13 DEF Owner
  <2>2. Moves(t, "react", i, calls) /\ Means("react", i, calls)
    BY <1>13
  <2>3. FirstOpen(Children[p], i) /\ (status[i] = "RUNNING" => Owes(p, Rounds)')
    BY <2>1, <2>2, FrontReacts
  <2>4. status[i] # "RUNNING" /\ FirstOpen(s, i)
    BY <1>4, <2>3
  <2> QED  BY <2>4 DEF FirstOpen, InOrder, NoneAfter
<1>14. CASE op = "running"
  <2>1. Due(t, "running", p)
    BY <1>1, <1>12, <1>14 DEF Owner
  <2> QED  BY <1>4, <2>1, FrontSingled
<1> QED  BY <1>12, <1>13, <1>14 DEF Rounds

LEMMA AloneKept ==
  ASSUME StartInv, Lively, Stages, Choosing, NEW t \in Doers, NEW op, NEW i, NEW calls, Moves(t, op, i, calls),
         Means(op, i, calls), NEW p \in Below(root), Kind[p] \in Reactive, status'[p] = "RUNNING"
  PROVE  StandsAlone(p, Children[p])' \/ Owes(p, Closes)'
<1> SUFFICES ASSUME ~Owes(p, Closes)'  PROVE StandsAlone(p, Children[p])'
  OBVIOUS
<1>1. ExclusiveInv /\ Tables /\ Due(t, op, i) /\ status \in [Instructions -> ExecutionStatus]
  BY DEF StartInv, Moves, Tables
<1>2. 1 \in 1 .. Len(agenda[t]) /\ agenda[t][1] = <<op, i>> /\ i \in Instructions
  BY <1>1, AtFront
<1>3. p \in Instructions
  BY <1>1, <1>2, AtCall
<1>s. \A v : status' = [status EXCEPT ![p] = v] => status'[p] = v
  BY <1>1, <1>3
<1>4. PICK s : s = Children[p]
  OBVIOUS
<1>5. Len(s) \in Nat /\ \A k \in 1 .. Len(s) : s[k] \in ChildSet(p)
  BY <1>3, <1>4, ChildList
<1>6. \A j \in 1 .. Len(s) : status'[s[j]] = status[s[j]]
  <2>1. \A c \in ChildSet(p) : status'[c] = status[c]
    BY ChildSteps
  <2> QED  BY <1>5, <2>1
<1>7. SUFFICES StandsAlone(p, s)
  <2>1. StandsAlone(p, s) => StandsAlone(p, s)'
    <3>1. Pass(p)' = Pass(p)
      BY DEF Pass
    <3> QED  BY <1>6, <3>1 DEF StandsAlone
  <2>2. StandsAlone(p, s)' => StandsAlone(p, Children[p])'
    BY <1>4 DEF StandsAlone, Pass
  <2> QED  BY <2>1, <2>2
<1>8. ASSUME op \in Closes, Owner(<<op, i>>) = p  PROVE StandsAlone(p, s)
  <2>1. CASE op = "react"
    <3>1. p = Parent[i]
      BY <1>8, <2>1 DEF Owner
    <3>2. Moves(t, "react", i, calls) /\ Means("react", i, calls)
      BY <2>1
    <3>3. Owes(p, Closes)'
      BY <3>1, <3>2, FrontReacts
    <3> QED  BY <3>3
  <2>2. CASE op = "running"
    <3>1. Due(t, "running", p)
      BY <1>1, <1>8, <2>2 DEF Owner
    <3> QED  BY <1>4, <3>1, FrontSingled
  <2>3. CASE op = "return"
    <3>1. i = p
      BY <1>8, <2>3 DEF Owner
    <3>2. status' = [status EXCEPT ![p] = ImplStatus(p)]
      BY <2>3, <3>1 DEF Means
    <3>3. ImplStatus(p) = "RUNNING"
      BY <1>s, <3>2
    <3>4. Owner(agenda[t][1]) = p /\ agenda[t][1][1] \in (UnderWay \ {"react", "running"}) \union {"clear"}
      BY <1>2, <1>8, <2>3 DEF UnderWay
    <3>5. InOrder(s)
      BY <1>2, <1>4, <3>4, TurnInOrder
    <3> QED  BY <1>1, <1>3, <1>4, <3>3, <3>5, VerdictStands
  <2>4. CASE op = "clear"
    <3>1. i = p
      BY <1>8, <2>4 DEF Owner
    <3>2. status' = [status EXCEPT ![p] = "NOT_STARTED"]
      BY <2>4, <3>1 DEF Moves, Effects, Marks, UnderWay
    <3> QED  BY <1>s, <3>2
  <2> QED  BY <1>8, <2>1, <2>2, <2>3, <2>4 DEF Closes
<1>9. CASE status[p] = "RUNNING"
  <2>1. SUFFICES ASSUME Owes(p, Closes)  PROVE StandsAlone(p, s)
    BY <1>4, <1>9 DEF Choosing
  <2>2. PICK u \in Doers : \E k \in 1 .. Len(agenda[u]) : agenda[u][k][1] \in Closes /\ Owner(agenda[u][k]) = p
    BY <2>1 DEF Owes
  <2>3. PICK k \in 1 .. Len(agenda[u]) : agenda[u][k][1] \in Closes /\ Owner(agenda[u][k]) = p
    BY <2>2
  <2>4. u = t /\ k = 1
    <3> SUFFICES ASSUME u = t => k # 1  PROVE FALSE
      OBVIOUS
    <3>1. Owes(p, Closes)'
      BY <2>3, OwedStays
    <3> QED  BY <3>1
  <2>5. op \in Closes /\ Owner(<<op, i>>) = p
    BY <1>2, <2>3, <2>4
  <2> QED  BY <1>8, <2>5
<1>10. CASE status[p] # "RUNNING"
  <2>1. i = p /\ op \in {"clear", "exec"} \union (UnderWay \ {"react"})
    BY <1>1, <1>2, <1>3, <1>10, Remarked
  <2>2. /\ p \notin Leaf /\ ~ReadsAttribute(p)
        /\ Kind[p] \notin Threaded \union Counting \union {"Listen", "Choice", "UserChoice"}
    BY <1>3, ReactiveKind
  <2>3. op # "exec"
    <3> SUFFICES ASSUME op = "exec"  PROVE FALSE
      OBVIOUS
    <3>1. UNCHANGED status \/ status' = [status EXCEPT ![p] = "NOT_FINISHED"]
      BY <2>1, <2>2 DEF Means
    <3> QED  BY <1>s, <1>10, <3>1
  <2>4. op # "body"
    <3> SUFFICES ASSUME op = "body"  PROVE FALSE
      OBVIOUS
    <3>1. UNCHANGED status
      BY <2>1, <2>2 DEF Means, Counting
    <3> QED  BY <1>10, <3>1
  <2>5. op # "work"
    <3>1. LiveCall(<<op, i>>)
      BY <1>2 DEF Lively
    <3> QED  BY <2>1, <2>2, <3>1 DEF LiveCall
  <2>6. op \notin {"choose", "listen"}
    BY <2>1, <2>2 DEF Means
  <2>7. op # "conclude"
    BY <1>10 DEF Means
  <2>8. op \in Closes /\ Owner(<<op, i>>) = p
    BY <2>1, <2>3, <2>4, <2>5, <2>6, <2>7 DEF UnderWay, Closes, Owner
  <2> QED  BY <1>8, <2>8
<1> QED  BY <1>9, <1>10

-----------------------------------------------------------------------------
(* A reactive compound that is RUNNING has one child under way               *)

LEMMA RunMove ==
  ASSUME RunInv, StartInv', NEW t \in Doers, NEW op, NEW i, NEW calls, Moves(t, op, i, calls), Means(op, i, calls)
  PROVE  RunInv'
<1>1. StartInv /\ Lively /\ Stages /\ Choosing /\ t \in Threads
  BY ThreadNames DEF RunInv
<1>2. Lively'
  BY <1>1, LivelyKept
<1>3. Stages'
  BY <1>1, StagesKept
<1>4. Choosing'
  <2>1. UNCHANGED root
    BY DEF Moves
  <2>2. ASSUME NEW p \in Below(root), Kind[p] \in Reactive
        PROVE  /\ Owes(p, Rounds)' \/ InOrder(Children[p])'
               /\ status'[p] = "RUNNING" => StandsAlone(p, Children[p])' \/ Owes(p, Closes)'
    <3>1. Owes(p, Rounds)' \/ InOrder(Children[p])'
      BY <1>1, <2>2, OrderKept
    <3>2. status'[p] = "RUNNING" => StandsAlone(p, Children[p])' \/ Owes(p, Closes)'
      BY <1>1, <2>2, AloneKept
    <3> QED  BY <3>1, <3>2
  <2>3. Below(root)' = Below(root) /\ Rounds' = Rounds /\ Closes' = Closes
    BY <2>1 DEF Below, Closed, ChildSet, Rounds, Closes
  <2> QED  BY <2>2, <2>3 DEF Choosing, Rounds, Closes
<1> QED  BY <1>2, <1>3, <1>4 DEF RunInv

LEMMA RunBegins ==
  ASSUME RunInv, StartInv', UNCHANGED <<root, status>>,
         \A u \in Doers : \/ agenda'[u] = agenda[u]
                          \/ /\ agenda[u] = << >>
                             /\ \E op \in {"exec", "reset"} : agenda'[u] = Call(op, root) /\ u = Ticker
  PROVE  RunInv'
<1>1. StartInv /\ Lively /\ Stages /\ Choosing /\ ExclusiveInv /\ root \in Instructions
  BY TreeAssumption DEF RunInv, StartInv, ExclusiveInv
<1>2. Lively'
  BY <1>1, LivelyBegins
<1>3. Stages'
  <2> SUFFICES ASSUME NEW u \in Doers, NEW f, f = agenda'[u], NEW k \in 1 .. Len(f)
               PROVE  BacksAt(f, k) /\ ReactAt(f, k)' /\ RunAt(f, k)'
    BY StagesFrom
  <2>1. CASE f = agenda[u]
    <3>1. BacksAt(f, k) /\ ReactAt(f, k) /\ RunAt(f, k)
      BY <1>1, <2>1 DEF Stages
    <3>2. ReactAt(f, k)'
      <4>1. \A s, c : FirstOpen(s, c) => FirstOpen(s, c)'
        BY DEF FirstOpen, NoneAfter
      <4>2. \A p, c : FirstOpen(Children[p], c) => FirstOpen(Children[p], c)'
        BY DEF FirstOpen, NoneAfter
      <4>3. \A c, p : f[k] = <<"react", c>> /\ p = Parent[c] => FirstOpen(Children[p], c)' /\ OnlyChild(f, k, p, c)
        BY <3>1, <4>2 DEF ReactAt
      <4> QED  BY <4>3, ReactAtMeans
    <3>3. RunAt(f, k)'
      <4>1. f[k] \in AnyCall
        BY <1>1, <2>1, AtCall
      <4>2. \A p : Singled(f, k, p) => Singled(f, k, p)'
        BY DEF Singled, Untouched, Renewed, Quiet, Owner, Parent, ChildSet
      <4>3. \A p : f[k] = <<"running", p>> /\ Kind[p] \in Reactive => Singled(f, k, p)'
        BY <3>1, <4>2 DEF RunAt
      <4> QED  BY <4>1, <4>3, RunAtMeans
    <3> QED  BY <3>1, <3>2, <3>3
  <2>2. ASSUME NEW op \in {"exec", "reset"}, f = Call(op, root)
        PROVE  BacksAt(f, k) /\ ReactAt(f, k)' /\ RunAt(f, k)'
    <3>1. PICK z \in Instructions : z = root
      BY <1>1
    <3>2. f = Call(op, z)
      BY <2>2, <3>1
    <3> QED  BY <3>2, FreshStage
  <2> QED  BY <2>1, <2>2
<1>4. ASSUME NEW p, NEW ops, Owes(p, ops)  PROVE Owes(p, ops)'
  <2>1. PICK u \in Doers : \E k \in 1 .. Len(agenda[u]) : agenda[u][k][1] \in ops /\ Owner(agenda[u][k]) = p
    BY <1>4 DEF Owes
  <2>2. agenda[u] # << >>
    <3>1. 1 .. Len(<< >>) = {}
      OBVIOUS
    <3> QED  BY <2>1, <3>1
  <2>3. agenda'[u] = agenda[u]
    BY <2>2
  <2> QED  BY <2>1, <2>3 DEF Owes, Owner, Parent, ChildSet, Doers, Workers, Wrapped
<1>5. Choosing'
  <2>1. ASSUME NEW p \in Below(root), Kind[p] \in Reactive
        PROVE  /\ Owes(p, Rounds)' \/ InOrder(Children[p])'
               /\ status'[p] = "RUNNING" => StandsAlone(p, Children[p])' \/ Owes(p, Closes)'
    <3>1. InOrder(Children[p]) => InOrder(Children[p])'
      BY DEF InOrder, NoneAfter
    <3>2. StandsAlone(p, Children[p]) => StandsAlone(p, Children[p])'
      BY DEF StandsAlone, Pass
    <3> QED  BY <1>1, <1>4, <2>1, <3>1, <3>2 DEF Choosing
  <2>2. Below(root)' = Below(root)
    BY DEF Below, Closed, ChildSet
  <2> QED  BY <2>1, <2>2 DEF Choosing, Rounds, Closes
<1> QED  BY <1>2, <1>3, <1>5 DEF RunInv

LEMMA RunInit == Init => RunInv
<1> SUFFICES ASSUME Init  PROVE RunInv
  OBVIOUS
<1>1. StartInv /\ Lively
  BY EarnInit DEF EarnInv
<1>2. \A u \in Doers : agenda[u] = << >>
  BY ThreadNames DEF Init
<1>3. Stages
  <2>1. 1 .. Len(<< >>) = {}
    OBVIOUS
  <2> QED  BY <1>2, <2>1 DEF Stages
<1>4. Choosing
  <2>1. Below(root) \subseteq Instructions
    <3>1. root \in Instructions
      BY TreeAssumption DEF Init
    <3> QED  BY <3>1, BelowClosed
  <2>2. ASSUME NEW p \in Below(root)  PROVE InOrder(Children[p])
    <3>1. PICK s : s = Children[p]
      OBVIOUS
    <3>2. \A k \in 1 .. Len(s) : s[k] \in Instructions
      BY <2>1, <3>1, ChildList
    <3>3. \A k \in 1 .. Len(s) : status[s[k]] = "NOT_STARTED"
      BY <3>2 DEF Init
    <3> QED  BY <3>1, <3>3 DEF InOrder, NoneAfter
  <2>3. \A p \in Below(root) : status[p] = "NOT_STARTED"
    BY <2>1 DEF Init
  <2> QED  BY <2>2, <2>3 DEF Choosing
<1> QED  BY <1>1, <1>3, <1>4 DEF RunInv

LEMMA RunStep ==
  ASSUME RunInv, [Next]_vars  PROVE RunInv'
<1>0. StartInv /\ StartInv' /\ agenda \in [Threads -> Seq(AnyCall)]
  BY StartStep DEF RunInv, StartInv, ExclusiveInv, Walks
<1>n. /\ Doers \subseteq Threads /\ Ticker \in Doers /\ Halter \notin Doers
      /\ Threads = Doers \union {Halter}
  BY ThreadNames DEF Doers
<1>1. CASE BeginTick
  <2>1. \A u \in Doers : \/ agenda'[u] = agenda[u]
                         \/ agenda[u] = << >> /\ agenda'[u] = Call("exec", root) /\ u = Ticker
    BY <1>0, <1>n, <1>1 DEF BeginTick, Idle
  <2> QED  BY <1>0, <1>1, <2>1, RunBegins DEF BeginTick
<1>2. CASE BeginReset
  <2>1. \A u \in Doers : \/ agenda'[u] = agenda[u]
                         \/ agenda[u] = << >> /\ agenda'[u] = Call("reset", root) /\ u = Ticker
    BY <1>0, <1>n, <1>2 DEF BeginReset, Idle
  <2> QED  BY <1>0, <1>2, <2>1, RunBegins DEF BeginReset
<1>3. CASE BeginHalt
  <2>1. \A u \in Doers : agenda'[u] = agenda[u]
    BY <1>0, <1>n, <1>3 DEF BeginHalt
  <2> QED  BY <1>0, <1>3, <2>1, RunBegins DEF BeginHalt
<1>4. CASE UNCHANGED vars
  BY <1>0, <1>4, RunBegins DEF vars
<1>5. ASSUME NEW t \in Threads, NEW i, Step(t, i) \/ Work(t, i)  PROVE RunInv'
  <2>1. ExclusiveInv /\ Laid /\ Answers /\ Sure
    BY <1>0, InvIsSure DEF StartInv
  <2>2. PICK op, calls : Moves(t, op, i, calls)
    BY <1>5, <2>1, StepMoves
  <2>3. CASE t \in Doers
    <3>1. Means(op, i, calls)
      BY <1>5, <2>1, <2>2, StepMeans
    <3> QED  BY <1>0, <2>2, <2>3, <3>1, RunMove
  <2>4. CASE t = Halter
    <3>1. Moves(Halter, op, i, calls)
      BY <2>2, <2>4
    <3>2. UNCHANGED <<root, status>> /\ \A u \in Doers : agenda'[u] = agenda[u]
      BY <1>0, <3>1, HalterQuiet
    <3> QED  BY <1>0, <3>2, RunBegins
  <2> QED  BY <1>n, <2>3, <2>4
<1> QED  BY <1>1, <1>2, <1>3, <1>4, <1>5 DEF Next

\* No thread has a call left about an instruction at rest that gives it a status.
LEMMA RestOwesNothing ==
  ASSUME ExclusiveInv, NEW z, AtRest(z)  PROVE ~Owes(z, Closes)
<1> SUFFICES ASSUME Owes(z, Closes)  PROVE FALSE
  OBVIOUS
<1>1. PICK u \in Doers : \E k \in 1 .. Len(agenda[u]) : agenda[u][k][1] \in Closes /\ Owner(agenda[u][k]) = z
  BY DEF Owes
<1>2. PICK k \in 1 .. Len(agenda[u]) : agenda[u][k][1] \in Closes /\ Owner(agenda[u][k]) = z
  BY <1>1
<1>3. agenda[u] \in Seq(AnyCall) /\ u \in Threads
  BY ThreadNames DEF ExclusiveInv, Walks
<1>4. k \in DOMAIN agenda[u] /\ agenda[u][k][1] \notin {"halt", "drop", "tick", "reset"}
  BY <1>2, <1>3 DEF Closes
<1>5. z \in InsideOf(u)
  BY <1>2, <1>4 DEF InsideOf
<1> QED  BY <1>3, <1>5 DEF AtRest

LEMMA InvStandsAlone == RunInv => RunningStandsAlone
<1> SUFFICES ASSUME RunInv, NEW z \in Subtree[root], Kind[z] \in Reactive, AtRest(z), status[z] = "RUNNING"
             PROVE  \E k \in DOMAIN Children[z] :
                      /\ status[Children[z][k]] = "RUNNING"
                      /\ \A j \in DOMAIN Children[z] \ {k} :
                           \/ status[Children[z][j]] = "NOT_STARTED"
                           \/ j < k /\ status[Children[z][j]] = Pass(z)
  BY DEF RunningStandsAlone, Pass
<1>1. ExclusiveInv /\ root \in Instructions
  BY TreeAssumption DEF RunInv, StartInv, ExclusiveInv
<1>2. z \in Below(root) /\ z \in Instructions
  BY <1>1, SubtreeIsBelow, BelowClosed
<1>3. StandsAlone(z, Children[z])
  BY <1>1, <1>2, RestOwesNothing DEF RunInv, Choosing
<1>4. PICK s : s = Children[z]
  OBVIOUS
<1>5. DOMAIN s = 1 .. Len(s)
  BY <1>2, <1>4, ChildList
<1>6. StandsAlone(z, s)
  BY <1>3, <1>4
<1>7. \E k \in DOMAIN s : /\ status[s[k]] = "RUNNING"
                          /\ \A j \in DOMAIN s \ {k} :
                               status[s[j]] = "NOT_STARTED" \/ (j < k /\ status[s[j]] = Pass(z))
  BY <1>5, <1>6 DEF StandsAlone
<1> QED  BY <1>4, <1>7

\* Whatever the tree, and whoever halts or resets it: a reactive compound at rest that is
\* RUNNING has one child RUNNING, the children before it have passed or are reset, and none
\* after it has started (ResetOtherChildren in ExecuteSingleImpl of ReactiveSequence and
\* ReactiveFallback).
THEOREM RunningStandsAloneHolds == Spec => []RunningStandsAlone
<1> QED  BY RunInit, RunStep, InvStandsAlone, PTL DEF Spec
-----------------------------------------------------------------------------
(* How often the child of a Repeat or For has run                            *)

\* The procedure is a Repeat or For that counts.
CountingRoot == Kind[root] \in Counting /\ MaxCount[root] > 0

\* A call about the root is the last one of its thread, and only its own return or clear leaves
\* anything to be done before.
Bottomed(e) ==
  e # << >> =>
    /\ e[Len(e)] \in {"exec", "body", "return", "reset", "clear"} \X {root}
    /\ e[Len(e)][1] \in {"exec", "body", "reset"} => Len(e) = 1
    /\ \A k \in 1 .. Len(e) - 1 : Owner(e[k]) # root

TakenBack(e, c) == \E k \in 1 .. Len(e) : e[k] \in {<<"reset", c>>, <<"clear", c>>}

\* Between ticks, the count is what has been counted, and it says whether to go on.
BetweenTicks(c) ==
  /\ status[root] = "NOT_STARTED" => status[c] = "NOT_STARTED"
  /\ status[root] # "NOT_STARTED" => runs[c] = count[root]
  /\ status[root] \in {"NOT_FINISHED", "RUNNING"} => count[root] < MaxCount[root] /\ status[c] # "FAILURE"
  /\ status[root] = "SUCCESS" => count[root] = MaxCount[root]

\* Within a tick, a run that has ended is yet to be counted, unless it was counted before.
WithinTick(e, c) ==
  /\ count[root] < MaxCount[root]
  /\ runs[c] = count[root] + IF IsFinishedStatus(status[c]) /\ ~TakenBack(e, c) THEN 1 ELSE 0

CountsUpTo(e, c) ==
  /\ count[root] \in Nat /\ runs[c] \in 0 .. MaxCount[root]
  /\ status[root] = "NOT_STARTED" => runs[c] = 0
  /\ e = << >> \/ e[1] \in {<<"exec", root>>, <<"body", root>>} => BetweenTicks(c)
  /\ e # << >> /\ e[Len(e)] = <<"return", root>> => WithinTick(e, c)
  /\ e # << >> /\ e[Len(e)] = <<"clear", root>> => TakenBack(e, c) \/ status[c] = "NOT_STARTED"

CountTable == count \in [Instructions -> Nat]

CountInv == CountTable /\ (CountingRoot => Bottomed(agenda[Ticker]) /\ CountsUpTo(agenda[Ticker], Child(root)))

CountedInv == RunInv /\ CountInv

\* What each kind of call does with the count and, where it matters for the count, the status.
Tallies(op, i) ==
  /\ op = "exec" /\ status[i] = "NOT_STARTED" =>
       /\ count' = [count EXCEPT ![i] = 0]
       /\ \E s \in {"NOT_FINISHED", "FAILURE"} : status' = [status EXCEPT ![i] = s]
  /\ op = "body" => UNCHANGED status \/ status' = [status EXCEPT ![i] = "FAILURE"]
  /\ op = "return" => count' = IF Kind[i] \in Counting THEN [count EXCEPT ![i] = Counted(i)] ELSE count
  /\ op = "return" \/ (op = "exec" /\ status[i] = "NOT_STARTED") \/ UNCHANGED count

LEMMA StepTallies ==
  ASSUME NEW t \in Threads, NEW i, Step(t, i) \/ Work(t, i), NEW op, NEW calls, Moves(t, op, i, calls)
  PROVE  Tallies(op, i)
<1>o. \A o : Due(t, o, i) => op = o
  BY SameOperation
<1>q. \A o \in {"tick", "halt", "drop", "reset", "join", "clear", "work", "react", "running", "listen",
                "choose", "conclude"} : Due(t, o, i) /\ UNCHANGED count => Tallies(op, i)
  BY <1>o DEF Tallies
<1>1. CASE Preamble(t, i)
  <2>1. op = "exec"
    BY <1>1, <1>o DEF Preamble
  <2> QED  BY <1>1, <2>1 DEF Preamble, InitHook, InitCount, Tallies
<1>2. CASE SkipBody(t, i)
  <2>1. op = "body"
    BY <1>2, <1>o DEF SkipBody
  <2> QED  BY <1>2, <2>1 DEF SkipBody, Tallies
<1>3. CASE Body(t, i)
  <2>1. op = "body"
    BY <1>3, <1>o DEF Body, Entered
  <2> QED  BY <1>3, <2>1 DEF Body, Tallies
<1>4. CASE SetStatus(t, i)
  <2>1. op = "return"
    BY <1>4, <1>o DEF SetStatus
  <2> QED  BY <1>4, <2>1 DEF SetStatus, Tallies
<1>5. CASE ElementFails(t, i)
  <2>1. op = "body"
    BY <1>5, <1>o DEF ElementFails, Entered
  <2> QED  BY <1>5, <2>1 DEF ElementFails, Return, Tallies
<1>6. CASE React(t, i)  BY <1>6, <1>q DEF React
<1>7. CASE ReturnRunning(t, i)  BY <1>7, <1>q DEF ReturnRunning
<1>8. CASE ListenHalted(t, i)  BY <1>8, <1>q DEF ListenHalted
<1>9. CASE Listen(t, i)  BY <1>9, <1>q DEF Listen
<1>10. CASE CreateInstructionList(t, i)  BY <1>10, <1>q DEF CreateInstructionList
<1>11. CASE AskUser(t, i)  BY <1>11, <1>q DEF AskUser
<1>12. CASE NoAnswer(t, i)  BY <1>12, <1>q DEF NoAnswer
<1>13. CASE TickNothing(t, i)  BY <1>13, <1>q DEF TickNothing
<1>14. CASE UpdateStatus(t, i)  BY <1>14, <1>q DEF UpdateStatus
<1>15. CASE LaunchChild(t, i)  BY <1>15, <1>q DEF LaunchChild
<1>16. CASE Conclude(t, i)  BY <1>16, <1>q DEF Conclude
<1>17. CASE Halt(t, i)  BY <1>17, <1>q DEF Halt
<1>18. CASE DropFuture(t, i)  BY <1>18, <1>q DEF DropFuture
<1>19. CASE Reset(t, i)  BY <1>19, <1>q DEF Reset
<1>20. CASE Join(t, i)  BY <1>20, <1>q DEF Join
<1>21. CASE Clear(t, i)  BY <1>21, <1>q DEF Clear
<1>22. CASE Work(t, i)  BY <1>22, <1>q DEF Work
<1> QED
  BY <1>1, <1>2, <1>3, <1>4, <1>5, <1>6, <1>7, <1>8, <1>9, <1>10, <1>11, <1>12, <1>13, <1>14, <1>15,
     <1>16, <1>17, <1>18, <1>19, <1>20, <1>21, <1>22 DEF Step

\* The procedure of a Repeat or For that counts: its parts, and who they belong to.
LEMMA CountingParts ==
  ASSUME CountingRoot, root \in Instructions
  PROVE  /\ root \notin Leaf /\ Kind[root] \in Counting /\ Kind[root] \notin Threaded \union Reactive
         /\ Child(root) \in ChildSet(root) /\ Child(root) \in Instructions /\ Child(root) # root
         /\ MaxCount[root] \in Nat \ {0} /\ MaxCount[root] < MaxRuns /\ MaxRuns \in Nat
<1>1. root \notin Leaf
  BY LeafAssumption DEF CountingRoot, Compounds
<1>2. Child(root) \in ChildSet(root) /\ Child(root) \in Instructions
  BY <1>1, ChildIsChild
<1>3. Child(root) # root
  BY <1>2, ChildBelow DEF StrictlyBelow
<1>4. MaxCount[root] \in Int
  BY TreeAssumption
<1> QED  BY <1>1, <1>2, <1>3, <1>4, RunsAssumption DEF CountingRoot, Counting, Threaded, Reactive

LEMMA RunsOfChild ==
  ASSUME RunCountNext, CountingRoot, NEW c \in ChildSet(root), c \in Instructions
  PROVE  runs'[c] = IF RootCleared THEN 0
                    ELSE IF NeedsExecute(status[c]) /\ IsFinishedStatus(status'[c])
                    THEN Min2(runs[c] + 1, MaxRuns) ELSE runs[c]
<1>1. c \in Observed
  BY DEF Observed, CountingRoot
<1>2. runs' = [i \in Instructions |->
                IF RootCleared THEN 0
                ELSE IF i \in Observed /\ NeedsExecute(status[i]) /\ IsFinishedStatus(status'[i])
                THEN Min2(runs[i] + 1, MaxRuns) ELSE runs[i]]
  BY DEF RunCountNext
<1> QED  BY <1>1, <1>2

LEMMA CountFrom ==
  ASSUME CountTable', UNCHANGED root, NEW f, f = agenda'[Ticker], NEW c, c = Child(root),
         CountingRoot => Bottomed(f)' /\ CountsUpTo(f, c)'
  PROVE  CountInv'
<1>1. CountingRoot' <=> CountingRoot
  BY DEF CountingRoot
<1>2. Child(root)' = c
  BY DEF Child
<1>3. Bottomed(f)' => Bottomed(agenda[Ticker])'
  BY DEF Bottomed, Owner
<1>4. CountsUpTo(f, c)' => CountsUpTo(agenda[Ticker], Child(root))'
  BY <1>2 DEF CountsUpTo, BetweenTicks, WithinTick, TakenBack
<1> QED  BY <1>1, <1>3, <1>4 DEF CountInv

\* Nobody has touched what the invariant speaks of.
LEMMA CountSame ==
  ASSUME CountingRoot, NEW e, NEW c, UNCHANGED root,
         status'[root] = status[root], count'[root] = count[root],
         status'[c] = status[c], runs'[c] = runs[c], Bottomed(e), CountsUpTo(e, c)
  PROVE  Bottomed(e)' /\ CountsUpTo(e, c)'
<1>1. Bottomed(e)'
  BY DEF Bottomed, Owner
<1>2. /\ BetweenTicks(c)' <=> BetweenTicks(c)
      /\ WithinTick(e, c)' <=> WithinTick(e, c)
      /\ TakenBack(e, c)' <=> TakenBack(e, c)
  BY DEF BetweenTicks, WithinTick, TakenBack
<1> QED  BY <1>1, <1>2 DEF CountsUpTo

\* The last part of the invariant as the steps need it.
LEMMA CountAt ==
  ASSUME CountedInv, CountingRoot, NEW e, e = agenda[Ticker], NEW c, c = Child(root)
  PROVE  /\ Bottomed(e) /\ CountsUpTo(e, c) /\ count \in [Instructions -> Nat]
         /\ StartInv /\ Lively /\ Stages /\ ExclusiveInv /\ Tables /\ root \in Roots /\ root \in Instructions
         /\ root \in Below(root) /\ c \in ChildSet(root) /\ c \in Instructions /\ c # root
         /\ e \in Seq(AnyCall) /\ Len(e) \in Nat
<1>1. StartInv /\ Lively /\ Stages /\ ExclusiveInv /\ Tables /\ root \in Roots
  BY DEF CountedInv, RunInv, StartInv, ExclusiveInv
<1>2. root \in Instructions
  BY <1>1, TreeAssumption
<1>3. root \in Below(root)
  BY <1>2, BelowClosed
<1>4. c \in ChildSet(root) /\ c \in Instructions /\ c # root
  BY <1>2, CountingParts
<1>5. e \in Seq(AnyCall) /\ Len(e) \in Nat
  BY <1>1 DEF ExclusiveInv, Walks, Threads
<1>6. Bottomed(e) /\ CountsUpTo(e, c) /\ count \in [Instructions -> Nat]
  BY DEF CountedInv, CountInv, CountTable
<1> QED  BY <1>1, <1>2, <1>3, <1>4, <1>5, <1>6

LEMMA TableKept ==
  ASSUME count \in [Instructions -> Nat], NEW op, NEW i \in Instructions, Tallies(op, i)
  PROVE  /\ count' \in [Instructions -> Nat]
         /\ \A z \in Instructions \ {i} : count'[z] = count[z]
         /\ op \in Signals => UNCHANGED count
<1>1. Counted(i) \in Nat
  BY DEF Counted
<1>2. \/ UNCHANGED count
      \/ op \in {"return", "exec"} /\ \E n \in Nat : count' = [count EXCEPT ![i] = n]
  BY <1>1 DEF Tallies
<1> QED  BY <1>2 DEF Signals

\* A worker is inside its own part of the tree, and the root and its child are not there.
LEMMA WorkerCounts ==
  ASSUME CountedInv, CountingRoot, NEW t \in Workers, NEW op, NEW i, NEW calls, Moves(t, op, i, calls),
         Tallies(op, i), NEW c, c = Child(root)
  PROVE  /\ agenda'[Ticker] = agenda[Ticker] /\ UNCHANGED root
         /\ status'[root] = status[root] /\ status'[c] = status[c] /\ count'[root] = count[root]
<1>0. /\ StartInv /\ ExclusiveInv /\ root \in Roots /\ root \in Instructions /\ count \in [Instructions -> Nat]
      /\ root \in Below(root) /\ c \in ChildSet(root) /\ t \in Doers
  BY CountAt DEF Doers
<1>1. UNCHANGED root /\ agenda'[Ticker] = agenda[Ticker] /\ status'[root] = status[root]
  BY <1>0, WorkerApart
<1>2. Due(t, op, i) /\ ~Idle(t) /\ i \in Instructions
  BY <1>0, AtFront DEF Moves, Due, Idle
<1>3. Base(t) = t /\ t # root /\ t \in Below(root)
  BY <1>0, <1>2, BaseInTree DEF ExclusiveInv
<1>4. root \notin Below(t)
  BY <1>0, <1>3, BelowOneWay DEF StrictlyBelow
<1>5. status'[c] = status[c]
  <2>1. SUFFICES ASSUME status'[c] # status[c]  PROVE FALSE
    OBVIOUS
  <2>2. Kind[root] \in Threaded \/ root \in Below(Base(t))
    BY <1>0, <2>1, ChildMarked
  <2> QED  BY <1>0, <1>3, <1>4, <2>2, CountingParts
<1>6. count'[root] = count[root]
  <2>1. CASE op \in Signals
    BY <1>0, <1>2, <2>1, TableKept
  <2>2. CASE op \notin Signals
    <3>1. Owner(<<op, i>>) \in Below(t)
      BY <1>0, <1>2, <1>3, <2>2, AtFront
    <3>2. op = "react" => UNCHANGED count
      BY DEF Tallies
    <3>3. op # "react" => i # root
      BY <1>4, <3>1 DEF Owner
    <3> QED  BY <1>0, <1>2, <3>2, <3>3, TableKept
  <2> QED  BY <2>1, <2>2
<1> QED  BY <1>1, <1>5, <1>6

\* The client's halt only sets flags.
LEMMA HalterCounts ==
  ASSUME CountedInv, CountingRoot, NEW op, NEW i, NEW calls, Moves(Halter, op, i, calls),
         Tallies(op, i), NEW c, c = Child(root)
  PROVE  /\ agenda'[Ticker] = agenda[Ticker] /\ UNCHANGED root
         /\ status'[root] = status[root] /\ status'[c] = status[c] /\ count'[root] = count[root]
<1>1. StartInv /\ count \in [Instructions -> Nat]
  BY CountAt
<1>2. op \in Signals /\ i \in Instructions /\ UNCHANGED <<root, status>> /\ \A u \in Doers : agenda'[u] = agenda[u]
  BY <1>1, HalterQuiet
<1> QED  BY <1>1, <1>2, TableKept DEF Doers

LEMMA NothingLeft ==
  ASSUME UNCHANGED root, NEW c, count'[root] \in Nat, runs'[c] \in 0 .. MaxCount[root],
         status'[root] = "NOT_STARTED" => runs'[c] = 0, BetweenTicks(c)'
  PROVE  Bottomed(<< >>)' /\ CountsUpTo(<< >>, c)'
  BY DEF Bottomed, CountsUpTo

\* What the body of a counting instruction that has started and not finished calls.
LEMMA CountingBody ==
  ASSUME CountingRoot, root \in Instructions, NEW c, c = Child(root), NEW calls, calls = BodyCalls(root)
  PROVE  \/ /\ status[c] = "SUCCESS" /\ Len(calls) = 3
            /\ calls[1] = <<"reset", c>> /\ calls[2] = <<"exec", c>> /\ calls[3] = <<"return", root>>
         \/ /\ status[c] # "SUCCESS" /\ Len(calls) = 2
            /\ calls[1] = <<"exec", c>> /\ calls[2] = <<"return", root>>
<1>1. root \notin Leaf /\ MaxCount[root] # 0 /\ Kind[root] \in Counting
  BY CountingParts
<1>2. BodyCalls(root) = CountingCalls(root)
  BY <1>1, BodyByKind
<1>3. ChildCalls(root) = <<<<"exec", c>>, <<"return", root>>>>
  BY OneConcat DEF ChildCalls, Call
<1>4. c \in Instructions
  BY CountingParts
<1>5. <<"exec", c>> \in AnyCall /\ <<"return", root>> \in AnyCall /\ <<"reset", c>> \in AnyCall
  BY <1>4 DEF AnyCall, Operations
<1>6. PICK q : q = <<<<"exec", c>>, <<"return", root>>>>
  OBVIOUS
<1>7. q \in Seq(AnyCall) /\ Len(q) = 2 /\ q[1] = <<"exec", c>> /\ q[2] = <<"return", root>>
  BY <1>5, <1>6
<1>8. PICK p : p = <<<<"reset", c>>>>
  OBVIOUS
<1>9. p \in Seq(AnyCall) /\ Len(p) = 1 /\ p[1] = <<"reset", c>>
  BY <1>5, <1>8
<1>10. p \o q \in Seq(AnyCall) /\ Parts(p \o q, p, q)
  BY <1>7, <1>9, BothParts
<1>11. Len(p \o q) = 3 /\ (p \o q)[1] = <<"reset", c>> /\ (p \o q)[2] = <<"exec", c>> /\ (p \o q)[3] = <<"return", root>>
  <2> DEFINE g == p \o q
  <2>1. Len(g) = 3 /\ 1 \in 1 .. Len(p) /\ 1 \in 1 .. Len(q) /\ 2 \in 1 .. Len(q)
    BY <1>7, <1>9, <1>10 DEF Parts
  <2>2. g[1] = p[1] /\ g[Len(p) + 1] = q[1] /\ g[Len(p) + 2] = q[2]
    <3>1. Parts(g, p, q)
      BY <1>10
    <3> HIDE DEF g
    <3> QED  BY <2>1, <3>1 DEF Parts
  <2> HIDE DEF g
  <2>3. g[1] = <<"reset", c>> /\ g[2] = <<"exec", c>> /\ g[3] = <<"return", root>>
    BY <1>7, <1>9, <2>2
  <2> QED  BY <2>1, <2>3 DEF g
<1>12. calls = IF status[c] = "SUCCESS" THEN p \o q ELSE q
  BY <1>1, <1>2, <1>3, <1>6, <1>8 DEF CountingCalls, Call
<1> QED  BY <1>7, <1>11, <1>12

LEMMA CountingReset ==
  ASSUME CountingRoot, root \in Instructions, NEW c, c = Child(root), NEW calls, calls = ResetCalls(root)
  PROVE  /\ calls \in Seq(AnyCall) /\ Len(calls) \in Nat \ {0}
         /\ calls[Len(calls)] = <<"clear", root>>
         /\ \A k \in 1 .. Len(calls) - 1 : \E d \in ChildSet(root) : calls[k] = <<"reset", d>>
         /\ \E k \in 1 .. Len(calls) : calls[k] = <<"reset", c>>
<1>1. PICK a \in 0 .. 2 : ResetShape(root, calls, a)
  BY ResetHasShape
<1>2. ResetPlaced(root, calls, a, Len(Children[root])) /\ Len(Children[root]) \in Nat
  BY <1>1, ResetPlaces DEF ResetShape
<1>3. c \in ChildSet(root) /\ Kind[root] \in Counting
  BY CountingParts
<1>4. calls = << >> \o << >> \o ForEach("reset", Children[root]) \o Call("clear", root)
  <2>1. ~HaltsOnReset(root) /\ Kind[root] \notin Threaded
    BY <1>3 DEF HaltsOnReset, Counting, Threaded
  <2> QED  BY <2>1 DEF ResetCalls
<1>5. Len(calls) = Len(Children[root]) + 1
  <2>1. Children[root] \in Seq(Instructions)
    BY ChildrenAreInstructions
  <2>2. ForEach("reset", Children[root]) \in Seq(AnyCall) /\ Len(ForEach("reset", Children[root])) = Len(Children[root])
    BY <2>1, SeqsOfCalls DEF ForEach, Operations
  <2>3. << >> \o << >> \o ForEach("reset", Children[root]) = ForEach("reset", Children[root])
    BY <2>2
  <2> QED  BY <1>4, <2>2, <2>3 DEF Call
<1>6. a = 0
  BY <1>2, <1>5 DEF ResetPlaced
<1>7. \A k \in 1 .. Len(calls) - 1 : \E d \in ChildSet(root) : calls[k] = <<"reset", d>>
  BY <1>2, <1>5, <1>6 DEF ResetPlaced
<1>8. \E k \in 1 .. Len(calls) : calls[k] = <<"reset", c>>
  BY <1>2, <1>3, <1>6 DEF ResetPlaced
<1> QED  BY <1>2, <1>5, <1>6, <1>7, <1>8 DEF ResetPlaced

\* The last call of the thread, about the root.
LEMMA RootCounts ==
  ASSUME CountedInv, CountingRoot, RunCountNext, NEW op, NEW i, NEW calls, NEW e, NEW f,
         Advances(Ticker, op, i, calls, e, f), Means(op, i, calls), Tallies(op, i),
         Len(e) = 1, NEW c, c = Child(root)
  PROVE  Bottomed(f)' /\ CountsUpTo(f, c)'
<1>0. /\ Bottomed(e) /\ CountsUpTo(e, c) /\ count \in [Instructions -> Nat]
      /\ StartInv /\ Lively /\ ExclusiveInv /\ Tables /\ root \in Roots /\ root \in Instructions
      /\ c \in ChildSet(root) /\ c \in Instructions /\ c # root
      /\ e \in Seq(AnyCall) /\ Moves(Ticker, op, i, calls)
  BY CountAt DEF Advances
<1>1. e[1] = <<op, i>> /\ e # << >> /\ calls \in Seq(AnyCall) /\ f = calls \o Tail(e)
  <2>1. Ticker \in Doers
    BY DEF Doers
  <2>2. PICK x : x = Owner(<<op, i>>)
    OBVIOUS
  <2>3. e[1] = <<op, i>> /\ calls \in Seq(AnyCall) /\ Turns(e, x, calls, f)
    BY <1>0, <2>1, <2>2, Advanced
  <2> QED  BY <2>3 DEF Turns
<1>2. i = root /\ op \in {"exec", "body", "return", "reset", "clear"} /\ f = calls
  <2>1. e[1] \in {"exec", "body", "return", "reset", "clear"} \X {root}
    <3>1. e # << >> /\ Len(e) = 1 /\ e[Len(e)] = e[1]
      BY <1>1
    <3> QED  BY <1>0, <3>1 DEF Bottomed
  <2>2. Tail(e) = << >>
    <3>1. Tail(e) \in Seq(AnyCall) /\ Len(Tail(e)) = 0
      BY <1>0, <1>1
    <3> QED  BY <3>1, EmptySeq
  <2>3. calls \o << >> = calls
    BY <1>1
  <2>4. f = calls
    BY <1>1, <2>2, <2>3
  <2>5. <<op, i>> \in {"exec", "body", "return", "reset", "clear"} \X {root}
    BY <1>1, <2>1
  <2> QED  BY <2>4, <2>5
<1>3. UNCHANGED root /\ status'[c] = status[c]
  BY <1>0, <1>2, Remarked DEF Moves
<1>4. runs'[c] = IF RootCleared THEN 0 ELSE runs[c]
  <2>1. ~(NeedsExecute(status[c]) /\ IsFinishedStatus(status'[c]))
    BY <1>3 DEF NeedsExecute
  <2> QED  BY <1>0, <2>1, RunsOfChild
<1>5. runs[c] \in 0 .. MaxCount[root] /\ count[root] \in Nat /\ (status[root] = "NOT_STARTED" => runs[c] = 0)
  BY <1>0 DEF CountsUpTo
<1>6. MaxCount[root] \in Nat \ {0}
  BY <1>0, CountingParts
<1>7. e[1] = <<op, root>> /\ e[Len(e)] = <<op, root>> /\ 1 \in 1 .. Len(e) /\ e # << >>
  BY <1>1, <1>2
<1>8. status[root] \in ExecutionStatus /\ status[c] \in ExecutionStatus /\ status \in [Instructions -> ExecutionStatus]
  BY <1>0 DEF Tables
<1>e. CASE op = "exec"
  <2>1. f = <<<<"body", root>>>>
    BY <1>0, <1>2, <1>e DEF Moves, MakesAlways, Call
  <2>2. BetweenTicks(c)
    BY <1>0, <1>7, <1>e DEF CountsUpTo
  <2>3. count'[root] \in Nat /\ status'[root] # "NOT_STARTED" /\ runs'[c] = runs[c] /\ BetweenTicks(c)'
    <3>1. CASE status[root] # "NOT_STARTED"
      <4>1. UNCHANGED <<status, count>>
        BY <1>2, <1>e, <3>1 DEF Means, Tallies
      <4>2. runs'[c] = runs[c]
        BY <1>4, <4>1 DEF RootCleared
      <4> QED  BY <1>3, <1>5, <2>2, <3>1, <4>1, <4>2 DEF BetweenTicks
    <3>2. CASE status[root] = "NOT_STARTED"
      <4>1. count'[root] = 0 /\ status'[root] \in {"NOT_FINISHED", "FAILURE"}
        BY <1>0, <1>2, <1>8, <1>e, <3>2 DEF Tallies
      <4>2. runs[c] = 0 /\ status[c] = "NOT_STARTED" /\ runs'[c] = 0
        BY <1>4, <1>5, <2>2, <3>2, <4>1 DEF BetweenTicks, RootCleared
      <4> QED  BY <1>3, <1>6, <4>1, <4>2 DEF BetweenTicks
    <3> QED  BY <3>1, <3>2
  <2>4. Bottomed(f)'
    BY <1>3, <2>1 DEF Bottomed
  <2> QED  BY <1>3, <1>5, <2>1, <2>3, <2>4 DEF CountsUpTo
<1>b. CASE op = "body"
  <2>1. BetweenTicks(c) /\ status[root] # "NOT_STARTED" /\ UNCHANGED count
    <3>1. BetweenTicks(c)
      BY <1>0, <1>7, <1>b DEF CountsUpTo
    <3>2. LiveCall(agenda[Ticker][1])
      <4>1. Ticker \in Doers /\ 1 \in 1 .. Len(agenda[Ticker])
        BY <1>7 DEF Doers, Advances
      <4> QED  BY <1>0, <4>1 DEF Lively
    <3>3. agenda[Ticker][1] = <<"body", root>>
      BY <1>7, <1>b DEF Advances
    <3> QED  BY <1>b, <3>1, <3>2, <3>3 DEF LiveCall, Owner, UnderWay, Tallies
  <2>2. \/ calls = << >> /\ (UNCHANGED status \/ status'[root] = "FAILURE")
        \/ calls = BodyCalls(root) /\ NeedsExecute(status[root]) /\ UNCHANGED status
    BY <1>2, <1>8, <1>0, <1>b DEF Means, Tallies
  <2>3. status'[root] # "NOT_STARTED" /\ runs'[c] = runs[c] /\ runs[c] = count[root]
    BY <1>4, <2>1, <2>2 DEF RootCleared, BetweenTicks
  <2>4. CASE calls = << >> /\ (UNCHANGED status \/ status'[root] = "FAILURE")
    <3>1. BetweenTicks(c)'
      BY <1>3, <2>1, <2>3, <2>4 DEF BetweenTicks
    <3> QED  BY <1>2, <1>3, <1>5, <2>1, <2>3, <2>4, <3>1, NothingLeft
  <2>5. CASE calls = BodyCalls(root) /\ NeedsExecute(status[root]) /\ UNCHANGED status
    <3>1. \/ /\ status[c] = "SUCCESS" /\ Len(f) = 3
             /\ f[1] = <<"reset", c>> /\ f[2] = <<"exec", c>> /\ f[3] = <<"return", root>>
          \/ /\ status[c] # "SUCCESS" /\ Len(f) = 2
             /\ f[1] = <<"exec", c>> /\ f[2] = <<"return", root>>
      BY <1>0, <1>2, <2>5, CountingBody
    <3>2. count[root] < MaxCount[root] /\ status[c] # "FAILURE"
      BY <1>8, <2>1, <2>5 DEF BetweenTicks, NeedsExecute, IsFinishedStatus, ExecutionStatus
    <3>3. WithinTick(f, c)'
      <4>1. CASE Len(f) = 3 /\ f[1] = <<"reset", c>>
        <5>1. TakenBack(f, c)'
          BY <4>1 DEF TakenBack
        <5> QED  BY <1>3, <1>5, <2>1, <2>3, <3>2, <5>1 DEF WithinTick
      <4>2. CASE status[c] # "SUCCESS"
        BY <1>3, <1>5, <2>1, <2>3, <3>2, <4>2 DEF WithinTick, IsFinishedStatus
      <4> QED  BY <3>1, <4>1, <4>2
    <3>4. Bottomed(f)'
      <4>1. f[Len(f)] = <<"return", root>> /\ \A k \in 1 .. Len(f) - 1 : f[k] \in {<<"reset", c>>, <<"exec", c>>}
        <5>1. CASE Len(f) = 3 /\ f[1] = <<"reset", c>> /\ f[2] = <<"exec", c>> /\ f[3] = <<"return", root>>
          <6>1. 1 .. Len(f) - 1 = {1, 2} /\ f[Len(f)] = f[3]
            BY <5>1
          <6> QED  BY <5>1, <6>1
        <5>2. CASE Len(f) = 2 /\ f[1] = <<"exec", c>> /\ f[2] = <<"return", root>>
          <6>1. 1 .. Len(f) - 1 = {1} /\ f[Len(f)] = f[2]
            BY <5>2
          <6> QED  BY <5>2, <6>1
        <5> QED  BY <3>1, <5>1, <5>2
      <4>2. \A k \in 1 .. Len(f) - 1 : Owner(f[k]) # root
        BY <1>0, <4>1 DEF Owner
      <4> QED  BY <1>3, <4>1, <4>2 DEF Bottomed, Owner
    <3>5. f # << >> /\ f[1] \notin {<<"exec", root>>, <<"body", root>>} /\ f[Len(f)] = <<"return", root>>
      <4>1. f[1] \in {<<"reset", c>>, <<"exec", c>>} /\ Len(f) # 0
        <5>1. Len(f) = 3 \/ Len(f) = 2
          BY <3>1
        <5>2. f[1] \in {<<"reset", c>>, <<"exec", c>>}
          BY <3>1
        <5> QED  BY <5>1, <5>2
      <4>2. f # << >>
        BY <4>1
      <4>3. f[1] \notin {<<"exec", root>>, <<"body", root>>}
        BY <1>0, <4>1
      <4>4. f[Len(f)] = <<"return", root>>
        <5>1. CASE Len(f) = 3 /\ f[3] = <<"return", root>>
          BY <5>1
        <5>2. CASE Len(f) = 2 /\ f[2] = <<"return", root>>
          BY <5>2
        <5> QED  BY <3>1, <5>1, <5>2
      <4> QED  BY <4>2, <4>3, <4>4
    <3> QED  BY <1>3, <1>5, <2>1, <2>3, <3>3, <3>4, <3>5 DEF CountsUpTo
  <2> QED  BY <2>2, <2>4, <2>5
<1>r. CASE op = "return"
  <2>1. calls = << >> /\ status'[root] = ImplStatus(root)
    BY <1>0, <1>2, <1>8, <1>r DEF Means
  <2>2. count'[root] = Counted(root)
    <3>1. Kind[root] \in Counting
      BY DEF CountingRoot
    <3> QED  BY <1>0, <1>2, <1>r, <3>1 DEF Tallies
  <2>3. status[c] # "NOT_STARTED"
    <3>1. Prepared(root, e)
      BY <1>0, Advanced DEF Doers, Base
    <3>2. ShownAt(e, 1)
      BY <1>7, <3>1 DEF Prepared
    <3>3. Shows(root) /\ Kind[root] # "UserChoice"
      BY <1>0, <1>6, CountingParts DEF Shows, Counting
    <3> QED  BY <1>7, <1>r, <3>2, <3>3 DEF ShownAt, ShownBy
  <2>4. count[root] < MaxCount[root] /\ runs[c] = count[root] + IF IsFinishedStatus(status[c]) THEN 1 ELSE 0
    <3>1. ~TakenBack(e, c)
      BY <1>0, <1>7, <1>r DEF TakenBack
    <3>2. WithinTick(e, c)
      BY <1>0, <1>7, <1>r DEF CountsUpTo
    <3> QED  BY <3>1, <3>2 DEF WithinTick
  <2>5. Counted(root) = runs[c]
    BY <1>5, <1>6, <2>4 DEF Counted
  <2>6. ImplStatus(root) = IF status[c] = "SUCCESS" /\ Counted(root) # MaxCount[root] THEN "NOT_FINISHED" ELSE status[c]
    <3>1. ImplStatus(root) = CountingStatus(root)
      BY <1>0, CountingParts DEF ImplStatus, Counting
    <3> QED  BY <1>6, <3>1 DEF CountingStatus, CalculateStatus
  <2>7. status'[root] # "NOT_STARTED" /\ runs'[c] = runs[c] /\ count'[root] = runs[c]
    BY <1>4, <2>1, <2>2, <2>3, <2>5, <2>6 DEF RootCleared
  <2>8. BetweenTicks(c)'
    <3>1. runs[c] < MaxCount[root] \/ runs[c] = MaxCount[root]
      BY <1>5, <1>6
    <3>2. ~IsFinishedStatus(status[c]) => runs[c] < MaxCount[root]
      BY <1>5, <2>4
    <3>3. status'[root] \in {"NOT_FINISHED", "RUNNING"} => runs[c] < MaxCount[root] /\ status[c] # "FAILURE"
      BY <2>1, <2>5, <2>6, <3>1, <3>2 DEF IsFinishedStatus
    <3>4. status'[root] = "SUCCESS" => runs[c] = MaxCount[root]
      BY <2>1, <2>5, <2>6
    <3> QED  BY <1>3, <2>7, <3>3, <3>4 DEF BetweenTicks
  <2>9. count'[root] \in Nat
    BY <1>5, <1>6, <2>7
  <2> QED  BY <1>2, <1>3, <1>5, <2>1, <2>7, <2>8, <2>9, NothingLeft
<1>s. CASE op = "reset"
  <2>1. f = ResetCalls(root)
    BY <1>0, <1>2, <1>s DEF Moves, MakesAlways
  <2>2. UNCHANGED <<status, count>>
    BY <1>0, <1>s DEF Moves, Effects, Marks, Tallies, UnderWay
  <2>3. /\ Len(f) \in Nat \ {0} /\ f[Len(f)] = <<"clear", root>>
        /\ \A k \in 1 .. Len(f) - 1 : \E d \in ChildSet(root) : f[k] = <<"reset", d>>
        /\ \E k \in 1 .. Len(f) : f[k] = <<"reset", c>>
    BY <1>0, <2>1, CountingReset
  <2>4. Bottomed(f)'
    <3>1. \A k \in 1 .. Len(f) - 1 : Owner(f[k]) # root
      <4> SUFFICES ASSUME NEW k \in 1 .. Len(f) - 1  PROVE Owner(f[k]) # root
        OBVIOUS
      <4>1. PICK d \in ChildSet(root) : f[k] = <<"reset", d>>
        BY <2>3
      <4>2. d # root
        BY <1>0, ChildBelow DEF StrictlyBelow
      <4> QED  BY <4>1, <4>2 DEF Owner
    <3> QED  BY <1>3, <2>3, <3>1 DEF Bottomed, Owner
  <2>5. TakenBack(f, c)'
    BY <2>3 DEF TakenBack
  <2>6. f # << >> => f[1] \notin {<<"exec", root>>, <<"body", root>>}
    BY <2>3
  <2>7. runs'[c] = runs[c]
    BY <1>4, <2>2 DEF RootCleared
  <2>8. f # << >> /\ f[Len(f)] # <<"return", root>>
    BY <1>1, <1>2, <2>3
  <2> QED  BY <1>3, <1>5, <2>2, <2>4, <2>5, <2>6, <2>7, <2>8 DEF CountsUpTo
<1>c. CASE op = "clear"
  <2>1. calls = << >> /\ UNCHANGED count
    BY <1>0, <1>c DEF Moves, MakesAlways, Tallies
  <2>2. status'[root] = "NOT_STARTED"
    <3>1. status' = [status EXCEPT ![root] = "NOT_STARTED"]
      BY <1>0, <1>2, <1>c DEF Moves, Effects, Marks, UnderWay
    <3> QED  BY <1>0, <1>8, <3>1
  <2>3. status[c] = "NOT_STARTED"
    <3>1. ~TakenBack(e, c)
      BY <1>0, <1>7, <1>c DEF TakenBack
    <3> QED  BY <1>0, <1>7, <1>c, <3>1 DEF CountsUpTo
  <2>4. runs'[c] = 0
    BY <1>4, <1>5, <2>2 DEF RootCleared
  <2>5. BetweenTicks(c)'
    BY <1>3, <2>2, <2>3 DEF BetweenTicks
  <2> QED  BY <1>2, <1>3, <1>5, <1>6, <2>1, <2>2, <2>4, <2>5, NothingLeft
<1> QED  BY <1>2, <1>e, <1>b, <1>r, <1>s, <1>c

\* A call that is about something below the root.
DeepCall(e, i) ==
  /\ i # root
  /\ Len(e) \in Nat /\ Len(e) > 1 /\ Owner(e[1]) # root
  /\ e[Len(e)] \in {<<"return", root>>, <<"clear", root>>}
  /\ \A k \in 1 .. Len(e) - 1 : Owner(e[k]) # root

LEMMA RootKept ==
  ASSUME CountedInv, CountingRoot, NEW op, NEW i, NEW calls, NEW e, NEW f,
         Advances(Ticker, op, i, calls, e, f), Tallies(op, i), Len(e) > 1
  PROVE  /\ DeepCall(e, i) \/ (op = "react" /\ i = root)
         /\ \A k \in 1 .. Len(e) - 1 : Owner(e[k]) # root
         /\ e[Len(e)] \in {<<"return", root>>, <<"clear", root>>}
         /\ UNCHANGED root /\ status'[root] = status[root] /\ count'[root] = count[root]
<1>0. /\ Bottomed(e) /\ count \in [Instructions -> Nat] /\ StartInv /\ ExclusiveInv /\ Tables
      /\ root \in Instructions /\ e \in Seq(AnyCall) /\ Len(e) \in Nat /\ Moves(Ticker, op, i, calls)
  BY CountAt DEF Advances
<1>1. e # << >> /\ \A k \in 1 .. Len(e) - 1 : Owner(e[k]) # root
  BY <1>0 DEF Bottomed
<1>2. e[Len(e)] \in {<<"return", root>>, <<"clear", root>>}
  <2>1. /\ e[Len(e)] \in {"exec", "body", "return", "reset", "clear"} \X {root}
        /\ e[Len(e)][1] \notin {"exec", "body", "reset"}
    BY <1>0, <1>1 DEF Bottomed
  <2> QED  BY <2>1
<1>3. e[1] = <<op, i>> /\ 1 \in 1 .. Len(e) - 1 /\ i \in Instructions
  <2>1. Due(Ticker, op, i) /\ Ticker \in Doers
    BY <1>0 DEF Moves, Doers
  <2>2. e[1] = <<op, i>> /\ i \in Instructions
    BY <1>0, <2>1, AtFront DEF Advances
  <2> QED  BY <1>0, <2>2
<1>4. op # "react" => i # root
  BY <1>1, <1>3 DEF Owner
<1>5. status'[root] = status[root]
  BY <1>0, <1>3, <1>4, Remarked
<1>6. count'[root] = count[root]
  <2>1. op = "react" => UNCHANGED count
    BY DEF Tallies
  <2> QED  BY <1>0, <1>3, <1>4, <2>1, TableKept
<1>7. UNCHANGED root
  BY <1>0 DEF Moves
<1>8. DeepCall(e, i) \/ (op = "react" /\ i = root)
  BY <1>0, <1>1, <1>2, <1>3, <1>4 DEF DeepCall
<1> QED  BY <1>1, <1>2, <1>5, <1>6, <1>7, <1>8

LEMMA DeepPushes ==
  ASSUME CountedInv, CountingRoot, NEW op, NEW i, NEW calls, NEW e, NEW f,
         Advances(Ticker, op, i, calls, e, f), Tallies(op, i), Len(e) > 1, NEW c, c = Child(root)
  PROVE  /\ Len(f) \in Nat \ {0} /\ f[Len(f)] = e[Len(e)] /\ Bottomed(f)'
         /\ f[1] \notin {<<"exec", root>>, <<"body", root>>}
         /\ TakenBack(f, c) => TakenBack(e, c)
         /\ TakenBack(e, c) => TakenBack(f, c) \/ (op = "clear" /\ i = c)
<1>0. /\ StartInv /\ ExclusiveInv /\ root \in Roots /\ root \in Instructions /\ root \in Below(root)
      /\ c \in ChildSet(root) /\ c \in Instructions /\ c # root
      /\ e \in Seq(AnyCall) /\ Len(e) \in Nat /\ Moves(Ticker, op, i, calls) /\ Ticker \in Doers
  BY CountAt DEF Advances, Doers
<1>1. /\ \A k \in 1 .. Len(e) - 1 : Owner(e[k]) # root
      /\ e[Len(e)] \in {<<"return", root>>, <<"clear", root>>} /\ UNCHANGED root
  BY RootKept
<1>2. PICK x : x = Owner(<<op, i>>)
  OBVIOUS
<1>3. /\ e[1] = <<op, i>> /\ i \in Instructions /\ calls \in Seq(AnyCall) /\ Spliced(e, calls, f)
      /\ Proceeds(op, x, calls) /\ Layout(Ticker, e) /\ (op \notin Signals => x \in Below(root))
  BY <1>0, <1>2, Advanced
<1>4. Len(calls) \in Nat /\ Len(f) = Len(calls) + Len(e) - 1 /\ Len(f) \in Nat \ {0}
  BY <1>0, <1>3
     DEF Spliced
<1>5. f[Len(f)] = e[Len(e)]
  <2>1. Len(e) \in 2 .. Len(e) /\ Len(calls) + Len(e) - 1 = Len(f)
    BY <1>0, <1>4
  <2>2. f[Len(calls) + Len(e) - 1] = e[Len(e)]
    BY <1>3, <2>1 DEF Spliced
  <2> QED  BY <2>1, <2>2
<1>6. x # root /\ x \in Below(root) /\ x \in Instructions
  <2>1. x # root
    <3>1. 1 \in 1 .. Len(e) - 1
      BY <1>0
    <3> QED  BY <1>1, <1>2, <1>3, <3>1
  <2>2. x \in Below(root)
    <3>1. CASE op \notin Signals
      BY <1>3, <3>1
    <3>2. CASE op \in Signals
      <4>1. 1 \in 1 .. Len(e) /\ Quiet(e[1]) /\ e[1][2] = i
        BY <1>0, <1>3, <3>2 DEF Quiet
      <4>2. i \in Below(Base(Ticker))
        BY <1>3, <4>1 DEF Layout, SignalsBelow
      <4>3. x = i
        BY <1>2, <3>2 DEF Owner, Signals
      <4> QED  BY <4>2, <4>3 DEF Base
    <3> QED  BY <3>1, <3>2
  <2>3. Below(root) \subseteq Instructions
    BY <1>0, BelowClosed
  <2> QED  BY <2>1, <2>2, <2>3
<1>7. \A d \in ChildSet(x) : d # root /\ d # c
  <2> SUFFICES ASSUME NEW d \in ChildSet(x)  PROVE d # root /\ d # c
    OBVIOUS
  <2>1. d # root
    BY <1>0, <1>6, OneParent
  <2>2. d # c
    BY <1>0, <1>6, OneParent
  <2> QED  BY <2>1, <2>2
<1>8. \A k \in 1 .. Len(calls) :
        /\ Owner(calls[k]) # root
        /\ calls[k] \in {<<"reset", c>>, <<"clear", c>>} => op = "reset" /\ i = c
  <2> SUFFICES ASSUME NEW k \in 1 .. Len(calls)
               PROVE  /\ Owner(calls[k]) # root
                      /\ calls[k] \in {<<"reset", c>>, <<"clear", c>>} => op = "reset" /\ i = c
    OBVIOUS
  <2>1. NeatAt(op, x, calls, k)
    BY <1>3 DEF Proceeds, Neat
  <2>2. CASE Quiet(calls[k])
    <3>1. calls[k][2] \in {x} \union ChildSet(x)
      BY <2>1, <2>2 DEF NeatAt
    <3>2. calls[k][1] \in Signals
      BY <2>2 DEF Quiet
    <3>3. Owner(calls[k]) = calls[k][2]
      BY <3>2 DEF Owner, Signals
    <3>4. calls[k] \notin {<<"reset", c>>, <<"clear", c>>}
      BY <3>2 DEF Signals
    <3> QED  BY <1>6, <1>7, <3>1, <3>3, <3>4
  <2>3. CASE ~Quiet(calls[k])
    <3>1. FitsAt(x, FALSE, calls, k)
      BY <1>0, <1>2, <2>3, NewCall
    <3>2. calls[k][1] \notin Signals
      BY <2>3 DEF Quiet
    <3>3. Owner(calls[k]) \in {x} \union ChildSet(x)
      BY <3>1, <3>2 DEF FitsAt
    <3>4. Owner(calls[k]) # root
      BY <1>6, <1>7, <3>3
    <3>5. ASSUME calls[k] = <<"reset", c>>  PROVE FALSE
      <4>1. calls[k][2] \in ChildSet(x)
        BY <2>1, <2>3, <3>5 DEF NeatAt
      <4> QED  BY <1>7, <3>5, <4>1
    <3>6. ASSUME calls[k] = <<"clear", c>>  PROVE op = "reset" /\ i = c
      <4>1. op = "reset" /\ Owner(calls[k]) = x
        BY <2>1, <2>3, <3>6 DEF NeatAt
      <4> QED  BY <1>2, <3>6, <4>1 DEF Owner
    <3> QED  BY <3>4, <3>5, <3>6
  <2> QED  BY <2>2, <2>3
<1>9. \A k \in 1 .. Len(f) - 1 : Owner(f[k]) # root
  <2> SUFFICES ASSUME NEW k \in 1 .. Len(f) - 1  PROVE Owner(f[k]) # root
    OBVIOUS
  <2>1. k \in 1 .. Len(f)
    BY <1>4
  <2>2. CASE k \in 1 .. Len(calls) /\ f[k] = calls[k]
    BY <1>8, <2>2
  <2>3. CASE \E j \in 2 .. Len(e) : k = Len(calls) + j - 1 /\ f[k] = e[j]
    <3>1. PICK j \in 2 .. Len(e) : k = Len(calls) + j - 1 /\ f[k] = e[j]
      BY <2>3
    <3>2. j \in 1 .. Len(e) - 1
      BY <1>0, <1>4, <3>1
    <3> QED  BY <1>1, <3>1, <3>2
  <2> QED  BY <1>3, <2>1, <2>2, <2>3 DEF Spliced
<1>10. Bottomed(f)'
  <2>1. f[Len(f)] \in {<<"return", root>>, <<"clear", root>>}
    BY <1>1, <1>5
  <2>2. /\ f[Len(f)] \in {"exec", "body", "return", "reset", "clear"} \X {root}
        /\ f[Len(f)][1] \notin {"exec", "body", "reset"}
    BY <2>1
  <2> QED  BY <1>1, <1>9, <2>2 DEF Bottomed, Owner
<1>11. f[1] \notin {<<"exec", root>>, <<"body", root>>}
  <2>1. CASE Len(f) = 1
    BY <1>1, <1>5, <2>1
  <2>2. CASE Len(f) # 1
    <3>1. 1 \in 1 .. Len(f) - 1
      BY <1>4, <2>2
    <3> QED  BY <1>9, <3>1 DEF Owner
  <2> QED  BY <2>1, <2>2
<1>12. TakenBack(f, c) => TakenBack(e, c)
  <2> SUFFICES ASSUME NEW k \in 1 .. Len(f), f[k] \in {<<"reset", c>>, <<"clear", c>>}
               PROVE  TakenBack(e, c)
    BY DEF TakenBack
  <2>1. CASE k \in 1 .. Len(calls) /\ f[k] = calls[k]
    <3>1. e[1] = <<"reset", c>> /\ 1 \in 1 .. Len(e)
      BY <1>0, <1>3, <1>8, <2>1
    <3> QED  BY <3>1 DEF TakenBack
  <2>2. CASE \E j \in 2 .. Len(e) : k = Len(calls) + j - 1 /\ f[k] = e[j]
    BY <1>0, <2>2 DEF TakenBack
  <2> QED  BY <1>3, <2>1, <2>2 DEF Spliced
<1>13. TakenBack(e, c) => TakenBack(f, c) \/ (op = "clear" /\ i = c)
  <2> SUFFICES ASSUME NEW k \in 1 .. Len(e), e[k] \in {<<"reset", c>>, <<"clear", c>>}
               PROVE  TakenBack(f, c) \/ (op = "clear" /\ i = c)
    BY DEF TakenBack
  <2>1. CASE k # 1
    <3>1. k \in 2 .. Len(e)
      BY <1>0, <2>1
    <3>2. Len(calls) + k - 1 \in 1 .. Len(f) /\ f[Len(calls) + k - 1] = e[k]
      BY <1>3, <3>1 DEF Spliced
    <3> QED  BY <3>2 DEF TakenBack
  <2>2. CASE k = 1 /\ op = "reset"
    <3>1. i = c /\ calls = ResetCalls(c)
      BY <1>0, <1>3, <2>2 DEF Moves, MakesAlways
    <3>2. PICK m \in 1 .. Len(calls) : calls[m] = <<"clear", c>>
      BY <1>0, <3>1, ResetClears
    <3>3. m \in 1 .. Len(f) /\ f[m] = calls[m]
      BY <1>3, <3>2 DEF Spliced
    <3> QED  BY <3>2, <3>3 DEF TakenBack
  <2>3. CASE k = 1 /\ op # "reset"
    BY <1>3, <2>3
  <2> QED  BY <2>1, <2>2, <2>3
<1> QED  BY <1>4, <1>5, <1>10, <1>11, <1>12, <1>13

LEMMA DeepCounts ==
  ASSUME CountedInv, CountingRoot, RunCountNext, NEW op, NEW i, NEW calls, NEW e, NEW f,
         Advances(Ticker, op, i, calls, e, f), Means(op, i, calls), Tallies(op, i),
         Len(e) > 1, NEW c, c = Child(root)
  PROVE  Bottomed(f)' /\ CountsUpTo(f, c)'
<1>0. /\ CountsUpTo(e, c) /\ count \in [Instructions -> Nat]
      /\ StartInv /\ Lively /\ Stages /\ ExclusiveInv /\ Tables /\ root \in Roots /\ root \in Instructions
      /\ root \in Below(root) /\ c \in ChildSet(root) /\ c \in Instructions /\ c # root
      /\ e \in Seq(AnyCall) /\ Len(e) \in Nat /\ Moves(Ticker, op, i, calls) /\ Ticker \in Doers
      /\ e = agenda[Ticker]
  BY CountAt DEF Advances, Doers
<1>1. /\ e[Len(e)] \in {<<"return", root>>, <<"clear", root>>}
      /\ UNCHANGED root /\ status'[root] = status[root] /\ count'[root] = count[root]
  BY RootKept
<1>2. /\ Len(f) \in Nat \ {0} /\ f[Len(f)] = e[Len(e)] /\ Bottomed(f)'
      /\ f[1] \notin {<<"exec", root>>, <<"body", root>>}
      /\ TakenBack(f, c) => TakenBack(e, c)
      /\ TakenBack(e, c) => TakenBack(f, c) \/ (op = "clear" /\ i = c)
  BY DeepPushes
<1>3. ~RootCleared
  BY <1>1 DEF RootCleared
<1>4. runs'[c] = IF NeedsExecute(status[c]) /\ IsFinishedStatus(status'[c]) THEN Min2(runs[c] + 1, MaxRuns) ELSE runs[c]
  BY <1>0, <1>3, RunsOfChild
<1>5. runs[c] \in 0 .. MaxCount[root] /\ count[root] \in Nat /\ (status[root] = "NOT_STARTED" => runs[c] = 0)
  BY <1>0 DEF CountsUpTo
<1>6. MaxCount[root] \in Nat \ {0} /\ MaxCount[root] < MaxRuns /\ MaxRuns \in Nat
  BY <1>0, CountingParts
<1>7. e[1] = <<op, i>> /\ 1 \in 1 .. Len(e) /\ Len(e) \in 1 .. Len(e) /\ e # << >> /\ Layout(Ticker, e)
  <2>1. PICK x : x = Owner(<<op, i>>)
    OBVIOUS
  <2>2. e[1] = <<op, i>> /\ Layout(Ticker, e)
    BY <1>0, <2>1, Advanced
  <2> QED  BY <1>0, <2>2
<1>8. status'[c] # status[c] =>
        /\ i = c /\ Owner(<<op, i>>) = c
        /\ \/ op = "clear" /\ status'[c] = "NOT_STARTED"
           \/ op \in (UnderWay \ {"react"}) \union {"exec"}
  BY <1>0, ChildMarked
<1>9. op = "clear" /\ i = c => status'[c] = "NOT_STARTED"
  <2> SUFFICES ASSUME op = "clear", i = c  PROVE status'[c] = "NOT_STARTED"
    OBVIOUS
  <2>1. status' = [status EXCEPT ![c] = "NOT_STARTED"]
    BY <1>0 DEF Moves, Effects, Marks, UnderWay
  <2> QED  BY <1>0, <2>1 DEF Tables
<1>f. f # << >>
  BY <1>2
<1>r. CASE e[Len(e)] = <<"return", root>>
  <2>1. WithinTick(e, c)
    BY <1>0, <1>7, <1>r DEF CountsUpTo
  <2>2. status[root] # "NOT_STARTED"
    <3>1. LiveCall(agenda[Ticker][Len(e)])
      BY <1>0, <1>7 DEF Lively
    <3>2. agenda[Ticker][Len(e)] = <<"return", root>>
      BY <1>0, <1>r
    <3> QED  BY <3>1, <3>2 DEF LiveCall, Owner, UnderWay
  <2>3. CASE status'[c] = status[c]
    <3>1. runs'[c] = runs[c]
      BY <1>4, <2>3 DEF NeedsExecute
    <3>2. IsFinishedStatus(status[c]) => (TakenBack(f, c) <=> TakenBack(e, c))
      BY <1>2, <1>9, <2>3 DEF IsFinishedStatus
    <3>3. TakenBack(f, c)' <=> TakenBack(f, c)
      BY DEF TakenBack
    <3>4. WithinTick(f, c)'
      BY <1>1, <1>5, <2>1, <2>3, <3>1, <3>2, <3>3 DEF WithinTick
    <3> QED  BY <1>1, <1>2, <1>5, <1>r, <1>f, <2>2, <3>1, <3>4 DEF CountsUpTo
  <2>4. CASE status'[c] # status[c] /\ op = "clear"
    <3>1. status'[c] = "NOT_STARTED" /\ i = c
      BY <1>8, <2>4, <1>9
    <3>2. TakenBack(e, c)
      BY <1>7, <2>4, <3>1 DEF TakenBack
    <3>3. runs'[c] = runs[c]
      BY <1>4, <3>1 DEF IsFinishedStatus
    <3>4. WithinTick(f, c)'
      BY <1>1, <1>5, <2>1, <3>1, <3>2, <3>3 DEF WithinTick, IsFinishedStatus
    <3> QED  BY <1>1, <1>2, <1>5, <1>r, <1>f, <2>2, <3>3, <3>4 DEF CountsUpTo
  <2>5. CASE status'[c] # status[c] /\ op # "clear"
    <3>1. i = c /\ op \in (UnderWay \ {"react"}) \union {"exec"} /\ Owner(<<op, i>>) = c
      BY <1>8, <2>5
    <3>2. NeedsExecute(status[c])
      <4>1. CASE op = "exec"
        <5>1. status[c] = "NOT_STARTED"
          BY <2>5, <3>1, <4>1 DEF Means
        <5> QED  BY <5>1 DEF NeedsExecute, IsFinishedStatus
      <4>2. CASE op = "body"
        BY <2>5, <3>1, <4>2 DEF Means
      <4>3. CASE op \in UnderWay \ {"body"}
        <5>1. LiveCall(agenda[Ticker][1])
          BY <1>0, <1>7 DEF Lively
        <5>2. LiveCall(<<op, i>>)
          BY <1>0, <1>7, <5>1
        <5> QED  BY <3>1, <4>3, <5>2 DEF LiveCall
      <4> QED  BY <3>1, <4>1, <4>2, <4>3
    <3>3. ~TakenBack(e, c)
      <4> SUFFICES ASSUME NEW k \in 1 .. Len(e), e[k] \in {<<"reset", c>>, <<"clear", c>>}
                   PROVE  FALSE
        BY DEF TakenBack
      <4>1. op \notin Undoing
        BY <3>1 DEF UnderWay, Undoing
      <4>2. k # 1
        BY <1>7, <4>1 DEF Undoing
      <4>3. k \in 1 + 1 .. Len(e)
        BY <1>0, <4>2
      <4>4. ~Quiet(e[1]) /\ ~Quiet(e[k]) /\ Owner(e[1]) = c /\ Owner(e[k]) = c
        BY <1>7, <3>1 DEF Quiet, Signals, Owner, UnderWay
      <4>5. MayFollow(e[1][1], e[k][1])
        BY <1>7, <4>3, <4>4 DEF Layout, Alone
      <4> QED  BY <1>7, <4>1, <4>5 DEF MayFollow, Undoing
    <3>4. runs[c] = count[root] /\ count[root] < MaxCount[root]
      BY <1>5, <2>1, <3>2 DEF WithinTick, NeedsExecute
    <3>5. ~TakenBack(f, c)'
      BY <1>2, <3>3 DEF TakenBack
    <3>6. runs'[c] = count[root] + IF IsFinishedStatus(status'[c]) THEN 1 ELSE 0
      BY <1>4, <1>5, <1>6, <3>2, <3>4 DEF Min2
    <3>7. WithinTick(f, c)'
      BY <1>1, <3>4, <3>5, <3>6 DEF WithinTick
    <3>8. runs'[c] \in 0 .. MaxCount[root]
      BY <1>5, <1>6, <3>4, <3>6
    <3> QED  BY <1>1, <1>2, <1>5, <1>r, <1>f, <2>2, <3>7, <3>8 DEF CountsUpTo
  <2> QED  BY <2>3, <2>4, <2>5
<1>c. CASE e[Len(e)] = <<"clear", root>>
  <2>1. op \in Backward
    <3>1. BacksAt(agenda[Ticker], Len(e))
      BY <1>0, <1>7 DEF Stages
    <3>2. BacksAt(e, Len(e))
      BY <1>0, <3>1
    <3>3. 1 \in 1 .. Len(e) - 1
      BY <1>0
    <3>4. e[Len(e)][1] = "clear"
      BY <1>c
    <3> QED  BY <1>7, <3>2, <3>3, <3>4 DEF BacksAt
  <2>2. status'[c] = status[c] \/ status'[c] = "NOT_STARTED"
    BY <1>8, <2>1 DEF Backward, UnderWay
  <2>3. runs'[c] = runs[c]
    BY <1>4, <2>2 DEF NeedsExecute, IsFinishedStatus
  <2>4. TakenBack(e, c) \/ status[c] = "NOT_STARTED"
    BY <1>0, <1>7, <1>c DEF CountsUpTo
  <2>5. TakenBack(f, c)' \/ status'[c] = "NOT_STARTED"
    <3>1. TakenBack(f, c) => TakenBack(f, c)'
      BY DEF TakenBack
    <3> QED  BY <1>2, <1>9, <2>2, <2>4, <3>1
  <2>6. f[Len(f)] # <<"return", root>>
    BY <1>2, <1>c
  <2> QED  BY <1>1, <1>2, <1>5, <1>f, <2>3, <2>5, <2>6 DEF CountsUpTo
<1> QED  BY <1>1, <1>2, <1>r, <1>c

LEMMA CountInit == RunCountInit => CountedInv
<1> SUFFICES ASSUME RunCountInit  PROVE CountedInv
  OBVIOUS
<1>1. RunInv
  BY RunInit DEF RunCountInit
<1>2. CountTable /\ agenda[Ticker] = << >> /\ root \in Instructions
  <2>1. Ticker \in Threads
    BY DEF Threads
  <2> QED  BY <2>1, TreeAssumption DEF RunCountInit, Init, CountTable
<1>3. ASSUME CountingRoot, NEW c, c = Child(root)  PROVE Bottomed(<< >>) /\ CountsUpTo(<< >>, c)
  <2>1. c \in Instructions /\ MaxCount[root] \in Nat
    BY <1>2, <1>3, CountingParts
  <2>2. status[root] = "NOT_STARTED" /\ status[c] = "NOT_STARTED" /\ count[root] = 0 /\ runs[c] = 0
    BY <1>2, <2>1 DEF RunCountInit, Init
  <2> QED  BY <2>1, <2>2 DEF Bottomed, CountsUpTo, BetweenTicks
<1> QED  BY <1>1, <1>2, <1>3 DEF CountedInv, CountInv

LEMMA CountStep ==
  ASSUME CountedInv, [RunCountNext]_<<vars, runs>>  PROVE CountedInv'
<1>0. RunInv' /\ UNCHANGED root
  <2>1. [Next]_vars /\ RunInv
    BY DEF RunCountNext, CountedInv
  <2>2. UNCHANGED root
    <3>1. CASE BeginTick \/ BeginReset \/ BeginHalt
      BY <3>1 DEF BeginTick, BeginReset, BeginHalt
    <3>2. CASE UNCHANGED vars
      BY <3>2 DEF vars
    <3>3. ASSUME NEW t, NEW i, Step(t, i) \/ Work(t, i)  PROVE UNCHANGED root
      BY <3>3, StepKeepsRoot
    <3> QED  BY <2>1, <3>1, <3>2, <3>3 DEF Next
  <2> QED  BY <2>1, <2>2, RunStep
<1>p. /\ StartInv /\ ExclusiveInv /\ Laid /\ Answers /\ Sure
      /\ CountTable /\ agenda \in [Threads -> Seq(AnyCall)]
  BY InvIsSure DEF CountedInv, CountInv, RunInv, StartInv, ExclusiveInv, Walks
<1>n. Ticker \in Threads /\ Halter \in Threads /\ Ticker # Halter /\ Threads = {Ticker, Halter} \union Workers
  BY DEF Threads, Ticker, Halter
<1>k. PICK c, e, f : c = Child(root) /\ e = agenda[Ticker] /\ f = agenda'[Ticker]
  OBVIOUS
<1>s. ASSUME UNCHANGED <<status, count>>, CountingRoot, RunCountNext \/ UNCHANGED runs  PROVE runs'[c] = runs[c]
  <2>1. c \in ChildSet(root) /\ c \in Instructions
    BY <1>k, <1>s, CountAt
  <2>2. CASE UNCHANGED runs
    BY <2>2
  <2>3. CASE RunCountNext
    BY <1>s, <2>1, <2>3, RunsOfChild DEF RootCleared, NeedsExecute
  <2> QED  BY <1>s, <2>2, <2>3
<1>t. CountTable' /\ (CountingRoot => Bottomed(f)' /\ CountsUpTo(f, c)') => CountInv'
  BY <1>0, <1>k, CountFrom
<1>1. CASE UNCHANGED <<vars, runs>>
  <2>1. CountTable' /\ f = e /\ UNCHANGED <<status, count, runs>>
    BY <1>1, <1>p, <1>k DEF vars, CountTable
  <2>2. CountingRoot => Bottomed(f)' /\ CountsUpTo(f, c)'
    BY <1>0, <1>k, <2>1, CountAt, CountSame
  <2> QED  BY <1>0, <1>t, <2>1, <2>2 DEF CountedInv
<1>2. CASE BeginHalt /\ RunCountNext
  <2>1. CountTable' /\ f = e /\ UNCHANGED <<status, count>>
    BY <1>2, <1>p, <1>n, <1>k DEF BeginHalt, CountTable
  <2>2. CountingRoot => Bottomed(f)' /\ CountsUpTo(f, c)'
    <3> SUFFICES ASSUME CountingRoot  PROVE Bottomed(f)' /\ CountsUpTo(f, c)'
      OBVIOUS
    <3>1. runs'[c] = runs[c]
      BY <1>2, <1>s, <2>1
    <3> QED  BY <1>0, <1>k, <2>1, <3>1, CountAt, CountSame
  <2> QED  BY <1>0, <1>t, <2>1, <2>2 DEF CountedInv
<1>3. CASE (BeginTick \/ BeginReset) /\ RunCountNext
  <2>1. /\ CountTable' /\ e = << >> /\ UNCHANGED <<status, count>>
        /\ f = Call("exec", root) \/ f = Call("reset", root)
    BY <1>3, <1>p, <1>n, <1>k DEF BeginTick, BeginReset, CountTable, Idle
  <2>2. CountingRoot => Bottomed(f)' /\ CountsUpTo(f, c)'
    <3> SUFFICES ASSUME CountingRoot  PROVE Bottomed(f)' /\ CountsUpTo(f, c)'
      OBVIOUS
    <3>1. runs'[c] = runs[c]
      BY <1>3, <1>s, <2>1
    <3>2. CountsUpTo(e, c)
      BY <1>k, CountAt
    <3>3. BetweenTicks(c)' <=> BetweenTicks(c)
      BY <1>0, <2>1, <3>1 DEF BetweenTicks
    <3>4. Bottomed(f)'
      BY <1>0, <2>1 DEF Bottomed, Call
    <3>5. f # << >> /\ f[Len(f)] \in {<<"exec", root>>, <<"reset", root>>}
      BY <2>1 DEF Call
    <3> QED  BY <1>0, <2>1, <3>1, <3>2, <3>3, <3>4, <3>5 DEF CountsUpTo
  <2> QED  BY <1>0, <1>t, <2>1, <2>2 DEF CountedInv
<1>4. ASSUME NEW t \in Threads, NEW i, Step(t, i) \/ Work(t, i), RunCountNext  PROVE CountedInv'
  <2>1. PICK op, calls : Moves(t, op, i, calls)
    BY <1>4, <1>p, StepMoves
  <2>2. Tallies(op, i) /\ Means(op, i, calls)
    BY <1>4, <1>p, <2>1, StepTallies, StepMeans
  <2>3. CountTable'
    <3>1. i \in Instructions
      BY <1>p, <2>1, DueCall DEF Moves
    <3> QED  BY <1>p, <2>2, <3>1, TableKept DEF CountTable
  <2>4. ASSUME CountingRoot, t # Ticker  PROVE Bottomed(f)' /\ CountsUpTo(f, c)'
    <3>1. /\ f = e /\ status'[root] = status[root] /\ status'[c] = status[c] /\ count'[root] = count[root]
      <4>1. CASE t \in Workers
        BY <1>k, <2>1, <2>2, <2>4, <4>1, WorkerCounts
      <4>2. CASE t = Halter
        <5>1. Moves(Halter, op, i, calls)
          BY <2>1, <4>2
        <5> QED  BY <1>k, <2>2, <2>4, <5>1, HalterCounts
      <4> QED  BY <1>n, <2>4, <4>1, <4>2
    <3>2. runs'[c] = runs[c]
      <4>1. c \in ChildSet(root) /\ c \in Instructions
        BY <1>k, <2>4, CountAt
      <4> QED  BY <1>4, <2>4, <3>1, <4>1, RunsOfChild DEF RootCleared, NeedsExecute
    <3> QED  BY <1>0, <1>k, <2>4, <3>1, <3>2, CountAt, CountSame
  <2>5. ASSUME CountingRoot, t = Ticker  PROVE Bottomed(f)' /\ CountsUpTo(f, c)'
    <3>1. Advances(Ticker, op, i, calls, e, f)
      BY <1>k, <2>1, <2>5 DEF Advances
    <3>2. Len(e) = 1 \/ Len(e) > 1
      <4>1. e \in Seq(AnyCall) /\ e # << >>
        BY <1>p, <1>n, <1>k, <2>1, <2>5 DEF Moves, Due
      <4> QED  BY <4>1
    <3>3. CASE Len(e) = 1
      BY <1>4, <1>k, <2>2, <2>5, <3>1, <3>3, RootCounts
    <3>4. CASE Len(e) > 1
      BY <1>4, <1>k, <2>2, <2>5, <3>1, <3>4, DeepCounts
    <3> QED  BY <3>2, <3>3, <3>4
  <2> QED  BY <1>0, <1>t, <2>3, <2>4, <2>5 DEF CountedInv
<1> QED  BY <1>1, <1>2, <1>3, <1>4 DEF RunCountNext, Next

LEMMA InvRepeats == CountedInv => RepeatsExactly
<1> SUFFICES ASSUME CountedInv, CountingRoot
             PROVE  /\ runs[Child(root)] <= MaxCount[root]
                    /\ AtRest(root) /\ status[root] = "SUCCESS" => runs[Child(root)] = MaxCount[root]
  BY DEF RepeatsExactly, CountingRoot
<1>1. PICK c, e : c = Child(root) /\ e = agenda[Ticker]
  OBVIOUS
<1>2. /\ Bottomed(e) /\ CountsUpTo(e, c) /\ e \in Seq(AnyCall) /\ Len(e) \in Nat /\ root \in Instructions
  BY <1>1, CountAt
<1>3. runs[c] <= MaxCount[root]
  <2>1. runs[c] \in 0 .. MaxCount[root] /\ MaxCount[root] \in Nat
    BY <1>2, CountingParts DEF CountsUpTo
  <2> QED  BY <2>1
<1>4. ASSUME AtRest(root), status[root] = "SUCCESS"  PROVE runs[c] = MaxCount[root]
  <2>1. e = << >>
    <3> SUFFICES ASSUME e # << >>  PROVE FALSE
      OBVIOUS
    <3>1. Len(e) \in DOMAIN e
      BY <1>2
    <3>2. e[Len(e)] \in {"exec", "body", "return", "reset", "clear"} \X {root} /\ (e[Len(e)][1] = "reset" => Len(e) = 1)
      BY <1>2 DEF Bottomed
    <3>3. Owner(e[Len(e)]) = root /\ e[Len(e)][1] \notin {"halt", "drop", "tick"}
      BY <3>2 DEF Owner
    <3>4. root \in InsideOf(Ticker)
      BY <1>1, <3>1, <3>2, <3>3 DEF InsideOf
    <3> QED  BY <1>4, <3>4 DEF AtRest, Threads
  <2>2. BetweenTicks(c)
    BY <1>2, <2>1 DEF CountsUpTo
  <2> QED  BY <1>4, <2>2 DEF BetweenTicks
<1> QED  BY <1>1, <1>3, <1>4

\* In any tree and however it is halted, reset and ticked, a Repeat or For that is the procedure
\* runs its child to an end exactly as often as it is told to before it succeeds, and never
\* more often (m_count in Repeat::CalculateStatus and For::CalculateStatus).
THEOREM RepeatsExactlyHolds == RunCountSpec => []RepeatsExactly
<1> QED  BY CountInit, CountStep, InvRepeats, PTL DEF RunCountSpec

-----------------------------------------------------------------------------
(* What a tick is going to execute                                           *)
\* The leaves below x that its execution leads to, as things are: on the way down to them
\* every instruction is ready, names the one below it as its next, and has no thread.
Leads(x, z) ==
  \A y \in Below(x) : z \in Below(y) =>
    /\ ReadyForExecute(status[y])
    /\ y # x => wrapper[y] # "RUNNING"
    /\ \A c \in ChildSet(y) : z \in Below(c) => c \in NextInstructionsOf(y)
StartsFrom(x) == {z \in Below(x) \intersect Leaf : Leads(x, z)}
\* The calls that execute an instruction, and those that launch one when it is ready.
Executes(call) == \/ call[1] \in {"exec", "body", "work"}
                  \/ call[1] = "tick" /\ wrapper[call[2]] \in {"NOT_STARTED", "NOT_FINISHED"}
Announces ==
  \A u \in Doers : \A k \in 1 .. Len(agenda[u]) :
    Executes(agenda[u][k]) => StartsFrom(agenda[u][k][2]) \subseteq announced[u]
\* The calls that such trees make: only a Choice chooses, and only once.
UsualCall(call) == /\ call[1] \notin {"running", "react", "listen"}
                   /\ call[1] = "choose" => Kind[call[2]] = "Choice" /\ selected[call[2]] = << >>
Usual == \A u \in Doers : \A k \in 1 .. Len(agenda[u]) : UsualCall(agenda[u][k])
\* What has not started has children that have not, and no threads; what has not chosen
\* has none that have started, unless it is being reset.
Unstarted(p) == \A c \in ChildSet(p) : /\ status[c] = "NOT_STARTED"
                                       /\ Kind[p] \in Threaded => wrapper[c] = "absent"
Fresh == \A p \in Below(root) :
  /\ status[p] = "NOT_STARTED" => Unstarted(p)
  /\ Kind[p] = "Choice" /\ selected[p] = << >> => Unstarted(p) \/ Owes(p, {"clear"})
\* Before an instruction is cleared its children are.
GoesFirst(e, k, p, d) ==
  \/ \E m \in 1 .. k - 1 : e[m] = <<"reset", d>>
  \/ /\ status[d] = "NOT_STARTED" \/ \E m \in 1 .. k - 1 : e[m] = <<"clear", d>>
     /\ Kind[p] \in Threaded => wrapper[d] = "absent"
ClearAt(e, k) == \A p : e[k] = <<"clear", p>> => \A d \in ChildSet(p) : GoesFirst(e, k, p, d)
\* A ParallelSequence looks at its children after it has tried to launch each of them.
TickedFirst(e, k, p, d) == wrapper[d] # "NOT_STARTED" \/ \E m \in 1 .. k - 1 : e[m] = <<"tick", d>>
LooksAfter(e, k) == \A p : e[k] \in {<<"return", p>>, <<"conclude", p>>} /\ Kind[p] = "ParallelSequence" =>
                      \A d \in ChildSet(p) : TickedFirst(e, k, p, d)
InPlace == \A u \in Doers : \A k \in 1 .. Len(agenda[u]) : ClearAt(agenda[u], k) /\ LooksAfter(agenda[u], k)
\* The instructions that a sequential compound or decorator executes in this order.
Listed(p) == CASE Kind[p] \in {"Sequence", "Fallback"} -> Children[p]
               [] Kind[p] = "Choice" -> selected[p][1]
               [] OTHER -> <<Child(p)>>
Sequential == {"Sequence", "Fallback", "Choice", "Inverter", "ForceSuccess", "Include"}
PassOf(p) == IF Kind[p] = "Fallback" THEN "FAILURE" ELSE "SUCCESS"
\* All before the first that is not finished have passed, and when the compound reports
\* RUNNING that one does.
Sorted(p, s) ==
  \A k \in 1 .. Len(s) :
    NeedsExecute(status[s[k]]) /\ (\A j \in 1 .. k - 1 : ~NeedsExecute(status[s[j]])) =>
      /\ \A j \in 1 .. k - 1 : status[s[j]] = PassOf(p)
      /\ status[p] = "RUNNING" => status[s[k]] = "RUNNING"
Agrees == \A p \in Below(root) :
  Kind[p] \in Sequential /\ NeedsExecute(status[p]) /\ (Kind[p] = "Choice" => selected[p] # << >>) =>
    Sorted(p, Listed(p)) \/ Owes(p, {"return", "clear"})
\* The children that a compound with threads ticks; none of them is ready when it reports RUNNING.
Ticked(p) == IF Kind[p] = "Async" THEN {Child(p)} ELSE ChildSet(p)
Occupied == \A p \in Below(root) :
  Kind[p] \in Threaded /\ status[p] = "RUNNING" =>
    \/ \A c \in Ticked(p) : wrapper[c] \notin {"NOT_STARTED", "NOT_FINISHED"}
    \/ Owes(p, {"return", "conclude", "clear"})
AnnouncedParts == Usual /\ Fresh /\ InPlace /\ Agrees /\ Occupied /\ Announces

-----------------------------------------------------------------------------
(* The next instructions                                                     *)
LEMMA FirstOfThem ==
  ASSUME NEW open \in SUBSET Nat, open # {}
  PROVE  FirstIn(open) \in open /\ \A j \in open : FirstIn(open) <= j
<1>1. \E k \in open : \A j \in open : k <= j
  BY LeastNumber
<1> QED  BY <1>1 DEF FirstIn

\* The next instruction of a list is the first that does not pass, when that is ready.
LEMMA NextOfList ==
  ASSUME NEW S, NEW s \in Seq(S), NEW pass
  PROVE  /\ NextInList(s, pass) \subseteq S
         /\ \A k \in 1 .. Len(s) :
              /\ status[s[k]] # pass /\ ReadyForExecute(status[s[k]])
              /\ \A j \in 1 .. k - 1 : status[s[j]] = pass
              => s[k] \in NextInList(s, pass)
<1> DEFINE open == {k \in DOMAIN s : status[s[k]] # pass}
<1>1. DOMAIN s = 1 .. Len(s) /\ Len(s) \in Nat /\ \A k \in 1 .. Len(s) : s[k] \in S
  OBVIOUS
<1>2. open \in SUBSET Nat
  BY <1>1
<1>3. CASE open = {}
  BY <1>1, <1>3 DEF NextInList
<1>4. CASE open # {}
  <2>1. FirstIn(open) \in open /\ \A j \in open : FirstIn(open) <= j
    <3> HIDE DEF open
    <3> QED  BY <1>2, <1>4, FirstOfThem
  <2>2. PICK n : n = FirstIn(open)
    OBVIOUS
  <2>3. n \in 1 .. Len(s) /\ status[s[n]] # pass /\ \A j \in open : n <= j
    BY <1>1, <2>1, <2>2
  <2>4. NextInList(s, pass) = {c \in {s[n]} : ReadyForExecute(status[c])}
    BY <1>4, <2>2 DEF NextInList
  <2>5. NextInList(s, pass) \subseteq S
    BY <1>1, <2>3, <2>4
  <2>6. ASSUME NEW k \in 1 .. Len(s), status[s[k]] # pass, ReadyForExecute(status[s[k]]),
               \A j \in 1 .. k - 1 : status[s[j]] = pass
        PROVE  s[k] \in NextInList(s, pass)
    <3>1. n <= k
      BY <1>1, <2>3, <2>6
    <3>2. ~(n < k)
      BY <1>1, <2>3, <2>6
    <3>3. n = k
      BY <1>1, <2>3, <3>1, <3>2
    <3> QED  BY <2>4, <2>6, <3>3
  <2> QED  BY <2>5, <2>6
<1> QED  BY <1>3, <1>4

LEMMA NextByKind ==
  ASSUME NEW i \in Instructions
  PROVE  /\ i \in Leaf => NextInstructionsOf(i) = {}
         /\ i \notin Leaf =>
              /\ Kind[i] = "Sequence" => NextInstructionsOf(i) = NextInList(Children[i], "SUCCESS")
              /\ Kind[i] = "Fallback" => NextInstructionsOf(i) = NextInList(Children[i], "FAILURE")
              /\ Kind[i] = "ReactiveSequence" => NextInstructionsOf(i) = NextInList(Children[i], "SUCCESS")
              /\ Kind[i] = "ReactiveFallback" => NextInstructionsOf(i) = NextInList(Children[i], "FAILURE")
              /\ Kind[i] = "Choice" => NextInstructionsOf(i) = NextOfChoice(i)
              /\ Kind[i] = "UserChoice" => NextInstructionsOf(i) = NextOfUserChoice(i)
              /\ Kind[i] = "ParallelSequence" => NextInstructionsOf(i) = NextOfParallelSequence(i)
              /\ Kind[i] \in Counting \union {"Async", "Inverter", "ForceSuccess", "Include", "Listen"} =>
                   NextInstructionsOf(i) = {Child(i)}
<1>1. CASE i \in Leaf
  BY <1>1, LeafAssumption DEF NextInstructionsOf, Compounds, Threaded, Reactive, Counting
<1>2. CASE i \notin Leaf
  BY <1>2 DEF NextInstructionsOf, NextOfSequence, NextOfFallback, NextOfReactiveSequence, NextOfReactiveFallback,
       NextOfDecorator, Counting
<1> QED  BY <1>1, <1>2

\* They are children of the instruction.
LEMMA NextAreChildren ==
  ASSUME Selections, Answers, NEW i \in Instructions
  PROVE  NextInstructionsOf(i) \subseteq ChildSet(i)
<1>1. CASE i \in Leaf
  BY <1>1, NextByKind
<1>2. CASE i \notin Leaf
  <2>1. Kind[i] \in Compounds
    BY <1>2, TreeAssumption
  <2>2. Children[i] \in Seq(ChildSet(i))
    BY ChildrenAreInstructions
  <2>3. Child(i) \in ChildSet(i)
    BY <1>2, ChildIsChild
  <2>4. CASE Kind[i] \in {"Sequence", "Fallback"} \union Reactive
    BY <1>2, <2>2, <2>4, NextByKind, NextOfList DEF Reactive
  <2>5. CASE Kind[i] = "Choice"
    <3>1. CASE selected[i] = << >>
      BY <1>2, <2>5, <3>1, NextByKind DEF NextOfChoice
    <3>2. CASE selected[i] # << >>
      <4>1. PICK s \in Seq(ChildSet(i)) : selected[i] = <<s>>
        BY <3>2 DEF Selections
      <4>2. NextInstructionsOf(i) = NextInList(s, "SUCCESS")
        BY <1>2, <2>5, <3>2, <4>1, NextByKind DEF NextOfChoice
      <4> QED  BY <4>2, NextOfList
    <3> QED  BY <3>1, <3>2
  <2>6. CASE Kind[i] = "UserChoice"
    <3>1. CASE selected[i] = << >>
      BY <1>2, <2>6, <3>1, NextByKind DEF NextOfUserChoice
    <3>2. CASE selected[i] # << >>
      <4>1. PICK c \in ChildSet(i) : selected[i] = <<<<c>>>>
        BY <2>6, <3>2 DEF Answers
      <4>2. selected[i][1][1] = c
        BY <4>1
      <4>3. NextInstructionsOf(i) \subseteq {selected[i][1][1]}
        BY <1>2, <2>6, <3>2, NextByKind DEF NextOfUserChoice
      <4> QED  BY <4>2, <4>3
    <3> QED  BY <3>1, <3>2
  <2>7. CASE Kind[i] = "ParallelSequence"
    BY <1>2, <2>7, NextByKind DEF NextOfParallelSequence
  <2>8. CASE Kind[i] \in Counting \union {"Async", "Inverter", "ForceSuccess", "Include", "Listen"}
    BY <1>2, <2>3, <2>8, NextByKind
  <2> QED  BY <2>1, <2>4, <2>5, <2>6, <2>7, <2>8 DEF Compounds, Reactive, Threaded
<1> QED  BY <1>1, <1>2

-----------------------------------------------------------------------------
(* The tree of next instructions has all that is next                        *)
\* What Within of CreateNextInstructionTree adds to a set.
AndNext(S) == S \union UNION {NextInstructionsOf(i) : i \in S}
\* The first sets of the chain that begins at top.
Chain(n, g, top) ==
  /\ g \in [0 .. n -> SUBSET Below(top)]
  /\ g[0] = {top} /\ \A m \in 1 .. n : g[m] = AndNext(g[m - 1])

LEMMA AndNextBelow ==
  ASSUME Selections, Answers, NEW top \in Instructions, NEW S \in SUBSET Below(top)
  PROVE  AndNext(S) \in SUBSET Below(top) /\ S \subseteq AndNext(S)
<1>1. ASSUME NEW i \in S  PROVE NextInstructionsOf(i) \subseteq Below(top)
  BY NextAreChildren, BelowClosed
<1> QED  BY <1>1 DEF AndNext

LEMMA ChainGrows ==
  ASSUME Selections, Answers, NEW top \in Instructions, NEW n \in Nat
  PROVE  \E g : Chain(n, g, top)
<1> DEFINE T == {m \in Nat : \E g : Chain(m, g, top)}
<1>1. 0 \in T
  <2> DEFINE g == [m \in 0 .. 0 |-> {top}]
  <2>1. top \in Below(top)
    BY BelowClosed
  <2>2. Chain(0, g, top)
    BY <2>1 DEF Chain
  <2> QED  BY <2>2
<1>2. ASSUME NEW m \in T  PROVE m + 1 \in T
  <2>1. PICK g : Chain(m, g, top)
    OBVIOUS
  <2> DEFINE h == [j \in 0 .. m + 1 |-> IF j = m + 1 THEN AndNext(g[m]) ELSE g[j]]
  <2>2. m \in Nat /\ g[m] \in SUBSET Below(top)
    BY <2>1 DEF Chain
  <2>3. AndNext(g[m]) \in SUBSET Below(top)
    BY <2>2, AndNextBelow
  <2>4. h \in [0 .. m + 1 -> SUBSET Below(top)]
    BY <2>1, <2>2, <2>3 DEF Chain
  <2>5. h[0] = {top}
    BY <2>1, <2>2 DEF Chain
  <2>6. ASSUME NEW j \in 1 .. m + 1  PROVE h[j] = AndNext(h[j - 1])
    <3>1. CASE j = m + 1
      <4>1. h[j] = AndNext(g[m]) /\ h[j - 1] = g[m]
        BY <2>2, <3>1
      <4> QED  BY <4>1
    <3>2. CASE j # m + 1
      <4>1. j \in 1 .. m /\ h[j] = g[j] /\ h[j - 1] = g[j - 1]
        BY <2>2, <3>2
      <4>2. g[j] = AndNext(g[j - 1])
        BY <2>1, <4>1 DEF Chain
      <4> QED  BY <4>1, <4>2
    <3> QED  BY <3>1, <3>2
  <2>7. Chain(m + 1, h, top)
    <3> HIDE DEF h
    <3> QED  BY <2>4, <2>5, <2>6 DEF Chain
  <2> QED  BY <2>2, <2>7
<1> QED
  <2> HIDE DEF T
  <2>1. T = Nat
    <3>1. T \in SUBSET Nat
      BY DEF T
    <3> QED  BY <1>1, <1>2, <3>1, Induction
  <2> QED  BY <2>1 DEF T

LEMMA ChainsAgree ==
  ASSUME NEW top, NEW n \in Nat, NEW g, NEW h, Chain(n, g, top), Chain(n + 1, h, top)
  PROVE  h[n] = g[n]
<1> DEFINE T == {m \in Nat : m <= n => h[m] = g[m]}
<1>1. 0 \in T
  BY DEF Chain
<1>2. ASSUME NEW m \in T  PROVE m + 1 \in T
  <2>1. CASE m + 1 <= n
    <3>1. m + 1 \in 1 .. n /\ m + 1 \in 1 .. n + 1 /\ (m + 1) - 1 = m /\ h[m] = g[m]
      BY <2>1
    <3>2. g[m + 1] = AndNext(g[(m + 1) - 1]) /\ h[m + 1] = AndNext(h[(m + 1) - 1])
      BY <3>1 DEF Chain
    <3> QED  BY <3>1, <3>2
  <2> QED  BY <2>1
<1> QED
  <2> HIDE DEF T
  <2>1. T = Nat
    <3>1. T \in SUBSET Nat
      BY DEF T
    <3> QED  BY <1>1, <1>2, <3>1, Induction
  <2> QED  BY <2>1 DEF T

LEMMA TreeChain ==
  ASSUME Selections, Answers, NEW top \in Instructions
  PROVE  \E w \in [Nat -> SUBSET Below(top)] :
           /\ CreateNextInstructionTree(top) = w[Cardinality(Subtree[top])]
           /\ w[0] = {top} /\ \A n \in Nat : w[n + 1] = AndNext(w[n])
<1> DEFINE ch(n) == CHOOSE g : Chain(n, g, top)
           w == [n \in Nat |-> ch(n)[n]]
           D(f) == [n \in Nat |-> IF n = 0 THEN {top} ELSE f[n - 1] \union UNION {NextInstructionsOf(i) : i \in f[n - 1]}]
           W == CHOOSE f : f = D(f)
<1>1. ASSUME NEW n \in Nat  PROVE Chain(n, ch(n), top)
  BY ChainGrows
<1>2. w \in [Nat -> SUBSET Below(top)] /\ w[0] = {top}
  <2> HIDE DEF ch
  <2>1. ASSUME NEW n \in Nat  PROVE ch(n)[n] \in SUBSET Below(top)
    BY <1>1 DEF Chain
  <2>2. ch(0)[0] = {top}
    BY <1>1 DEF Chain
  <2> QED  BY <2>1, <2>2
<1>3. ASSUME NEW n \in Nat  PROVE w[n + 1] = AndNext(w[n])
  <2> HIDE DEF ch
  <2>1. Chain(n, ch(n), top) /\ Chain(n + 1, ch(n + 1), top)
    BY <1>1
  <2>2. ch(n + 1)[n] = ch(n)[n]
    BY <2>1, ChainsAgree
  <2>3. n + 1 \in 1 .. n + 1 /\ (n + 1) - 1 = n
    OBVIOUS
  <2>4. ch(n + 1)[n + 1] = AndNext(ch(n + 1)[n])
    BY <2>1, <2>3 DEF Chain
  <2> QED  BY <2>2, <2>4
<1>4. w = D(w)
  <2> HIDE DEF w
  <2>1. ASSUME NEW n \in Nat  PROVE w[n] = D(w)[n]
    <3>1. CASE n = 0
      BY <1>2, <3>1
    <3>2. CASE n # 0
      <4>1. n - 1 \in Nat /\ (n - 1) + 1 = n
        BY <3>2
      <4>2. w[n] = AndNext(w[n - 1])
        <5>1. w[(n - 1) + 1] = AndNext(w[n - 1])
          BY <1>3, <4>1
        <5> QED  BY <4>1, <5>1
      <4> QED  BY <3>2, <4>2 DEF AndNext
    <3> QED  BY <3>1, <3>2
  <2>2. w = [n \in Nat |-> w[n]]
    BY <1>2
  <2> QED  BY <2>1, <2>2
<1>5. W = D(W)
  <2> HIDE DEF D, w
  <2> QED  BY <1>4
<1>6. CreateNextInstructionTree(top) = W[Cardinality(Subtree[top])]
  BY DEF CreateNextInstructionTree
<1>7. ASSUME NEW n \in Nat  PROVE W[n] = IF n = 0 THEN {top} ELSE AndNext(W[n - 1])
  <2> HIDE DEF W
  <2>1. W[n] = D(W)[n]
    BY <1>5
  <2> QED  BY <2>1 DEF AndNext
<1>8. W = w
  <2> HIDE DEF W, w
  <2> DEFINE T == {n \in Nat : W[n] = w[n]}
  <2>1. 0 \in T
    BY <1>2, <1>7
  <2>2. ASSUME NEW n \in T  PROVE n + 1 \in T
    <3>1. n + 1 \in Nat /\ n + 1 # 0 /\ (n + 1) - 1 = n
      OBVIOUS
    <3>2. W[n + 1] = AndNext(W[(n + 1) - 1])
      BY <1>7, <3>1
    <3> QED  BY <1>3, <3>1, <3>2
  <2>3. T = Nat
    <3> HIDE DEF T
    <3>1. T \in SUBSET Nat
      BY DEF T
    <3> QED  BY <2>1, <2>2, <3>1, Induction
  <2>4. W = [n \in Nat |-> W[n]]
    <3>1. D(W) = [n \in Nat |-> D(W)[n]]
      OBVIOUS
    <3> QED  BY <1>5, <3>1
  <2>5. w = [n \in Nat |-> w[n]]
    BY <1>2
  <2>6. \A n \in Nat : W[n] = w[n]
    BY <2>3
  <2> QED  BY <2>4, <2>5, <2>6
<1> QED
  <2> HIDE DEF W, w
  <2>1. CreateNextInstructionTree(top) = w[Cardinality(Subtree[top])]
    BY <1>6, <1>8
  <2> QED  BY <1>2, <1>3, <2>1

\* Subtree has all that is below an instruction.
LEMMA BelowInSubtree ==
  ASSUME NEW z \in Instructions
  PROVE  Below(z) = Subtree[z] /\ IsFiniteSet(Below(z))
<1>1. Subtree[z] \subseteq Instructions /\ IsFiniteSet(Instructions)
  BY SubtreeAssumption
<1>2. z \in Subtree[z] /\ Closed(Subtree[z])
  BY TreeAssumption DEF Closed
<1>3. Below(z) \subseteq Subtree[z]
  BY <1>1, <1>2, BelowLeast
<1>4. Subtree[z] \subseteq Below(z)
  BY SubtreeIsBelow
<1> QED  BY <1>1, <1>3, <1>4, FS_Subset

\* The chain has as many sets as it takes to come to an end.
LEMMA NextTreeClosed ==
  ASSUME Selections, Answers, NEW top \in Instructions, NEW tree, tree = CreateNextInstructionTree(top)
  PROVE  /\ top \in tree /\ tree \subseteq Below(top)
         /\ \A i \in tree : NextInstructionsOf(i) \subseteq tree
<1> DEFINE B == Below(top)
<1>1. PICK w \in [Nat -> SUBSET B] : /\ tree = w[Cardinality(Subtree[top])]
                                     /\ w[0] = {top} /\ \A n \in Nat : w[n + 1] = AndNext(w[n])
  BY TreeChain
<1>2. IsFiniteSet(B) /\ Cardinality(B) = Cardinality(Subtree[top]) /\ Cardinality(B) \in Nat
  BY BelowInSubtree, FS_CardinalityType
<1>3. ASSUME NEW n \in Nat
      PROVE  IsFiniteSet(w[n]) /\ Cardinality(w[n]) \in Nat /\ w[n] \in SUBSET B /\ w[n] \subseteq w[n + 1]
  <2>1. w[n] \in SUBSET B
    OBVIOUS
  <2>2. w[n] \subseteq w[n + 1]
    BY <1>1, <2>1, AndNextBelow
  <2> QED  BY <1>2, <2>1, <2>2, FS_Subset, FS_CardinalityType
<1> DEFINE T == {n \in Nat : top \in w[n] /\ (w[n + 1] = w[n] \/ n < Cardinality(w[n]))}
<1> HIDE DEF B
<1>4. 0 \in T
  <2>1. Cardinality({top}) = 1
    BY FS_Singleton
  <2> QED  BY <1>1, <2>1
<1>5. ASSUME NEW n \in T  PROVE n + 1 \in T
  <2>1. n \in Nat /\ n + 1 \in Nat /\ top \in w[n]
    OBVIOUS
  <2>2. w[n] \subseteq w[n + 1] /\ top \in w[n + 1]
    BY <1>3, <2>1
  <2>3. CASE w[n + 1] = w[n]
    <3>1. w[(n + 1) + 1] = AndNext(w[n + 1]) /\ w[n + 1] = AndNext(w[n])
      BY <1>1, <2>1
    <3>2. w[(n + 1) + 1] = w[n + 1]
      BY <2>3, <3>1
    <3> QED  BY <2>1, <2>2, <3>2
  <2>4. CASE w[n + 1] # w[n]
    <3>1. IsFiniteSet(w[n + 1]) /\ Cardinality(w[n]) \in Nat /\ Cardinality(w[n + 1]) \in Nat
      BY <1>3, <2>1
    <3>2. Cardinality(w[n]) < Cardinality(w[n + 1])
      BY <2>2, <2>4, <3>1, FS_Subset
    <3>3. n < Cardinality(w[n])
      BY <2>4
    <3> QED  BY <2>1, <2>2, <3>1, <3>2, <3>3
  <2> QED  BY <2>3, <2>4
<1>6. T = Nat
  <2> HIDE DEF T
  <2>1. T \in SUBSET Nat
    BY DEF T
  <2> QED  BY <1>4, <1>5, <2>1, Induction
<1>7. PICK n \in Nat : n = Cardinality(B)
  BY <1>2
<1>8. tree = w[n] /\ tree \subseteq B /\ n \in T
  BY <1>1, <1>2, <1>3, <1>6, <1>7
<1>9. ~(n < Cardinality(w[n]))
  <2>1. Cardinality(w[n]) <= Cardinality(B)
    BY <1>2, <1>3, FS_Subset
  <2> QED  BY <1>2, <1>3, <1>7, <2>1
<1>10. AndNext(tree) = tree /\ top \in tree
  <2>1. w[n + 1] = w[n] /\ top \in w[n]
    BY <1>8, <1>9
  <2> QED  BY <1>1, <1>8, <2>1
<1> QED  BY <1>8, <1>10 DEF AndNext, B

\* The leaves that a tick is going to start are shown as next.
LEMMA StartsAreShown ==
  ASSUME Selections, Answers, root \in Roots
  PROVE  StartsFrom(root) \subseteq GetNextLeaves
<1> SUFFICES ASSUME NEW z \in StartsFrom(root)  PROVE z \in GetNextLeaves
  OBVIOUS
<1>1. root \in Instructions /\ root \in Below(root) /\ Below(root) \in SUBSET Instructions
      /\ \A y \in Below(root) : ChildSet(y) \subseteq Below(root)
  BY TreeAssumption, BelowClosed
<1>2. z \in Below(root) /\ z \in Leaf /\ Leads(root, z)
  BY DEF StartsFrom
<1>3. ReadyForExecute(status[root])
  BY <1>1, <1>2 DEF Leads
<1>4. PICK tree : tree = CreateNextInstructionTree(root)
  OBVIOUS
<1>5. root \in tree /\ tree \subseteq Below(root) /\ \A i \in tree : NextInstructionsOf(i) \subseteq tree
  BY <1>1, <1>4, NextTreeClosed
<1> DEFINE S == {y \in Below(root) : z \in Below(y) => y \in tree}
<1>6. Closed(S)
  <2>1. ASSUME NEW y \in S, NEW c \in ChildSet(y)  PROVE c \in S
    <3>1. y \in Below(root) /\ y \in Instructions /\ c \in Below(root) /\ c \in Below(y)
      BY <1>1, ChildBelow DEF StrictlyBelow
    <3>2. ASSUME z \in Below(c)  PROVE c \in tree
      <4>1. z \in Below(y)
        BY <3>1, <3>2, BelowClosed
      <4>2. y \in tree /\ c \in NextInstructionsOf(y)
        BY <1>2, <3>1, <3>2, <4>1 DEF Leads
      <4> QED  BY <1>5, <4>2
    <3> QED  BY <3>1, <3>2
  <2> QED  BY <2>1 DEF Closed
<1>7. Below(root) \subseteq S
  <2>1. root \in S /\ S \in SUBSET Instructions
    BY <1>1, <1>5
  <2> HIDE DEF S
  <2> QED  BY <1>6, <2>1, BelowLeast
<1>8. z \in tree /\ NextInstructionsOf(z) = {}
  BY <1>1, <1>2, <1>7, BelowClosed, NextByKind
<1> QED  BY <1>3, <1>4, <1>8 DEF GetNextLeaves, GetNextInstructionTree

\* A leaf that is ready starts when it is executed.
LEMMA LeafStarts ==
  ASSUME NEW i \in Leaf, ReadyForExecute(status[i])
  PROVE  i \in StartsFrom(i)
<1>1. i \in Instructions /\ i \in Below(i) /\ ChildSet(i) = {}
  BY BelowClosed DEF Leaf, ChildSet
<1>2. ASSUME NEW y \in Below(i), i \in Below(y)  PROVE y = i
  BY <1>1, <1>2, BelowOneWay DEF StrictlyBelow
<1> QED  BY <1>1, <1>2 DEF StartsFrom, Leads

\* What starts from a next instruction starts from its parent.
LEMMA StartsDown ==
  ASSUME root \in Roots, NEW i \in Below(root), NEW c \in ChildSet(i), c \in NextInstructionsOf(i),
         ReadyForExecute(status[i]), wrapper[c] # "RUNNING"
  PROVE  StartsFrom(c) \subseteq StartsFrom(i)
<1> SUFFICES ASSUME NEW z \in StartsFrom(c)  PROVE z \in StartsFrom(i)
  OBVIOUS
<1>1. /\ root \in Instructions /\ i \in Instructions /\ Below(root) \in SUBSET Instructions /\ Below(i) \subseteq Below(root)
      /\ c \in Instructions /\ c \in Below(i) /\ c \in Below(root) /\ Below(c) \subseteq Below(i)
  BY TreeAssumption, BelowClosed, ChildBelow DEF StrictlyBelow
<1>2. z \in Below(c) /\ z \in Leaf /\ Leads(c, z) /\ z \in Below(i)
  BY <1>1 DEF StartsFrom
<1>3. ASSUME NEW d \in ChildSet(i), NEW y \in Below(d), z \in Below(y)  PROVE d = c
  <2>1. d \in Instructions /\ d \in Below(root) /\ z \in Below(d)
    BY <1>1, <1>3, BelowClosed, ChildBelow DEF StrictlyBelow
  <2>2. d \in Below(c) \/ c \in Below(d)
    BY <1>1, <1>2, <2>1, OneLine
  <2>3. d \notin StrictlyBelow(c) /\ c \notin StrictlyBelow(d)
    BY SiblingsApart
  <2> QED  BY <2>2, <2>3 DEF StrictlyBelow
<1>4. ASSUME NEW y \in Below(i), z \in Below(y)
      PROVE  /\ ReadyForExecute(status[y])
             /\ y # i => wrapper[y] # "RUNNING"
             /\ \A d \in ChildSet(y) : z \in Below(d) => d \in NextInstructionsOf(y)
  <2>1. CASE y = i
    <3>1. ASSUME NEW d \in ChildSet(i), z \in Below(d)  PROVE d = c
      BY <1>1, <1>3, <3>1, BelowClosed, ChildBelow
    <3> QED  BY <2>1, <3>1
  <2>2. CASE y # i
    <3>1. PICK d \in ChildSet(i) : y \in Below(d)
      BY <1>1, <2>2, BelowChild DEF StrictlyBelow
    <3>2. y \in Below(c)
      BY <1>3, <1>4, <3>1
    <3> QED  BY <1>2, <1>4, <3>2 DEF Leads
  <2> QED  BY <2>1, <2>2
<1> QED  BY <1>2, <1>4 DEF StartsFrom, Leads

-----------------------------------------------------------------------------
(* Nothing changes what is going to start, before it starts                  *)
LEMMA ListNextSame ==
  ASSUME NEW S, NEW s \in Seq(S), NEW pass, \A c \in S : status'[c] = status[c]
  PROVE  NextInList(s, pass)' = NextInList(s, pass)
<1>1. \A k \in DOMAIN s : s[k] \in S
  OBVIOUS
<1>2. {k \in DOMAIN s : status'[s[k]] # pass} = {k \in DOMAIN s : status[s[k]] # pass}
  BY <1>1
<1> DEFINE open == {k \in DOMAIN s : status[s[k]] # pass}
<1>3. CASE open = {}
  BY <1>2, <1>3 DEF NextInList
<1>4. CASE open # {}
  <2>1. open \in SUBSET Nat
    OBVIOUS
  <2>2. FirstIn(open) \in open
    <3> HIDE DEF open
    <3> QED  BY <1>4, <2>1, FirstOfThem
  <2>3. PICK n : n = FirstIn(open)
    OBVIOUS
  <2>4. s[n] \in S
    BY <1>1, <2>2, <2>3
  <2>5. NextInList(s, pass) = {c \in {s[n]} : ReadyForExecute(status[c])}
    BY <1>4, <2>3 DEF NextInList
  <2>6. NextInList(s, pass)' = {c \in {s[n]} : ReadyForExecute(status'[c])}
    BY <1>2, <1>4, <2>3 DEF NextInList
  <2> QED  BY <2>4, <2>5, <2>6
<1> QED  BY <1>3, <1>4

\* The next instructions are known from the children, their threads and the selection.
LEMMA NextSame ==
  ASSUME Selections, Answers, NEW y \in Instructions,
         Kind[y] \notin Threaded => \A c \in ChildSet(y) : status'[c] = status[c],
         Kind[y] \in Threaded => \A c \in ChildSet(y) : wrapper'[c] = wrapper[c],
         selected'[y] = selected[y]
  PROVE  NextInstructionsOf(y)' = NextInstructionsOf(y)
<1>0. Children[y] \in Seq(ChildSet(y))
  BY ChildrenAreInstructions
<1>1. CASE y \in Leaf
  BY <1>1, LeafAssumption DEF NextInstructionsOf, Compounds, Threaded, Reactive, Counting
<1>2. CASE y \notin Leaf
  <2>1. Kind[y] \in Compounds
    BY <1>2, TreeAssumption
  <2>2. CASE Kind[y] \in {"Sequence", "Fallback"} \union Reactive
    <3>1. Kind[y] \notin Threaded
      BY <2>2 DEF Reactive, Threaded
    <3>2. \A pass : NextInList(Children[y], pass)' = NextInList(Children[y], pass)
      BY <1>0, <3>1, ListNextSame
    <3>3. NextInList(Children[y], "SUCCESS")' = NextInList(Children[y], "SUCCESS")
          /\ NextInList(Children[y], "FAILURE")' = NextInList(Children[y], "FAILURE")
      BY <1>0, <3>1, ListNextSame
    <3> QED
      BY <1>2, <2>2, <3>3 DEF NextInstructionsOf, NextOfSequence, NextOfFallback, NextOfReactiveSequence,
         NextOfReactiveFallback, Reactive
  <2>3. CASE Kind[y] = "Choice"
    <3>1. CASE selected[y] = << >>
      BY <1>2, <2>3, <3>1 DEF NextInstructionsOf, NextOfChoice
    <3>2. CASE selected[y] # << >>
      <4>1. PICK s \in Seq(ChildSet(y)) : selected[y] = <<s>>
        BY <3>2 DEF Selections
      <4>2. NextInList(s, "SUCCESS")' = NextInList(s, "SUCCESS")
        BY <2>3, ListNextSame DEF Threaded
      <4>3. selected[y][1] = s /\ selected'[y][1] = s /\ selected'[y] # << >>
        BY <3>2, <4>1
      <4>4. NextInstructionsOf(y) = NextInList(s, "SUCCESS")
        BY <1>2, <2>3, <3>2, <4>3 DEF NextInstructionsOf, NextOfChoice
      <4>5. NextInstructionsOf(y)' = NextInList(s, "SUCCESS")'
        BY <1>2, <2>3, <4>3 DEF NextInstructionsOf, NextOfChoice
      <4> QED  BY <4>2, <4>4, <4>5
    <3> QED  BY <3>1, <3>2
  <2>4. CASE Kind[y] = "UserChoice"
    <3>1. CASE selected[y] = << >>
      BY <1>2, <2>4, <3>1 DEF NextInstructionsOf, NextOfUserChoice
    <3>2. CASE selected[y] # << >>
      <4>1. PICK c \in ChildSet(y) : selected[y] = <<<<c>>>>
        BY <2>4, <3>2 DEF Answers
      <4>2. status'[c] = status[c] /\ selected[y][1][1] = c
        BY <2>4, <4>1 DEF Threaded
      <4> QED  BY <1>2, <2>4, <4>2 DEF NextInstructionsOf, NextOfUserChoice
    <3> QED  BY <3>1, <3>2
  <2>5. CASE Kind[y] = "ParallelSequence"
    <3>1. \A c \in ChildSet(y) : wrapper'[c] = wrapper[c]
      BY <2>5 DEF Threaded
    <3> QED  BY <1>2, <2>5, <3>1 DEF NextInstructionsOf, NextOfParallelSequence
  <2>6. CASE Kind[y] \in Counting \union {"Async", "Inverter", "ForceSuccess", "Include", "Listen"}
    BY <1>2, <2>6 DEF NextInstructionsOf, NextOfDecorator, Counting
  <2> QED  BY <2>1, <2>2, <2>3, <2>4, <2>5, <2>6 DEF Compounds, Reactive, Threaded
<1> QED  BY <1>1, <1>2

\* What a call that executes is about.
LEMMA ExecutesAbout ==
  ASSUME StartInv, NEW u \in Doers, NEW k \in 1 .. Len(agenda[u]), NEW call, call = agenda[u][k], Executes(call),
         NEW x, x = call[2]
  PROVE  /\ ~Quiet(call) /\ Owner(call) = x /\ call[1] \in Entering /\ call[1] \notin Undoing \union Holding
         /\ x \in Below(Base(u)) /\ x \in Below(root) /\ x \in Instructions
         /\ call[1] # "tick" => x \in Inside(agenda[u])
         /\ call[1] = "tick" => x # u /\ wrapper[x] # "RUNNING"
<1>1. /\ call[1] \in {"exec", "body", "work", "tick"} /\ call \in AnyCall
      /\ Proper(Base(u), agenda[u], Rest) /\ Below(Base(u)) \subseteq Below(root) /\ Below(root) \subseteq Instructions
  BY AtCall DEF StartInv, Executes
<1>2. ~Quiet(call) /\ Owner(call) = x
  BY <1>1 DEF Quiet, Signals, Owner
<1>3. x \in Below(Base(u))
  BY <1>1, <1>2 DEF Proper, Held
<1>4. call[1] # "tick" => x \in Inside(agenda[u])
  BY <1>1, <1>2 DEF Inside
<1>5. call[1] = "tick" => x # u /\ wrapper[x] # "RUNNING"
  BY NotOwnBase DEF StartInv, Executes
<1> QED  BY <1>1, <1>2, <1>3, <1>4, <1>5 DEF Entering, Undoing, Holding

\* No call left is about the same instruction, or one below it, before it is executed.
LEMMA OwnNotBefore ==
  ASSUME StartInv, Orderly, NEW t \in Doers, NEW op, NEW i, Due(t, op, i), op \notin Signals,
         NEW k \in 2 .. Len(agenda[t]), NEW call, call = agenda[t][k], Executes(call), NEW x, x = call[2],
         NEW y, y = Owner(<<op, i>>)
  PROVE  y \notin Below(x)
<1> SUFFICES ASSUME y \in Below(x)  PROVE FALSE
  OBVIOUS
<1> DEFINE e == agenda[t]
<1>1. /\ 1 \in 1 .. Len(e) /\ Len(e) \in Nat /\ e[1] = <<op, i>> /\ e \in Seq(AnyCall) /\ ~Quiet(e[1]) /\ Owner(e[1]) = y
      /\ Held(Base(t), e) /\ Alone(e) /\ Onward(t, e) /\ k \in 1 .. Len(e)
  BY AtCall, AtFront DEF StartInv, Proper, Laid, Layout, Orderly, Quiet
<1>2. /\ ~Quiet(call) /\ Owner(call) = x /\ call[1] \in Entering /\ call[1] \notin Undoing \union Holding
      /\ x \in Below(Base(t))
  BY <1>1, ExecutesAbout
<1>3. ASSUME NEW m \in 1 .. k - 1, ~Quiet(e[m]), Owner(e[m]) = x, e[m][1] # "react"
      PROVE  FALSE
  <2>1. m \in 1 .. Len(e) /\ k \in m + 1 .. Len(e)
    BY <1>1
  <2>2. MayFollow(e[m][1], e[k][1])
    BY <1>1, <1>2, <1>3, <2>1 DEF Alone
  <2>3. e[m][1] \in Undoing
    BY <2>2 DEF MayFollow, Undoing
  <2>4. e[m][2] = x /\ e[k][2] = x /\ e[k][1] \in Entering
    BY <1>2, <1>3 DEF Owner
  <2> QED  BY <1>1, <2>1, <2>3, <2>4 DEF Onward
<1>4. ASSUME NEW m \in 1 .. k - 1, ~Quiet(e[m]), Owner(e[m]) = x, e[m][1] = "react"
      PROVE  FALSE
  <2>1. m \in 1 .. Len(e) /\ k \in m + 1 .. Len(e)
    BY <1>1
  <2>2. MayFollow(e[m][1], e[k][1])
    BY <1>1, <1>2, <1>4, <2>1 DEF Alone
  <2> QED  BY <1>4, <2>2 DEF MayFollow, Undoing
<1>5. CASE y = x
  <2>1. 1 \in 1 .. k - 1
    OBVIOUS
  <2> QED  BY <1>1, <1>3, <1>4, <1>5, <2>1
<1>6. CASE y # x
  <2>1. Owner(e[1]) \in StrictlyBelow(x)
    BY <1>1, <1>6 DEF StrictlyBelow
  <2>2. PICK m \in 1 + 1 .. Len(e) : e[m][1] \in Holding /\ Owner(e[m]) = x
    BY <1>1, <1>2, <2>1 DEF Held
  <2>3. ~Quiet(e[m])
    BY <2>2 DEF Quiet, Holding, Signals
  <2>4. m # k
    BY <1>2, <2>2
  <2>5. CASE m < k
    <3>1. m \in 1 .. k - 1
      BY <2>5
    <3> QED  BY <1>3, <1>4, <2>2, <2>3, <3>1
  <2>6. CASE m > k
    <3>1. m \in k + 1 .. Len(e)
      BY <1>1, <2>6
    <3>2. MayFollow(e[k][1], e[m][1])
      BY <1>1, <1>2, <2>2, <2>3, <3>1 DEF Alone
    <3> QED  BY <1>2, <2>2, <3>2 DEF MayFollow, Undoing, Entering, Holding
  <2> QED  BY <2>4, <2>5, <2>6
<1> QED  BY <1>5, <1>6

\* A thread whose next call is about something below an instruction that is going to be
\* executed was started for something there, and the wrapper of that reports it.
LEMMA HeadWithin ==
  ASSUME StartInv, Orderly, NEW t \in Doers, NEW op, NEW i, Due(t, op, i), op \notin Signals,
         NEW u \in Doers, NEW k \in 1 .. Len(agenda[u]), u = t => k # 1,
         NEW call, call = agenda[u][k], Executes(call), NEW x, x = call[2],
         NEW y, y = Owner(<<op, i>>), y \in Below(x), op = "tick" => y # x
  PROVE  /\ u # t /\ t \in Workers /\ t \in StrictlyBelow(x) /\ y \in Below(t)
         /\ wrapper[t] = "RUNNING" /\ ~Idle(t)
<1> DEFINE e == agenda[t]
<1>0. ExclusiveInv /\ Laid /\ WrapperInv
  BY DEF StartInv
<1>1. /\ 1 \in 1 .. Len(e) /\ Len(e) \in Nat /\ e[1] = <<op, i>> /\ ~Idle(t) /\ y \in Below(Base(t)) /\ y \in Below(root)
      /\ root \in Roots /\ root \in Instructions /\ Base(t) \in Below(root) /\ Below(root) \subseteq Instructions
      /\ t \in Workers => Base(t) = t
      /\ op # "tick" => y \in Inside(e)
  BY <1>0, AtFront, AtCall
<1>2. Held(Base(t), e) /\ ~Quiet(e[1]) /\ Owner(e[1]) = y
  BY <1>0, <1>1, AtCall DEF Proper, Quiet
<1>3. /\ ~Quiet(call) /\ Owner(call) = x /\ x \in Below(Base(u)) /\ x \in Below(root) /\ x \in Instructions
      /\ call[1] # "tick" => x \in Inside(agenda[u])
      /\ call[1] = "tick" => x # u /\ wrapper[x] # "RUNNING"
  BY ExecutesAbout
<1>4. u # t
  <2>1. ASSUME u = t  PROVE FALSE
    <3>1. k \in 2 .. Len(agenda[t]) /\ call = agenda[t][k]
      BY <1>1, <2>1
    <3> QED  BY <3>1, OwnNotBefore
  <2> QED  BY <2>1
<1>5. Inside(e) \intersect Inside(agenda[u]) = {}
  BY <1>0, <1>4, InsidesApart
<1>6. x \notin Below(Base(t))
  <2> SUFFICES ASSUME x \in Below(Base(t))  PROVE FALSE
    OBVIOUS
  <2>1. y # x => x \in Inside(e)
    <3> SUFFICES ASSUME y # x  PROVE x \in Inside(e)
      OBVIOUS
    <3>1. Owner(e[1]) \in StrictlyBelow(x)
      BY <1>2 DEF StrictlyBelow
    <3> QED  BY <1>1, <1>2, <3>1, HeldInside
  <2>2. CASE call[1] # "tick"
    BY <1>1, <1>3, <1>5, <2>1, <2>2
  <2>3. CASE call[1] = "tick"
    <3>1. PICK p \in Below(root) : Kind[p] \in Threaded /\ x \in ChildSet(p)
      <4>1. Proper(Base(u), agenda[u], Rest) /\ Below(Base(u)) \subseteq Below(root)
        BY <1>0, AtCall
      <4> QED  BY <2>3, <4>1 DEF Proper, Ticks
    <3>2. p \in Instructions /\ p \in Inside(agenda[u])
      BY <1>0, <1>1, <1>3, <2>3, <3>1, InParent
    <3>3. x # Base(t)
      <4>1. x # root
        BY <1>1, <3>1, OneParent
      <4>2. t \in Workers => x # t
        BY <1>0, <1>1, <1>3, <2>3 DEF WrapperInv, WrapperKnowsThread
      <4> QED  BY <1>1, <4>1, <4>2 DEF Base, Doers
    <3>4. p \in Below(Base(t))
      <4>1. x \in StrictlyBelow(Base(t))
        BY <3>3 DEF StrictlyBelow
      <4>2. Base(t) = p \/ p \in StrictlyBelow(Base(t))
        BY <1>1, <3>1, <4>1, AboveChild
      <4> QED  BY <1>1, <4>2, BelowClosed DEF StrictlyBelow
    <3>5. y \in StrictlyBelow(p)
      <4>1. x \in Below(p) /\ p \notin Below(x)
        BY <3>1, <3>2, ChildBelow DEF StrictlyBelow
      <4>2. y \in Below(p)
        BY <3>2, <4>1, BelowClosed
      <4> QED  BY <4>1, <4>2 DEF StrictlyBelow
    <3>6. p \in Inside(e)
      BY <1>1, <1>2, <3>4, <3>5, HeldInside
    <3> QED  BY <1>5, <3>2, <3>6
  <2> QED  BY <2>2, <2>3
<1>7. Base(t) \in Below(x)
  BY <1>1, <1>3, <1>6, OneLine
<1>8. Base(t) # x
  BY <1>1, <1>3, <1>6, BelowClosed
<1>9. t \in Workers
  <2>1. ASSUME t = Ticker  PROVE FALSE
    <3>1. root \in StrictlyBelow(x)
      BY <1>7, <1>8, <2>1 DEF Base, StrictlyBelow
    <3> QED  BY <1>3, <3>1, BelowOneWay
  <2> QED  BY <2>1 DEF Doers
<1>10. wrapper[t] = "RUNNING"
  BY <1>0, <1>1, <1>9 DEF WrapperInv, WrapperKnowsThread
<1> QED  BY <1>1, <1>4, <1>7, <1>8, <1>9, <1>10 DEF StrictlyBelow

\* What a leaf that is going to start needs, after a step.
LEMMA WillLead ==
  ASSUME NEW x \in Instructions, NEW z
  PROVE  /\ z \in StartsFrom(x)' <=> z \in Below(x) \intersect Leaf /\ Leads(x, z)'
         /\ Leads(x, z)' <=>
              \A y \in Below(x) : z \in Below(y) =>
                /\ ReadyForExecute(status'[y])
                /\ y # x => wrapper'[y] # "RUNNING"
                /\ \A c \in ChildSet(y) : z \in Below(c) => c \in NextInstructionsOf(y)'
<1>1. \A y : Below(y)' = Below(y) /\ ChildSet(y)' = ChildSet(y)
  BY DEF Below, Closed, ChildSet
<1>2. Leaf' = Leaf
  BY DEF Leaf
<1>3. \A y : ReadyForExecute(status[y])' = ReadyForExecute(status'[y])
  BY DEF ReadyForExecute
<1>4. z \in StartsFrom(x)' <=> z \in Below(x) \intersect Leaf /\ Leads(x, z)'
  BY <1>1, <1>2 DEF StartsFrom
<1> QED  BY <1>1, <1>3, <1>4 DEF Leads

\* The wrapper of a child that is going to be ticked stays.
LEMMA TickHeld ==
  ASSUME StartInv, NEW t \in Doers, NEW op, NEW i, NEW calls, Moves(t, op, i, calls),
         NEW u \in Doers, NEW k \in 1 .. Len(agenda[u]), u = t => k # 1, NEW x, agenda[u][k] = <<"tick", x>>
  PROVE  /\ wrapper'[x] = wrapper[x]
         /\ \E p \in Below(root) : /\ Kind[p] \in Threaded /\ x \in ChildSet(p)
                                   /\ \E m \in k + 1 .. Len(agenda[u]) : agenda[u][m] \in {<<"return", p>>, <<"conclude", p>>}
<1> DEFINE e == agenda[u]
<1>0. ExclusiveInv /\ Laid
  BY DEF StartInv
<1>1. /\ e \in Seq(AnyCall) /\ Len(e) \in Nat /\ e[k][1] = "tick" /\ e[k][2] = x
      /\ Proper(Base(u), e, Rest) /\ Below(Base(u)) \subseteq Below(root) /\ Below(root) \subseteq Instructions
      /\ Layout(u, e)
  BY <1>0, AtCall DEF Laid
<1>2. PICK p \in Below(root) : Kind[p] \in Threaded /\ x \in ChildSet(p)
  BY <1>1 DEF Proper, Ticks
<1>3. PICK m \in k + 1 .. Len(e) : Concludes(e[m], x)
  BY <1>1 DEF Layout, TicksEnd
<1>4. /\ m \in 1 .. Len(e) /\ m # 1 /\ e[m] \in AnyCall /\ e[m][1] \in {"return", "conclude"} /\ x \in ChildSet(e[m][2])
      /\ ~Quiet(e[m]) /\ Owner(e[m]) = e[m][2]
  BY <1>1, <1>3 DEF Concludes, Quiet, Signals, Owner
<1>5. e[m][2] = p
  <2>1. e[m][2] \in Below(root)
    BY <1>1, <1>4 DEF Proper, Held
  <2> QED  BY <1>0, <1>2, <1>4, <2>1, SameParent
<1>6. e[m] \in {<<"return", p>>, <<"conclude", p>>}
  BY <1>4, <1>5 DEF AnyCall
<1>7. ASSUME wrapper'[x] # wrapper[x]  PROVE FALSE
  <2>1. \/ op = "exec" /\ i = p
        \/ op = "join" /\ i = p /\ \E n \in 2 .. Len(agenda[t]) : agenda[t][n] = <<"clear", p>>
        \/ /\ op = "tick" /\ i = x
           /\ \E n \in 2 .. Len(agenda[t]) : agenda[t][n] \in {<<"return", p>>, <<"conclude", p>>}
    <3>1. WrapperMoves(t, op, i, p, x)
      BY <1>2, <1>7, WrapperHeld
    <3> QED  BY <3>1 DEF WrapperMoves
  <2>2. e[m][1] \in UnderWay /\ Owner(e[m]) = p
    BY <1>4, <1>5 DEF UnderWay
  <2>3. Due(t, op, i)
    BY DEF Moves
  <2>4. CASE op = "exec" /\ i = p
    <3>1. op \notin Signals \union {"tick"} /\ Owner(<<op, i>>) = p
      BY <2>4 DEF Signals, Owner
    <3> QED  BY <1>0, <1>4, <2>2, <2>3, <3>1, UnderWayAlone
  <2>5. ASSUME NEW n \in 2 .. Len(agenda[t]),
               agenda[t][n] \in {<<"clear", p>>, <<"return", p>>, <<"conclude", p>>}
        PROVE  u = t /\ m = n
    <3>1. n \in 1 .. Len(agenda[t]) /\ agenda[t][n][1] \in UnderWay \union {"clear"} /\ Owner(agenda[t][n]) = p
      BY <2>5 DEF UnderWay, Owner
    <3> QED  BY <1>4, <2>2, <3>1, OneHolder
  <2>6. CASE op = "join" /\ i = p /\ \E n \in 2 .. Len(agenda[t]) : agenda[t][n] = <<"clear", p>>
    <3>1. PICK n \in 2 .. Len(agenda[t]) : agenda[t][n] = <<"clear", p>>
      BY <2>6
    <3>2. u = t /\ m = n
      BY <2>5, <3>1
    <3> QED  BY <1>4, <3>1, <3>2
  <2>7. CASE op = "tick" /\ i = x /\ \E n \in 2 .. Len(agenda[t]) : agenda[t][n] \in {<<"return", p>>, <<"conclude", p>>}
    <3>1. u = t /\ k \in 1 + 1 .. Len(e) /\ 1 \in 1 .. Len(e)
      BY <1>1, <2>5, <2>7
    <3>2. e[1] = <<"tick", x>>
      BY <2>3, <2>7, <3>1 DEF Due
    <3>3. ~Quiet(e[1]) /\ ~Quiet(e[k]) /\ Owner(e[1]) = x /\ Owner(e[k]) = x
      BY <3>2 DEF Quiet, Signals, Owner
    <3>4. MayFollow(e[1][1], e[k][1])
      BY <1>1, <3>1, <3>3 DEF Layout, Alone
    <3> QED  BY <3>2, <3>4 DEF MayFollow, Undoing
  <2> QED  BY <2>1, <2>4, <2>6, <2>7
<1> QED  BY <1>2, <1>4, <1>6, <1>7

\* A leaf that starts after a step is not below the thread that takes the step.
LEMMA OffTheWay ==
  ASSUME StartInv, Orderly, NEW t \in Doers, NEW op, NEW i, NEW calls, Moves(t, op, i, calls), op \notin Signals,
         NEW u \in Doers, NEW k \in 1 .. Len(agenda[u]), u = t => k # 1,
         NEW call, call = agenda[u][k], Executes(call), NEW x, x = call[2],
         NEW y, y = Owner(<<op, i>>), y \in Below(x), op = "tick" => y # x,
         NEW z, z \in Below(x), Leads(x, z)'
  PROVE  /\ t \in Workers /\ ~Idle(t) /\ t \in StrictlyBelow(x) /\ y \in Below(t) /\ z \notin Below(t)
         /\ t \in Instructions /\ y \in Instructions /\ x \in Below(root) /\ Below(root) \subseteq Instructions
<1>0. ExclusiveInv /\ Laid /\ Tables
  BY DEF StartInv
<1>1. Due(t, op, i)
  BY DEF Moves
<1>2. u # t /\ t \in Workers /\ t \in StrictlyBelow(x) /\ y \in Below(t) /\ wrapper[t] = "RUNNING" /\ ~Idle(t)
  BY <1>1, HeadWithin
<1>3. /\ x \in Below(root) /\ x \in Instructions /\ y \in Below(root) /\ i \in Instructions /\ Below(root) \subseteq Instructions
      /\ 1 \in 1 .. Len(agenda[t]) /\ agenda[t][1] = <<op, i>>
  BY <1>0, <1>1, AtFront, AtCall, ExecutesAbout
<1>4. t \in Instructions /\ y \in Instructions
  BY <1>2, <1>3, WorkerIsInstruction
<1>5. wrapper'[t] = "RUNNING"
  <2> SUFFICES ASSUME wrapper'[t] # wrapper[t]  PROVE FALSE
    BY <1>2
  <2>1. \/ op = "exec" /\ t \in Wrapped(i)
        \/ op = "join" /\ t \in ChildSet(i)
        \/ op = "tick" /\ i = t
    BY <1>0, <1>3, <1>4, Rewrapped
  <2>2. CASE op = "tick" /\ i = t
    <3>1. agenda[t][1][1] \in Undoing \union {"tick"} /\ agenda[t][1][2] = t
      BY <1>3, <2>2
    <3> QED  BY <1>0, <1>3, <3>1, NotOwnBase
  <2>3. CASE op \in {"exec", "join"} /\ t \in ChildSet(i)
    <3>1. y = i
      BY <2>3 DEF Owner
    <3> QED  BY <1>2, <1>3, <2>3, <3>1, ChildBelow
  <2> QED  BY <2>1, <2>2, <2>3 DEF Wrapped
<1>6. z \notin Below(t)
  BY <1>2, <1>3, <1>5, WillLead DEF StrictlyBelow
<1> QED  BY <1>2, <1>3, <1>4, <1>6

\* No step adds to the leaves that a call is going to start, before that is made.
LEMMA Undisturbed ==
  ASSUME StartInv, Orderly, NEW t \in Doers, NEW op, NEW i, NEW calls, Moves(t, op, i, calls),
         NEW u \in Doers, NEW k \in 1 .. Len(agenda[u]), u = t => k # 1,
         NEW call, call = agenda[u][k], Executes(call), NEW x, x = call[2]
  PROVE  StartsFrom(x)' \subseteq StartsFrom(x)
<1> SUFFICES ASSUME NEW z \in StartsFrom(x)'  PROVE z \in StartsFrom(x)
  OBVIOUS
<1>0. ExclusiveInv /\ Laid /\ Tables /\ Selections /\ Answers
  BY DEF StartInv, ExclusiveInv
<1>1. /\ x \in Below(root) /\ x \in Instructions /\ root \in Roots /\ Below(root) \subseteq Instructions
      /\ 1 \in 1 .. Len(agenda[t]) /\ agenda[t][1] = <<op, i>> /\ i \in Instructions
      /\ op \notin Signals => Owner(<<op, i>>) \in Below(root)
  <2>1. Due(t, op, i)
    BY DEF Moves
  <2> QED  BY <1>0, <2>1, AtFront, AtCall, ExecutesAbout
<1>2. Below(x) \subseteq Below(root) /\ Below(x) \subseteq Instructions /\ \A y \in Below(x) : ChildSet(y) \subseteq Below(x)
  BY <1>1, BelowClosed, TreeAssumption
<1>3. z \in Below(x) /\ z \in Leaf /\ Leads(x, z)'
  BY <1>1, WillLead
<1>4. ASSUME NEW y \in Below(x), y = Owner(<<op, i>>), op \notin Signals, op = "tick" => y # x
      PROVE  /\ t \in Workers /\ ~Idle(t) /\ t \in Below(root) /\ y \in Below(t) /\ z \notin Below(t)
  <2>1. /\ t \in Workers /\ ~Idle(t) /\ t \in StrictlyBelow(x) /\ y \in Below(t) /\ z \notin Below(t)
        /\ t \in Instructions /\ y \in Instructions /\ x \in Below(root) /\ Below(root) \subseteq Instructions
    BY <1>3, <1>4, OffTheWay
  <2> QED  BY <1>2, <2>1 DEF StrictlyBelow
<1>5. ASSUME NEW y \in Below(x), z \in Below(y), op \notin Signals
      PROVE  /\ y = Owner(<<op, i>>) => op = "tick" /\ y = x
             /\ \A d \in ChildSet(y) : d = Owner(<<op, i>>) => t = d
  <2>1. y \in Instructions /\ y \in Below(root)
    BY <1>2
  <2>2. ASSUME y \in Below(t), t \in Below(root)  PROVE z \in Below(t)
    BY <1>1, <1>5, <2>1, <2>2, BelowClosed
  <2>3. y = Owner(<<op, i>>) => op = "tick" /\ y = x
    BY <1>4, <1>5, <2>2
  <2>4. ASSUME NEW d \in ChildSet(y), d = Owner(<<op, i>>), t # d  PROVE FALSE
    <3>1. d \in Below(x) /\ d # x
      <4>1. d \in Below(x) /\ d \in StrictlyBelow(y) /\ y \notin Below(d)
        BY <1>2, <2>1, ChildBelow
      <4>2. x \in Instructions /\ y \in Below(x)
        BY <1>1
      <4> QED  BY <4>1, <4>2
    <3>2. t \in Below(root) /\ d \in Below(t) /\ z \notin Below(t)
      BY <1>4, <1>5, <2>4, <3>1
    <3>3. d \in StrictlyBelow(t)
      BY <2>4, <3>2 DEF StrictlyBelow
    <3>4. t = y \/ y \in StrictlyBelow(t)
      BY <1>1, <2>1, <3>2, <3>3, AboveChild
    <3>5. y \in Below(t)
      BY <1>1, <3>2, <3>4, BelowClosed DEF StrictlyBelow
    <3> QED  BY <2>2, <3>2, <3>5
  <2> QED  BY <2>3, <2>4
<1>6. ASSUME NEW y \in Below(x), z \in Below(y)  PROVE status'[y] = status[y]
  <2> SUFFICES ASSUME status'[y] # status[y]  PROVE FALSE
    OBVIOUS
  <2>1. i = y /\ op \in {"clear", "exec"} \union (UnderWay \ {"react"})
    BY <1>0, <1>1, <1>2, Remarked
  <2>2. op \notin Signals /\ op # "tick" /\ Owner(<<op, i>>) = y
    BY <2>1 DEF Signals, UnderWay, Owner
  <2> QED  BY <1>5, <1>6, <2>2
<1>7. ASSUME NEW y \in Below(x), z \in Below(y), y # x, wrapper'[y] # "RUNNING"  PROVE wrapper[y] # "RUNNING"
  <2> SUFFICES ASSUME wrapper'[y] # wrapper[y]  PROVE FALSE
    BY <1>7
  <2>1. \/ op \in {"exec", "join"} /\ y \in ChildSet(i)
        \/ op = "tick" /\ i = y
    BY <1>0, <1>1, <1>2, Rewrapped DEF Wrapped
  <2>2. op \notin Signals /\ Owner(<<op, i>>) = i
    BY <2>1 DEF Signals, Owner
  <2>3. CASE op = "tick" /\ i = y
    BY <1>5, <1>7, <2>2, <2>3
  <2>4. CASE op \in {"exec", "join"} /\ y \in ChildSet(i)
    <3>1. PICK p \in Below(x) : y \in ChildSet(p)
      BY <1>1, <1>7, ParentBelow DEF StrictlyBelow
    <3>2. i = p
      BY <1>0, <1>1, <1>2, <2>2, <2>4, <3>1, SameParent
    <3>3. z \in Below(p)
      <4>1. y \in Below(p) /\ p \in Instructions
        BY <1>2, <3>1, ChildBelow DEF StrictlyBelow
      <4> QED  BY <1>7, <4>1, BelowClosed
    <3> QED  BY <1>5, <2>2, <2>4, <3>2, <3>3
  <2> QED  BY <2>1, <2>3, <2>4
<1>8. ASSUME NEW y \in Below(x), z \in Below(y)  PROVE NextInstructionsOf(y)' = NextInstructionsOf(y)
  <2>1. y \in Instructions /\ y \in Below(root) /\ ChildSet(y) \subseteq Below(root) /\ ChildSet(y) \subseteq Instructions
    BY <1>2, <1>1, BelowClosed, ChildrenAreInstructions
  <2>2. ASSUME Kind[y] \notin Threaded, NEW d \in ChildSet(y)  PROVE status'[d] = status[d]
    <3> SUFFICES ASSUME status'[d] # status[d]  PROVE FALSE
      OBVIOUS
    <3>1. i = d /\ op \in {"clear", "exec"} \union (UnderWay \ {"react"})
      BY <1>0, <1>1, <2>1, Remarked
    <3>2. op \notin Signals /\ Owner(<<op, i>>) = d
      BY <3>1 DEF Signals, UnderWay, Owner
    <3>3. t = d /\ ~Idle(t)
      BY <1>1, <1>5, <1>8, <3>2 DEF Idle
    <3> QED  BY <2>1, <2>2, <3>3, StartedFor
  <2>3. ASSUME Kind[y] \in Threaded, NEW d \in ChildSet(y)  PROVE wrapper'[d] = wrapper[d]
    <3> SUFFICES ASSUME wrapper'[d] # wrapper[d]  PROVE FALSE
      OBVIOUS
    <3>1. \/ op \in {"exec", "join"} /\ d \in ChildSet(i)
          \/ op = "tick" /\ i = d
      BY <1>0, <1>1, <2>1, Rewrapped DEF Wrapped
    <3>2. op \notin Signals /\ Owner(<<op, i>>) = i
      BY <3>1 DEF Signals, Owner
    <3>3. CASE op = "tick" /\ i = d
      <4>1. t = d
        BY <1>5, <1>8, <3>2, <3>3
      <4>2. agenda[t][1][1] \in Undoing \union {"tick"} /\ agenda[t][1][2] = t
        BY <1>1, <3>3, <4>1
      <4> QED  BY <1>0, <1>1, <4>2, NotOwnBase
    <3>4. CASE op \in {"exec", "join"} /\ d \in ChildSet(i)
      <4>1. i = y
        BY <1>0, <1>1, <2>1, <3>2, <3>4, SameParent
      <4> QED  BY <1>5, <1>8, <3>2, <3>4, <4>1
    <3> QED  BY <3>1, <3>3, <3>4
  <2>4. selected'[y] = selected[y]
    <3> SUFFICES ASSUME selected'[y] # selected[y]  PROVE FALSE
      OBVIOUS
    <3>1. i = y /\ op \in {"reset", "choose"}
      BY <1>0, <1>1, <2>1, Reselected
    <3>2. op \notin Signals /\ op # "tick" /\ Owner(<<op, i>>) = y
      BY <3>1 DEF Signals, Owner
    <3> QED  BY <1>5, <1>8, <3>2
  <2> QED  BY <1>0, <2>1, <2>2, <2>3, <2>4, NextSame
<1>9. Leads(x, z)
  <2>1. ASSUME NEW y \in Below(x), z \in Below(y)
        PROVE  /\ ReadyForExecute(status[y])
               /\ y # x => wrapper[y] # "RUNNING"
               /\ \A c \in ChildSet(y) : z \in Below(c) => c \in NextInstructionsOf(y)
    <3>1. /\ ReadyForExecute(status'[y])
          /\ y # x => wrapper'[y] # "RUNNING"
          /\ \A c \in ChildSet(y) : z \in Below(c) => c \in NextInstructionsOf(y)'
      BY <1>1, <1>3, <2>1, WillLead
    <3>2. status'[y] = status[y] /\ NextInstructionsOf(y)' = NextInstructionsOf(y)
      BY <1>6, <1>8, <2>1
    <3> QED  BY <1>7, <2>1, <3>1, <3>2
  <2> QED  BY <2>1 DEF Leads
<1> QED  BY <1>3, <1>9 DEF StartsFrom

-----------------------------------------------------------------------------
(* Trees in which no instruction resets another within a tick                *)
LEMMA PlainBelow ==
  ASSUME StepsAreAnnounced, root \in Roots, NEW p \in Below(root)
  PROVE  /\ p \in Instructions
         /\ Kind[p] \notin Counting \union Reactive \union {"Listen", "UserChoice"}
         /\ p \notin Leaf => Kind[p] \in Sequential \union Threaded
         /\ Kind[p] \in Sequential \union Threaded => p \notin Leaf /\ ~ReadsAttribute(p)
<1>1. root \in Instructions /\ Below(root) \subseteq Instructions
  BY TreeAssumption, BelowClosed
<1>2. Kind[p] \notin Counting \union Reactive \union {"Listen", "UserChoice"}
  BY <1>1, BelowInSubtree DEF StepsAreAnnounced
<1>3. p \notin Leaf => Kind[p] \in Compounds
  BY <1>1, TreeAssumption
<1>4. p \in Leaf => Kind[p] \notin Compounds
  BY LeafAssumption
<1> QED  BY <1>1, <1>2, <1>3, <1>4 DEF Compounds, Sequential, ReadsAttribute, Threaded

LEMMA PlainHears ==
  ASSUME StepsAreAnnounced  PROVE HearsHalts
  BY DEF StepsAreAnnounced, HearsHalts

\* What is due in such a tree.
LEMMA UsualHead ==
  ASSUME StartInv, Usual, NEW t \in Doers, NEW op, NEW i, Due(t, op, i)
  PROVE  /\ op \notin {"running", "react", "listen"} /\ Owner(<<op, i>>) = i /\ i \in Instructions
         /\ op \notin Signals => i \in Below(root)
         /\ op = "choose" => Kind[i] = "Choice" /\ selected[i] = << >>
<1>1. /\ 1 \in 1 .. Len(agenda[t]) /\ agenda[t][1] = <<op, i>> /\ i \in Instructions
      /\ op \notin Signals => Owner(<<op, i>>) \in Below(root)
  BY AtFront DEF StartInv
<1>2. UsualCall(<<op, i>>)
  BY <1>1 DEF Usual
<1> QED  BY <1>1, <1>2 DEF UsualCall, Owner

\* The status of a child changes by its thread, or by one that is going to return to the
\* parent or to clear it.
LEMMA ChildHeld ==
  ASSUME StartInv, Usual, NEW t \in Doers, NEW op, NEW i, NEW calls, Moves(t, op, i, calls),
         NEW p \in Below(root), NEW c \in ChildSet(p), status'[c] # status[c]
  PROVE  /\ i = c /\ c \in Instructions
         /\ \/ op = "clear" /\ status'[c] = "NOT_STARTED"
            \/ op \in UnderWay \union {"exec"} /\ op \notin Backward /\ status'[c] \in Started
         /\ \/ c = t /\ t \in Workers /\ ~Idle(t) /\ Kind[p] \in Threaded
            \/ \E m \in 2 .. Len(agenda[t]) : agenda[t][m] \in {<<"return", p>>, <<"conclude", p>>, <<"clear", p>>}
<1>1. /\ i = c /\ c \in Instructions /\ Owner(<<op, i>>) = c
      /\ \/ op = "clear" /\ status'[c] = "NOT_STARTED"
         \/ op \in (UnderWay \ {"react"}) \union {"exec"} /\ status'[c] \in Started
      /\ \/ c = t /\ t \in Workers /\ ~Idle(t) /\ Kind[p] \in Threaded
         \/ /\ c # t /\ p \in Below(Base(t))
            /\ \E m \in 2 .. Len(agenda[t]) : agenda[t][m][1] \in Holding /\ Owner(agenda[t][m]) = p
  BY ChildMarked
<1>2. op \in (UnderWay \ {"react"}) \union {"exec"} => op \notin Backward
  BY DEF UnderWay, Backward
<1>3. ASSUME NEW m \in 2 .. Len(agenda[t]), agenda[t][m][1] \in Holding, Owner(agenda[t][m]) = p
      PROVE  agenda[t][m] \in {<<"return", p>>, <<"conclude", p>>, <<"clear", p>>}
  <2>1. m \in 1 .. Len(agenda[t])
    OBVIOUS
  <2>2. UsualCall(agenda[t][m]) /\ agenda[t][m] \in AnyCall
    BY <2>1, AtCall DEF Usual, StartInv
  <2>3. agenda[t][m][1] \in {"return", "conclude", "clear"} /\ agenda[t][m][2] = p
    BY <1>3, <2>2 DEF UsualCall, Holding, Owner
  <2> QED  BY <2>2, <2>3 DEF AnyCall
<1> QED  BY <1>1, <1>2, <1>3

-----------------------------------------------------------------------------
(* Such trees make the usual calls                                           *)
UsualOps == Operations \ {"running", "react", "listen", "choose"}
LEMMA UsualMakes ==
  ASSUME NEW calls, Makes(calls, UsualOps), NEW k \in 1 .. Len(calls)
  PROVE  UsualCall(calls[k])'
  BY DEF Makes, UsualOps, UsualCall

LEMMA UsualParts ==
  /\ Makes(<< >>, UsualOps)
  /\ \A op \in UsualOps, x \in Instructions : Makes(Call(op, x), UsualOps) /\ Call(op, x) \in Seq(AnyCall)
  /\ \A op \in UsualOps, s \in Seq(Instructions) : Makes(ForEach(op, s), UsualOps) /\ ForEach(op, s) \in Seq(AnyCall)
<1>1. \A op \in UsualOps : op \in Operations
  BY DEF UsualOps
<1>2. ASSUME NEW op \in UsualOps, NEW s \in Seq(Instructions)
      PROVE  Makes(ForEach(op, s), UsualOps)
  BY MakesEach
<1> QED  BY <1>1, <1>2, MakesCalls, SeqsOfCalls

\* What an instruction begins with.
LEMMA UsualBody ==
  ASSUME StartInv, StepsAreAnnounced, NEW i \in Below(root)
  PROVE  \/ i \in Leaf /\ BodyCalls(i) = Call("work", i)
         \/ i \notin Leaf /\ Kind[i] = "Choice" /\ selected[i] = << >> /\ BodyCalls(i) = Call("choose", i)
         \/ i \notin Leaf /\ (Kind[i] = "Choice" => selected[i] # << >>) /\ Makes(BodyCalls(i), {"exec", "tick", "return", "conclude"})
<1>0. root \in Roots /\ Selections
  BY DEF StartInv, ExclusiveInv
<1>1. i \in Instructions /\ (i \notin Leaf => Kind[i] \in Sequential \union Threaded)
  BY <1>0, PlainBelow
<1> DEFINE ops == {"exec", "tick", "return", "conclude"}
<1>2. \A s \in Seq(Instructions) : Makes(ForEach("exec", s), ops) /\ Makes(ForEach("tick", s), ops)
                                  /\ ForEach("exec", s) \in Seq(AnyCall) /\ ForEach("tick", s) \in Seq(AnyCall)
  BY MakesEach, SeqsOfCalls DEF Operations
<1>3. /\ \A x \in Instructions : /\ Makes(Call("exec", x), ops) /\ Makes(Call("tick", x), ops)
                                 /\ Makes(Call("return", x), ops) /\ Makes(Call("conclude", x), ops)
                                 /\ Call("exec", x) \in Seq(AnyCall) /\ Call("tick", x) \in Seq(AnyCall)
                                 /\ Call("return", x) \in Seq(AnyCall) /\ Call("conclude", x) \in Seq(AnyCall)
  BY MakesCalls, SeqsOfCalls DEF Operations
<1> HIDE DEF ops
<1>4. ASSUME NEW s \in Seq(Instructions)  PROVE Makes(SequentialCalls(i, s), ops)
  <2>1. FirstUnfinished(s) \in Seq(Instructions)
    <3> DEFINE open == {k \in DOMAIN s : NeedsExecute(status[s[k]])}
    <3>1. CASE open = {}
      BY <3>1 DEF FirstUnfinished
    <3>2. CASE open # {}
      <4>1. open \in SUBSET Nat
        OBVIOUS
      <4>2. FirstIn(open) \in open
        <5> HIDE DEF open
        <5> QED  BY <3>2, <4>1, FirstOfThem
      <4>3. s[FirstIn(open)] \in Instructions
        BY <4>2
      <4> QED  BY <3>2, <4>3 DEF FirstUnfinished
    <3> QED  BY <3>1, <3>2
  <2>2. Makes(ForEach("exec", FirstUnfinished(s)) \o Call("return", i), ops)
    BY <1>1, <1>2, <1>3, <2>1, MakesBoth
  <2> QED  BY <2>2 DEF SequentialCalls
<1>5. CASE i \in Leaf
  BY <1>5 DEF BodyCalls
<1>6. CASE i \notin Leaf
  <2>0. Children[i] \in Seq(Instructions) /\ Child(i) \in Instructions
    BY <1>1, <1>6, ChildrenAreInstructions, ChildIsChild
  <2>1. CASE Kind[i] \in {"Sequence", "Fallback"}
    <3>1. BodyCalls(i) = SequentialCalls(i, Children[i])
      BY <1>1, <1>6, <2>1, BodyByKind
    <3> QED  BY <1>4, <1>6, <2>0, <2>1, <3>1 DEF ops
  <2>2. CASE Kind[i] = "Choice"
    <3>1. BodyCalls(i) = ChoiceCalls(i)
      BY <1>1, <1>6, <2>2, BodyByKind
    <3>2. CASE selected[i] = << >>
      BY <1>6, <2>2, <3>1, <3>2 DEF ChoiceCalls
    <3>3. CASE selected[i] # << >>
      <4>1. PICK s \in Seq(ChildSet(i)) : selected[i] = <<s>>
        BY <1>0, <1>1, <3>3 DEF Selections
      <4>2. s \in Seq(Instructions) /\ selected[i][1] = s
        BY <1>1, <4>1, ChildrenAreInstructions
      <4> QED  BY <1>4, <1>6, <3>1, <3>3, <4>2 DEF ChoiceCalls, ops
    <3> QED  BY <3>2, <3>3
  <2>3. CASE Kind[i] = "ParallelSequence"
    <3>1. BodyCalls(i) = ForEach("tick", Children[i]) \o Call("conclude", i)
      BY <1>1, <1>6, <2>3, BodyByKind DEF ParallelCalls
    <3>2. Makes(BodyCalls(i), ops)
      BY <1>1, <1>2, <1>3, <2>0, <3>1, MakesBoth
    <3> QED  BY <1>6, <2>3, <3>2 DEF ops
  <2>4. CASE Kind[i] = "Async"
    <3>1. BodyCalls(i) = Call("tick", Child(i)) \o Call("return", i)
      BY <1>1, <1>6, <2>4, BodyByKind DEF AsyncCalls
    <3>2. Makes(BodyCalls(i), ops)
      BY <1>1, <1>3, <2>0, <3>1, MakesBoth
    <3> QED  BY <1>6, <2>4, <3>2 DEF ops
  <2>5. CASE Kind[i] \in {"Inverter", "ForceSuccess", "Include"}
    <3>1. BodyCalls(i) = Call("exec", Child(i)) \o Call("return", i)
      BY <1>1, <1>6, <2>5, BodyByKind DEF ChildCalls
    <3>2. Makes(BodyCalls(i), ops)
      BY <1>1, <1>3, <2>0, <3>1, MakesBoth
    <3> QED  BY <1>6, <2>5, <3>2 DEF ops
  <2> QED  BY <1>1, <1>6, <2>1, <2>2, <2>3, <2>4, <2>5 DEF Sequential, Threaded
<1> QED  BY <1>5, <1>6

LEMMA NewUsual ==
  ASSUME StartInv, StepsAreAnnounced, Usual, NEW t \in Doers, NEW op, NEW i, NEW calls,
         Moves(t, op, i, calls), Means(op, i, calls), NEW k \in 1 .. Len(calls)
  PROVE  UsualCall(calls[k])'
<1>1. Due(t, op, i)
  BY DEF Moves
<1>2. /\ op \notin {"running", "react", "listen"} /\ Owner(<<op, i>>) = i /\ i \in Instructions
      /\ op \notin Signals => i \in Below(root)
      /\ op = "choose" => Kind[i] = "Choice" /\ selected[i] = << >>
  BY <1>1, UsualHead
<1>3. op \in Operations
  <2>1. 1 \in 1 .. Len(agenda[t]) /\ agenda[t][1] = <<op, i>> /\ agenda[t] \in Seq(AnyCall)
    BY <1>1, AtFront, AtCall DEF StartInv
  <2>2. agenda[t][1] \in AnyCall
    BY <2>1
  <2> QED  BY <2>1, <2>2 DEF AnyCall
<1>4. CASE op \in Backward
  <2>1. NeatAt(op, i, calls, k)
    BY <1>2 DEF Moves, Proceeds, Neat
  <2>2. calls[k][1] \in Backward
    BY <1>4, <2>1 DEF NeatAt, Quiet, Signals, Backward
  <2> QED  BY <2>2 DEF UsualCall, Backward
<1>5. CASE op = "exec"
  <2>1. Makes(calls, UsualOps)
    BY <1>2, <1>5, UsualParts DEF Moves, MakesAlways, UsualOps, Operations
  <2> QED  BY <2>1, UsualMakes
<1>6. CASE op = "body"
  <2>1. calls = << >> \/ calls = BodyCalls(i)
    BY <1>6 DEF Means
  <2>2. CASE calls = << >>
    BY <2>2
  <2>3. CASE calls = BodyCalls(i)
    <3>1. \/ calls = Call("work", i)
          \/ Kind[i] = "Choice" /\ selected[i] = << >> /\ calls = Call("choose", i)
          \/ Makes(calls, {"exec", "tick", "return", "conclude"})
      BY <1>2, <1>6, <2>3, UsualBody DEF Signals
    <3>2. CASE calls = Call("work", i)
      BY <3>2 DEF UsualCall, Call
    <3>3. CASE Kind[i] = "Choice" /\ selected[i] = << >> /\ calls = Call("choose", i)
      <4>1. k = 1 /\ calls[k] = <<"choose", i>>
        BY <3>3 DEF Call
      <4>2. selected' = selected
        BY <1>6 DEF Moves, Effects, Selects
      <4> QED  BY <3>3, <4>1, <4>2 DEF UsualCall
    <3>4. CASE Makes(calls, {"exec", "tick", "return", "conclude"})
      BY <3>4 DEF Makes, UsualCall
    <3> QED  BY <3>1, <3>2, <3>3, <3>4
  <2> QED  BY <2>1, <2>2, <2>3
<1>7. CASE op \in {"work", "return", "choose"}
  <2>1. calls = << >>
    BY <1>2, <1>7 DEF Means
  <2> QED  BY <2>1
<1>8. CASE op = "conclude"
  <2>1. PICK h \in {Call("halt", i), << >>} : calls = h \o Call("return", i)
    BY <1>8 DEF Means
  <2>2. Makes(h, UsualOps) /\ h \in Seq(AnyCall) /\ Makes(Call("return", i), UsualOps) /\ Call("return", i) \in Seq(AnyCall)
    BY <1>2, <2>1, UsualParts, SeqsOfCalls DEF UsualOps, Operations
  <2>3. Makes(calls, UsualOps)
    BY <2>1, <2>2, MakesBoth
  <2> QED  BY <2>3, UsualMakes
<1>9. CASE op = "tick"
  <2>1. calls = << >>
    BY <1>9 DEF Moves, MakesAlways
  <2> QED  BY <2>1
<1> QED  BY <1>2, <1>3, <1>4, <1>5, <1>6, <1>7, <1>8, <1>9 DEF Operations, Backward

\* The others wait, and what has not chosen still has not.
LEMMA OldUsual ==
  ASSUME StartInv, Usual, NEW t \in Doers, NEW op, NEW i, NEW calls, Moves(t, op, i, calls),
         NEW u \in Doers, NEW k \in 1 .. Len(agenda[u]), u = t => k # 1, NEW call, call = agenda[u][k]
  PROVE  UsualCall(call)'
<1>1. UsualCall(agenda[u][k])
  BY DEF Usual
<1>2. call = agenda[u][k]
  OBVIOUS
<1>3. ASSUME call[1] = "choose"  PROVE selected'[call[2]] = selected[call[2]]
  <2>1. agenda[u][k][1] \in UnderWay /\ Owner(agenda[u][k]) = call[2]
    BY <1>2, <1>3 DEF UnderWay, Owner
  <2> QED  BY <2>1, KeptUnderWay
<1>4. UsualCall(call)'
  BY <1>1, <1>2, <1>3 DEF UsualCall
<1> QED  BY <1>4

\* Where the calls come from that are left after a step.
ComesFrom(t, op, i, calls, u, f, k) ==
  \/ u = t /\ k \in 1 .. Len(calls) /\ f[k] = calls[k]
  \/ \E j \in 1 .. Len(agenda[u]) :
       /\ f[k] = agenda[u][j]
       /\ u = t => j # 1 /\ j \in 2 .. Len(agenda[u]) /\ k = Len(calls) + j - 1
       /\ u # t => k = j /\ f = agenda[u]
  \/ u # t /\ op = "tick" /\ u = i /\ u \in Workers /\ agenda[u] = << >> /\ f = Call("exec", u) /\ k = 1

LEMMA CallsCome ==
  ASSUME StartInv, NEW t \in Doers, NEW op, NEW i, NEW calls, Moves(t, op, i, calls),
         NEW u \in Doers, NEW f, f = agenda'[u], NEW k \in 1 .. Len(f)
  PROVE  ComesFrom(t, op, i, calls, u, f, k)
<1> USE DEF ComesFrom
<1>1. CASE u = t
  <2>1. Advances(t, op, i, calls, agenda[t], f)
    BY <1>1 DEF Advances
  <2>2. PICK x : x = Owner(<<op, i>>)
    OBVIOUS
  <2>3. PICK b : b = Base(t)
    OBVIOUS
  <2>4. Spliced(agenda[t], calls, f)
    BY <2>1, <2>2, <2>3, Advanced
  <2>5. \/ k \in 1 .. Len(calls) /\ f[k] = calls[k]
        \/ \E j \in 2 .. Len(agenda[t]) : k = Len(calls) + j - 1 /\ f[k] = agenda[t][j]
    BY <2>4 DEF Spliced
  <2>6. CASE k \in 1 .. Len(calls) /\ f[k] = calls[k]
    BY <1>1, <2>6
  <2>7. CASE \E j \in 2 .. Len(agenda[t]) : k = Len(calls) + j - 1 /\ f[k] = agenda[t][j]
    <3>1. PICK j \in 2 .. Len(agenda[t]) : k = Len(calls) + j - 1 /\ f[k] = agenda[t][j]
      BY <2>7
    <3>2. j \in 1 .. Len(agenda[u]) /\ j # 1 /\ j \in 2 .. Len(agenda[u]) /\ f[k] = agenda[u][j]
      BY <1>1, <3>1
    <3> QED  BY <1>1, <3>1, <3>2
  <2> QED  BY <2>5, <2>6, <2>7
<1>2. CASE u # t
  <2>1. \/ agenda'[u] = agenda[u]
        \/ op = "tick" /\ u = i /\ agenda[u] = << >> /\ agenda'[u] = Call("exec", u)
    BY <1>2 DEF Moves, Takes
  <2>2. CASE agenda'[u] = agenda[u]
    <3>1. k \in 1 .. Len(agenda[u]) /\ f = agenda[u]
      BY <2>2
    <3> QED  BY <1>2, <3>1
  <2>3. CASE op = "tick" /\ u = i /\ agenda[u] = << >> /\ agenda'[u] = Call("exec", u)
    <3>1. k = 1
      BY <2>3 DEF Call
    <3>2. u \in Workers
      <4>1. Due(t, op, i)
        BY DEF Moves
      <4>2. i \in Instructions
        BY <4>1, AtFront DEF StartInv
      <4>3. Ticker \notin Instructions
        BY TreeAssumption
      <4> QED  BY <2>3, <4>2, <4>3 DEF Doers
    <3> QED  BY <1>2, <2>3, <3>1, <3>2
  <2> QED  BY <2>1, <2>2, <2>3
<1> QED  BY <1>1, <1>2

LEMMA DoersStay == Doers' = Doers
  BY DEF Doers, Workers, Wrapped, ChildSet

LEMMA UsualKept ==
  ASSUME StartInv, StepsAreAnnounced, Usual, NEW t \in Doers, NEW op, NEW i, NEW calls,
         Moves(t, op, i, calls), Means(op, i, calls)
  PROVE  Usual'
<1> SUFFICES ASSUME NEW u \in Doers, NEW f, f = agenda'[u], NEW k \in 1 .. Len(f), NEW call, call = f[k]
             PROVE  UsualCall(call)'
  <2>1. \A u \in Doers : \A f : f = agenda'[u] => \A k \in 1 .. Len(f) : \A call : call = f[k] => UsualCall(call)'
    OBVIOUS
  <2> QED  BY <2>1, DoersStay DEF Usual, UsualCall
<1>1. \/ u = t /\ k \in 1 .. Len(calls) /\ call = calls[k]
      \/ \E j \in 1 .. Len(agenda[u]) : (u = t => j # 1) /\ call = agenda[u][j]
      \/ call = <<"exec", u>>
  <2>1. ComesFrom(t, op, i, calls, u, f, k)
    BY CallsCome
  <2> QED  BY <2>1 DEF ComesFrom, Call
<1>2. CASE u = t /\ k \in 1 .. Len(calls) /\ call = calls[k]
  <2>1. UsualCall(calls[k])'
    BY <1>2, NewUsual
  <2> QED  BY <1>2, <2>1 DEF UsualCall
<1>3. CASE \E j \in 1 .. Len(agenda[u]) : (u = t => j # 1) /\ call = agenda[u][j]
  BY <1>3, OldUsual
<1>4. CASE call = <<"exec", u>>
  BY <1>4 DEF UsualCall
<1> QED  BY <1>1, <1>2, <1>3, <1>4

-----------------------------------------------------------------------------
(* What has not started has nothing below it that has                        *)
LEMMA UnstartedNext ==
  ASSUME NEW p
  PROVE  Unstarted(p)' <=> \A c \in ChildSet(p) : status'[c] = "NOT_STARTED" /\ (Kind[p] \in Threaded => wrapper'[c] = "absent")
<1>1. ChildSet(p)' = ChildSet(p)
  BY DEF ChildSet
<1> QED  BY <1>1 DEF Unstarted, Threaded

\* An instruction is cleared when its children are.
LEMMA ClearsLast ==
  ASSUME StartInv, InPlace, NEW t \in Doers, NEW p, NEW calls, Moves(t, "clear", p, calls)
  PROVE  /\ p \in Below(root) /\ p \in Instructions
         /\ Unstarted(p) /\ Unstarted(p)' /\ status'[p] = "NOT_STARTED"
<1> DEFINE e == agenda[t]
<1>0. ExclusiveInv /\ Tables
  BY DEF StartInv
<1>1. Due(t, "clear", p)
  BY DEF Moves
<1>2. /\ 1 \in 1 .. Len(e) /\ e[1] = <<"clear", p>> /\ p \in Instructions /\ p \in Below(root)
  <2>1. Owner(<<"clear", p>>) = p /\ "clear" \notin Signals
    BY DEF Owner, Signals
  <2> QED  BY <1>0, <1>1, <2>1, AtFront
<1>3. status'[p] = "NOT_STARTED" /\ \A c \in Instructions : c # p => status'[c] = status[c]
  <2>1. status' = [status EXCEPT ![p] = "NOT_STARTED"]
    BY DEF Moves, Effects, Marks, UnderWay
  <2> QED  BY <1>0, <1>2, <2>1 DEF Tables
<1>4. ClearAt(e, 1)
  BY <1>2 DEF InPlace
<1>5. ASSUME NEW c \in ChildSet(p)
      PROVE  /\ status[c] = "NOT_STARTED" /\ (Kind[p] \in Threaded => wrapper[c] = "absent")
             /\ status'[c] = "NOT_STARTED" /\ wrapper'[c] = wrapper[c]
  <2>1. c \in Instructions /\ c # p
    BY <1>2, ChildBelow DEF StrictlyBelow
  <2>2. GoesFirst(e, 1, p, c)
    BY <1>2, <1>4 DEF ClearAt
  <2>3. 1 .. (1 - 1) = {}
    OBVIOUS
  <2>4. status[c] = "NOT_STARTED" /\ (Kind[p] \in Threaded => wrapper[c] = "absent")
    BY <2>2, <2>3 DEF GoesFirst
  <2>5. wrapper'[c] = wrapper[c]
    BY DEF Moves, Effects, Wraps
  <2> QED  BY <1>3, <2>1, <2>4, <2>5
<1> QED  BY <1>2, <1>3, <1>5, UnstartedNext DEF Unstarted

\* An instruction that is under way has started.
LEMMA EndsStarted ==
  ASSUME Lively, NEW u \in Doers, NEW k \in 1 .. Len(agenda[u]), NEW p,
         agenda[u][k] \in {<<"return", p>>, <<"conclude", p>>}
  PROVE  status[p] # "NOT_STARTED" /\ NeedsExecute(status[p])
<1>1. agenda[u][k][1] \in UnderWay \ {"body"} /\ Owner(agenda[u][k]) = p
  BY DEF UnderWay, Owner
<1> QED  BY <1>1 DEF Lively, LiveCall

\* As long as it has not started its children do not.
LEMMA UnstartedStays ==
  ASSUME StartInv, Lively, Stages, Usual, NEW t \in Doers, NEW op, NEW i, NEW calls, Moves(t, op, i, calls),
         NEW p \in Below(root), status[p] = "NOT_STARTED", status'[p] = "NOT_STARTED", Unstarted(p)
  PROVE  Unstarted(p)'
<1> SUFFICES ASSUME NEW c \in ChildSet(p)
             PROVE  status'[c] = "NOT_STARTED" /\ (Kind[p] \in Threaded => wrapper'[c] = "absent")
  BY UnstartedNext
<1>1. status[c] = "NOT_STARTED" /\ (Kind[p] \in Threaded => wrapper[c] = "absent")
  BY DEF Unstarted
<1>2. ASSUME NEW m \in 2 .. Len(agenda[t])  PROVE agenda[t][m] \notin {<<"return", p>>, <<"conclude", p>>}
  <2>1. m \in 1 .. Len(agenda[t])
    OBVIOUS
  <2> QED  BY <2>1, EndsStarted
<1>3. status'[c] = "NOT_STARTED"
  <2> SUFFICES ASSUME status'[c] # status[c], status'[c] # "NOT_STARTED"  PROVE FALSE
    BY <1>1
  <2>1. /\ i = c /\ op \notin Backward
        /\ \/ c = t /\ t \in Workers /\ ~Idle(t) /\ Kind[p] \in Threaded
           \/ \E m \in 2 .. Len(agenda[t]) : agenda[t][m] \in {<<"return", p>>, <<"conclude", p>>, <<"clear", p>>}
    BY ChildHeld
  <2>2. CASE c = t /\ t \in Workers /\ ~Idle(t) /\ Kind[p] \in Threaded
    BY <1>1, <2>2 DEF StartInv, WrapperInv, WrapperKnowsThread
  <2>3. ASSUME NEW m \in 2 .. Len(agenda[t]), agenda[t][m] = <<"clear", p>>  PROVE FALSE
    <3>1. m \in 1 .. Len(agenda[t]) /\ 1 \in 1 .. m - 1
      OBVIOUS
    <3>2. BacksAt(agenda[t], m)
      BY <3>1 DEF Stages
    <3>3. agenda[t][1][1] \in Backward
      BY <2>3, <3>1, <3>2 DEF BacksAt
    <3> QED  BY <2>1, <3>3 DEF Moves, Due
  <2> QED  BY <1>2, <2>1, <2>2, <2>3
<1>4. ASSUME Kind[p] \in Threaded  PROVE wrapper'[c] = "absent"
  <2> SUFFICES ASSUME wrapper'[c] # wrapper[c]  PROVE wrapper'[c] = "absent"
    BY <1>1, <1>4
  <2>1. \/ op = "exec" /\ i = p /\ status[p] = "NOT_STARTED" /\ wrapper'[c] = "NOT_STARTED"
        \/ /\ op = "join" /\ i = p /\ wrapper'[c] = "absent"
           /\ \E m \in 2 .. Len(agenda[t]) : agenda[t][m] = <<"clear", p>>
        \/ /\ op = "tick" /\ i = c /\ wrapper'[c] \in {status[c], "RUNNING"}
           /\ \E m \in 2 .. Len(agenda[t]) : agenda[t][m] \in {<<"return", p>>, <<"conclude", p>>}
    <3>1. StartInv /\ t \in Doers /\ Moves(t, op, i, calls) /\ p \in Below(root) /\ Kind[p] \in Threaded
          /\ c \in ChildSet(p) /\ wrapper'[c] # wrapper[c]
      BY <1>4
    <3>2. WrapperMoves(t, op, i, p, c)
      BY <3>1, WrapperHeld
    <3> QED  BY <3>2 DEF WrapperMoves
  <2>2. ASSUME op = "exec", i = p  PROVE FALSE
    <3>1. p \in Instructions /\ Tables
      <4>1. Due(t, op, i)
        BY DEF Moves
      <4> QED  BY <2>2, <4>1, AtFront DEF StartInv
    <3> QED  BY <2>2, <3>1, ExecStarts
  <2> QED  BY <1>2, <2>1, <2>2
<1> QED  BY <1>3, <1>4

LEMMA FreshKept ==
  ASSUME StartInv, Lively, Stages, Usual, Fresh, InPlace, NEW t \in Doers, NEW op, NEW i, NEW calls,
         Moves(t, op, i, calls), NEW p \in Below(root)
  PROVE  /\ status'[p] = "NOT_STARTED" => Unstarted(p)'
         /\ Kind[p] = "Choice" /\ selected'[p] = << >> => Unstarted(p)' \/ Owes(p, {"clear"})'
<1>0. ExclusiveInv /\ Tables /\ Selections /\ AllPrepared
  BY DEF StartInv, ExclusiveInv
<1>1. Due(t, op, i) /\ i \in Instructions /\ p \in Instructions /\ Owner(<<op, i>>) = i
      /\ 1 \in 1 .. Len(agenda[t]) /\ agenda[t][1] = <<op, i>>
  <2>1. Due(t, op, i)
    BY DEF Moves
  <2>2. root \in Instructions /\ Below(root) \subseteq Instructions
    BY <1>0, TreeAssumption, BelowClosed DEF ExclusiveInv
  <2> QED  BY <1>0, <2>1, <2>2, UsualHead, AtFront
<1>2. ASSUME status'[p] = "NOT_STARTED"  PROVE Unstarted(p)'
  <2>1. CASE status[p] = "NOT_STARTED"
    BY <1>2, <2>1, UnstartedStays DEF Fresh
  <2>2. CASE status[p] # "NOT_STARTED"
    <3>1. op = "clear" /\ i = p
      <4>1. \/ op = "clear" /\ i = p /\ status'[p] = "NOT_STARTED"
            \/ op \in (UnderWay \ {"react"}) \union {"exec"} /\ i = p /\ status'[p] \in Started
        <5>1. Tables /\ i \in Instructions /\ p \in Instructions /\ status'[p] # status[p] /\ Moves(t, op, i, calls)
          BY <1>0, <1>1, <1>2, <2>2
        <5> QED  BY <5>1, Remarked
      <4> QED  BY <1>2, <4>1 DEF Started
    <3> QED  BY <3>1, ClearsLast
  <2> QED  BY <2>1, <2>2
<1>3. ASSUME Kind[p] = "Choice", selected'[p] = << >>  PROVE Unstarted(p)' \/ Owes(p, {"clear"})'
  <2>1. CASE selected[p] # << >>
    <3>1. op = "reset" /\ i = p
      <4>1. i = p /\ (op = "reset" \/ op = "choose")
        <5>1. Selections /\ i \in Instructions /\ p \in Instructions /\ selected'[p] # selected[p] /\ Moves(t, op, i, calls)
          BY <1>0, <1>1, <1>3, <2>1
        <5>2. i = p /\ (op = "reset" \/ (op = "choose" /\ calls = << >>))
          BY <5>1, Reselected
        <5> QED  BY <5>2
      <4>2. op # "choose"
        BY <1>1, <2>1, <4>1, UsualHead
      <4> QED  BY <4>1, <4>2
    <3>2. calls = ResetCalls(p)
      BY <3>1 DEF Moves, MakesAlways
    <3>3. PICK m \in 1 .. Len(calls) : calls[m] = <<"clear", p>>
      BY <1>1, <3>2, ResetClears
    <3>4. calls[m][1] \in {"clear"} /\ Owner(calls[m]) = p
      BY <3>3 DEF Owner
    <3>5. Owes(p, {"clear"})'
      BY <3>4, NewOwed
    <3> QED  BY <3>5
  <2>2. ASSUME NEW u \in Doers, NEW k \in 1 .. Len(agenda[u]), agenda[u][k] = <<"clear", p>>
        PROVE  Unstarted(p)' \/ Owes(p, {"clear"})'
    <3>1. CASE u = t /\ k = 1
      <4>1. op = "clear" /\ i = p
        BY <1>1, <2>2, <3>1
      <4> QED  BY <4>1, ClearsLast
    <3>2. CASE u = t => k # 1
      <4>1. agenda[u][k][1] \in {"clear"} /\ Owner(agenda[u][k]) = p
        BY <2>2 DEF Owner
      <4>2. Owes(p, {"clear"})'
        BY <3>2, <4>1, OwedStays
      <4> QED  BY <4>2
    <3> QED  BY <3>1, <3>2
  <2>3. CASE selected[p] = << >> /\ Owes(p, {"clear"})
    <3>1. PICK u \in Doers : \E k \in 1 .. Len(agenda[u]) : agenda[u][k][1] \in {"clear"} /\ Owner(agenda[u][k]) = p
      BY <2>3 DEF Owes
    <3>2. PICK k \in 1 .. Len(agenda[u]) : agenda[u][k][1] = "clear" /\ Owner(agenda[u][k]) = p
      BY <3>1
    <3>3. agenda[u][k] \in AnyCall
      BY <1>0, AtCall
    <3>4. agenda[u][k] = <<"clear", p>>
      BY <3>2, <3>3 DEF AnyCall, Owner
    <3> QED  BY <2>2, <3>4
  <2>4. CASE selected[p] = << >> /\ Unstarted(p)
    <3>1. Kind[p] \notin Threaded
      BY <1>3 DEF Threaded
    <3>2. ASSUME NEW c \in ChildSet(p), status'[c] # "NOT_STARTED"  PROVE Owes(p, {"clear"})'
      <4>1. status'[c] # status[c]
        BY <2>4, <3>2 DEF Unstarted
      <4>2. PICK m \in 2 .. Len(agenda[t]) : agenda[t][m] \in {<<"return", p>>, <<"conclude", p>>, <<"clear", p>>}
        BY <3>1, <4>1, ChildHeld
      <4>3. m \in 1 .. Len(agenda[t]) /\ m # 1
        OBVIOUS
      <4>4. agenda[t][m] # <<"return", p>>
        <5>1. ChosenFor(agenda[t][m])
          BY <1>0, <4>3 DEF AllPrepared, Prepared
        <5>2. agenda[t][m] = <<"return", p>> => selected[p] # << >>
          BY <1>3, <5>1 DEF ChosenFor
        <5> QED  BY <2>4, <5>2
      <4>5. agenda[t][m] # <<"conclude", p>>
        <5>1. OfParent(agenda[t][m])
          BY <4>3 DEF StartInv, Laid, Layout, OfParents
        <5>2. agenda[t][m] = <<"conclude", p>> => Kind[p] = "ParallelSequence"
          BY <5>1 DEF OfParent
        <5> QED  BY <1>3, <5>2
      <4>6. agenda[t][m][1] \in {"clear"} /\ Owner(agenda[t][m]) = p
        BY <4>2, <4>4, <4>5 DEF Owner
      <4> QED  BY <4>3, <4>6, OwedStays
    <3> QED  BY <3>1, <3>2, UnstartedNext
  <2> QED  BY <1>3, <2>1, <2>3, <2>4 DEF Fresh
<1> QED  BY <1>2, <1>3

-----------------------------------------------------------------------------
(* Every call keeps its place                                                *)
LEMMA ClearAbout ==
  ASSUME StartInv, NEW u \in Doers, NEW k \in 1 .. Len(agenda[u]), NEW p, agenda[u][k] = <<"clear", p>>
  PROVE  /\ p \in Below(root) /\ p \in Instructions /\ p \in Inside(agenda[u])
         /\ p \in Below(Base(u))
         /\ agenda[u][k][1] \in UnderWay \union {"clear"} /\ Owner(agenda[u][k]) = p
<1>1. /\ agenda[u] \in Seq(AnyCall) /\ Len(agenda[u]) \in Nat
      /\ Proper(Base(u), agenda[u], Rest) /\ Below(root) \subseteq Instructions
      /\ Below(Base(u)) \subseteq Below(root)
  BY AtCall DEF StartInv
<1>2. /\ agenda[u][k][1] = "clear" /\ Owner(agenda[u][k]) = p
      /\ ~Quiet(agenda[u][k])
  BY DEF Owner, Quiet, Signals
<1>3. p \in Below(Base(u))
  BY <1>1, <1>2 DEF Proper, Held
<1>4. p \in Inside(agenda[u])
  BY <1>2 DEF Inside
<1> QED  BY <1>1, <1>2, <1>3, <1>4

\* What a thread is going to clear, no other thread is about.
LEMMA ClearApart ==
  ASSUME StartInv, NEW t \in Doers, NEW op, NEW i, Due(t, op, i), op \notin Signals \union {"tick"},
         NEW u \in Doers \ {t}, NEW k \in 1 .. Len(agenda[u]), NEW p, agenda[u][k] = <<"clear", p>>
  PROVE  Owner(<<op, i>>) # p
<1>1. ExclusiveInv
  BY DEF StartInv
<1>2. p \in Inside(agenda[u])
  BY ClearAbout
<1>3. Owner(<<op, i>>) \in Inside(agenda[t])
  BY <1>1, AtFront
<1> QED  BY <1>1, <1>2, <1>3, InsidesApart

\* What the other threads are going to clear waits for the same children.
LEMMA OtherGoesFirst ==
  ASSUME StartInv, Usual, NEW t \in Doers, NEW op, NEW i, NEW calls, Moves(t, op, i, calls),
         NEW u \in Doers \ {t}, NEW k \in 1 .. Len(agenda[u]), NEW p, agenda[u][k] = <<"clear", p>>,
         NEW d \in ChildSet(p), NEW e, e = agenda[u], GoesFirst(e, k, p, d)
  PROVE  GoesFirst(e, k, p, d)'
<1>1. /\ p \in Below(root) /\ p \in Instructions
      /\ agenda[u][k][1] \in UnderWay \union {"clear"} /\ Owner(agenda[u][k]) = p
  BY ClearAbout
<1>2. Due(t, op, i)
  BY DEF Moves
<1>3. ASSUME NEW m \in 2 .. Len(agenda[t])
      PROVE  agenda[t][m] \notin {<<"return", p>>, <<"conclude", p>>, <<"clear", p>>}
  <2> SUFFICES ASSUME agenda[t][m] \in {<<"return", p>>, <<"conclude", p>>, <<"clear", p>>}  PROVE FALSE
    OBVIOUS
  <2>1. m \in 1 .. Len(agenda[t]) /\ agenda[t][m][1] \in UnderWay \union {"clear"} /\ Owner(agenda[t][m]) = p
    BY DEF UnderWay, Owner
  <2> QED  BY <1>1, <2>1, OneHolder
<1>4. ASSUME Kind[p] \in Threaded, wrapper[d] = "absent"  PROVE wrapper'[d] = "absent"
  <2> SUFFICES ASSUME wrapper'[d] # wrapper[d]  PROVE wrapper'[d] = "absent"
    BY <1>4
  <2>1. \/ op = "exec" /\ i = p /\ status[p] = "NOT_STARTED" /\ wrapper'[d] = "NOT_STARTED"
        \/ /\ op = "join" /\ i = p /\ wrapper'[d] = "absent"
           /\ \E m \in 2 .. Len(agenda[t]) : agenda[t][m] = <<"clear", p>>
        \/ /\ op = "tick" /\ i = d /\ wrapper'[d] \in {status[d], "RUNNING"}
           /\ \E m \in 2 .. Len(agenda[t]) : agenda[t][m] \in {<<"return", p>>, <<"conclude", p>>}
    <3>1. StartInv /\ t \in Doers /\ Moves(t, op, i, calls) /\ p \in Below(root) /\ Kind[p] \in Threaded
          /\ d \in ChildSet(p) /\ wrapper'[d] # wrapper[d]
      BY <1>1, <1>4
    <3>2. WrapperMoves(t, op, i, p, d)
      BY <3>1, WrapperHeld
    <3> QED  BY <3>2 DEF WrapperMoves
  <2>2. ~(op = "exec" /\ i = p)
    <3> SUFFICES ASSUME op = "exec", i = p  PROVE FALSE
      OBVIOUS
    <3>1. op \notin Signals \union {"tick"} /\ Owner(<<op, i>>) = p
      BY DEF Signals, Owner
    <3> QED  BY <1>2, <3>1, ClearApart
  <2> QED  BY <1>3, <2>1, <2>2
<1>5. ASSUME status[d] = "NOT_STARTED", Kind[p] \in Threaded => wrapper[d] = "absent"  PROVE status'[d] = "NOT_STARTED"
  <2> SUFFICES ASSUME status'[d] # status[d]  PROVE FALSE
    BY <1>5
  <2>1. /\ i = d
        /\ \/ d = t /\ t \in Workers /\ ~Idle(t) /\ Kind[p] \in Threaded
           \/ \E m \in 2 .. Len(agenda[t]) : agenda[t][m] \in {<<"return", p>>, <<"conclude", p>>, <<"clear", p>>}
    BY <1>1, ChildHeld
  <2>2. CASE d = t /\ t \in Workers /\ ~Idle(t) /\ Kind[p] \in Threaded
    BY <1>5, <2>2 DEF StartInv, WrapperInv, WrapperKnowsThread
  <2> QED  BY <1>3, <2>1, <2>2
<1>6. CASE \E m \in 1 .. k - 1 : e[m] = <<"reset", d>>
  BY <1>6 DEF GoesFirst
<1>7. CASE /\ status[d] = "NOT_STARTED" \/ \E m \in 1 .. k - 1 : e[m] = <<"clear", d>>
           /\ Kind[p] \in Threaded => wrapper[d] = "absent"
  <2>1. status'[d] = "NOT_STARTED" \/ \E m \in 1 .. k - 1 : e[m] = <<"clear", d>>
    BY <1>5, <1>7
  <2>2. Kind[p] \in Threaded => wrapper'[d] = "absent"
    BY <1>4, <1>7
  <2> QED  BY <2>1, <2>2 DEF GoesFirst, Threaded
<1> QED  BY <1>6, <1>7 DEF GoesFirst

\* So does the thread that makes its next call.
LEMMA OldGoesFirst ==
  ASSUME StartInv, Usual, Stages, NEW t \in Doers, NEW op, NEW i, NEW calls, NEW e, NEW f,
         Advances(t, op, i, calls, e, f), NEW k \in 2 .. Len(e), NEW p, e[k] = <<"clear", p>>,
         NEW d \in ChildSet(p), GoesFirst(e, k, p, d), NEW l, l = Len(calls) + k - 1
  PROVE  GoesFirst(f, l, p, d)'
<1>0. Moves(t, op, i, calls) /\ e = agenda[t] /\ f = agenda'[t]
  BY DEF Advances
<1>1. PICK x : x = Owner(<<op, i>>)
  OBVIOUS
<1>2. PICK b : b = Base(t)
  OBVIOUS
<1>3. /\ Due(t, op, i) /\ 1 \in 1 .. Len(e) /\ e[1] = <<op, i>> /\ i \in Instructions
      /\ e \in Seq(AnyCall) /\ calls \in Seq(AnyCall) /\ Spliced(e, calls, f) /\ Prepared(b, e)
  BY <1>1, <1>2, Advanced
<1>4. k \in 1 .. Len(agenda[t]) /\ Len(e) \in Nat /\ Len(calls) \in Nat /\ l \in 1 .. Len(f) /\ f[l] = e[k]
  BY <1>0, <1>3 DEF Spliced
<1>5. /\ p \in Below(root) /\ p \in Instructions /\ p \in Below(b)
  BY <1>0, <1>2, <1>4, ClearAbout
<1>6. op \in Backward
  <2>1. BacksAt(e, k)
    BY <1>0, <1>4 DEF Stages
  <2>2. 1 \in 1 .. k - 1
    OBVIOUS
  <2> QED  BY <1>3, <2>1, <2>2 DEF BacksAt
<1>7. ASSUME NEW m \in 1 .. k - 1, m # 1
      PROVE  \E n \in 1 .. l - 1 : f[n] = e[m]
  <2>1. m \in 2 .. Len(e) /\ Len(calls) + m - 1 \in 1 .. l - 1
    BY <1>4, <1>7
  <2>2. f[Len(calls) + m - 1] = e[m]
    BY <1>3, <2>1 DEF Spliced
  <2> QED  BY <2>1, <2>2
<1>8. ASSUME Kind[p] \in Threaded, wrapper[d] = "absent"  PROVE wrapper'[d] = "absent"
  <2> SUFFICES ASSUME wrapper'[d] # wrapper[d]  PROVE wrapper'[d] = "absent"
    BY <1>8
  <2>1. \/ op = "exec" /\ i = p /\ status[p] = "NOT_STARTED" /\ wrapper'[d] = "NOT_STARTED"
        \/ /\ op = "join" /\ i = p /\ wrapper'[d] = "absent"
           /\ \E m \in 2 .. Len(agenda[t]) : agenda[t][m] = <<"clear", p>>
        \/ /\ op = "tick" /\ i = d /\ wrapper'[d] \in {status[d], "RUNNING"}
           /\ \E m \in 2 .. Len(agenda[t]) : agenda[t][m] \in {<<"return", p>>, <<"conclude", p>>}
    <3>1. StartInv /\ t \in Doers /\ Moves(t, op, i, calls) /\ p \in Below(root) /\ Kind[p] \in Threaded
          /\ d \in ChildSet(p) /\ wrapper'[d] # wrapper[d]
      BY <1>0, <1>5, <1>8
    <3>2. WrapperMoves(t, op, i, p, d)
      BY <3>1, WrapperHeld
    <3> QED  BY <3>2 DEF WrapperMoves
  <2> QED  BY <1>6, <2>1 DEF Backward
<1>9. ASSUME status[d] = "NOT_STARTED"  PROVE status'[d] = "NOT_STARTED"
  <2> SUFFICES ASSUME status'[d] # status[d]  PROVE status'[d] = "NOT_STARTED"
    BY <1>9
  <2>1. \/ op = "clear" /\ status'[d] = "NOT_STARTED"
        \/ op \in UnderWay \union {"exec"} /\ op \notin Backward /\ status'[d] \in Started
    BY <1>0, <1>5, ChildHeld
  <2> QED  BY <1>6, <2>1
<1>10. ASSUME NEW m \in 1 .. k - 1, e[m] = <<"reset", d>>
       PROVE  GoesFirst(f, l, p, d)'
  <2>1. CASE m # 1
    BY <1>7, <1>10, <2>1 DEF GoesFirst
  <2>2. CASE m = 1
    <3>1. op = "reset" /\ i = d
      BY <1>3, <1>10, <2>2
    <3>2. calls = ResetCalls(d) /\ wrapper' = wrapper
      BY <1>0, <3>1 DEF Moves, MakesAlways, Effects, Wraps
    <3>3. PICK n \in 1 .. Len(calls) : calls[n] = <<"clear", d>>
      BY <1>3, <3>1, <3>2, ResetClears
    <3>4. n \in 1 .. l - 1 /\ f[n] = <<"clear", d>>
      BY <1>3, <1>4, <3>3 DEF Spliced
    <3>5. Kind[p] \in Threaded => wrapper[d] = "absent"
      <4>1. JoinedAt(b, e, 1)
        BY <1>3 DEF Prepared
      <4>2. e[1][1] = "reset" /\ e[1][2] = d /\ 1 .. (1 - 1) = {}
        BY <1>3, <3>1
      <4> QED  BY <1>5, <4>1, <4>2 DEF JoinedAt
    <3>6. Kind[p] \in Threaded => wrapper'[d] = "absent"
      BY <3>2, <3>5
    <3> QED  BY <3>4, <3>6 DEF GoesFirst, Threaded
  <2> QED  BY <2>1, <2>2
<1>11. CASE /\ status[d] = "NOT_STARTED" \/ \E m \in 1 .. k - 1 : e[m] = <<"clear", d>>
            /\ Kind[p] \in Threaded => wrapper[d] = "absent"
  <2>1. ASSUME NEW m \in 1 .. k - 1, e[m] = <<"clear", d>>
        PROVE  status'[d] = "NOT_STARTED" \/ \E n \in 1 .. l - 1 : f[n] = <<"clear", d>>
    <3>1. CASE m # 1
      BY <1>7, <2>1, <3>1
    <3>2. CASE m = 1
      <4>1. op = "clear" /\ i = d
        BY <1>3, <2>1, <3>2
      <4>2. status' = [status EXCEPT ![d] = "NOT_STARTED"]
        BY <1>0, <4>1 DEF Moves, Effects, Marks, UnderWay
      <4> QED  BY <1>3, <4>1, <4>2 DEF StartInv, Tables
    <3> QED  BY <3>1, <3>2
  <2>2. status'[d] = "NOT_STARTED" \/ \E n \in 1 .. l - 1 : f[n] = <<"clear", d>>
    BY <1>9, <1>11, <2>1
  <2>3. Kind[p] \in Threaded => wrapper'[d] = "absent"
    BY <1>8, <1>11
  <2> QED  BY <2>2, <2>3 DEF GoesFirst, Threaded
<1> QED  BY <1>10, <1>11 DEF GoesFirst

\* A reset resets the children first.
LEMMA NewGoesFirst ==
  ASSUME StartInv, NEW t \in Doers, NEW op, NEW i, NEW calls, NEW e, NEW f,
         Advances(t, op, i, calls, e, f), NEW k \in 1 .. Len(calls), NEW p, calls[k] = <<"clear", p>>,
         NEW d \in ChildSet(p)
  PROVE  GoesFirst(f, k, p, d)'
<1>0. Moves(t, op, i, calls)
  BY DEF Advances
<1>1. PICK x : x = Owner(<<op, i>>)
  OBVIOUS
<1>2. PICK b : b = Base(t)
  OBVIOUS
<1>3. /\ i \in Instructions /\ calls \in Seq(AnyCall) /\ Spliced(e, calls, f)
  BY <1>1, <1>2, Advanced
<1>4. ~Quiet(calls[k]) /\ calls[k][1] = "clear" /\ Owner(calls[k]) = p
  BY DEF Quiet, Signals, Owner
<1>5. NeatAt(op, x, calls, k)
  BY <1>1, <1>4, NewCall
<1>6. op = "reset" /\ p = x
  BY <1>4, <1>5 DEF NeatAt
<1>7. x = i
  BY <1>1, <1>6 DEF Owner
<1>8. calls = ResetCalls(i)
  BY <1>0, <1>6 DEF Moves, MakesAlways
<1>9. PICK a \in 0 .. 2 : ResetShape(i, calls, a)
  BY <1>3, <1>8, ResetHasShape
<1>10. PICK n : n = Len(Children[i])
  OBVIOUS
<1>11. ResetPlaced(i, calls, a, n)
  BY <1>3, <1>9, <1>10, ResetPlaces
<1>12. k = a + n + 1
  BY <1>11 DEF ResetPlaced
<1>13. PICK m \in a + 1 .. Len(calls) : calls[m] = <<"reset", d>>
  BY <1>6, <1>7, <1>11 DEF ResetPlaced
<1>14. m # k
  BY <1>13
<1>15. m \in 1 .. k - 1 /\ m \in 1 .. Len(calls)
  BY <1>11, <1>12, <1>13, <1>14 DEF ResetPlaced
<1>16. f[m] = <<"reset", d>>
  BY <1>3, <1>13, <1>15 DEF Spliced
<1> QED  BY <1>15, <1>16 DEF GoesFirst

\* What a thread calls that ends an instruction, when it begins to.
LEMMA NewEnds ==
  ASSUME StartInv, StepsAreAnnounced, Usual, NEW t \in Doers, NEW op, NEW i, NEW calls,
         Moves(t, op, i, calls), Means(op, i, calls),
         NEW k \in 1 .. Len(calls), NEW p, calls[k] \in {<<"return", p>>, <<"conclude", p>>}
  PROVE  /\ i = p /\ p \in Below(root) /\ p \in Instructions /\ p \notin Leaf
         /\ \/ op = "body" /\ calls = BodyCalls(p) /\ NeedsExecute(status[p])
            \/ op = "conclude" /\ calls[k] = <<"return", p>>
               /\ \E h \in {Call("halt", p), << >>} : calls = h \o Call("return", p)
<1>1. Due(t, op, i)
  BY DEF Moves
<1>2. /\ op \notin {"running", "react", "listen"} /\ Owner(<<op, i>>) = i /\ i \in Instructions
      /\ op \notin Signals => i \in Below(root)
      /\ op = "choose" => Kind[i] = "Choice" /\ selected[i] = << >>
  BY <1>1, UsualHead
<1>3. ~Quiet(calls[k]) /\ calls[k][1] \in {"return", "conclude"} /\ Owner(calls[k]) = p
  BY DEF Quiet, Signals, Owner
<1>4. NeatAt(op, i, calls, k)
  BY <1>2 DEF Moves, Proceeds, Neat
<1>5. p = i /\ op \notin Backward /\ op # "tick" /\ OfParent(calls[k])
  BY <1>3, <1>4 DEF NeatAt, UnderWay, Backward
<1>6. p \notin Leaf
  BY <1>5 DEF OfParent
<1>7. op \in Operations
  <2>1. 1 \in 1 .. Len(agenda[t]) /\ agenda[t][1] = <<op, i>> /\ agenda[t] \in Seq(AnyCall)
    BY <1>1, AtFront, AtCall DEF StartInv
  <2>2. agenda[t][1] \in AnyCall
    BY <2>1
  <2> QED  BY <2>1, <2>2 DEF AnyCall
<1>8. op # "exec"
  <2> SUFFICES ASSUME op = "exec"  PROVE FALSE
    OBVIOUS
  <2>1. calls = Call("body", i)
    BY DEF Moves, MakesAlways
  <2> QED  BY <1>3, <2>1 DEF Call
<1>9. op \notin {"work", "return", "choose"}
  BY <1>2 DEF Means
<1>10. op \in {"body", "conclude"}
  BY <1>2, <1>5, <1>7, <1>8, <1>9 DEF Operations, Backward
<1>11. p \in Below(root)
  BY <1>2, <1>5, <1>10 DEF Signals
<1>12. CASE op = "body"
  <2>1. calls = BodyCalls(i) /\ NeedsExecute(status[i])
    BY <1>12 DEF Means
  <2> QED  BY <1>2, <1>5, <1>6, <1>11, <1>12, <2>1
<1>13. CASE op = "conclude"
  <2>1. PICK h \in {Call("halt", i), << >>} : calls = h \o Call("return", i)
    BY <1>13 DEF Means
  <2>2. h \in Seq(AnyCall) /\ Call("return", i) \in Seq(AnyCall)
    BY <1>2, SeqsOfCalls DEF Operations
  <2>3. Makes(calls, {"halt", "return"})
    <3>1. Makes(h, {"halt", "return"}) /\ Makes(Call("return", i), {"halt", "return"})
      BY MakesCalls
    <3> QED  BY <2>1, <2>2, <3>1, MakesBoth
  <2>4. calls[k] = <<"return", p>>
    BY <2>3 DEF Makes
  <2> QED  BY <1>2, <1>5, <1>6, <1>11, <1>13, <2>1, <2>4
<1> QED  BY <1>10, <1>12, <1>13

\* What an instruction with threads begins with: it looks after it has ticked.
LEMMA ParallelPlaces ==
  ASSUME NEW p \in Instructions, NEW calls, calls = ParallelCalls(p)
  PROVE  /\ Len(calls) = Len(Children[p]) + 1 /\ Len(Children[p]) \in Nat
         /\ \A k \in 1 .. Len(Children[p]) : calls[k] = <<"tick", Children[p][k]>>
         /\ calls[Len(calls)] = <<"conclude", p>>
<1>1. Children[p] \in Seq(Instructions) /\ "tick" \in Operations /\ "conclude" \in Operations
  BY ChildrenAreInstructions DEF Operations
<1>2. ForEach("tick", Children[p]) \in Seq(AnyCall) /\ Call("conclude", p) \in Seq(AnyCall)
  BY <1>1, SeqsOfCalls
<1>3. PICK q : q = ForEach("tick", Children[p])
  OBVIOUS
<1>4. PICK r : r = Call("conclude", p)
  OBVIOUS
<1>5. calls = q \o r
  BY <1>3, <1>4 DEF ParallelCalls
<1>6. Parts(calls, q, r)
  BY <1>2, <1>3, <1>4, <1>5, BothParts
<1>7. Len(q) = Len(Children[p]) /\ \A k \in 1 .. Len(Children[p]) : q[k] = <<"tick", Children[p][k]>>
  BY <1>1, <1>3 DEF ForEach
<1>8. Len(r) = 1 /\ r[1] = <<"conclude", p>>
  BY <1>4 DEF Call
<1> QED  BY <1>1, <1>6, <1>7, <1>8 DEF Parts

\* When a ParallelSequence looks, it has tried to launch each child.
LEMMA OldLooks ==
  ASSUME StartInv, NEW t \in Doers, NEW op, NEW i, NEW calls, Moves(t, op, i, calls),
         NEW u \in Doers, NEW k \in 1 .. Len(agenda[u]), u = t => k # 1, NEW p,
         agenda[u][k] \in {<<"return", p>>, <<"conclude", p>>}, Kind[p] = "ParallelSequence",
         NEW d \in ChildSet(p), wrapper[d] # "NOT_STARTED"
  PROVE  wrapper'[d] # "NOT_STARTED"
<1>1. agenda[u][k][1] \in UnderWay /\ p = Owner(agenda[u][k]) /\ Kind[p] \in Threaded
  BY DEF UnderWay, Owner, Threaded
<1>2. wrapper'[d] = "NOT_STARTED" => wrapper[d] = "NOT_STARTED"
  BY <1>1, KeptUnderWay
<1> QED  BY <1>2

LEMMA OwnLooks ==
  ASSUME StartInv, NEW t \in Doers, NEW op, NEW i, NEW calls, NEW e, NEW f,
         Advances(t, op, i, calls, e, f), NEW k \in 2 .. Len(e), NEW p,
         e[k] \in {<<"return", p>>, <<"conclude", p>>}, Kind[p] = "ParallelSequence",
         NEW d \in ChildSet(p), TickedFirst(e, k, p, d), NEW l, l = Len(calls) + k - 1
  PROVE  TickedFirst(f, l, p, d)'
<1>0. Moves(t, op, i, calls) /\ e = agenda[t] /\ f = agenda'[t]
  BY DEF Advances
<1>1. PICK x : x = Owner(<<op, i>>)
  OBVIOUS
<1>2. PICK b : b = Base(t)
  OBVIOUS
<1>3. /\ Due(t, op, i) /\ 1 \in 1 .. Len(e) /\ e[1] = <<op, i>> /\ i \in Instructions
      /\ e \in Seq(AnyCall) /\ calls \in Seq(AnyCall) /\ Spliced(e, calls, f)
  BY <1>1, <1>2, Advanced
<1>4. k \in 1 .. Len(agenda[t]) /\ Len(e) \in Nat /\ Len(calls) \in Nat
  BY <1>0, <1>3
<1>5. CASE wrapper[d] # "NOT_STARTED"
  <2>1. wrapper'[d] # "NOT_STARTED"
    BY <1>0, <1>4, <1>5, OldLooks
  <2> QED  BY <2>1 DEF TickedFirst
<1>6. ASSUME NEW m \in 1 .. k - 1, e[m] = <<"tick", d>>  PROVE TickedFirst(f, l, p, d)'
  <2>1. CASE m # 1
    <3>1. m \in 2 .. Len(e) /\ Len(calls) + m - 1 \in 1 .. l - 1
      BY <1>4, <2>1
    <3>2. f[Len(calls) + m - 1] = e[m]
      BY <1>3, <3>1 DEF Spliced
    <3> QED  BY <1>6, <3>1, <3>2 DEF TickedFirst
  <2>2. CASE m = 1
    <3>1. op = "tick" /\ i = d
      BY <1>3, <1>6, <2>2
    <3>2. wrapper'[d] # "NOT_STARTED"
      BY <1>0, <3>1, TickStarts
    <3> QED  BY <3>2 DEF TickedFirst
  <2> QED  BY <2>1, <2>2
<1> QED  BY <1>5, <1>6 DEF TickedFirst

LEMMA NewLooks ==
  ASSUME StartInv, StepsAreAnnounced, Usual, InPlace, NEW t \in Doers, NEW op, NEW i, NEW calls, NEW e, NEW f,
         Advances(t, op, i, calls, e, f), Means(op, i, calls), NEW k \in 1 .. Len(calls), NEW p,
         calls[k] \in {<<"return", p>>, <<"conclude", p>>}, Kind[p] = "ParallelSequence",
         NEW d \in ChildSet(p)
  PROVE  TickedFirst(f, k, p, d)'
<1>0. Moves(t, op, i, calls) /\ e = agenda[t] /\ f = agenda'[t]
  BY DEF Advances
<1>1. PICK x : x = Owner(<<op, i>>)
  OBVIOUS
<1>2. PICK b : b = Base(t)
  OBVIOUS
<1>3. /\ Due(t, op, i) /\ 1 \in 1 .. Len(e) /\ e[1] = <<op, i>> /\ Spliced(e, calls, f)
  BY <1>1, <1>2, Advanced
<1>4. /\ i = p /\ p \in Below(root) /\ p \in Instructions /\ p \notin Leaf
      /\ \/ op = "body" /\ calls = BodyCalls(p) /\ NeedsExecute(status[p])
         \/ op = "conclude" /\ calls[k] = <<"return", p>>
            /\ \E h \in {Call("halt", p), << >>} : calls = h \o Call("return", p)
  <2>1. /\ StartInv /\ StepsAreAnnounced /\ Usual /\ t \in Doers /\ Moves(t, op, i, calls) /\ Means(op, i, calls)
        /\ k \in 1 .. Len(calls) /\ calls[k] \in {<<"return", p>>, <<"conclude", p>>}
    BY <1>0
  <2> QED  BY <2>1, NewEnds, SMTT(60)
<1>5. CASE op = "body"
  <2>1. calls = ParallelCalls(p)
    BY <1>4, <1>5, BodyByKind
  <2>2. /\ Len(calls) = Len(Children[p]) + 1 /\ Len(Children[p]) \in Nat
        /\ \A m \in 1 .. Len(Children[p]) : calls[m] = <<"tick", Children[p][m]>>
    BY <1>4, <2>1, ParallelPlaces
  <2>3. PICK m \in 1 .. Len(Children[p]) : Children[p][m] = d
    BY <1>4, ChildList
  <2>4. m \in 1 .. Len(calls) /\ calls[m] = <<"tick", d>>
    BY <2>2, <2>3
  <2>5. ~(k \in 1 .. Len(Children[p]))
    <3> SUFFICES ASSUME k \in 1 .. Len(Children[p])  PROVE FALSE
      OBVIOUS
    <3>1. calls[k] = <<"tick", Children[p][k]>>
      BY <2>2
    <3>2. calls[k][1] = "tick" /\ calls[k][1] \in {"return", "conclude"}
      BY <3>1
    <3> QED  BY <3>2
  <2>6. m \in 1 .. k - 1
    BY <2>2, <2>3, <2>5
  <2>7. f[m] = <<"tick", d>>
    BY <1>3, <2>4 DEF Spliced
  <2> QED  BY <2>6, <2>7 DEF TickedFirst
<1>6. CASE op = "conclude"
  <2>1. 1 \in 1 .. Len(agenda[t]) /\ e = agenda[t]
    BY <1>0, <1>3
  <2>2. LooksAfter(e, 1)
    BY <2>1 DEF InPlace
  <2>3. e[1] = <<"conclude", p>> /\ 1 .. (1 - 1) = {}
    BY <1>3, <1>4, <1>6
  <2>4. TickedFirst(e, 1, p, d)
    BY <2>2, <2>3 DEF LooksAfter
  <2>5. wrapper[d] # "NOT_STARTED"
    BY <2>3, <2>4 DEF TickedFirst
  <2>6. wrapper' = wrapper
    BY <1>0, <1>6 DEF Moves, Effects, Wraps
  <2> QED  BY <2>5, <2>6 DEF TickedFirst
<1> QED  BY <1>4, <1>5, <1>6

\* What there is to show of the place of a call.
LEMMA PlacesMean ==
  ASSUME NEW e, NEW k,
         \A p : e[k] = <<"clear", p>> => \A d \in ChildSet(p) : GoesFirst(e, k, p, d)',
         \A p : e[k] \in {<<"return", p>>, <<"conclude", p>>} /\ Kind[p] = "ParallelSequence" =>
                  \A d \in ChildSet(p) : TickedFirst(e, k, p, d)'
  PROVE  ClearAt(e, k)' /\ LooksAfter(e, k)'
<1>1. \A p : ChildSet(p)' = ChildSet(p)
  BY DEF ChildSet
<1>2. ClearAt(e, k)'
  BY <1>1 DEF ClearAt
<1>3. LooksAfter(e, k)'
  BY <1>1 DEF LooksAfter
<1> QED  BY <1>2, <1>3

LEMMA PlacesFrom ==
  ASSUME \A u \in Doers : \A f : f = agenda'[u] => \A k \in 1 .. Len(f) : ClearAt(f, k)' /\ LooksAfter(f, k)'
  PROVE  InPlace'
<1> SUFFICES ASSUME NEW u \in Doers, NEW k \in 1 .. Len(agenda'[u])
             PROVE  ClearAt(agenda[u], k)' /\ LooksAfter(agenda[u], k)'
  BY DoersStay DEF InPlace
<1>1. PICK f : f = agenda'[u]
  OBVIOUS
<1>2. ClearAt(f, k)' /\ LooksAfter(f, k)'
  BY <1>1
<1>3. ClearAt(agenda[u], k)'
  BY <1>1, <1>2 DEF ClearAt, GoesFirst
<1>4. LooksAfter(agenda[u], k)'
  BY <1>1, <1>2 DEF LooksAfter, TickedFirst
<1> QED  BY <1>3, <1>4

LEMMA InPlaceKept ==
  ASSUME StartInv, StepsAreAnnounced, Usual, Stages, InPlace, NEW t \in Doers, NEW op, NEW i, NEW calls,
         Moves(t, op, i, calls), Means(op, i, calls)
  PROVE  InPlace'
<1> SUFFICES ASSUME NEW u \in Doers, NEW f, f = agenda'[u], NEW k \in 1 .. Len(f)
             PROVE  ClearAt(f, k)' /\ LooksAfter(f, k)'
  BY PlacesFrom
<1>1. \/ u = t /\ k \in 1 .. Len(calls) /\ f[k] = calls[k]
      \/ \E j \in 1 .. Len(agenda[u]) :
           /\ f[k] = agenda[u][j]
           /\ u = t => j # 1 /\ j \in 2 .. Len(agenda[u]) /\ k = Len(calls) + j - 1
           /\ u # t => k = j /\ f = agenda[u]
      \/ u # t /\ op = "tick" /\ u = i /\ u \in Workers /\ agenda[u] = << >> /\ f = Call("exec", u) /\ k = 1
  <2>1. ComesFrom(t, op, i, calls, u, f, k)
    BY CallsCome
  <2> QED  BY <2>1 DEF ComesFrom
<1>2. PICK e : e = agenda[t]
  OBVIOUS
<1>3. CASE u = t /\ k \in 1 .. Len(calls) /\ f[k] = calls[k]
  <2>1. Advances(t, op, i, calls, e, f)
    BY <1>2, <1>3 DEF Advances
  <2>2. ASSUME NEW p, f[k] = <<"clear", p>>, NEW d \in ChildSet(p)  PROVE GoesFirst(f, k, p, d)'
    BY <1>3, <2>1, <2>2, NewGoesFirst
  <2>3. ASSUME NEW p, f[k] \in {<<"return", p>>, <<"conclude", p>>}, Kind[p] = "ParallelSequence", NEW d \in ChildSet(p)
        PROVE  TickedFirst(f, k, p, d)'
    <3>1. calls[k] \in {<<"return", p>>, <<"conclude", p>>} /\ k \in 1 .. Len(calls)
      BY <1>3, <2>3
    <3> QED  BY <2>1, <2>3, <3>1, NewLooks
  <2> QED  BY <2>2, <2>3, PlacesMean
<1>4. CASE \E j \in 1 .. Len(agenda[u]) :
             /\ f[k] = agenda[u][j]
             /\ u = t => j # 1 /\ j \in 2 .. Len(agenda[u]) /\ k = Len(calls) + j - 1
             /\ u # t => k = j /\ f = agenda[u]
  <2>1. PICK j \in 1 .. Len(agenda[u]) :
             /\ f[k] = agenda[u][j]
             /\ u = t => j # 1 /\ j \in 2 .. Len(agenda[u]) /\ k = Len(calls) + j - 1
             /\ u # t => k = j /\ f = agenda[u]
    BY <1>4
  <2>2. ClearAt(agenda[u], j) /\ LooksAfter(agenda[u], j)
    BY DEF InPlace
  <2>3. CASE u = t
    <3>1. Advances(t, op, i, calls, e, f) /\ j \in 2 .. Len(e) /\ f[k] = e[j] /\ k = Len(calls) + j - 1
      BY <1>2, <2>1, <2>3 DEF Advances
    <3>2. ASSUME NEW p, f[k] = <<"clear", p>>, NEW d \in ChildSet(p)  PROVE GoesFirst(f, k, p, d)'
      <4>1. e[j] = <<"clear", p>> /\ GoesFirst(e, j, p, d)
        BY <1>2, <2>2, <2>3, <3>1, <3>2 DEF ClearAt
      <4> QED  BY <3>1, <4>1, OldGoesFirst
    <3>3. ASSUME NEW p, f[k] \in {<<"return", p>>, <<"conclude", p>>}, Kind[p] = "ParallelSequence", NEW d \in ChildSet(p)
          PROVE  TickedFirst(f, k, p, d)'
      <4>1. e[j] \in {<<"return", p>>, <<"conclude", p>>} /\ TickedFirst(e, j, p, d)
        BY <1>2, <2>2, <2>3, <3>1, <3>3 DEF LooksAfter
      <4> QED  BY <3>1, <3>3, <4>1, OwnLooks
    <3> QED  BY <3>2, <3>3, PlacesMean
  <2>4. CASE u # t
    <3>1. f = agenda[u] /\ j = k /\ u \in Doers \ {t} /\ k \in 1 .. Len(agenda[u])
      BY <2>1, <2>4
    <3>2. ASSUME NEW p, f[k] = <<"clear", p>>, NEW d \in ChildSet(p)  PROVE GoesFirst(f, k, p, d)'
      <4>1. agenda[u][k] = <<"clear", p>> /\ GoesFirst(f, k, p, d)
        BY <2>2, <3>1, <3>2 DEF ClearAt
      <4> QED  BY <3>1, <4>1, OtherGoesFirst
    <3>3. ASSUME NEW p, f[k] \in {<<"return", p>>, <<"conclude", p>>}, Kind[p] = "ParallelSequence", NEW d \in ChildSet(p)
          PROVE  TickedFirst(f, k, p, d)'
      <4>1. agenda[u][k] \in {<<"return", p>>, <<"conclude", p>>} /\ TickedFirst(f, k, p, d)
        BY <2>2, <3>1, <3>3 DEF LooksAfter
      <4>2. wrapper[d] # "NOT_STARTED" => wrapper'[d] # "NOT_STARTED"
        BY <2>4, <3>1, <3>3, <4>1, OldLooks
      <4> QED  BY <4>1, <4>2 DEF TickedFirst
    <3> QED  BY <3>2, <3>3, PlacesMean
  <2> QED  BY <2>3, <2>4
<1>5. CASE f = Call("exec", u) /\ k = 1
  <2>1. f[k] = <<"exec", u>>
    BY <1>5 DEF Call
  <2> QED  BY <2>1, PlacesMean
<1> QED  BY <1>1, <1>3, <1>4, <1>5

-----------------------------------------------------------------------------
(* The children of a sequential compound or decorator                        *)
LEMMA ListedChildren ==
  ASSUME Selections, NEW p \in Instructions, p \notin Leaf, Kind[p] \in Sequential,
         Kind[p] = "Choice" => selected[p] # << >>
  PROVE  Listed(p) \in Seq(ChildSet(p))
<1>1. CASE Kind[p] \in {"Sequence", "Fallback"}
  <2>1. Children[p] \in Seq(ChildSet(p))
    BY ChildrenAreInstructions
  <2> QED  BY <1>1, <2>1 DEF Listed
<1>2. CASE Kind[p] = "Choice"
  <2>1. PICK s \in Seq(ChildSet(p)) : selected[p] = <<s>>
    BY <1>2 DEF Selections
  <2>2. Listed(p) = s
    BY <1>2, <2>1 DEF Listed
  <2> QED  BY <2>2
<1>3. CASE Kind[p] \notin {"Sequence", "Fallback", "Choice"}
  <2>1. Child(p) \in ChildSet(p)
    BY ChildIsChild
  <2> QED  BY <1>3, <2>1 DEF Listed
<1> QED  BY <1>1, <1>2, <1>3

LEMMA ListedSame ==
  ASSUME NEW p, selected'[p] = selected[p]
  PROVE  Listed(p)' = Listed(p)
<1>1. CASE Kind[p] \in {"Sequence", "Fallback"}
  BY <1>1 DEF Listed
<1>2. CASE Kind[p] = "Choice"
  BY <1>2 DEF Listed
<1>3. CASE Kind[p] \notin {"Sequence", "Fallback", "Choice"}
  BY <1>3 DEF Listed, Child
<1> QED  BY <1>1, <1>2, <1>3

LEMMA SortedFrom ==
  ASSUME NEW p, NEW s, s = Listed(p)', Sorted(p, s)'
  PROVE  Sorted(p, Listed(p))'
  BY DEF Sorted, PassOf

LEMMA SortedSame ==
  ASSUME NEW p, NEW S, NEW s \in Seq(S), Sorted(p, s), status'[p] = status[p],
         \A c \in S : status'[c] = status[c]
  PROVE  Sorted(p, s)'
<1>1. \A k \in 1 .. Len(s) : status'[s[k]] = status[s[k]]
  OBVIOUS
<1>2. \A k \in 1 .. Len(s) : \A j \in 1 .. k - 1 : j \in 1 .. Len(s)
  OBVIOUS
<1>3. PassOf(p)' = PassOf(p)
  BY DEF PassOf
<1> QED  BY <1>1, <1>2, <1>3 DEF Sorted, NeedsExecute

\* Children that have not started are in order.
LEMMA UnstartedSorted ==
  ASSUME NEW p, NEW S, NEW s \in Seq(S), status'[p] # "RUNNING", \A c \in S : status'[c] = "NOT_STARTED"
  PROVE  Sorted(p, s)'
<1>1. \A k \in 1 .. Len(s) : status'[s[k]] = "NOT_STARTED"
  OBVIOUS
<1>2. NeedsExecute("NOT_STARTED")
  BY DEF NeedsExecute, IsFinishedStatus
<1>3. \A k \in 1 .. Len(s) : \A j \in 1 .. k - 1 : j \in 1 .. Len(s)
  OBVIOUS
<1> QED  BY <1>1, <1>2, <1>3 DEF Sorted, NeedsExecute

\* When the compound returns a status that is not final, they are.
LEMMA VerdictSorted ==
  ASSUME status \in [Instructions -> ExecutionStatus], NEW p \in Instructions, NEW s \in Seq(Instructions),
         NEW v, v = FirstVerdict(s, PassOf(p)), NeedsExecute(v)
  PROVE  \A k \in 1 .. Len(s) :
           NeedsExecute(status[s[k]]) /\ (\A j \in 1 .. k - 1 : ~NeedsExecute(status[s[j]])) =>
             /\ \A j \in 1 .. k - 1 : status[s[j]] = PassOf(p)
             /\ v = "RUNNING" => status[s[k]] = "RUNNING"
<1>1. PassOf(p) \in {"SUCCESS", "FAILURE"}
  BY DEF PassOf
<1>2. PICK pass \in {"SUCCESS", "FAILURE"} : pass = PassOf(p)
  BY <1>1
<1>3. \/ v = pass /\ \A k \in 1 .. Len(s) : status[s[k]] = pass
      \/ \E k \in 1 .. Len(s) :
           /\ status[s[k]] # pass /\ \A j \in 1 .. k - 1 : status[s[j]] = pass
           /\ v # pass
           /\ v = IF ReadyForExecute(status[s[k]]) THEN "NOT_FINISHED" ELSE status[s[k]]
  BY <1>2, VerdictMeans
<1>4. v # pass
  BY DEF NeedsExecute, IsFinishedStatus
<1>5. PICK n \in 1 .. Len(s) :
           /\ status[s[n]] # pass /\ \A j \in 1 .. n - 1 : status[s[j]] = pass
           /\ v = IF ReadyForExecute(status[s[n]]) THEN "NOT_FINISHED" ELSE status[s[n]]
  BY <1>3, <1>4
<1>6. NeedsExecute(status[s[n]])
  BY <1>5 DEF NeedsExecute, IsFinishedStatus, ReadyForExecute
<1>7. ~NeedsExecute(pass)
  BY DEF NeedsExecute, IsFinishedStatus
<1> SUFFICES ASSUME NEW k \in 1 .. Len(s), NeedsExecute(status[s[k]]), \A j \in 1 .. k - 1 : ~NeedsExecute(status[s[j]])
             PROVE  /\ \A j \in 1 .. k - 1 : status[s[j]] = PassOf(p)
                    /\ v = "RUNNING" => status[s[k]] = "RUNNING"
  OBVIOUS
<1>8. ~(k \in 1 .. n - 1) /\ ~(n \in 1 .. k - 1)
  BY <1>5, <1>6, <1>7
<1>9. k = n
  BY <1>8
<1> QED  BY <1>2, <1>5, <1>9

\* The status that a sequential compound or decorator returns.
LEMMA ReturnSorts ==
  ASSUME Tables, Selections, NEW p \in Instructions, p \notin Leaf, Kind[p] \in Sequential,
         Kind[p] = "Choice" => selected[p] # << >>, selected' = selected,
         status' = [status EXCEPT ![p] = ImplStatus(p)], NeedsExecute(status'[p])
  PROVE  Sorted(p, Listed(p))'
<1>1. PICK s : s = Listed(p)
  OBVIOUS
<1>2. s \in Seq(ChildSet(p)) /\ s = Listed(p)'
  BY <1>1, ListedChildren, ListedSame
<1>3. ChildSet(p) \subseteq Instructions \ {p}
  BY ChildBelow DEF StrictlyBelow
<1>4. status'[p] = ImplStatus(p) /\ \A c \in ChildSet(p) : status'[c] = status[c]
  BY <1>3 DEF Tables
<1>5. PassOf(p)' = PassOf(p)
  BY DEF PassOf
<1>6. CASE Kind[p] \in {"Sequence", "Fallback", "Choice"}
  <2>1. ImplStatus(p) = FirstVerdict(s, PassOf(p))
    BY <1>1, <1>6, StatusByKind DEF Listed, PassOf
  <2>2. s \in Seq(Instructions)
    BY <1>2, <1>3
  <2>3. PICK v : v = ImplStatus(p)
    OBVIOUS
  <2>4. \A k \in 1 .. Len(s) :
           NeedsExecute(status[s[k]]) /\ (\A j \in 1 .. k - 1 : ~NeedsExecute(status[s[j]])) =>
             /\ \A j \in 1 .. k - 1 : status[s[j]] = PassOf(p)
             /\ v = "RUNNING" => status[s[k]] = "RUNNING"
    BY <1>4, <2>1, <2>2, <2>3, VerdictSorted DEF Tables
  <2>5. \A k \in 1 .. Len(s) : status'[s[k]] = status[s[k]]
    BY <1>2, <1>4
  <2>6. \A k \in 1 .. Len(s) : \A j \in 1 .. k - 1 : j \in 1 .. Len(s)
    BY <1>2
  <2>7. Sorted(p, s)'
    BY <1>4, <1>5, <2>3, <2>4, <2>5, <2>6 DEF Sorted, NeedsExecute
  <2> QED  BY <1>2, <2>7, SortedFrom
<1>7. CASE Kind[p] \in {"Inverter", "ForceSuccess", "Include"}
  <2>1. s = <<Child(p)>> /\ Child(p) \in ChildSet(p)
    BY <1>1, <1>7, ChildIsChild DEF Listed
  <2>2. status'[p] = "RUNNING" => status[Child(p)] = "RUNNING"
    <3>1. CASE Kind[p] = "Inverter"
      BY <1>4, <3>1, StatusByKind DEF Inverted
    <3>2. CASE Kind[p] = "Include"
      BY <1>4, <3>2, StatusByKind
    <3>3. CASE Kind[p] = "ForceSuccess"
      <4>1. ImplStatus(p) = ForceSuccessStatus(p)
        BY <3>3 DEF ImplStatus, Counting
      <4> QED  BY <1>4, <4>1 DEF ForceSuccessStatus
    <3> QED  BY <1>7, <3>1, <3>2, <3>3
  <2>3. Len(s) = 1 /\ s[1] = Child(p) /\ status'[Child(p)] = status[Child(p)]
    BY <1>4, <2>1
  <2>4. \A k \in 1 .. Len(s) : k = 1 /\ 1 .. k - 1 = {}
    BY <2>3
  <2>5. Sorted(p, s)'
    BY <2>2, <2>3, <2>4 DEF Sorted
  <2> QED  BY <1>2, <2>5, SortedFrom
<1> QED  BY <1>6, <1>7 DEF Sequential

\* The children agree with the status that their compound reports, or it is going to have
\* a new one.
LEMMA AgreesKept ==
  ASSUME StartInv, StepsAreAnnounced, Lively, Usual, Fresh, InPlace, Agrees, Selections',
         NEW t \in Doers, NEW op, NEW i, NEW calls, Moves(t, op, i, calls), Means(op, i, calls),
         NEW p \in Below(root), Kind[p] \in Sequential, NeedsExecute(status'[p]),
         Kind[p] = "Choice" => selected'[p] # << >>
  PROVE  Sorted(p, Listed(p))' \/ Owes(p, {"return", "clear"})'
<1> DEFINE ops == {"return", "clear"}
<1>0. ExclusiveInv /\ Tables /\ Selections /\ root \in Roots
  BY DEF StartInv, ExclusiveInv
<1>1. Due(t, op, i) /\ 1 \in 1 .. Len(agenda[t]) /\ agenda[t][1] = <<op, i>>
  <2>1. Due(t, op, i)
    BY DEF Moves
  <2> QED  BY <1>0, <2>1, AtFront
<1>2. /\ op \notin {"running", "react", "listen"} /\ Owner(<<op, i>>) = i /\ i \in Instructions
      /\ op = "choose" => Kind[i] = "Choice" /\ selected[i] = << >>
  BY <1>1, UsualHead
<1>3. p \in Instructions /\ p \notin Leaf /\ ~ReadsAttribute(p) /\ Kind[p] \notin Threaded
  BY <1>0, PlainBelow DEF Sequential, Threaded
<1>4. ChildSet(p) \subseteq Instructions \ {p}
  BY <1>3, ChildBelow DEF StrictlyBelow
<1>5. PICK s : s = Listed(p)'
  OBVIOUS
<1>6. s \in Seq(ChildSet(p))
  <2>1. CASE Kind[p] = "Choice"
    <3>1. PICK r \in Seq(ChildSet(p)) : selected'[p] = <<r>>
      <4>1. \E r \in Seq(ChildSet(p)') : selected'[p] = <<r>>
        BY <1>3, <2>1 DEF Selections
      <4>2. ChildSet(p)' = ChildSet(p)
        BY DEF ChildSet
      <4> QED  BY <4>1, <4>2
    <3>2. s = r
      BY <1>5, <2>1, <3>1 DEF Listed
    <3> QED  BY <3>2
  <2>2. CASE Kind[p] # "Choice"
    <3>1. Listed(p)' = Listed(p)
      BY <2>2 DEF Listed, Child
    <3> QED  BY <1>0, <1>3, <1>5, <2>2, <3>1, ListedChildren
  <2> QED  BY <2>1, <2>2
\* A child changes while the compound is going to have a new status.
<1>7. CASE \E c \in ChildSet(p) : status'[c] # status[c]
  <2>1. PICK c \in ChildSet(p) : status'[c] # status[c]
    BY <1>7
  <2>2. PICK m \in 2 .. Len(agenda[t]) : agenda[t][m] \in {<<"return", p>>, <<"conclude", p>>, <<"clear", p>>}
    BY <1>3, <2>1, ChildHeld
  <2>3. m \in 1 .. Len(agenda[t]) /\ m # 1
    OBVIOUS
  <2>4. agenda[t][m] # <<"conclude", p>>
    <3>1. OfParent(agenda[t][m])
      BY <2>3 DEF StartInv, Laid, Layout, OfParents
    <3>2. agenda[t][m] = <<"conclude", p>> => Kind[p] = "ParallelSequence"
      BY <3>1 DEF OfParent
    <3> QED  BY <1>3, <3>2 DEF Threaded
  <2>5. agenda[t][m][1] \in ops /\ Owner(agenda[t][m]) = p
    BY <2>2, <2>4 DEF Owner
  <2> HIDE DEF ops
  <2>6. Owes(p, ops)'
    BY <2>3, <2>5, OwedStays
  <2> QED  BY <2>6 DEF ops
<1>8. CASE \A c \in ChildSet(p) : status'[c] = status[c]
  <2>1. ASSUME \A c \in ChildSet(p) : status'[c] = "NOT_STARTED", status'[p] # "RUNNING"
        PROVE  Sorted(p, Listed(p))'
    <3>1. Sorted(p, s)'
      BY <1>6, <2>1, UnstartedSorted
    <3> QED  BY <1>5, <3>1, SortedFrom
  <2>2. CASE op = "reset" /\ i = p
    <3>1. calls = ResetCalls(p)
      BY <2>2 DEF Moves, MakesAlways
    <3>2. PICK m \in 1 .. Len(calls) : calls[m] = <<"clear", p>>
      BY <1>3, <3>1, ResetClears
    <3>3. calls[m][1] \in ops /\ Owner(calls[m]) = p
      BY <3>2 DEF Owner
    <3> HIDE DEF ops
    <3>4. Owes(p, ops)'
      BY <3>3, NewOwed
    <3> QED  BY <3>4 DEF ops
  <2>3. CASE op = "clear" /\ i = p
    <3>1. Unstarted(p)' /\ status'[p] = "NOT_STARTED"
      BY <2>3, ClearsLast
    <3> QED  BY <2>1, <3>1, UnstartedNext
  <2>4. CASE op = "exec" /\ i = p /\ status[p] = "NOT_STARTED"
    <3>1. Unstarted(p)
      BY <2>4 DEF Fresh
    <3>2. status' = [status EXCEPT ![p] = "NOT_FINISHED"]
      BY <1>3, <2>4 DEF Means
    <3>3. status'[p] = "NOT_FINISHED"
      BY <1>0, <1>3, <3>2 DEF Tables
    <3> QED  BY <1>8, <2>1, <3>1, <3>3 DEF Unstarted
  <2>5. CASE op = "choose" /\ i = p
    <3>1. Kind[p] = "Choice" /\ selected[p] = << >>
      BY <1>2, <2>5
    <3>2. \E v \in {"NOT_FINISHED", "FAILURE"} : status' = [status EXCEPT ![p] = v]
      BY <2>5, <3>1 DEF Means
    <3>3. status'[p] # "RUNNING"
      BY <1>0, <1>3, <3>2 DEF Tables
    <3>4. CASE Unstarted(p)
      BY <1>8, <2>1, <3>3, <3>4 DEF Unstarted
    <3>5. CASE Owes(p, {"clear"})
      <4>1. PICK u \in Doers : \E k \in 1 .. Len(agenda[u]) : agenda[u][k][1] \in {"clear"} /\ Owner(agenda[u][k]) = p
        BY <3>5 DEF Owes
      <4>2. PICK k \in 1 .. Len(agenda[u]) : agenda[u][k][1] = "clear" /\ Owner(agenda[u][k]) = p
        BY <4>1
      <4>3. u = t => k # 1
        BY <1>1, <2>5, <4>2
      <4>4. agenda[u][k][1] \in ops
        BY <4>2
      <4> HIDE DEF ops
      <4>5. Owes(p, ops)'
        BY <4>2, <4>3, <4>4, OwedStays
      <4> QED  BY <4>5 DEF ops
    <3> QED  BY <3>1, <3>4, <3>5 DEF Fresh
  <2>6. CASE op = "return" /\ i = p
    <3>1. status' = [status EXCEPT ![p] = ImplStatus(p)] /\ selected' = selected
      BY <2>6 DEF Means, Moves, Effects, Selects
    <3>2. Kind[p] = "Choice" => selected[p] # << >>
      BY <3>1
    <3> QED  BY <1>0, <1>3, <3>1, <3>2, ReturnSorts
  <2>7. CASE ~(i = p /\ (op \in {"reset", "clear", "choose", "return"} \/ (op = "exec" /\ status[p] = "NOT_STARTED")))
    <3>1. status'[p] = status[p]
      <4> SUFFICES ASSUME status'[p] # status[p]  PROVE FALSE
        OBVIOUS
      <4>1. \/ op = "clear" /\ i = p /\ status'[p] = "NOT_STARTED"
            \/ op \in (UnderWay \ {"react"}) \union {"exec"} /\ i = p /\ status'[p] \in Started
        <5>1. Tables /\ i \in Instructions /\ p \in Instructions /\ status'[p] # status[p] /\ Moves(t, op, i, calls)
          BY <1>0, <1>2, <1>3
        <5> QED  BY <5>1, Remarked
      <4>2. i = p /\ op \in {"body", "work", "conclude", "exec"}
        BY <1>2, <2>7, <4>1 DEF UnderWay
      <4>3. op # "exec"
        <5> SUFFICES ASSUME op = "exec"  PROVE FALSE
          OBVIOUS
        <5>1. status[p] # "NOT_STARTED"
          BY <2>7, <4>2
        <5>2. UNCHANGED status
          BY <4>2, <5>1 DEF Means
        <5> QED  BY <5>2
      <4>4. op # "body"
        <5> SUFFICES ASSUME op = "body"  PROVE FALSE
          OBVIOUS
        <5>1. Kind[p] # "For"
          BY DEF Sequential
        <5>2. UNCHANGED status
          BY <4>2, <5>1 DEF Means
        <5> QED  BY <5>2
      <4>5. op # "work"
        <5>1. LiveCall(agenda[t][1])
          BY <1>1 DEF Lively
        <5> QED  BY <1>1, <1>3, <4>2, <5>1 DEF LiveCall
      <4>6. op # "conclude"
        BY DEF Means
      <4> QED  BY <4>2, <4>3, <4>4, <4>5, <4>6
    <3>2. selected'[p] = selected[p]
      <4> SUFFICES ASSUME selected'[p] # selected[p]  PROVE FALSE
        OBVIOUS
      <4>1. i = p /\ (op = "reset" \/ (op = "choose" /\ calls = << >>))
        <5>1. Selections /\ i \in Instructions /\ p \in Instructions /\ selected'[p] # selected[p] /\ Moves(t, op, i, calls)
          BY <1>0, <1>2, <1>3
        <5> QED  BY <5>1, Reselected
      <4> QED  BY <2>7, <4>1
    <3>3. Sorted(p, Listed(p)) \/ Owes(p, ops)
      BY <3>1, <3>2 DEF Agrees, NeedsExecute
    <3>4. CASE Sorted(p, Listed(p))
      <4>1. s = Listed(p)
        BY <1>5, <3>2, ListedSame
      <4>2. Sorted(p, s)
        BY <3>4, <4>1
      <4>3. Sorted(p, s)'
        BY <1>6, <1>8, <3>1, <4>2, SortedSame
      <4> QED  BY <1>5, <4>3, SortedFrom
    <3>5. CASE Owes(p, ops)
      <4> HIDE DEF ops
      <4>1. PICK u \in Doers : \E k \in 1 .. Len(agenda[u]) : agenda[u][k][1] \in ops /\ Owner(agenda[u][k]) = p
        BY <3>5 DEF Owes
      <4>2. PICK k \in 1 .. Len(agenda[u]) : agenda[u][k][1] \in ops /\ Owner(agenda[u][k]) = p
        BY <4>1
      <4>3. u = t => k # 1
        <5> SUFFICES ASSUME u = t, k = 1  PROVE FALSE
          OBVIOUS
        <5>1. op \in ops /\ i = p
          BY <1>1, <1>2, <4>2
        <5> QED  BY <2>7, <5>1 DEF ops
      <4>4. Owes(p, ops)'
        BY <4>2, <4>3, OwedStays
      <4> QED  BY <4>4 DEF ops
    <3> QED  BY <3>3, <3>4, <3>5
  <2> QED  BY <2>2, <2>3, <2>4, <2>5, <2>6, <2>7
<1> QED  BY <1>7, <1>8

-----------------------------------------------------------------------------
(* The threads of a compound that reports RUNNING                            *)
LEMMA TickedChildren ==
  ASSUME NEW p \in Instructions, p \notin Leaf
  PROVE  Ticked(p) \subseteq ChildSet(p) /\ Ticked(p)' = Ticked(p)
<1>1. Child(p) \in ChildSet(p)
  BY ChildIsChild
<1>2. Child(p)' = Child(p) /\ ChildSet(p)' = ChildSet(p)
  BY DEF Child, ChildSet
<1> QED  BY <1>1, <1>2 DEF Ticked

\* When it returns RUNNING none of them is ready to go on.
LEMMA ReturnOccupies ==
  ASSUME StartInv, InPlace, NEW t \in Doers, NEW i, NEW calls, Moves(t, "return", i, calls),
         i \in Instructions, i \notin Leaf, Kind[i] \in Threaded, ImplStatus(i) = "RUNNING"
  PROVE  \A c \in Ticked(i) : wrapper'[c] \notin {"NOT_STARTED", "NOT_FINISHED"}
<1>1. Due(t, "return", i) /\ wrapper' = wrapper
  BY DEF Moves, Effects, Wraps
<1>2. 1 \in 1 .. Len(agenda[t]) /\ agenda[t][1] = <<"return", i>>
  BY <1>1, AtFront DEF StartInv
<1>3. CASE Kind[i] = "Async"
  <2>1. wrapper[Child(i)] = "RUNNING"
    BY <1>3, StatusByKind
  <2> QED  BY <1>1, <1>3, <2>1 DEF Ticked
<1>4. CASE Kind[i] = "ParallelSequence"
  <2>1. LooksAfter(agenda[t], 1) /\ 1 .. (1 - 1) = {}
    BY <1>2 DEF InPlace
  <2>2. ASSUME NEW c \in ChildSet(i)  PROVE wrapper[c] # "NOT_STARTED"
    <3>1. TickedFirst(agenda[t], 1, i, c)
      BY <1>2, <1>4, <2>1 DEF LooksAfter
    <3> QED  BY <2>1, <3>1 DEF TickedFirst
  <2>3. ASSUME NEW c \in ChildSet(i), wrapper[c] = "NOT_FINISHED"  PROVE FALSE
    <3> DEFINE waiting == {d \in ChildSet(i) : wrapper[d] = "NOT_FINISHED"}
    <3>1. IsFiniteSet(waiting)
      BY ChildCount, FS_Subset
    <3>2. waiting # {}
      BY <2>3
    <3>3. Cardinality(waiting) \in Nat /\ Cardinality(waiting) # 0
      BY <3>1, <3>2, FS_CardinalityType, FS_EmptySet
    <3>4. Reporting(i, "NOT_FINISHED") = Cardinality(waiting)
      BY DEF Reporting
    <3>5. ThresholdVerdict(i) = "RUNNING"
      BY <1>4, StatusByKind
    <3> HIDE DEF waiting
    <3>6. ~(Reporting(i, "NOT_FINISHED") > 0)
      BY <3>5 DEF ThresholdVerdict
    <3> QED  BY <3>3, <3>4, <3>6
  <2> QED  BY <1>1, <1>4, <2>2, <2>3 DEF Ticked
<1> QED  BY <1>3, <1>4 DEF Threaded

\* While such a compound is under way its threads change on behalf of calls that it has still to make.
LEMMA WrapperOwed ==
  ASSUME StartInv, NEW t \in Doers, NEW op, NEW i, NEW calls, Moves(t, op, i, calls),
         NEW p \in Below(root), Kind[p] \in Threaded, NEW c \in ChildSet(p), wrapper'[c] # wrapper[c],
         status[p] # "NOT_STARTED"
  PROVE  \E m \in 2 .. Len(agenda[t]) : agenda[t][m] \in {<<"return", p>>, <<"conclude", p>>, <<"clear", p>>}
<1>1. \/ status[p] = "NOT_STARTED"
      \/ \E m \in 2 .. Len(agenda[t]) : agenda[t][m] = <<"clear", p>>
      \/ \E m \in 2 .. Len(agenda[t]) : agenda[t][m] \in {<<"return", p>>, <<"conclude", p>>}
  <2>1. WrapperMoves(t, op, i, p, c)
    BY WrapperHeld
  <2> QED  BY <2>1 DEF WrapperMoves
<1> QED  BY <1>1

LEMMA OccupiedKept ==
  ASSUME StartInv, StepsAreAnnounced, Lively, Usual, InPlace, Occupied,
         NEW t \in Doers, NEW op, NEW i, NEW calls, Moves(t, op, i, calls), Means(op, i, calls),
         NEW p \in Below(root), Kind[p] \in Threaded, status'[p] = "RUNNING"
  PROVE  (\A c \in Ticked(p) : wrapper'[c] \notin {"NOT_STARTED", "NOT_FINISHED"}) \/ Owes(p, {"return", "conclude", "clear"})'
<1> DEFINE ops == {"return", "conclude", "clear"}
<1>0. ExclusiveInv /\ Tables /\ root \in Roots
  BY DEF StartInv, ExclusiveInv
<1>1. Due(t, op, i) /\ 1 \in 1 .. Len(agenda[t]) /\ agenda[t][1] = <<op, i>>
  <2>1. Due(t, op, i)
    BY DEF Moves
  <2> QED  BY <1>0, <2>1, AtFront
<1>2. /\ op \notin {"running", "react", "listen"} /\ Owner(<<op, i>>) = i /\ i \in Instructions
      /\ op = "choose" => Kind[i] = "Choice"
  BY <1>1, UsualHead
<1>3. p \in Instructions /\ p \notin Leaf /\ ~ReadsAttribute(p)
  BY <1>0, PlainBelow
<1>4. CASE op = "conclude" /\ i = p
  <2>1. PICK h \in {Call("halt", p), << >>} : calls = h \o Call("return", p)
    BY <1>4 DEF Means
  <2>2. h \in Seq(AnyCall) /\ Call("return", p) \in Seq(AnyCall)
    BY <1>3, <2>1, SeqsOfCalls DEF Operations
  <2>3. PICK r : r = Call("return", p)
    OBVIOUS
  <2>4. Parts(calls, h, r)
    BY <2>1, <2>2, <2>3, BothParts
  <2>5. Len(r) = 1 /\ r[1] = <<"return", p>> /\ Len(h) \in Nat
    BY <2>2, <2>3 DEF Call
  <2>6. Len(h) + 1 \in 1 .. Len(calls) /\ calls[Len(h) + 1] = <<"return", p>>
    BY <2>4, <2>5 DEF Parts
  <2>7. PICK m \in 1 .. Len(calls) : calls[m] = <<"return", p>>
    BY <2>6
  <2>8. calls[m][1] \in ops /\ Owner(calls[m]) = p
    BY <2>7 DEF Owner
  <2> HIDE DEF ops
  <2>9. Owes(p, ops)'
    BY <2>8, NewOwed
  <2> QED  BY <2>9 DEF ops
<1>5. CASE op = "return" /\ i = p
  <2>1. status' = [status EXCEPT ![p] = ImplStatus(p)]
    BY <1>5 DEF Means
  <2>2. ImplStatus(p) = "RUNNING"
    BY <1>0, <1>3, <2>1 DEF Tables
  <2> QED  BY <1>3, <1>5, <2>2, ReturnOccupies
<1>6. CASE op = "clear" /\ i = p
  <2>1. status' = [status EXCEPT ![p] = "NOT_STARTED"]
    BY <1>6 DEF Moves, Effects, Marks, UnderWay
  <2> QED  BY <1>0, <1>3, <2>1 DEF Tables
<1>7. CASE ~(i = p /\ op \in {"conclude", "return", "clear"})
  <2>1. status[p] = "RUNNING"
    <3> SUFFICES ASSUME status'[p] # status[p]  PROVE FALSE
      OBVIOUS
    <3>1. \/ op = "clear" /\ i = p /\ status'[p] = "NOT_STARTED"
          \/ op \in (UnderWay \ {"react"}) \union {"exec"} /\ i = p /\ status'[p] \in Started
      <4>1. Tables /\ i \in Instructions /\ p \in Instructions /\ status'[p] # status[p] /\ Moves(t, op, i, calls)
        BY <1>0, <1>2, <1>3
      <4> QED  BY <4>1, Remarked
    <3>2. i = p /\ op \in {"body", "work", "choose", "exec"}
      BY <1>2, <1>7, <3>1 DEF UnderWay
    <3>3. op # "exec"
      <4> SUFFICES ASSUME op = "exec"  PROVE FALSE
        OBVIOUS
      <4>1. UNCHANGED status \/ status' = [status EXCEPT ![p] = "NOT_FINISHED"]
        BY <1>3, <3>2 DEF Means
      <4> QED  BY <1>0, <1>3, <4>1 DEF Tables
    <3>4. op # "body"
      <4> SUFFICES ASSUME op = "body"  PROVE FALSE
        OBVIOUS
      <4>1. Kind[p] # "For"
        BY DEF Threaded
      <4>2. UNCHANGED status
        BY <3>2, <4>1 DEF Means
      <4> QED  BY <4>2
    <3>5. op # "work"
      <4>1. LiveCall(agenda[t][1])
        BY <1>1 DEF Lively
      <4> QED  BY <1>1, <1>3, <3>2, <4>1 DEF LiveCall
    <3>6. op # "choose"
      BY <1>2, <3>2 DEF Threaded
    <3> QED  BY <3>2, <3>3, <3>4, <3>5, <3>6
  <2>2. ASSUME NEW u \in Doers, NEW k \in 1 .. Len(agenda[u]), agenda[u][k][1] \in ops, Owner(agenda[u][k]) = p
        PROVE  Owes(p, ops)'
    <3>1. u = t => k # 1
      <4> SUFFICES ASSUME u = t, k = 1  PROVE FALSE
        OBVIOUS
      <4>1. op \in ops /\ i = p
        BY <1>1, <1>2, <2>2
      <4> QED  BY <1>7, <4>1 DEF ops
    <3> HIDE DEF ops
    <3> QED  BY <2>2, <3>1, OwedStays
  <2>3. CASE Owes(p, ops)
    <3>1. PICK u \in Doers : \E k \in 1 .. Len(agenda[u]) : agenda[u][k][1] \in ops /\ Owner(agenda[u][k]) = p
      BY <2>3 DEF Owes
    <3> QED  BY <2>2, <3>1
  <2>4. CASE \A c \in Ticked(p) : wrapper[c] \notin {"NOT_STARTED", "NOT_FINISHED"}
    <3>1. CASE \A c \in Ticked(p) : wrapper'[c] = wrapper[c]
      BY <2>4, <3>1
    <3>2. CASE \E c \in Ticked(p) : wrapper'[c] # wrapper[c]
      <4>1. PICK c \in ChildSet(p) : wrapper'[c] # wrapper[c]
        BY <1>3, <3>2, TickedChildren
      <4>2. \E m \in 2 .. Len(agenda[t]) : agenda[t][m] \in {<<"return", p>>, <<"conclude", p>>, <<"clear", p>>}
        BY <2>1, <4>1, WrapperOwed
      <4>3. PICK m \in 2 .. Len(agenda[t]) : agenda[t][m] \in {<<"return", p>>, <<"conclude", p>>, <<"clear", p>>}
        BY <4>2
      <4>4. m \in 1 .. Len(agenda[t]) /\ agenda[t][m][1] \in ops /\ Owner(agenda[t][m]) = p
        BY <4>3 DEF Owner
      <4> QED  BY <2>2, <4>4
    <3> QED  BY <3>1, <3>2
  <2> QED  BY <2>1, <2>3, <2>4 DEF Occupied
<1> QED  BY <1>4, <1>5, <1>6, <1>7

-----------------------------------------------------------------------------
(* What a body leads to is announced                                         *)
LEMMA NothingStarts ==
  ASSUME NEW x \in Instructions, ~ReadyForExecute(status[x])
  PROVE  StartsFrom(x) = {}
BY BelowClosed DEF StartsFrom, Leads

\* The child that a sequential compound executes.
LEMMA FirstIsOpen ==
  ASSUME NEW i, NEW S, NEW s \in Seq(S), NEW k \in 1 .. Len(SequentialCalls(i, s)),
         NEW call, call = SequentialCalls(i, s)[k], Executes(call)
  PROVE  \E m \in 1 .. Len(s) : /\ call = <<"exec", s[m]>> /\ NeedsExecute(status[s[m]])
                                /\ \A j \in 1 .. m - 1 : ~NeedsExecute(status[s[j]])
<1> DEFINE open == {m \in DOMAIN s : NeedsExecute(status[s[m]])}
<1>1. DOMAIN s = 1 .. Len(s) /\ Len(s) \in Nat
  OBVIOUS
<1>2. CASE open = {}
  <2>1. FirstUnfinished(s) = << >>
    BY <1>2 DEF FirstUnfinished
  <2>2. SequentialCalls(i, s) = Call("return", i)
    BY <2>1 DEF SequentialCalls, ForEach, Call
  <2>3. call = <<"return", i>>
    BY <2>2 DEF Call
  <2> QED  BY <2>3 DEF Executes
<1>3. CASE open # {}
  <2>1. open \in SUBSET Nat
    BY <1>1
  <2>2. PICK m : m = FirstIn(open)
    OBVIOUS
  <2>3. m \in open /\ \A j \in open : m <= j
    <3> HIDE DEF open
    <3> QED  BY <1>3, <2>1, <2>2, FirstOfThem
  <2>4. FirstUnfinished(s) = <<s[m]>>
    BY <1>3, <2>2 DEF FirstUnfinished
  <2>5. ForEach("exec", <<s[m]>>) = Call("exec", s[m])
    BY DEF ForEach, Call
  <2>6. SequentialCalls(i, s) = Call("exec", s[m]) \o Call("return", i)
    BY <2>4, <2>5 DEF SequentialCalls
  <2>7. call = <<"exec", s[m]>> \/ call = <<"return", i>>
    BY <2>6 DEF Call
  <2>8. call # <<"return", i>>
    BY DEF Executes
  <2>9. \A j \in 1 .. m - 1 : ~NeedsExecute(status[s[j]])
    <3> SUFFICES ASSUME NEW j \in 1 .. m - 1, NeedsExecute(status[s[j]])  PROVE FALSE
      OBVIOUS
    <3>1. j \in open
      BY <1>1, <2>3
    <3> QED  BY <1>1, <2>3, <3>1
  <2> QED  BY <1>1, <2>3, <2>7, <2>8, <2>9
<1> QED  BY <1>2, <1>3

\* Who enters an instruction is the only one that is going to end it.
LEMMA BodyAlone ==
  ASSUME StartInv, NEW t \in Doers, NEW i, Due(t, "body", i), NEW ops, ops \subseteq {"return", "conclude", "clear"}
  PROVE  ~Owes(i, ops)
<1> SUFFICES ASSUME Owes(i, ops)  PROVE FALSE
  OBVIOUS
<1>1. PICK u \in Doers : \E k \in 1 .. Len(agenda[u]) : agenda[u][k][1] \in ops /\ Owner(agenda[u][k]) = i
  BY DEF Owes
<1>2. PICK k \in 1 .. Len(agenda[u]) : agenda[u][k][1] \in ops /\ Owner(agenda[u][k]) = i
  BY <1>1
<1>3. 1 \in 1 .. Len(agenda[t]) /\ agenda[t][1] = <<"body", i>>
  BY AtFront DEF StartInv
<1>4. agenda[t][1][1] = "body" /\ Owner(agenda[t][1]) = i
  BY <1>3 DEF Owner
<1>5. agenda[t][1][1] \in UnderWay \union {"clear"} /\ agenda[u][k][1] \in UnderWay \union {"clear"}
  BY <1>2, <1>4 DEF UnderWay
<1>6. u = t /\ k = 1
  BY <1>2, <1>3, <1>4, <1>5, OneHolder
<1> QED  BY <1>2, <1>4, <1>6

\* The children of other compounds have no thread.
LEMMA NoThreadOfOthers ==
  ASSUME StartInv, NEW i \in Below(root), i \in Instructions, Kind[i] \notin Threaded, NEW c \in ChildSet(i)
  PROVE  wrapper[c] # "RUNNING"
<1> SUFFICES ASSUME wrapper[c] = "RUNNING"  PROVE FALSE
  OBVIOUS
<1>1. c \in Instructions
  BY ChildrenAreInstructions
<1>2. PICK p \in Below(root) : Kind[p] \in Threaded /\ c \in ChildSet(p)
  BY <1>1 DEF StartInv, InTree
<1>3. p = i
  BY <1>2, SameParent DEF StartInv
<1> QED  BY <1>2, <1>3

\* The first open child of a list is the next instruction, or it runs.
LEMMA OpenIsNext ==
  ASSUME StartInv, NEW i \in Below(root), i \in Instructions, i \notin Leaf, Kind[i] \in {"Sequence", "Fallback", "Choice"},
         Kind[i] = "Choice" => selected[i] # << >>, NeedsExecute(status[i]),
         NEW s, s = Listed(i), Sorted(i, s), NEW m \in 1 .. Len(s), NeedsExecute(status[s[m]]),
         \A j \in 1 .. m - 1 : ~NeedsExecute(status[s[j]])
  PROVE  StartsFrom(s[m]) \subseteq StartsFrom(i)
<1>0. Tables /\ Selections /\ root \in Roots
  BY DEF StartInv, ExclusiveInv
<1>1. s \in Seq(ChildSet(i)) /\ ChildSet(i) \subseteq Instructions
  BY <1>0, ListedChildren, ChildrenAreInstructions DEF Sequential
<1>2. s[m] \in ChildSet(i) /\ s[m] \in Instructions
  BY <1>1
<1>3. /\ \A j \in 1 .. m - 1 : status[s[j]] = PassOf(i)
      /\ status[i] = "RUNNING" => status[s[m]] = "RUNNING"
  BY DEF Sorted
<1>4. CASE ReadyForExecute(status[i]) /\ ReadyForExecute(status[s[m]])
  <2>1. status[s[m]] # PassOf(i)
    BY <1>4 DEF ReadyForExecute, PassOf
  <2>2. s[m] \in NextInList(s, PassOf(i))
    BY <1>1, <1>3, <1>4, <2>1, NextOfList
  <2>3. NextInstructionsOf(i) = NextInList(s, PassOf(i))
    BY NextByKind DEF Listed, PassOf, NextOfChoice
  <2>4. wrapper[s[m]] # "RUNNING"
    <3>1. Kind[i] \notin Threaded
      BY DEF Threaded
    <3> QED  BY <1>2, <3>1, NoThreadOfOthers
  <2> QED  BY <1>0, <1>2, <1>4, <2>2, <2>3, <2>4, StartsDown
<1>5. CASE ~ReadyForExecute(status[s[m]])
  BY <1>2, <1>5, NothingStarts
<1>6. CASE ~ReadyForExecute(status[i])
  <2>1. status[i] = "RUNNING"
    BY <1>0, <1>6 DEF Tables, ExecutionStatus, ReadyForExecute, NeedsExecute, IsFinishedStatus
  <2>2. ~ReadyForExecute(status[s[m]])
    BY <1>3, <2>1 DEF ReadyForExecute
  <2> QED  BY <1>2, <2>2, NothingStarts
<1> QED  BY <1>4, <1>5, <1>6

\* The calls of a body start what was announced for it.
LEMMA BodyStarts ==
  ASSUME StartInv, StepsAreAnnounced, Agrees, Occupied, NEW t \in Doers, NEW i, Due(t, "body", i), NeedsExecute(status[i]),
         NEW k \in 1 .. Len(BodyCalls(i)), NEW call, call = BodyCalls(i)[k], Executes(call), NEW x, x = call[2]
  PROVE  StartsFrom(x) \subseteq StartsFrom(i)
<1>0. ExclusiveInv /\ Tables /\ Selections /\ root \in Roots
  BY DEF StartInv, ExclusiveInv
<1>1. i \in Instructions /\ i \in Below(root)
  BY <1>0, AtFront DEF Signals, Owner
<1>2. ~Owes(i, {"return", "conclude", "clear"}) /\ ~Owes(i, {"return", "clear"})
  BY BodyAlone
<1>3. i \notin Leaf => Kind[i] \in Sequential \union Threaded
  BY <1>0, <1>1, PlainBelow
<1>r. ReadyForExecute(status[i]) \/ status[i] = "RUNNING"
  BY <1>0, <1>1 DEF Tables, ExecutionStatus, ReadyForExecute, NeedsExecute, IsFinishedStatus
<1>4. CASE i \in Leaf
  <2>1. BodyCalls(i) = Call("work", i)
    BY <1>4 DEF BodyCalls
  <2>2. x = i
    BY <2>1 DEF Call
  <2> QED  BY <2>2
<1>5. CASE i \notin Leaf /\ Kind[i] \in {"Sequence", "Fallback", "Choice"}
  <2>1. (Kind[i] = "Choice" => selected[i] # << >>) /\ BodyCalls(i) = SequentialCalls(i, Listed(i))
    <3>1. CASE Kind[i] = "Choice"
      <4>1. BodyCalls(i) = ChoiceCalls(i)
        BY <1>1, <1>5, <3>1, BodyByKind
      <4>2. selected[i] # << >>
        <5> SUFFICES ASSUME selected[i] = << >>  PROVE FALSE
          OBVIOUS
        <5>1. BodyCalls(i) = Call("choose", i)
          BY <4>1 DEF ChoiceCalls
        <5>2. call = <<"choose", i>>
          BY <5>1 DEF Call
        <5> QED  BY <5>2 DEF Executes
      <4> QED  BY <3>1, <4>1, <4>2 DEF ChoiceCalls, Listed
    <3>2. CASE Kind[i] # "Choice"
      <4>1. BodyCalls(i) = SequentialCalls(i, Children[i])
        BY <1>1, <1>5, <3>2, BodyByKind
      <4> QED  BY <1>5, <3>2, <4>1 DEF Listed
    <3> QED  BY <3>1, <3>2
  <2>2. PICK s : s = Listed(i)
    OBVIOUS
  <2>3. s \in Seq(ChildSet(i))
    BY <1>0, <1>1, <1>5, <2>1, <2>2, ListedChildren DEF Sequential
  <2>4. Sorted(i, s)
    BY <1>1, <1>2, <1>5, <2>1, <2>2 DEF Agrees, Sequential
  <2>5. PICK m \in 1 .. Len(s) : /\ call = <<"exec", s[m]>> /\ NeedsExecute(status[s[m]])
                                 /\ \A j \in 1 .. m - 1 : ~NeedsExecute(status[s[j]])
    <3>1. k \in 1 .. Len(SequentialCalls(i, s)) /\ call = SequentialCalls(i, s)[k]
      BY <2>1, <2>2
    <3> QED  BY <2>3, <3>1, FirstIsOpen
  <2>6. x = s[m]
    BY <2>5
  <2> QED  BY <1>1, <1>5, <2>1, <2>2, <2>4, <2>5, <2>6, OpenIsNext
<1>6. CASE i \notin Leaf /\ Kind[i] \in {"Inverter", "ForceSuccess", "Include"}
  <2>1. BodyCalls(i) = Call("exec", Child(i)) \o Call("return", i)
    BY <1>1, <1>6, BodyByKind DEF ChildCalls
  <2>2. call = <<"exec", Child(i)>>
    <3>1. call = <<"exec", Child(i)>> \/ call = <<"return", i>>
      BY <2>1 DEF Call
    <3> QED  BY <3>1 DEF Executes
  <2>3. x = Child(i) /\ x \in ChildSet(i) /\ x \in Instructions
    BY <1>1, <1>6, <2>2, ChildIsChild
  <2>4. CASE ReadyForExecute(status[i])
    <3>1. x \in NextInstructionsOf(i)
      BY <1>1, <1>6, <2>3, NextByKind
    <3>2. wrapper[x] # "RUNNING"
      <4>1. Kind[i] \notin Threaded
        BY <1>6 DEF Threaded
      <4> QED  BY <1>1, <2>3, <4>1, NoThreadOfOthers
    <3> QED  BY <1>0, <1>1, <2>3, <2>4, <3>1, <3>2, StartsDown
  <2>5. CASE status[i] = "RUNNING"
    <3>1. Listed(i) = <<x>>
      BY <1>6, <2>3 DEF Listed
    <3>2. PICK s : s = Listed(i)
      OBVIOUS
    <3>3. Sorted(i, s)
      BY <1>1, <1>2, <1>6, <3>2 DEF Agrees, Sequential
    <3>4. 1 \in 1 .. Len(s) /\ s[1] = x /\ 1 .. (1 - 1) = {}
      BY <3>1, <3>2
    <3>5. NeedsExecute(status[x]) => status[x] = "RUNNING"
      BY <2>5, <3>3, <3>4 DEF Sorted
    <3>6. ~ReadyForExecute(status[x])
      BY <3>5 DEF ReadyForExecute, NeedsExecute, IsFinishedStatus
    <3> QED  BY <2>3, <3>6, NothingStarts
  <2> QED  BY <1>r, <2>4, <2>5
<1>7. CASE i \notin Leaf /\ Kind[i] \in Threaded
  <2>1. call = <<"tick", x>> /\ x \in Ticked(i)
    <3>1. CASE Kind[i] = "Async"
      <4>1. BodyCalls(i) = Call("tick", Child(i)) \o Call("return", i)
        BY <1>1, <1>7, <3>1, BodyByKind DEF AsyncCalls
      <4>2. call = <<"tick", Child(i)>> \/ call = <<"return", i>>
        BY <4>1 DEF Call
      <4> QED  BY <3>1, <4>2 DEF Executes, Ticked
    <3>2. CASE Kind[i] = "ParallelSequence"
      <4>1. PICK calls : calls = BodyCalls(i)
        OBVIOUS
      <4>2. calls = ParallelCalls(i)
        BY <1>1, <1>7, <3>2, <4>1, BodyByKind
      <4>3. /\ Len(calls) = Len(Children[i]) + 1 /\ Len(Children[i]) \in Nat
            /\ \A m \in 1 .. Len(Children[i]) : calls[m] = <<"tick", Children[i][m]>>
            /\ calls[Len(calls)] = <<"conclude", i>>
        BY <1>1, <4>2, ParallelPlaces
      <4>4. k \in 1 .. Len(calls) /\ call = calls[k]
        BY <4>1
      <4>5. k # Len(calls)
        BY <4>3, <4>4 DEF Executes
      <4>6. k \in 1 .. Len(Children[i]) /\ call = <<"tick", Children[i][k]>>
        BY <4>3, <4>4, <4>5
      <4>7. Children[i][k] \in ChildSet(i)
        <5>1. PICK s : s = Children[i]
          OBVIOUS
        <5>2. s[k] \in ChildSet(i)
          BY <1>1, <4>6, <5>1, ChildList
        <5> QED  BY <5>1, <5>2
      <4> QED  BY <3>2, <4>6, <4>7 DEF Ticked
    <3> QED  BY <1>7, <3>1, <3>2 DEF Threaded
  <2>2. wrapper[x] \in {"NOT_STARTED", "NOT_FINISHED"} /\ x \in ChildSet(i) /\ x \in Instructions
    BY <1>1, <1>7, <2>1, TickedChildren, ChildrenAreInstructions DEF Executes
  <2>3. status[i] # "RUNNING"
    BY <1>1, <1>2, <1>7, <2>1, <2>2 DEF Occupied
  <2>4. x \in NextInstructionsOf(i)
    <3>1. CASE Kind[i] = "Async"
      BY <1>1, <1>7, <2>1, <3>1, NextByKind DEF Ticked
    <3>2. CASE Kind[i] = "ParallelSequence"
      <4>1. NextInstructionsOf(i) = NextOfParallelSequence(i)
        BY <1>1, <1>7, <3>2, NextByKind
      <4> QED  BY <2>2, <4>1 DEF NextOfParallelSequence, ReadyForExecute
    <3> QED  BY <1>7, <3>1, <3>2 DEF Threaded
  <2> QED  BY <1>0, <1>1, <1>r, <2>2, <2>3, <2>4, StartsDown
<1> QED  BY <1>3, <1>4, <1>5, <1>6, <1>7 DEF Sequential

-----------------------------------------------------------------------------
(* What an instruction leads to is announced before it is prepared           *)

\* Nothing is added to what is next, wherever nothing changes.
LEMMA StartsNotAdded ==
  ASSUME NEW x \in Instructions,
         ReadyForExecute(status'[x]) => ReadyForExecute(status[x]),
         \A y \in Below(x) \ {x} : /\ ReadyForExecute(status'[y]) => ReadyForExecute(status[y])
                                   /\ wrapper[y] = "RUNNING" => wrapper'[y] = "RUNNING",
         \A y \in Below(x) : \A c \in ChildSet(y) : c \in NextInstructionsOf(y)' => c \in NextInstructionsOf(y)
  PROVE  StartsFrom(x)' \subseteq StartsFrom(x)
<1> SUFFICES ASSUME NEW z \in StartsFrom(x)'  PROVE z \in StartsFrom(x)
  OBVIOUS
<1>1. z \in Below(x) \intersect Leaf /\ Leads(x, z)'
  BY WillLead
<1>2. ASSUME NEW y \in Below(x), z \in Below(y)
      PROVE  /\ ReadyForExecute(status[y])
             /\ y # x => wrapper[y] # "RUNNING"
             /\ \A c \in ChildSet(y) : z \in Below(c) => c \in NextInstructionsOf(y)
  <2>1. /\ ReadyForExecute(status'[y])
        /\ y # x => wrapper'[y] # "RUNNING"
        /\ \A c \in ChildSet(y) : z \in Below(c) => c \in NextInstructionsOf(y)'
    BY <1>1, <1>2, WillLead
  <2> QED  BY <2>1
<1> QED  BY <1>1, <1>2 DEF StartsFrom, Leads

\* With its preamble an instruction gets no other leaves to start.
LEMMA PreambleStarts ==
  ASSUME StartInv, StepsAreAnnounced, Usual, Fresh, NEW t \in Doers, NEW i, NEW calls,
         Moves(t, "exec", i, calls), Means("exec", i, calls)
  PROVE  StartsFrom(i)' \subseteq StartsFrom(i)
<1>0. ExclusiveInv /\ Tables /\ Selections /\ Answers /\ root \in Roots
  BY DEF StartInv, ExclusiveInv
<1>1. i \in Instructions /\ i \in Below(root) /\ Due(t, "exec", i) /\ selected' = selected
  <2>1. Due(t, "exec", i) /\ selected' = selected
    BY DEF Moves, Effects, Selects
  <2> QED  BY <1>0, <2>1, AtFront DEF Signals, Owner
<1>2. Below(i) \subseteq Below(root) /\ Below(i) \subseteq Instructions /\ \A y \in Below(i) : ChildSet(y) \subseteq Below(i)
  BY <1>0, <1>1, BelowClosed, TreeAssumption
<1>3. ASSUME NEW y \in Instructions, status'[y] # status[y]  PROVE y = i /\ status[i] = "NOT_STARTED"
  <2>1. y = i
    BY <1>0, <1>1, <1>3, Remarked
  <2> QED  BY <1>3, <2>1 DEF Means
<1>4. ASSUME NEW y \in Instructions, wrapper'[y] # wrapper[y]
      PROVE  /\ status[i] = "NOT_STARTED" /\ y \in ChildSet(i) /\ Kind[i] \in Threaded
             /\ wrapper[y] = "absent"
  <2>1. status[i] = "NOT_STARTED" /\ y \in Wrapped(i)
    BY <1>0, <1>1, <1>4, Rewrapped
  <2>2. y \in ChildSet(i) /\ Kind[i] \in Threaded
    BY <2>1 DEF Wrapped
  <2> QED  BY <1>1, <2>1, <2>2 DEF Fresh, Unstarted
<1>5. ASSUME NEW y \in Below(i), NEW c \in ChildSet(y)  PROVE c \in Instructions /\ c # i /\ status'[c] = status[c]
  <2>1. c \in StrictlyBelow(y) /\ c \in Instructions /\ y \notin Below(c)
    BY <1>2, ChildBelow
  <2>2. c # i
    BY <2>1
  <2> QED  BY <1>3, <2>1, <2>2
<1>6. ASSUME NEW y \in Below(i), NEW c \in ChildSet(y), c \in NextInstructionsOf(y)'  PROVE c \in NextInstructionsOf(y)
  <2>1. y \in Instructions /\ y \in Below(root)
    BY <1>2
  <2>2. CASE \A d \in ChildSet(y) : Kind[y] \in Threaded => wrapper'[d] = wrapper[d]
    <3>1. NextInstructionsOf(y)' = NextInstructionsOf(y)
      BY <1>0, <1>1, <1>5, <2>1, <2>2, NextSame
    <3> QED  BY <1>6, <3>1
  <2>3. CASE \E d \in ChildSet(y) : Kind[y] \in Threaded /\ wrapper'[d] # wrapper[d]
    <3>1. PICK d \in ChildSet(y) : Kind[y] \in Threaded /\ wrapper'[d] # wrapper[d]
      BY <2>3
    <3>2. status[i] = "NOT_STARTED" /\ d \in ChildSet(i) /\ Kind[i] \in Threaded
      BY <1>4, <1>5, <3>1
    <3>3. y = i
      BY <1>0, <1>1, <2>1, <3>1, <3>2, SameParent
    <3>4. i \notin Leaf /\ \A e \in ChildSet(i) : wrapper[e] = "absent"
      <4>1. i \notin Leaf
        BY <1>0, <1>1, <3>2, PlainBelow
      <4> QED  BY <1>1, <3>2, <4>1 DEF Fresh, Unstarted
    <3>5. CASE Kind[i] = "ParallelSequence"
      <4>1. NextInstructionsOf(i) = NextOfParallelSequence(i)
        BY <1>1, <3>4, <3>5, NextByKind
      <4> QED  BY <3>3, <3>4, <4>1 DEF NextOfParallelSequence
    <3>6. CASE Kind[i] = "Async"
      <4>1. NextInstructionsOf(i)' = {Child(i)} /\ NextInstructionsOf(i) = {Child(i)}
        BY <3>4, <3>6 DEF NextInstructionsOf, NextOfDecorator, Child
      <4> QED  BY <1>6, <3>3, <4>1
    <3> QED  BY <3>2, <3>5, <3>6 DEF Threaded
  <2> QED  BY <2>2, <2>3
<1>7. ReadyForExecute(status'[i]) => ReadyForExecute(status[i])
  BY <1>1, <1>3 DEF ReadyForExecute
<1>8. ASSUME NEW y \in Below(i) \ {i}
      PROVE  /\ ReadyForExecute(status'[y]) => ReadyForExecute(status[y])
             /\ wrapper[y] = "RUNNING" => wrapper'[y] = "RUNNING"
  <2>1. status'[y] = status[y]
    BY <1>2, <1>3
  <2>2. wrapper'[y] # wrapper[y] => wrapper[y] # "RUNNING"
    BY <1>2, <1>4
  <2> QED  BY <2>1, <2>2
<1> QED  BY <1>1, <1>6, <1>7, <1>8, StartsNotAdded

\* A thread that is launched has none but those of its launch.
LEMMA LaunchStarts ==
  ASSUME StartInv, NEW t \in Doers, NEW c, LaunchChild(t, c)
  PROVE  /\ StartsFrom(c)' \subseteq StartsFrom(c)
         /\ StartsFrom(c)' # {} => Executes(<<"tick", c>>)
<1>0. ExclusiveInv /\ Tables /\ Selections /\ Answers
  BY DEF StartInv, ExclusiveInv
<1>1. c \in Instructions /\ wrapper' = [wrapper EXCEPT ![c] = "RUNNING"] /\ status' = status /\ selected' = selected
      /\ wrapper[c] = status[c]
  <2>1. Due(t, "tick", c)
    BY DEF LaunchChild
  <2> QED  BY <1>0, <2>1, AtFront DEF LaunchChild
<1>2. \A d \in Instructions : d # c => wrapper'[d] = wrapper[d]
  BY <1>0, <1>1 DEF Tables
<1>3. Below(c) \subseteq Instructions
  BY <1>1, BelowClosed
<1>4. ASSUME NEW y \in Below(c)  PROVE NextInstructionsOf(y)' = NextInstructionsOf(y)
  <2>1. ASSUME NEW d \in ChildSet(y)  PROVE d \in Instructions /\ d # c
    <3>1. d \in Instructions /\ y \notin Below(d)
      BY <1>3, ChildBelow
    <3> QED  BY <3>1
  <2> QED  BY <1>0, <1>1, <1>2, <1>3, <2>1, NextSame
<1>5. StartsFrom(c)' \subseteq StartsFrom(c)
  BY <1>1, <1>2, <1>3, <1>4, StartsNotAdded
<1>6. ASSUME StartsFrom(c)' # {}  PROVE Executes(<<"tick", c>>)
  <2>1. StartsFrom(c) # {}
    BY <1>5, <1>6
  <2>2. ReadyForExecute(status[c])
    BY <1>1, <2>1, NothingStarts
  <2> QED  BY <1>1, <2>2 DEF Executes, ReadyForExecute
<1> QED  BY <1>5, <1>6

-----------------------------------------------------------------------------
(* What is announced for the calls of a thread                               *)

\* What there is to show of each call.
LEMMA AnnouncesFrom ==
  ASSUME \A u \in Doers : \A f : f = agenda'[u] => \A k \in 1 .. Len(f) : \A call : call = f[k] =>
           \A x : x = call[2] /\ Executes(call)' => StartsFrom(x)' \subseteq announced'[u]
  PROVE  Announces'
<1> SUFFICES ASSUME NEW u \in Doers, NEW k \in 1 .. Len(agenda'[u]), Executes(agenda[u][k])'
             PROVE  (StartsFrom(agenda[u][k][2]) \subseteq announced[u])'
  BY DoersStay DEF Announces
<1>1. PICK f : f = agenda'[u]
  OBVIOUS
<1>2. PICK call : call = f[k]
  OBVIOUS
<1>3. PICK x : x = call[2]
  OBVIOUS
<1>4. Executes(call)'
  BY <1>1, <1>2 DEF Executes
<1>5. StartsFrom(x)' \subseteq announced'[u]
  BY <1>1, <1>2, <1>3, <1>4
<1>6. x = agenda'[u][k][2]
  BY <1>1, <1>2, <1>3
<1> QED  BY <1>5, <1>6 DEF StartsFrom, Leads, Below, Closed, ChildSet

\* The announcement covers what is below the calls that are left.
LEMMA AheadHas ==
  ASSUME NEW f \in Seq(AnyCall), NEW k \in 1 .. Len(f), NEW call, call = f[k], Executes(call)', NEW x, x = call[2]
  PROVE  x \in Instructions /\ StartsFrom(x)' \subseteq Ahead(f)
<1>1. f[k] \in AnyCall /\ k \in DOMAIN f
  OBVIOUS
<1>2. x \in Instructions
  BY <1>1 DEF AnyCall
<1>3. call[1] \in {"exec", "body", "work", "tick"}
  BY DEF Executes
<1>4. StartsFrom(x)' \subseteq Subtree[x]
  BY <1>2, WillLead, BelowInSubtree
<1>5. Subtree[f[k][2]] \subseteq Ahead(f)
  BY <1>1, <1>3 DEF Ahead
<1> QED  BY <1>2, <1>4, <1>5

LEMMA AnnouncedStays ==
  ASSUME NEW u, ~Idle(u)  PROVE AnnouncedBy(u) = announced[u]
BY DEF AnnouncedBy

LEMMA AnnouncedLaunch ==
  ASSUME NEW u, u # Ticker, Idle(u), NEW t \in Threads, Due(t, "tick", u)
  PROVE  announced[t] \subseteq AnnouncedBy(u)
BY DEF AnnouncedBy

\* What is left of an announcement is what is both announced and still to execute.
LEMMA AnnouncedFrom ==
  ASSUME announced' = [t \in Threads |-> AnnouncedBy(t) \intersect Ahead(agenda'[t])],
         NEW u \in Doers, NEW f \in Seq(AnyCall), f = agenda'[u], NEW k \in 1 .. Len(f), NEW call, call = f[k],
         Executes(call)', NEW x, x = call[2], StartsFrom(x)' \subseteq AnnouncedBy(u)
  PROVE  StartsFrom(x)' \subseteq announced'[u]
<1>1. u \in Threads
  BY ThreadNames
<1>2. announced'[u] = AnnouncedBy(u) \intersect Ahead(f)
  BY <1>1
<1>3. StartsFrom(x)' \subseteq Ahead(f)
  BY AheadHas
<1> QED  BY <1>2, <1>3

\* A thread is launched by LaunchChild.
LEMMA LaunchedBy ==
  ASSUME ExclusiveInv, NEW t \in Doers, NEW i, Step(t, i) \/ Work(t, i), NEW op, NEW calls, Moves(t, op, i, calls),
         op = "tick", NEW u \in Doers, u # t, agenda'[u] # agenda[u]
  PROVE  LaunchChild(t, i)
<1>1. t \in Threads /\ agenda \in [Threads -> Seq(AnyCall)]
  BY ThreadNames DEF ExclusiveInv, Walks
<1>2. ASSUME NEW o, Due(t, o, i)  PROVE o = "tick"
  BY <1>2, SameOperation
<1>3. ASSUME Continue(t, << >>)  PROVE FALSE
  BY <1>1, <1>3 DEF Continue, Replace
<1>4. ~Work(t, i)
  BY <1>2 DEF Work
<1>5. TickNothing(t, i) \/ UpdateStatus(t, i) \/ LaunchChild(t, i)
  <2>1. ~Preamble(t, i) /\ ~SkipBody(t, i) /\ ~Body(t, i) /\ ~SetStatus(t, i) /\ ~ElementFails(t, i) /\ ~React(t, i)
    BY <1>2 DEF Preamble, SkipBody, Body, Entered, SetStatus, ElementFails, React
  <2>2. ~ReturnRunning(t, i) /\ ~ListenHalted(t, i) /\ ~Listen(t, i) /\ ~CreateInstructionList(t, i)
        /\ ~AskUser(t, i) /\ ~NoAnswer(t, i)
    BY <1>2 DEF ReturnRunning, ListenHalted, Listen, CreateInstructionList, AskUser, NoAnswer
  <2>3. ~Conclude(t, i) /\ ~Halt(t, i) /\ ~DropFuture(t, i) /\ ~Reset(t, i) /\ ~Join(t, i) /\ ~Clear(t, i)
    BY <1>2 DEF Conclude, Halt, DropFuture, Reset, Join, Clear
  <2> QED  BY <1>4, <2>1, <2>2, <2>3 DEF Step
<1> QED  BY <1>3, <1>5 DEF TickNothing, UpdateStatus

\* What a call is replaced by starts nothing that the call does not.
LEMMA NewStarts ==
  ASSUME StartInv, StepsAreAnnounced, Usual, Fresh, Agrees, Occupied, NEW t \in Doers, NEW op, NEW i, NEW calls,
         Moves(t, op, i, calls), Means(op, i, calls), NEW k \in 1 .. Len(calls), NEW call, call = calls[k],
         Executes(call)', NEW x, x = call[2]
  PROVE  op \in {"exec", "body"} /\ StartsFrom(x)' \subseteq StartsFrom(i)
<1>0. ExclusiveInv /\ Tables /\ Selections /\ Answers
  BY DEF StartInv, ExclusiveInv
<1>1. Due(t, op, i)
  BY DEF Moves
<1>2. /\ op \notin {"running", "react", "listen"} /\ Owner(<<op, i>>) = i /\ i \in Instructions
      /\ op = "choose" => Kind[i] = "Choice" /\ selected[i] = << >>
  BY <1>1, UsualHead
<1>3. call[1] \in Entering
  BY DEF Executes, Entering
<1>4. op \in Operations
  <2>1. 1 \in 1 .. Len(agenda[t]) /\ agenda[t][1] = <<op, i>> /\ agenda[t] \in Seq(AnyCall)
    BY <1>0, <1>1, AtFront, AtCall
  <2>2. agenda[t][1] \in AnyCall
    BY <2>1
  <2> QED  BY <2>1, <2>2 DEF AnyCall
<1>5. op \notin Backward
  <2> SUFFICES ASSUME op \in Backward  PROVE FALSE
    OBVIOUS
  <2>1. NeatAt(op, i, calls, k)
    BY <1>2 DEF Moves, Proceeds, Neat
  <2>2. calls[k][1] \in Backward
    BY <2>1 DEF NeatAt, Quiet, Signals, Backward
  <2> QED  BY <1>3, <2>2 DEF Entering, Backward
<1>6. op \notin {"tick", "work", "return", "choose"}
  BY <1>2 DEF Moves, MakesAlways, Means
<1>7. op # "conclude"
  <2> SUFFICES ASSUME op = "conclude"  PROVE FALSE
    OBVIOUS
  <2>1. PICK h \in {Call("halt", i), << >>} : calls = h \o Call("return", i)
    BY DEF Means
  <2>2. h \in Seq(AnyCall) /\ Call("return", i) \in Seq(AnyCall)
    BY <1>2, <2>1, SeqsOfCalls DEF Operations
  <2>3. Makes(h, {"halt", "return"}) /\ Makes(Call("return", i), {"halt", "return"})
    BY <2>1, MakesCalls
  <2>4. Makes(calls, {"halt", "return"})
    BY <2>1, <2>2, <2>3, MakesBoth
  <2> QED  BY <1>3, <2>4 DEF Makes, Entering
<1>8. CASE op = "exec"
  <2>1. calls = Call("body", i)
    BY <1>8 DEF Moves, MakesAlways
  <2>2. x = i
    BY <2>1 DEF Call
  <2> QED  BY <1>8, <2>2, PreambleStarts
<1>9. CASE op = "body"
  <2>1. calls = BodyCalls(i) /\ NeedsExecute(status[i]) /\ UNCHANGED status
    BY <1>9 DEF Means
  <2>2. wrapper' = wrapper /\ selected' = selected
    BY <1>9 DEF Moves, Effects, Wraps, Selects
  <2>3. Executes(call)
    BY <2>2 DEF Executes
  <2>4. x \in Instructions
    <3>1. calls \in Seq(AnyCall)
      BY DEF Moves, Replaces, Fits
    <3>2. calls[k] \in AnyCall
      BY <3>1
    <3> QED  BY <3>2 DEF AnyCall
  <2>5. StartsFrom(x)' \subseteq StartsFrom(x)
    <3>1. Below(x) \subseteq Instructions
      BY <2>4, BelowClosed
    <3>2. ASSUME NEW y \in Below(x)  PROVE NextInstructionsOf(y)' = NextInstructionsOf(y)
      BY <1>0, <2>1, <2>2, <3>1, NextSame
    <3> QED  BY <2>1, <2>2, <2>4, <3>2, StartsNotAdded
  <2>6. StartsFrom(x) \subseteq StartsFrom(i)
    BY <1>1, <1>9, <2>1, <2>3, BodyStarts
  <2> QED  BY <1>9, <2>5, <2>6
<1> QED  BY <1>2, <1>4, <1>5, <1>6, <1>7, <1>8, <1>9 DEF Operations, Backward

-----------------------------------------------------------------------------
(* Everything that is executed is announced                                  *)

\* A step of a thread leaves what each thread is going to start announced to it.
LEMMA AnnouncesMove ==
  ASSUME StartInv, StartInv', Orderly, StepsAreAnnounced, Usual, Fresh, Agrees, Occupied, Announces,
         announced' = [t \in Threads |-> AnnouncedBy(t) \intersect Ahead(agenda'[t])],
         NEW t \in Doers, NEW i, Step(t, i) \/ Work(t, i),
         NEW op, NEW calls, Moves(t, op, i, calls), Means(op, i, calls)
  PROVE  Announces'
<1> SUFFICES ASSUME NEW u \in Doers, NEW f, f = agenda'[u], NEW k \in 1 .. Len(f), NEW call, call = f[k],
                    NEW x, x = call[2], Executes(call)'
             PROVE  StartsFrom(x)' \subseteq announced'[u]
  BY AnnouncesFrom
<1>1. u \in Threads /\ t \in Threads /\ f \in Seq(AnyCall) /\ ExclusiveInv /\ agenda \in [Threads -> Seq(AnyCall)]
  BY ThreadNames DEF StartInv, ExclusiveInv, Walks
<1>2. Due(t, op, i) /\ 1 \in 1 .. Len(agenda[t]) /\ agenda[t][1] = <<op, i>> /\ ~Idle(t)
  <2>1. Due(t, op, i)
    BY DEF Moves
  <2>2. 1 \in 1 .. Len(agenda[t]) /\ agenda[t][1] = <<op, i>> /\ agenda[t] # << >>
    BY <1>1, <2>1, AtFront
  <2> QED  BY <2>1, <2>2 DEF Idle
<1>3. \/ u = t /\ k \in 1 .. Len(calls) /\ f[k] = calls[k]
      \/ \E j \in 1 .. Len(agenda[u]) :
           /\ f[k] = agenda[u][j]
           /\ u = t => j # 1 /\ j \in 2 .. Len(agenda[u]) /\ k = Len(calls) + j - 1
           /\ u # t => k = j /\ f = agenda[u]
      \/ u # t /\ op = "tick" /\ u = i /\ u \in Workers /\ agenda[u] = << >> /\ f = Call("exec", u) /\ k = 1
  <2>1. ComesFrom(t, op, i, calls, u, f, k)
    BY CallsCome
  <2> QED  BY <2>1 DEF ComesFrom
<1>4. StartsFrom(x)' \subseteq AnnouncedBy(u)
  <2>1. CASE u = t /\ k \in 1 .. Len(calls) /\ f[k] = calls[k]
    <3>1. call = calls[k]
      BY <2>1
    <3>2. op \in {"exec", "body"} /\ StartsFrom(x)' \subseteq StartsFrom(i)
      BY <2>1, <3>1, NewStarts
    <3>3. Executes(agenda[t][1])
      BY <1>2, <3>2 DEF Executes
    <3>4. StartsFrom(agenda[t][1][2]) \subseteq announced[t]
      BY <1>2, <3>3 DEF Announces
    <3>5. agenda[t][1][2] = i
      BY <1>2
    <3>6. AnnouncedBy(t) = announced[t]
      BY <1>2, AnnouncedStays
    <3> QED  BY <2>1, <3>2, <3>4, <3>5, <3>6
  <2>2. CASE \E j \in 1 .. Len(agenda[u]) : f[k] = agenda[u][j] /\ (u = t => j # 1)
    <3>1. PICK j \in 1 .. Len(agenda[u]) : f[k] = agenda[u][j] /\ (u = t => j # 1)
      BY <2>2
    <3>2. call = agenda[u][j]
      BY <3>1
    <3>3. Executes(call)
      <4>1. CASE call[1] = "tick"
        <5>1. call = <<"tick", x>>
          <6>1. f[k] \in AnyCall
            BY <1>1
          <6> QED  BY <4>1, <6>1 DEF AnyCall
        <5>2. agenda[u][j] = <<"tick", x>>
          BY <3>2, <5>1
        <5>3. wrapper'[x] = wrapper[x]
          BY <3>1, <5>2, TickHeld
        <5> QED  BY <5>1, <5>3 DEF Executes
      <4>2. CASE call[1] # "tick"
        BY <4>2 DEF Executes
      <4> QED  BY <4>1, <4>2
    <3>4. StartsFrom(x)' \subseteq StartsFrom(x)
      BY <3>1, <3>2, <3>3, Undisturbed
    <3>5. StartsFrom(x) \subseteq announced[u]
      BY <3>2, <3>3 DEF Announces
    <3>6. ~Idle(u)
      BY <1>1, AtCall
    <3>7. AnnouncedBy(u) = announced[u]
      BY <3>6, AnnouncedStays
    <3> QED  BY <3>4, <3>5, <3>7
  <2>3. CASE u # t /\ op = "tick" /\ u = i /\ u \in Workers /\ agenda[u] = << >> /\ f = Call("exec", u) /\ k = 1
    <3>1. x = u
      BY <2>3 DEF Call
    <3>2. agenda'[u] # agenda[u]
      BY <2>3 DEF Call
    <3>3. LaunchChild(t, u)
      BY <1>1, <2>3, <3>2, LaunchedBy
    <3>4. /\ StartsFrom(u)' \subseteq StartsFrom(u)
          /\ StartsFrom(u)' # {} => Executes(<<"tick", u>>)
      BY <3>3, LaunchStarts
    <3>5. Executes(<<"tick", u>>) => StartsFrom(u) \subseteq announced[t]
      <4>1. agenda[t][1] = <<"tick", u>> /\ agenda[t][1][2] = u
        BY <1>2, <2>3
      <4> QED  BY <1>2, <4>1 DEF Announces
    <3>6. announced[t] \subseteq AnnouncedBy(u)
      <4>1. u # Ticker /\ Idle(u) /\ Due(t, "tick", u)
        BY <1>2, <2>3, ThreadNames DEF Idle
      <4> QED  BY <1>1, <4>1, AnnouncedLaunch
    <3> QED  BY <3>1, <3>4, <3>5, <3>6
  <2> QED  BY <1>3, <2>1, <2>2, <2>3
<1> QED  BY <1>1, <1>4, AnnouncedFrom

\* What does not change starts nothing else.
LEMMA StartsSame ==
  ASSUME StartInv, UNCHANGED <<status, wrapper, selected>>, NEW x \in Instructions
  PROVE  StartsFrom(x)' \subseteq StartsFrom(x)
<1>1. Selections /\ Answers /\ Below(x) \subseteq Instructions
  BY BelowClosed DEF StartInv, ExclusiveInv
<1>2. ASSUME NEW y \in Below(x)  PROVE NextInstructionsOf(y)' = NextInstructionsOf(y)
  BY <1>1, NextSame
<1> QED  BY <1>2, StartsNotAdded

LEMMA AnnouncesSame ==
  ASSUME StartInv, Announces, UNCHANGED <<status, wrapper, selected, agenda, announced>>
  PROVE  Announces'
<1> SUFFICES ASSUME NEW u \in Doers, NEW f, f = agenda'[u], NEW k \in 1 .. Len(f), NEW call, call = f[k],
                    NEW x, x = call[2], Executes(call)'
             PROVE  StartsFrom(x)' \subseteq announced'[u]
  BY AnnouncesFrom
<1>1. k \in 1 .. Len(agenda[u]) /\ call = agenda[u][k] /\ Executes(call)
  BY DEF Executes
<1>2. x \in Instructions
  BY <1>1, ExecutesAbout
<1>3. StartsFrom(x) \subseteq announced[u]
  BY <1>1 DEF Announces
<1> QED  BY <1>2, <1>3, StartsSame

\* A tick begins with what is shown as next; a reset executes nothing.
LEMMA AnnouncesBegin ==
  ASSUME StartInv, StartInv', Announces,
         announced' = [t \in Threads |-> AnnouncedBy(t) \intersect Ahead(agenda'[t])],
         UNCHANGED <<root, status, wrapper, selected>>,
         \A u \in Doers : \/ agenda'[u] = agenda[u]
                          \/ /\ agenda[u] = << >>
                             /\ \E op \in {"exec", "reset"} : agenda'[u] = Call(op, root) /\ u = Ticker
  PROVE  Announces'
<1> SUFFICES ASSUME NEW u \in Doers, NEW f, f = agenda'[u], NEW k \in 1 .. Len(f), NEW call, call = f[k],
                    NEW x, x = call[2], Executes(call)'
             PROVE  StartsFrom(x)' \subseteq announced'[u]
  BY AnnouncesFrom
<1>1. /\ u \in Threads /\ f \in Seq(AnyCall) /\ ExclusiveInv /\ agenda \in [Threads -> Seq(AnyCall)]
      /\ Selections /\ Answers /\ root \in Roots
  BY ThreadNames DEF StartInv, ExclusiveInv, Walks
<1>2. x \in Instructions
  BY <1>1, AheadHas
<1>3. StartsFrom(x)' \subseteq StartsFrom(x)
  BY <1>2, StartsSame
<1>4. Executes(call)
  BY DEF Executes
<1>5. StartsFrom(x) \subseteq AnnouncedBy(u)
  <2>1. CASE agenda'[u] = agenda[u]
    <3>1. k \in 1 .. Len(agenda[u]) /\ call = agenda[u][k]
      BY <2>1
    <3>2. StartsFrom(x) \subseteq announced[u]
      BY <1>4, <3>1 DEF Announces
    <3>3. ~Idle(u)
      BY <1>1, <3>1, AtCall
    <3> QED  BY <3>2, <3>3, AnnouncedStays
  <2>2. CASE agenda[u] = << >> /\ \E op \in {"exec", "reset"} : agenda'[u] = Call(op, root) /\ u = Ticker
    <3>1. u = Ticker /\ x = root
      BY <2>2 DEF Call
    <3>2. AnnouncedBy(u) = GetNextLeaves
      BY <2>2, <3>1 DEF AnnouncedBy, Idle
    <3> QED  BY <1>1, <3>1, <3>2, StartsAreShown
  <2> QED  BY <2>1, <2>2
<1> QED  BY <1>1, <1>3, <1>5, AnnouncedFrom

-----------------------------------------------------------------------------
(* The parts of the invariant                                                *)
LEMMA SameTree ==
  ASSUME UNCHANGED root
  PROVE  Below(root)' = Below(root) /\ (StepsAreAnnounced' <=> StepsAreAnnounced)
BY DEF Below, Closed, ChildSet, StepsAreAnnounced

\* A step of a thread keeps them.
LEMMA PartsMove ==
  ASSUME RunInv, StartInv', Orderly, StepsAreAnnounced, AnnouncedParts,
         announced' = [t \in Threads |-> AnnouncedBy(t) \intersect Ahead(agenda'[t])],
         NEW t \in Doers, NEW i, Step(t, i) \/ Work(t, i),
         NEW op, NEW calls, Moves(t, op, i, calls), Means(op, i, calls)
  PROVE  AnnouncedParts'
<1>0. /\ StartInv /\ Lively /\ Stages /\ Usual /\ Fresh /\ InPlace /\ Agrees /\ Occupied /\ Announces
      /\ Selections' /\ root \in Roots
  BY DEF RunInv, AnnouncedParts, StartInv, ExclusiveInv
<1>1. Below(root)' = Below(root)
  BY SameTree DEF Moves
<1>2. Usual'
  BY <1>0, UsualKept
<1>3. Fresh'
  <2>1. ASSUME NEW p \in Below(root)
        PROVE  /\ status'[p] = "NOT_STARTED" => Unstarted(p)'
               /\ Kind[p] = "Choice" /\ selected'[p] = << >> => Unstarted(p)' \/ Owes(p, {"clear"})'
    BY <1>0, FreshKept
  <2> QED  BY <1>1, <2>1 DEF Fresh
<1>4. InPlace'
  BY <1>0, InPlaceKept
<1>5. Agrees'
  <2>1. ASSUME NEW p \in Below(root), Kind[p] \in Sequential, NeedsExecute(status'[p]), Kind[p] = "Choice" => selected'[p] # << >>
        PROVE  Sorted(p, Listed(p))' \/ Owes(p, {"return", "clear"})'
    BY <1>0, <2>1, AgreesKept
  <2> QED  BY <1>1, <2>1 DEF Agrees, NeedsExecute, IsFinishedStatus, Sequential
<1>6. Occupied'
  <2>1. ASSUME NEW p \in Below(root), Kind[p] \in Threaded, status'[p] = "RUNNING"
        PROVE  (\A c \in Ticked(p) : wrapper'[c] \notin {"NOT_STARTED", "NOT_FINISHED"})
               \/ Owes(p, {"return", "conclude", "clear"})'
    BY <1>0, <2>1, OccupiedKept
  <2>2. ASSUME NEW p \in Below(root), Kind[p] \in Threaded  PROVE Ticked(p)' = Ticked(p)
    <3>1. p \in Instructions /\ p \notin Leaf
      BY <1>0, <2>2, PlainBelow
    <3> QED  BY <3>1, TickedChildren
  <2> QED  BY <1>1, <2>1, <2>2 DEF Occupied, Threaded
<1>7. Announces'
  BY <1>0, AnnouncesMove
<1> QED  BY <1>2, <1>3, <1>4, <1>5, <1>6, <1>7 DEF AnnouncedParts

\* What is owed is, where nothing is taken from an agenda.
LEMMA StillOwed ==
  ASSUME NEW p, NEW ops, Owes(p, ops),
         \A u \in Doers : agenda'[u] = agenda[u] \/ agenda[u] = << >>
  PROVE  Owes(p, ops)'
<1>1. PICK u \in Doers : \E k \in 1 .. Len(agenda[u]) : agenda[u][k][1] \in ops /\ Owner(agenda[u][k]) = p
  BY DEF Owes
<1>2. PICK k \in 1 .. Len(agenda[u]) : agenda[u][k][1] \in ops /\ Owner(agenda[u][k]) = p
  BY <1>1
<1>3. agenda'[u] = agenda[u]
  <2>1. agenda[u] = << >> => 1 .. Len(agenda[u]) = {}
    OBVIOUS
  <2> QED  BY <1>2, <2>1
<1> QED  BY <1>2, <1>3, DoersStay DEF Owes, Owner

\* So does the loop thread when it begins a walk, and the client's thread.
LEMMA PartsBegin ==
  ASSUME StartInv, StepsAreAnnounced, AnnouncedParts, Announces',
         UNCHANGED <<root, status, wrapper, selected>>,
         \A u \in Doers : \/ agenda'[u] = agenda[u]
                          \/ /\ agenda[u] = << >>
                             /\ \E op \in {"exec", "reset"} : agenda'[u] = Call(op, root) /\ u = Ticker
  PROVE  AnnouncedParts'
<1>0. /\ Usual /\ Fresh /\ InPlace /\ Agrees /\ Occupied /\ Announces /\ root \in Roots
      /\ \A u \in Doers : agenda'[u] = agenda[u] \/ agenda[u] = << >>
  BY DEF AnnouncedParts, StartInv, ExclusiveInv
<1>1. Below(root)' = Below(root)
  BY SameTree
<1>3. Usual'
  <2> SUFFICES ASSUME NEW u \in Doers, NEW f, f = agenda'[u], NEW k \in 1 .. Len(f), NEW call, call = f[k]
               PROVE  UsualCall(call)'
    <3>1. \A u \in Doers : \A f : f = agenda'[u] => \A k \in 1 .. Len(f) : \A call : call = f[k] => UsualCall(call)'
      OBVIOUS
    <3> QED  BY <3>1, DoersStay DEF Usual, UsualCall
  <2>0. f = agenda[u] \/ \E op \in {"exec", "reset"} : f[k] = <<op, root>>
    BY DEF Call
  <2>1. CASE f = agenda[u]
    <3>1. k \in 1 .. Len(agenda[u]) /\ call = agenda[u][k]
      BY <2>1
    <3>2. UsualCall(call)
      BY <1>0, <3>1 DEF Usual
    <3> QED  BY <3>2 DEF UsualCall
  <2>2. CASE \E op \in {"exec", "reset"} : f[k] = <<op, root>>
    BY <2>2 DEF UsualCall
  <2> QED  BY <2>0, <2>1, <2>2
<1>4. Fresh'
  <2>1. ASSUME NEW p \in Below(root)
        PROVE  /\ status'[p] = "NOT_STARTED" => Unstarted(p)'
               /\ Kind[p] = "Choice" /\ selected'[p] = << >> => Unstarted(p)' \/ Owes(p, {"clear"})'
    <3>1. Unstarted(p)' <=> Unstarted(p)
      BY UnstartedNext DEF Unstarted
    <3>2. Owes(p, {"clear"}) => Owes(p, {"clear"})'
      BY <1>0, StillOwed
    <3> QED  BY <1>0, <3>1, <3>2 DEF Fresh
  <2> QED  BY <1>1, <2>1 DEF Fresh
<1>5. InPlace'
  <2> SUFFICES ASSUME NEW u \in Doers, NEW f, f = agenda'[u], NEW k \in 1 .. Len(f)
               PROVE  ClearAt(f, k)' /\ LooksAfter(f, k)'
    BY PlacesFrom
  <2>0. f = agenda[u] \/ \E op \in {"exec", "reset"} : f[k] = <<op, root>>
    BY DEF Call
  <2>1. CASE f = agenda[u]
    <3>1. ClearAt(f, k) /\ LooksAfter(f, k)
      BY <1>0, <2>1 DEF InPlace
    <3>2. ASSUME NEW p, f[k] = <<"clear", p>>, NEW d \in ChildSet(p)  PROVE GoesFirst(f, k, p, d)'
      <4>1. GoesFirst(f, k, p, d)
        BY <3>1, <3>2 DEF ClearAt
      <4> QED  BY <4>1 DEF GoesFirst
    <3>3. ASSUME NEW p, f[k] \in {<<"return", p>>, <<"conclude", p>>}, Kind[p] = "ParallelSequence", NEW d \in ChildSet(p)
          PROVE  TickedFirst(f, k, p, d)'
      <4>1. TickedFirst(f, k, p, d)
        BY <3>1, <3>3 DEF LooksAfter
      <4> QED  BY <4>1 DEF TickedFirst
    <3> QED  BY <3>2, <3>3, PlacesMean
  <2>2. CASE \E op \in {"exec", "reset"} : f[k] = <<op, root>>
    <3>1. \A p : f[k] # <<"clear", p>> /\ f[k] \notin {<<"return", p>>, <<"conclude", p>>}
      BY <2>2
    <3> QED  BY <3>1, PlacesMean
  <2> QED  BY <2>0, <2>1, <2>2
<1>6. Agrees'
  <2>1. ASSUME NEW p \in Below(root), Kind[p] \in Sequential, NeedsExecute(status'[p]), Kind[p] = "Choice" => selected'[p] # << >>
        PROVE  Sorted(p, Listed(p))' \/ Owes(p, {"return", "clear"})'
    <3>1. Sorted(p, Listed(p)) \/ Owes(p, {"return", "clear"})
      BY <1>0, <2>1 DEF Agrees
    <3>2. PICK s : s = Listed(p)
      OBVIOUS
    <3>3. s = Listed(p)'
      BY <3>2, ListedSame
    <3>4. Sorted(p, s) => Sorted(p, s)'
      BY DEF Sorted, PassOf
    <3>5. Owes(p, {"return", "clear"}) => Owes(p, {"return", "clear"})'
      BY <1>0, StillOwed
    <3> QED  BY <3>1, <3>2, <3>3, <3>4, <3>5, SortedFrom
  <2> QED  BY <1>1, <2>1 DEF Agrees, NeedsExecute, IsFinishedStatus, Sequential
<1>7. Occupied'
  <2>1. ASSUME NEW p \in Below(root), Kind[p] \in Threaded, status'[p] = "RUNNING"
        PROVE  (\A c \in Ticked(p) : wrapper'[c] \notin {"NOT_STARTED", "NOT_FINISHED"})
               \/ Owes(p, {"return", "conclude", "clear"})'
    <3>1. Owes(p, {"return", "conclude", "clear"}) => Owes(p, {"return", "conclude", "clear"})'
      BY <1>0, StillOwed
    <3> QED  BY <1>0, <2>1, <3>1 DEF Occupied
  <2>2. ASSUME NEW p \in Below(root), Kind[p] \in Threaded  PROVE Ticked(p)' = Ticked(p)
    <3>1. p \in Instructions /\ p \notin Leaf
      BY <1>0, <2>2, PlainBelow
    <3> QED  BY <3>1, TickedChildren
  <2> QED  BY <1>1, <2>1, <2>2 DEF Occupied, Threaded
<1> QED  BY <1>3, <1>4, <1>5, <1>6, <1>7 DEF AnnouncedParts

-----------------------------------------------------------------------------
(* The invariant                                                             *)
NextInv == RunInv /\ HaltInv /\ (StepsAreAnnounced => AnnouncedParts)

LEMMA NextInit == AnnouncedInit => NextInv
<1> SUFFICES ASSUME AnnouncedInit  PROVE NextInv
  OBVIOUS
<1>1. RunInv /\ HaltInv /\ root \in Roots
  BY RunInit, HaltInit DEF AnnouncedInit, Init
<1>2. \A u \in Doers : agenda[u] = << >> /\ 1 .. Len(agenda[u]) = {}
  <2>1. \A u \in Doers : agenda[u] = << >>
    BY ThreadNames DEF AnnouncedInit, Init
  <2>2. 1 .. Len(<< >>) = {}
    OBVIOUS
  <2> QED  BY <2>1, <2>2
<1>3. ASSUME NEW i \in Instructions
      PROVE  status[i] = "NOT_STARTED" /\ wrapper[i] = "absent" /\ selected[i] = << >>
  BY DEF AnnouncedInit, Init
<1>4. Usual /\ InPlace /\ Announces
  BY <1>2 DEF Usual, InPlace, Announces
<1>5. ASSUME NEW p \in Below(root)  PROVE p \in Instructions /\ status[p] = "NOT_STARTED" /\ Unstarted(p)
  <2>1. p \in Instructions
    BY <1>1, BelowClosed, TreeAssumption
  <2> QED  BY <1>3, <2>1, ChildrenAreInstructions DEF Unstarted
<1>6. Fresh
  BY <1>5 DEF Fresh
<1>7. Occupied
  BY <1>5 DEF Occupied
<1>8. ASSUME StepsAreAnnounced  PROVE Agrees
  <2>1. ASSUME NEW p \in Below(root), Kind[p] \in Sequential, Kind[p] = "Choice" => selected[p] # << >>
        PROVE  Sorted(p, Listed(p))
    <3>1. p \in Instructions /\ p \notin Leaf
      BY <1>1, <1>8, <2>1, PlainBelow
    <3>2. PICK s : s = Listed(p)
      OBVIOUS
    <3>3. s \in Seq(ChildSet(p))
      BY <1>1, <2>1, <3>1, <3>2, ListedChildren DEF RunInv, StartInv, ExclusiveInv
    <3>4. \A m \in 1 .. Len(s) : status[s[m]] = "NOT_STARTED"
      BY <1>5, <3>3 DEF Unstarted
    <3>5. \A m \in 1 .. Len(s) : \A j \in 1 .. m - 1 : j \in 1 .. Len(s) /\ NeedsExecute(status[s[j]])
      <4>1. \A m \in 1 .. Len(s) : \A j \in 1 .. m - 1 : j \in 1 .. Len(s)
        BY <3>3
      <4> QED  BY <3>4, <4>1 DEF NeedsExecute, IsFinishedStatus
    <3>6. status[p] # "RUNNING"
      BY <1>5
    <3>7. Sorted(p, s)
      BY <3>5, <3>6 DEF Sorted
    <3> QED  BY <3>2, <3>7
  <2> QED  BY <2>1 DEF Agrees
<1> QED  BY <1>1, <1>4, <1>6, <1>7, <1>8 DEF NextInv, AnnouncedParts

LEMMA NextStep ==
  ASSUME NextInv, [AnnouncedNext]_<<vars, announced>>  PROVE NextInv'
<1>0. RunInv /\ HaltInv /\ StartInv /\ agenda \in [Threads -> Seq(AnyCall)]
  BY DEF NextInv, RunInv, StartInv, ExclusiveInv, Walks
<1>n. /\ Doers \subseteq Threads /\ Ticker \in Doers /\ Halter \notin Doers
      /\ Threads = Doers \union {Halter}
  BY ThreadNames DEF Doers
<1>1. [Next]_vars
  BY DEF AnnouncedNext
<1>2. RunInv' /\ HaltInv' /\ StartInv'
  BY <1>0, <1>1, RunStep, HaltStep DEF RunInv
<1>3. SUFFICES ASSUME StepsAreAnnounced'  PROVE AnnouncedParts'
  BY <1>2 DEF NextInv
<1>4. ASSUME UNCHANGED root  PROVE StepsAreAnnounced /\ AnnouncedParts /\ Orderly
  <2>1. StepsAreAnnounced
    BY <1>3, <1>4, SameTree
  <2> QED  BY <1>0, <2>1, PlainHears DEF NextInv, HaltInv, TellInv
<1>5. CASE UNCHANGED <<vars, announced>>
  <2>1. UNCHANGED vars /\ announced' = announced
    BY <1>5
  <2>2. UNCHANGED <<root, status, wrapper, selected, agenda>> /\ announced' = announced
    BY <2>1 DEF vars
  <2>3. StepsAreAnnounced /\ AnnouncedParts
    BY <1>4, <2>2
  <2>4. Announces'
    BY <1>0, <2>2, <2>3, AnnouncesSame DEF AnnouncedParts
  <2> QED  BY <1>0, <2>2, <2>3, <2>4, PartsBegin
<1>6. CASE AnnouncedNext
  <2>0. Next /\ announced' = [t \in Threads |-> AnnouncedBy(t) \intersect Ahead(agenda'[t])]
    BY <1>6 DEF AnnouncedNext
  <2>1. CASE BeginTick
    <3>1. \A u \in Doers : \/ agenda'[u] = agenda[u]
                           \/ agenda[u] = << >> /\ agenda'[u] = Call("exec", root) /\ u = Ticker
      BY <1>0, <1>n, <2>1 DEF BeginTick, Idle
    <3>2. UNCHANGED <<root, status, wrapper, selected>>
      BY <2>1 DEF BeginTick
    <3>3. StepsAreAnnounced /\ AnnouncedParts
      BY <1>4, <3>2
    <3>4. Announces'
      BY <1>0, <1>2, <2>0, <3>1, <3>2, <3>3, AnnouncesBegin DEF AnnouncedParts
    <3> QED  BY <1>0, <3>1, <3>2, <3>3, <3>4, PartsBegin
  <2>2. CASE BeginReset
    <3>1. \A u \in Doers : \/ agenda'[u] = agenda[u]
                           \/ agenda[u] = << >> /\ agenda'[u] = Call("reset", root) /\ u = Ticker
      BY <1>0, <1>n, <2>2 DEF BeginReset, Idle
    <3>2. UNCHANGED <<root, status, wrapper, selected>>
      BY <2>2 DEF BeginReset
    <3>3. StepsAreAnnounced /\ AnnouncedParts
      BY <1>4, <3>2
    <3>4. Announces'
      BY <1>0, <1>2, <2>0, <3>1, <3>2, <3>3, AnnouncesBegin DEF AnnouncedParts
    <3> QED  BY <1>0, <3>1, <3>2, <3>3, <3>4, PartsBegin
  <2>3. CASE BeginHalt
    <3>1. \A u \in Doers : agenda'[u] = agenda[u]
      BY <1>0, <1>n, <2>3 DEF BeginHalt
    <3>2. UNCHANGED <<root, status, wrapper, selected>>
      BY <2>3 DEF BeginHalt
    <3>3. StepsAreAnnounced /\ AnnouncedParts
      BY <1>4, <3>2
    <3>4. Announces'
      BY <1>0, <1>2, <2>0, <3>1, <3>2, <3>3, AnnouncesBegin DEF AnnouncedParts
    <3> QED  BY <1>0, <3>1, <3>2, <3>3, <3>4, PartsBegin
  <2>4. ASSUME NEW t \in Threads, NEW i, Step(t, i) \/ Work(t, i)  PROVE AnnouncedParts'
    <3>1. ExclusiveInv /\ Laid /\ Answers /\ Sure
      BY <1>0, InvIsSure DEF StartInv
    <3>2. PICK op, calls : Moves(t, op, i, calls)
      BY <2>4, <3>1, StepMoves
    <3>3. UNCHANGED root
      BY <3>2 DEF Moves
    <3>4. StepsAreAnnounced /\ AnnouncedParts /\ Orderly
      BY <1>4, <3>3
    <3>5. CASE t \in Doers
      <4>1. Means(op, i, calls)
        BY <2>4, <3>1, <3>2, StepMeans
      <4> QED  BY <1>0, <1>2, <2>0, <2>4, <3>2, <3>4, <3>5, <4>1, PartsMove
    <3>6. CASE t = Halter
      <4>1. Moves(Halter, op, i, calls)
        BY <3>2, <3>6
      <4>2. UNCHANGED <<root, status, wrapper, selected>> /\ \A u \in Doers : agenda'[u] = agenda[u]
        BY <1>0, <4>1, HalterQuiet
      <4>3. Announces'
        BY <1>0, <1>2, <2>0, <3>4, <4>2, AnnouncesBegin DEF AnnouncedParts
      <4> QED  BY <1>0, <3>4, <4>2, <4>3, PartsBegin
    <3> QED  BY <1>n, <3>5, <3>6
  <2> QED  BY <2>0, <2>1, <2>2, <2>3, <2>4 DEF Next
<1> QED  BY <1>5, <1>6

LEMMA InvAnnounces == NextInv => NothingUnannounced
<1> SUFFICES ASSUME NextInv, StepsAreAnnounced, NEW t \in Threads, NEW i \in Leaf,
                    Due(t, "work", i), status[i] = "NOT_FINISHED"
             PROVE  i \in announced[t]
  BY DEF NothingUnannounced
<1>1. ExclusiveInv /\ Announces /\ agenda[t] # << >> /\ agenda[t] \in Seq(AnyCall) /\ agenda[t][1] = <<"work", i>>
  BY DEF NextInv, RunInv, StartInv, ExclusiveInv, AnnouncedParts, Walks, Due
<1>2. 1 \in 1 .. Len(agenda[t])
  BY <1>1
<1>3. t \in Doers
  <2> SUFFICES ASSUME t = Halter  PROVE FALSE
    BY ThreadNames
  <2>1. Quiet(agenda[Halter][1])
    BY <1>1, <1>2 DEF ExclusiveInv, Walks
  <2> QED  BY <1>1, <2>1 DEF Quiet, Signals
<1>4. Executes(agenda[t][1]) /\ agenda[t][1][2] = i
  BY <1>1 DEF Executes
<1>5. StartsFrom(i) \subseteq announced[t]
  BY <1>1, <1>2, <1>3, <1>4 DEF Announces
<1>6. i \in StartsFrom(i)
  BY LeafStarts DEF ReadyForExecute
<1> QED  BY <1>5, <1>6

\* In trees of instructions that nothing resets or restarts within a tick, whoever halts or
\* resets them: no leaf begins or goes on that was not shown as next before the tick
\* (GetNextInstructionTree, and the breakpoints that the runner looks for there).
THEOREM NothingUnannouncedHolds == AnnouncedSpec => []NothingUnannounced
<1> QED  BY NextInit, NextStep, InvAnnounces, PTL DEF AnnouncedSpec
=============================================================================
