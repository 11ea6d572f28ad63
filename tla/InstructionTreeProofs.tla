------------------------- MODULE InstructionTreeProofs -------------------------
(***************************************************************************)
(* Proofs about InstructionTree, for any trees: the thresholds of          *)
(* ParallelSequence leave nothing undecided, its wrappers know their       *)
(* threads, no two threads are ever inside the same instruction, a halt of *)
(* the procedure reaches every leaf and lets no other begin, and a reset   *)
(* leaves nothing of the earlier run.                                      *)
(***************************************************************************)
EXTENDS InstructionTree, FiniteSetTheorems, SequenceLemmas

-----------------------------------------------------------------------------
(* Thresholds                                                                *)

Threshold == Nat \union {-1}

\* The thresholds are natural numbers whose sum does not exceed the number of
\* children by more than one (coreinstructions.rst:124).
LEMMA ThresholdSum ==
  ASSUME NEW n \in Nat, NEW s \in Threshold, NEW f \in Threshold
  PROVE  /\ SuccessAtMost(n, s, f) \in Nat
         /\ FailureAtMost(n, s, f) \in Nat
         /\ SuccessAtMost(n, s, f) + FailureAtMost(n, s, f) <= n + 1
BY DEF Threshold, SuccessAtMost, FailureAtMost, Min2

\* The children of an instruction are as many as the entries of its list.
LEMMA ChildCount ==
  ASSUME NEW i \in Instructions
  PROVE  IsFiniteSet(ChildSet(i)) /\ Cardinality(ChildSet(i)) = Len(Children[i])
<1> DEFINE n == Len(Children[i])
           nth == [k \in 1 .. n |-> Children[i][k]]
<1>1. Children[i] \in Seq(Instructions) /\ n \in Nat /\ DOMAIN Children[i] = 1 .. n
  BY TreeAssumption
<1>2. nth \in Bijection(1 .. n, ChildSet(i))
  <2>1. \A j, k \in 1 .. n : nth[j] = nth[k] => j = k
    BY <1>1, TreeAssumption
  <2>2. nth \in [1 .. n -> ChildSet(i)]
    BY <1>1 DEF ChildSet
  <2>3. \A c \in ChildSet(i) : \E k \in 1 .. n : nth[k] = c
    BY <1>1 DEF ChildSet
  <2> QED  BY <2>1, <2>2, <2>3 DEF Bijection, Injection, Surjection, IsInjective
<1>3. ExistsBijection(1 .. n, ChildSet(i))
  BY <1>2 DEF ExistsBijection
<1>4. IsFiniteSet(1 .. n) /\ Cardinality(1 .. n) = n
  BY <1>1, FS_Interval
<1> QED  BY <1>3, <1>4, FS_Bijection

\* A ParallelSequence all of whose wrappers report a verdict has one: the
\* verdict of CalculateCompoundStatus is never open then.
THEOREM AllReportedHasVerdict ==
  ASSUME NEW i \in Instructions,
         \A c \in ChildSet(i) : IsFinishedStatus(wrapper[c])
  PROVE  IsFinishedStatus(ThresholdVerdict(i))
<1> DEFINE n == Len(Children[i])
           won == {c \in ChildSet(i) : wrapper[c] = "SUCCESS"}
           lost == {c \in ChildSet(i) : wrapper[c] = "FAILURE"}
<1>1. IsFiniteSet(won) /\ IsFiniteSet(lost)
  BY ChildCount, FS_Subset
<1>2. Cardinality(won) \in Nat /\ Cardinality(lost) \in Nat
  BY <1>1, FS_CardinalityType
<1>3. Cardinality(won) + Cardinality(lost) = n
  <2>1. won \union lost = ChildSet(i) /\ won \intersect lost = {}
    BY DEF IsFinishedStatus
  <2>2. Cardinality(won \intersect lost) = 0
    BY <2>1, FS_EmptySet
  <2> HIDE DEF won, lost
  <2>3. Cardinality(won \union lost)
          = Cardinality(won) + Cardinality(lost) - Cardinality(won \intersect lost)
    BY <1>1, FS_Union
  <2>4. Cardinality(won \union lost) = n
    BY <2>1, ChildCount
  <2> QED  BY <1>2, <2>2, <2>3, <2>4
<1>4. /\ Enough(i) \in Nat /\ TooMany(i) \in Nat
      /\ Enough(i) + TooMany(i) <= n + 1
  <2>1. n \in Nat /\ SuccessTh[i] \in Threshold /\ FailureTh[i] \in Threshold
    BY TreeAssumption DEF Threshold
  <2> QED  BY <2>1, ThresholdSum DEF Enough, TooMany
<1>5. Reporting(i, "SUCCESS") = Cardinality(won) /\ Reporting(i, "FAILURE") = Cardinality(lost)
  BY DEF Reporting
<1>6. n \in Nat
  BY TreeAssumption
<1>7. Reporting(i, "SUCCESS") >= Enough(i) \/ Reporting(i, "FAILURE") >= TooMany(i)
  <2> HIDE DEF n, won, lost
  <2> QED  BY <1>2, <1>3, <1>4, <1>5, <1>6
<1> QED  BY <1>7 DEF ThresholdVerdict, IsFinishedStatus

-----------------------------------------------------------------------------
(* Wrappers and threads                                                      *)

\* Agendas and wrappers are kept for every thread and every instruction.
Tabled == /\ agenda = [t \in Threads |-> agenda[t]]
          /\ wrapper = [i \in Instructions |-> wrapper[i]]

WrapperInv == Tabled /\ WrapperKnowsThread

\* The workers are instructions, named apart from the two other threads.
LEMMA WorkerIsInstruction == Workers \subseteq Instructions /\ Workers \subseteq Threads
<1>1. ASSUME NEW i \in Instructions  PROVE ChildSet(i) \subseteq Instructions
  BY TreeAssumption DEF ChildSet
<1> QED  BY <1>1 DEF Workers, Wrapped, Threads

LEMMA WrapperInvInit == Init => WrapperInv
BY WorkerIsInstruction DEF Init, WrapperInv, Tabled, WrapperKnowsThread, Idle

\* A thread that is not idle and only replaces its own next call by others
\* leaves the invariant intact, as long as a wrapper changes for an idle worker
\* only.
LEMMA OwnAgenda ==
  ASSUME WrapperInv, NEW t \in Threads, NEW calls, ~Idle(t), Continue(t, calls),
         wrapper' = [i \in Instructions |-> wrapper'[i]],
         \A c \in Workers : Idle(c) \/ wrapper'[c] = wrapper[c]
  PROVE  WrapperInv'
<1>1. Tabled'
  BY DEF WrapperInv, Tabled, Continue, Replace
<1>2. ASSUME NEW c \in Workers, wrapper'[c] # "RUNNING"  PROVE agenda'[c] = << >>
  <2>1. c \in Threads
    BY WorkerIsInstruction
  <2>2. Idle(c)
    BY <1>2 DEF WrapperInv, WrapperKnowsThread
  <2>3. agenda'[c] = agenda[c]
    BY <2>1, <2>2 DEF WrapperInv, Tabled, Continue, Replace, Idle
  <2> QED  BY <2>2, <2>3 DEF Idle
<1> QED  BY <1>1, <1>2 DEF WrapperInv, WrapperKnowsThread, Idle

\* The calls that leave every wrapper alone.
LEMMA KeepsWrappers ==
  ASSUME WrapperInv, NEW t \in Threads, NEW calls, ~Idle(t), Continue(t, calls),
         UNCHANGED wrapper
  PROVE  WrapperInv'
BY OwnAgenda DEF WrapperInv, Tabled

LEMMA StepKeepsWrapperInv ==
  ASSUME WrapperInv, NEW t \in Threads, NEW i, Step(t, i) \/ Work(t, i)
  PROVE  WrapperInv'
<1>1. ASSUME NEW operation, Due(t, operation, i)  PROVE ~Idle(t)
  BY <1>1 DEF Due, Idle
<1>2. CASE SkipBody(t, i)
  BY <1>1, <1>2, KeepsWrappers DEF SkipBody
<1>3. CASE Body(t, i)
  BY <1>1, <1>3, KeepsWrappers DEF Body, Entered
<1>4. CASE Conclude(t, i)
  BY <1>1, <1>4, KeepsWrappers DEF Conclude
<1>5. CASE Halt(t, i)
  BY <1>1, <1>5, KeepsWrappers DEF Halt
<1>6. CASE DropFuture(t, i)
  BY <1>1, <1>6, KeepsWrappers DEF DropFuture
<1>7. CASE Reset(t, i)
  BY <1>1, <1>7, KeepsWrappers DEF Reset
<1>8. CASE React(t, i)
  BY <1>1, <1>8, KeepsWrappers DEF React
<1>9. CASE TickNothing(t, i)
  BY <1>1, <1>9, KeepsWrappers DEF TickNothing
<1>10. CASE Work(t, i)
  BY <1>1, <1>10, KeepsWrappers DEF Work, Return
<1>11. CASE SetStatus(t, i)
  BY <1>1, <1>11, KeepsWrappers DEF SetStatus, Return
<1>12. CASE ElementFails(t, i)
  BY <1>1, <1>12, KeepsWrappers DEF ElementFails, Entered, Return
<1>13. CASE ReturnRunning(t, i)
  BY <1>1, <1>13, KeepsWrappers DEF ReturnRunning, Return
<1>14. CASE ListenHalted(t, i)
  BY <1>1, <1>14, KeepsWrappers DEF ListenHalted, Return
<1>15. CASE CreateInstructionList(t, i)
  BY <1>1, <1>15, KeepsWrappers DEF CreateInstructionList, Return
<1>16. CASE NoAnswer(t, i)
  BY <1>1, <1>16, KeepsWrappers DEF NoAnswer, Return
<1>17. CASE Clear(t, i)
  BY <1>1, <1>17, KeepsWrappers DEF Clear, Return
<1>18. CASE Listen(t, i)
  BY <1>1, <1>18, KeepsWrappers DEF Listen
<1>19. CASE AskUser(t, i)
  BY <1>1, <1>19, KeepsWrappers DEF AskUser, Return
<1>20. CASE Preamble(t, i)
  <2>1. CASE UNCHANGED wrapper
    BY <1>1, <1>20, <2>1, KeepsWrappers DEF Preamble
  <2>2. CASE InitHook(i)
    <3>1. wrapper' = [c \in Instructions |-> IF c \in Wrapped(i) THEN "NOT_STARTED" ELSE wrapper[c]]
      BY <2>2 DEF InitHook
    <3>2. \A c \in Workers : Idle(c) \/ wrapper'[c] = wrapper[c]
      BY <2>2, <3>1, WorkerIsInstruction DEF InitHook, Idle
    <3> QED  BY <1>1, <1>20, <3>1, <3>2, OwnAgenda DEF Preamble
  <2> QED  BY <1>20, <2>1, <2>2 DEF Preamble
<1>21. CASE Join(t, i)
  <2>1. wrapper' = [c \in Instructions |-> IF c \in ChildSet(i) THEN "absent" ELSE wrapper[c]]
    BY <1>21 DEF Join
  <2>2. \A c \in Workers : Idle(c) \/ wrapper'[c] = wrapper[c]
    BY <1>21, <2>1, WorkerIsInstruction DEF Join, Idle
  <2> QED  BY <1>1, <1>21, <2>1, <2>2, OwnAgenda DEF Join
<1>22. CASE UpdateStatus(t, i)
  <2>1. wrapper' = [wrapper EXCEPT ![i] = status[i]] /\ Idle(i)
    BY <1>22 DEF UpdateStatus, Idle
  <2>2. wrapper' = [c \in Instructions |-> wrapper'[c]]
    BY <2>1 DEF WrapperInv, Tabled
  <2>3. \A c \in Workers : Idle(c) \/ wrapper'[c] = wrapper[c]
    BY <2>1, WorkerIsInstruction DEF WrapperInv, Tabled
  <2> QED  BY <1>1, <1>22, <2>2, <2>3, OwnAgenda DEF UpdateStatus
<1>23. CASE LaunchChild(t, i)
  <2>1. /\ wrapper' = [wrapper EXCEPT ![i] = "RUNNING"]
        /\ agenda' = [Replace(t, << >>) EXCEPT ![i] = Call("exec", i)]
        /\ ~Idle(t)
    BY <1>1, <1>23 DEF LaunchChild
  <2>2. Tabled'
    BY <2>1 DEF WrapperInv, Tabled, Replace
  <2>3. ASSUME NEW c \in Workers, wrapper'[c] # "RUNNING"  PROVE agenda'[c] = << >>
    <3>1. c \in Threads /\ c \in Instructions
      BY WorkerIsInstruction
    <3>2. c # i /\ wrapper'[c] = wrapper[c]
      BY <2>1, <2>3, <3>1 DEF WrapperInv, Tabled
    <3>3. Idle(c)
      BY <2>3, <3>2 DEF WrapperInv, WrapperKnowsThread
    <3> QED  BY <2>1, <3>1, <3>2, <3>3 DEF WrapperInv, Tabled, Replace, Idle
  <2> QED  BY <2>2, <2>3 DEF WrapperInv, WrapperKnowsThread, Idle
<1> QED  BY <1>2, <1>3, <1>4, <1>5, <1>6, <1>7, <1>8, <1>9, <1>10, <1>11, <1>12, <1>13, <1>14, <1>15, <1>16, <1>17, <1>18, <1>19, <1>20, <1>21, <1>22, <1>23 DEF Step

\* What the loop thread and the client begin concerns no worker.
LEMMA BeginKeepsWrapperInv ==
  ASSUME WrapperInv, BeginTick \/ BeginReset \/ BeginHalt
  PROVE  WrapperInv'
<1>1. PICK t \in {Ticker, Halter},
           calls \in {Call("exec", root), Call("reset", root), Call("halt", root)} :
        agenda' = [agenda EXCEPT ![t] = calls] /\ UNCHANGED wrapper
  BY DEF BeginTick, BeginReset, BeginHalt
<1>2. \A c \in Workers : agenda'[c] = agenda[c]
  BY <1>1, WorkerIsInstruction, TreeAssumption DEF WrapperInv, Tabled
<1> QED  BY <1>1, <1>2 DEF WrapperInv, Tabled, WrapperKnowsThread, Idle

LEMMA WrapperInvStep ==
  ASSUME WrapperInv, [Next]_vars  PROVE WrapperInv'
<1>1. CASE BeginTick \/ BeginReset \/ BeginHalt
  BY <1>1, BeginKeepsWrapperInv
<1>2. CASE \E t \in Threads : \E i \in Current(t) : Step(t, i) \/ Work(t, i)
  BY <1>2, StepKeepsWrapperInv
<1>3. CASE UNCHANGED vars
  BY <1>3 DEF vars, WrapperInv, Tabled, WrapperKnowsThread, Idle
<1> QED  BY <1>1, <1>2, <1>3 DEF Next

\* Whatever the tree: a wrapper that reports anything but RUNNING has no thread
\* (AsyncWrapper::Tick, the joins of InitHook and ResetHook).
THEOREM WrapperKnowsThreadHolds == Spec => []WrapperKnowsThread
<1>1. WrapperInv => WrapperKnowsThread
  BY DEF WrapperInv
<1> QED  BY <1>1, WrapperInvInit, WrapperInvStep, PTL DEF Spec

-----------------------------------------------------------------------------
(* Trees: what is below an instruction.                                      *)

Closed(S) == \A i \in S : ChildSet(i) \subseteq S

\* The least set that has z and, with every instruction, its children.
Below(z) == {y \in Instructions : \A S \in SUBSET Instructions : z \in S /\ Closed(S) => y \in S}

StrictlyBelow(z) == Below(z) \ {z}

LEMMA ChildrenAreInstructions ==
  ASSUME NEW i \in Instructions
  PROVE  /\ ChildSet(i) \subseteq Instructions
         /\ Children[i] \in Seq(Instructions)
         /\ \A k \in 1 .. Len(Children[i]) : Children[i][k] \in ChildSet(i)
BY TreeAssumption DEF ChildSet

LEMMA BelowLeast ==
  ASSUME NEW S \in SUBSET Instructions, NEW z \in S, Closed(S)
  PROVE  Below(z) \subseteq S
BY DEF Below

LEMMA BelowClosed ==
  ASSUME NEW z \in Instructions
  PROVE  /\ Below(z) \in SUBSET Instructions /\ z \in Below(z)
         /\ \A y \in Below(z) : ChildSet(y) \subseteq Below(z) /\ Below(y) \subseteq Below(z)
<1>1. Below(z) \in SUBSET Instructions /\ z \in Below(z)
  BY DEF Below
<1>2. Closed(Below(z))
  <2> SUFFICES ASSUME NEW y \in Below(z), NEW c \in ChildSet(y)  PROVE c \in Below(z)
    BY DEF Closed
  <2>1. c \in Instructions
    BY <1>1, ChildrenAreInstructions
  <2>2. ASSUME NEW S \in SUBSET Instructions, z \in S, Closed(S)  PROVE c \in S
    BY <2>2 DEF Below, Closed
  <2> QED  BY <2>1, <2>2 DEF Below
<1>3. \A y \in Below(z) : Below(y) \subseteq Below(z)
  BY <1>1, <1>2, BelowLeast
<1> QED  BY <1>1, <1>2, <1>3 DEF Closed

\* What is below z, but for z itself, has a parent there: it could be left out otherwise.
LEMMA ParentBelow ==
  ASSUME NEW z \in Instructions, NEW y \in StrictlyBelow(z)
  PROVE  \E p \in Below(z) : y \in ChildSet(p)
<1> SUFFICES ASSUME \A p \in Below(z) : y \notin ChildSet(p)  PROVE FALSE
  OBVIOUS
<1> DEFINE S == Below(z) \ {y}
<1>1. S \in SUBSET Instructions /\ z \in S
  BY BelowClosed DEF StrictlyBelow
<1>2. Closed(S)
  BY BelowClosed DEF Closed
<1>3. Below(z) \subseteq S
  BY <1>1, <1>2, BelowLeast
<1> QED  BY <1>3 DEF StrictlyBelow

\* A child is strictly below its parent, and its parent is not below it.
LEMMA ChildBelow ==
  ASSUME NEW i \in Instructions, NEW c \in ChildSet(i)
  PROVE  c \in Instructions /\ c \in StrictlyBelow(i) /\ i \notin Below(c)
<1>1. c \in Instructions
  BY ChildrenAreInstructions
<1> DEFINE S == Subtree[c] \intersect Instructions
<1>2. c \in S /\ Closed(S) /\ i \notin S
  <2>1. /\ c \in Subtree[c] /\ i \notin Subtree[c]
        /\ \A j \in Subtree[c] : ChildSet(j) \subseteq Subtree[c]
    BY <1>1, TreeAssumption
  <2> QED  BY <1>1, <2>1, ChildrenAreInstructions DEF Closed
<1>3. i \notin Below(c)
  BY <1>2, BelowLeast
<1>4. c \in Below(i) /\ c # i
  BY <1>1, <1>3, BelowClosed
<1> QED  BY <1>1, <1>3, <1>4 DEF StrictlyBelow

\* What is strictly below z is below a child of z.
LEMMA BelowChild ==
  ASSUME NEW z \in Instructions, NEW y \in StrictlyBelow(z)
  PROVE  \E c \in ChildSet(z) : y \in Below(c)
<1> DEFINE S == {z} \union {x \in Instructions : \E c \in ChildSet(z) : x \in Below(c)}
<1>1. Closed(S)
  <2> SUFFICES ASSUME NEW x \in S, NEW d \in ChildSet(x)  PROVE d \in S
    BY DEF Closed
  <2>1. x \in Instructions /\ d \in Instructions
    BY ChildrenAreInstructions
  <2>2. CASE x = z
    BY <2>1, <2>2, BelowClosed
  <2>3. CASE x # z
    <3> PICK c \in ChildSet(z) : x \in Below(c)
      BY <2>3
    <3>1. c \in Instructions
      BY ChildrenAreInstructions
    <3> QED  BY <2>1, <3>1, BelowClosed
  <2> QED  BY <2>2, <2>3
<1>2. S \in SUBSET Instructions /\ z \in S
  OBVIOUS
<1>3. y \in S /\ y # z
  BY <1>1, <1>2, BelowLeast DEF StrictlyBelow
<1> QED  BY <1>3

\* No two instructions are strictly below each other.
LEMMA BelowOneWay ==
  ASSUME NEW z \in Instructions, NEW y \in StrictlyBelow(z)
  PROVE  z \notin Below(y)
<1> PICK c \in ChildSet(z) : y \in Below(c)
  BY BelowChild
<1>1. c \in Instructions /\ z \notin Below(c)
  BY ChildBelow
<1> QED  BY <1>1, BelowClosed

\* In a tree no instruction has two parents, and the root has none.
LEMMA OneParent ==
  ASSUME NEW r \in Roots, NEW p \in Below(r), NEW q \in Below(r),
         NEW c \in ChildSet(p)
  PROVE  /\ c \in ChildSet(q) => p = q
         /\ c # r /\ c \in Below(r) /\ c \in Instructions /\ p \in Instructions
<1>1. r \in Instructions
  BY TreeAssumption
<1> DEFINE S == Subtree[r] \intersect Instructions
<1>2. Closed(S) /\ r \in S
  <2>1. r \in Subtree[r] /\ \A j \in Subtree[r] : ChildSet(j) \subseteq Subtree[r]
    BY <1>1, TreeAssumption
  <2> QED  BY <1>1, <2>1, ChildrenAreInstructions DEF Closed
<1>3. p \in Subtree[r] /\ q \in Subtree[r] /\ p \in Instructions
  BY <1>1, <1>2, BelowLeast, BelowClosed
<1>4. c \in ChildSet(q) => p = q
  BY <1>3, TreeAssumption
<1>5. c \in Below(r) /\ c \in Instructions /\ p \notin Below(c)
  BY <1>1, <1>3, BelowClosed, ChildBelow
<1> QED  BY <1>4, <1>5, <1>3

\* What a child is strictly below is its parent, or above that.
LEMMA AboveChild ==
  ASSUME NEW r \in Roots, NEW i \in Below(r), NEW c \in ChildSet(i), NEW z \in Below(r)
  PROVE  c \in StrictlyBelow(z) <=> z = i \/ i \in StrictlyBelow(z)
<1>1. r \in Instructions /\ Below(r) \subseteq Instructions /\ Below(z) \subseteq Below(r)
  BY TreeAssumption, BelowClosed
<1>2. ASSUME c \in StrictlyBelow(z)  PROVE i \in Below(z)
  <2> PICK p \in Below(z) : c \in ChildSet(p)
    BY <1>1, <1>2, ParentBelow
  <2> QED  BY <1>1, OneParent
<1>3. ASSUME i \in Below(z)  PROVE c \in StrictlyBelow(z)
  <2>1. c \in Below(z)
    BY <1>1, <1>3, BelowClosed
  <2>2. c # z
    BY <1>1, <1>3, ChildBelow
  <2> QED  BY <2>1, <2>2 DEF StrictlyBelow
<1>4. z = i => i \in Below(z)
  BY <1>1, BelowClosed
<1> QED  BY <1>2, <1>3, <1>4 DEF StrictlyBelow

\* Siblings are not below each other.
LEMMA SiblingsApart ==
  ASSUME NEW r \in Roots, NEW i \in Below(r), NEW c \in ChildSet(i), NEW d \in ChildSet(i)
  PROVE  d \notin StrictlyBelow(c)
<1>1. i \in Instructions /\ c \in Below(r)
  BY TreeAssumption, OneParent, BelowClosed
<1>2. c \in Instructions /\ i \notin Below(c)
  BY <1>1, ChildBelow
<1>3. c \in Below(c) /\ c # i
  BY <1>2, <1>1, BelowClosed, ChildBelow DEF StrictlyBelow
<1> QED  BY <1>1, <1>2, <1>3, AboveChild DEF StrictlyBelow

\* Of two instructions that have another one below both, one is below the other.
LEMMA OneLine ==
  ASSUME NEW r \in Roots, NEW a \in Below(r), NEW b \in Below(r),
         NEW y \in Below(a) \intersect Below(b)
  PROVE  a \in Below(b) \/ b \in Below(a)
<1> SUFFICES ASSUME a \notin Below(b), b \notin Below(a)  PROVE FALSE
  OBVIOUS
<1>1. r \in Instructions /\ a \in Instructions /\ b \in Instructions
      /\ Below(a) \subseteq Below(r) /\ Below(b) \subseteq Below(r)
  BY TreeAssumption, BelowClosed
<1> DEFINE S == Below(b) \ Below(a)
<1>2. S \in SUBSET Instructions /\ b \in S
  BY <1>1, BelowClosed
<1>3. Closed(S)
  <2> SUFFICES ASSUME NEW x \in S, NEW c \in ChildSet(x)  PROVE c \in S
    BY DEF Closed
  <2>1. x \in Below(r) /\ c \in Below(b)
    BY <1>1, BelowClosed
  <2>2. ASSUME c \in Below(a)  PROVE FALSE
    <3>1. c # a
      BY <2>1
    <3>2. c \in StrictlyBelow(a)
      BY <2>2, <3>1 DEF StrictlyBelow
    <3>3. x = a \/ x \in StrictlyBelow(a)
      BY <2>1, <3>2, AboveChild
    <3>4. x \in Below(a)
      BY <1>1, <3>3, BelowClosed DEF StrictlyBelow
    <3> QED  BY <3>4
  <2> QED  BY <2>1, <2>2
<1>4. Below(b) \subseteq S
  BY <1>2, <1>3, BelowLeast
<1> QED  BY <1>4

-----------------------------------------------------------------------------
(* What is said of an agenda e whose thread works on what is below b.        *)

Operations == {"exec", "body", "work", "choose", "listen", "tick", "react", "return", "running",
               "conclude", "reset", "join", "clear", "halt", "drop"}
AnyCall == Operations \X Instructions

\* Signals come from above and do not need the instruction for themselves; a call of
\* Holding ends what the thread does with an instruction.
Signals == {"halt", "drop"}
Holding == {"return", "running", "conclude", "clear", "react"}
Quiet(call) == call[1] \in Signals

Shaped(call) ==
  LET i == call[2]
  IN /\ call[1] = "react" => Kind[Parent[i]] \in Reactive /\ i \in ChildSet(Parent[i])
     /\ call[1] = "listen" => Kind[i] = "Listen" /\ i \notin Leaf

\* Whoever is inside an instruction is inside everything between b and it, until it
\* is done with it.
Held(b, e) ==
  \A k \in 1 .. Len(e) : ~Quiet(e[k]) =>
    /\ Owner(e[k]) \in Below(b)
    /\ \A z \in Below(b) : Owner(e[k]) \in StrictlyBelow(z) =>
         \E m \in k + 1 .. Len(e) : e[m][1] \in Holding /\ Owner(e[m]) = z

\* A child that is to be launched is not entered by its parent's thread.
Ticks(b, e) ==
  \A k \in 1 .. Len(e) : e[k][1] = "tick" =>
    /\ \E p \in Below(b) : Kind[p] \in Threaded /\ e[k][2] \in ChildSet(p)
    /\ \A m \in k + 1 .. Len(e) : ~Quiet(e[m]) => Owner(e[m]) # e[k][2]

\* A walk does not go down again before it is called to.
Ascending(e) ==
  \A k \in 1 .. Len(e) : e[k][1] \notin Signals \union {"join"} =>
    \A m \in k + 1 .. Len(e) : ~Quiet(e[m]) => Owner(e[m]) \notin StrictlyBelow(Owner(e[k]))

\* A child with a thread is reset when that has ended: it rests, or is joined before.
Joined(b, e, Resting) ==
  \A k \in 1 .. Len(e) : e[k][1] = "reset" =>
    \A p \in Below(b) : Kind[p] \in Threaded /\ e[k][2] \in ChildSet(p) =>
      e[k][2] \in Resting \/ \E m \in 1 .. k - 1 : e[m] = <<"join", p>>

Proper(b, e, Resting) ==
  /\ \A k \in 1 .. Len(e) : Shaped(e[k])
  /\ Held(b, e) /\ Ticks(b, e) /\ Ascending(e) /\ Joined(b, e, Resting)

\* The instructions that the thread of agenda e is inside of.
Inside(e) == {Owner(e[k]) : k \in {j \in 1 .. Len(e) :
                /\ e[j][1] \notin {"halt", "drop", "tick"}
                /\ e[j][1] = "reset" => j = 1}}

\* The calls that a thread with instruction i may make in place of one about i:
\* about i, or about children while it holds i.  It enters a child that has a thread
\* of its own only to reset it, after a join.
FitsAt(i, joined, calls, k) ==
  LET op == calls[k][1]
      x  == Owner(calls[k])
  IN /\ Shaped(calls[k])
     /\ op \notin Signals =>
          /\ x \in {i} \union ChildSet(i)
          /\ x = i => /\ op \notin {"reset", "tick"}
                      /\ op # "join" => \A m \in k + 1 .. Len(calls) :
                                          ~Quiet(calls[m]) => Owner(calls[m]) = i
          /\ x # i => /\ \E m \in k + 1 .. Len(calls) : calls[m][1] \in Holding /\ Owner(calls[m]) = i
                      /\ op = "tick" =>
                           /\ Kind[i] \in Threaded
                           /\ \A m \in k + 1 .. Len(calls) : ~Quiet(calls[m]) => Owner(calls[m]) # x
                      /\ op = "reset" => \/ joined \/ Kind[i] \notin Threaded
                                         \/ \E m \in 1 .. k - 1 : calls[m] = <<"join", i>>
                      /\ op \notin {"reset", "tick"} => Kind[i] \notin Threaded

Fits(i, joined, calls) == /\ calls \in Seq(AnyCall)
                          /\ \A k \in 1 .. Len(calls) : FitsAt(i, joined, calls, k)

\* Which of them may take the place of a call.
Replaces(call, i, calls) ==
  /\ Fits(i, FALSE, calls)
  /\ \/ \A k \in 1 .. Len(calls) : Quiet(calls[k])
     \/ call[1] \notin Signals \union {"tick", "join"} /\ Owner(call) = i

\* The threads that a call waits for.
Ended(call, Resting) ==
  \A p \in Instructions : call = <<"join", p>> /\ Kind[p] \in Threaded => ChildSet(p) \subseteq Resting

\* The agenda e after that, and where the calls are in it.
Turns(e, i, calls, f) ==
  /\ e \in Seq(AnyCall) /\ e # << >> /\ Replaces(e[1], i, calls)
  /\ f = calls \o Tail(e)

Spliced(e, calls, f) ==
  /\ Len(calls) \in Nat /\ Len(e) \in Nat \ {0} /\ Len(f) = Len(calls) + Len(e) - 1
  /\ \A k \in 1 .. Len(f) :
       \/ k \in 1 .. Len(calls) /\ f[k] = calls[k]
       \/ \E j \in 2 .. Len(e) : k = Len(calls) + j - 1 /\ f[k] = e[j]
  /\ \A k \in 1 .. Len(calls) : k \in 1 .. Len(f) /\ f[k] = calls[k]
  /\ \A k \in 2 .. Len(e) : Len(calls) + k - 1 \in 1 .. Len(f) /\ f[Len(calls) + k - 1] = e[k]

LEMMA Places ==
  ASSUME NEW e \in Seq(AnyCall), e # << >>, NEW calls \in Seq(AnyCall),
         NEW f, f = calls \o Tail(e)
  PROVE  f \in Seq(AnyCall) /\ Spliced(e, calls, f)
<1>1. /\ f \in Seq(AnyCall) /\ Len(f) = Len(calls) + Len(e) - 1
      /\ \A k \in 1 .. Len(calls) : f[k] = calls[k]
      /\ \A k \in 2 .. Len(e) : f[Len(calls) + k - 1] = e[k]
  BY FirstReplaced
<1>2. Len(calls) \in Nat /\ Len(e) \in Nat \ {0}
  OBVIOUS
<1>3. ASSUME NEW k \in 1 .. Len(f), k > Len(calls)
      PROVE  \E j \in 2 .. Len(e) : k = Len(calls) + j - 1 /\ f[k] = e[j]
  <2>1. /\ k - Len(calls) + 1 \in 2 .. Len(e)
        /\ Len(calls) + (k - Len(calls) + 1) - 1 = k
    BY <1>1, <1>2, <1>3
  <2> QED  BY <1>1, <2>1
<1> QED  BY <1>1, <1>2, <1>3 DEF Spliced

LEMMA PushKeepsHeld ==
  ASSUME NEW r \in Roots, NEW b \in Below(r), NEW i, NEW e, NEW calls, NEW f,
         Turns(e, i, calls, f), Held(b, e)
  PROVE  Held(b, f)
<1> USE DEF Turns
<1> DEFINE n == Len(calls)
<1>1. Spliced(e, calls, f)
  <2>1. calls \in Seq(AnyCall)
    BY DEF Replaces, Fits
  <2> QED  BY <2>1, Places
<1>2. /\ n \in Nat /\ Len(e) \in Nat \ {0} /\ Len(f) = n + Len(e) - 1
      /\ \A k \in 1 .. Len(f) :
           \/ k \in 1 .. n /\ f[k] = calls[k]
           \/ \E j \in 2 .. Len(e) : k = n + j - 1 /\ f[k] = e[j]
      /\ \A k \in 1 .. n : k \in 1 .. Len(f) /\ f[k] = calls[k]
      /\ \A k \in 2 .. Len(e) : n + k - 1 \in 1 .. Len(f) /\ f[n + k - 1] = e[k]
  BY <1>1 DEF Spliced
<1>3. Below(b) \subseteq Below(r) /\ Below(r) \subseteq Instructions /\ b \in Instructions
  BY TreeAssumption, BelowClosed
<1> HIDE DEF n
<1> SUFFICES ASSUME NEW k \in 1 .. Len(f), ~Quiet(f[k])
             PROVE  /\ Owner(f[k]) \in Below(b)
                    /\ \A z \in Below(b) : Owner(f[k]) \in StrictlyBelow(z) =>
                         \E m \in k + 1 .. Len(f) : f[m][1] \in Holding /\ Owner(f[m]) = z
  BY DEF Held
<1>4. CASE k \in 1 .. n
  <2>1. f[k] = calls[k] /\ ~Quiet(calls[k])
    BY <1>2, <1>4
  <2>2. /\ ~Quiet(e[1]) /\ Owner(e[1]) = i
        /\ Owner(calls[k]) \in {i} \union ChildSet(i)
        /\ Owner(calls[k]) # i => \E m \in k + 1 .. n : calls[m][1] \in Holding /\ Owner(calls[m]) = i
    BY <1>4, <2>1 DEF Replaces, Fits, FitsAt, Quiet, n
  <2>3. /\ i \in Below(b)
        /\ \A z \in Below(b) : i \in StrictlyBelow(z) =>
             \E m \in 2 .. Len(e) : e[m][1] \in Holding /\ Owner(e[m]) = z
    <3>1. 1 \in 1 .. Len(e) /\ 1 + 1 = 2
      BY <1>2
    <3> QED  BY <2>2, <3>1 DEF Held
  <2>4. ASSUME NEW z \in Below(b), i \in StrictlyBelow(z)
        PROVE  \E m \in k + 1 .. Len(f) : f[m][1] \in Holding /\ Owner(f[m]) = z
    <3> PICK m \in 2 .. Len(e) : e[m][1] \in Holding /\ Owner(e[m]) = z
      BY <2>3, <2>4
    <3>1. n + m - 1 \in k + 1 .. Len(f) /\ f[n + m - 1] = e[m]
      BY <1>2, <1>4
    <3> QED  BY <3>1
  <2>5. CASE Owner(calls[k]) = i
    BY <2>1, <2>3, <2>4, <2>5
  <2>6. CASE Owner(calls[k]) # i
    <3>1. Owner(calls[k]) \in ChildSet(i) /\ i \in Below(r)
      BY <1>3, <2>2, <2>3, <2>6
    <3>2. Owner(calls[k]) \in Below(b)
      BY <1>3, <2>3, <3>1, BelowClosed
    <3>3. ASSUME NEW z \in Below(b), Owner(calls[k]) \in StrictlyBelow(z)
          PROVE  z = i \/ i \in StrictlyBelow(z)
      BY <1>3, <3>1, <3>3, AboveChild
    <3>4. \E m \in k + 1 .. Len(f) : f[m][1] \in Holding /\ Owner(f[m]) = i
      <4> PICK m \in k + 1 .. n : calls[m][1] \in Holding /\ Owner(calls[m]) = i
        BY <2>2, <2>6
      <4>1. m \in 1 .. n /\ m \in k + 1 .. Len(f)
        BY <1>2, <1>4
      <4> QED  BY <1>2, <4>1
    <3> QED  BY <2>1, <2>4, <3>2, <3>3, <3>4
  <2> QED  BY <2>5, <2>6
<1>5. ASSUME NEW j \in 2 .. Len(e), k = n + j - 1, f[k] = e[j]
      PROVE  /\ Owner(f[k]) \in Below(b)
             /\ \A z \in Below(b) : Owner(f[k]) \in StrictlyBelow(z) =>
                  \E m \in k + 1 .. Len(f) : f[m][1] \in Holding /\ Owner(f[m]) = z
  <2>0. j \in 1 .. Len(e) /\ ~Quiet(e[j])
    BY <1>2, <1>5, SMTT(40)
  <2>1. /\ Owner(e[j]) \in Below(b)
        /\ \A z \in Below(b) : Owner(e[j]) \in StrictlyBelow(z) =>
             \E m \in j + 1 .. Len(e) : e[m][1] \in Holding /\ Owner(e[m]) = z
    BY <2>0 DEF Held
  <2>2. ASSUME NEW m \in j + 1 .. Len(e)
        PROVE  n + m - 1 \in k + 1 .. Len(f) /\ f[n + m - 1] = e[m]
    BY <1>2, <1>5
  <2>3. ASSUME NEW z \in Below(b), Owner(e[j]) \in StrictlyBelow(z)
        PROVE  \E m \in k + 1 .. Len(f) : f[m][1] \in Holding /\ Owner(f[m]) = z
    <3> PICK m \in j + 1 .. Len(e) : e[m][1] \in Holding /\ Owner(e[m]) = z
      BY <2>1, <2>3
    <3> QED  BY <2>2
  <2> QED  BY <1>5, <2>1, <2>3
<1> QED  BY <1>2, <1>4, <1>5

LEMMA PushKeepsTicks ==
  ASSUME NEW r \in Roots, NEW b \in Below(r), NEW i, NEW e, NEW calls, NEW f,
         Turns(e, i, calls, f), Held(b, e), Ticks(b, e), Ascending(e)
  PROVE  Ticks(b, f)
<1> USE DEF Turns
<1> DEFINE n == Len(calls)
<1>1. Spliced(e, calls, f)
  <2>1. calls \in Seq(AnyCall)
    BY DEF Replaces, Fits
  <2> QED  BY <2>1, Places
<1>2. /\ n \in Nat /\ Len(e) \in Nat \ {0} /\ Len(f) = n + Len(e) - 1
      /\ \A k \in 1 .. Len(f) :
           \/ k \in 1 .. n /\ f[k] = calls[k]
           \/ \E j \in 2 .. Len(e) : k = n + j - 1 /\ f[k] = e[j]
      /\ \A k \in 1 .. n : k \in 1 .. Len(f) /\ f[k] = calls[k]
      /\ \A k \in 2 .. Len(e) : n + k - 1 \in 1 .. Len(f) /\ f[n + k - 1] = e[k]
  BY <1>1 DEF Spliced
<1>3. Below(b) \subseteq Below(r) /\ Below(r) \subseteq Instructions /\ b \in Instructions
  BY TreeAssumption, BelowClosed
<1> HIDE DEF n
<1> SUFFICES ASSUME NEW k \in 1 .. Len(f), f[k][1] = "tick"
             PROVE  /\ \E p \in Below(b) : Kind[p] \in Threaded /\ f[k][2] \in ChildSet(p)
                    /\ \A m \in k + 1 .. Len(f) : ~Quiet(f[m]) => Owner(f[m]) # f[k][2]
  BY DEF Ticks
<1>4. CASE k \in 1 .. n
  <2>1. f[k] = calls[k] /\ calls[k][1] = "tick" /\ ~Quiet(calls[k]) /\ Owner(calls[k]) = calls[k][2]
    BY <1>2, <1>4 DEF Quiet, Signals, Owner
  <2>2. /\ e[1][1] \notin Signals \union {"tick", "join"} /\ Owner(e[1]) = i
        /\ calls[k][2] \in ChildSet(i) /\ Kind[i] \in Threaded
        /\ \A m \in k + 1 .. n : ~Quiet(calls[m]) => Owner(calls[m]) # calls[k][2]
    BY <1>4, <2>1 DEF Replaces, Fits, FitsAt, Quiet, n
  <2>3. /\ i \in Below(b)
        /\ \A m \in 2 .. Len(e) : ~Quiet(e[m]) => Owner(e[m]) \notin StrictlyBelow(i)
    <3>1. 1 \in 1 .. Len(e) /\ 1 + 1 = 2
      BY <1>2
    <3> QED  BY <2>2, <3>1 DEF Held, Ascending, Quiet
  <2>4. calls[k][2] \in StrictlyBelow(i)
    BY <1>3, <2>2, <2>3, ChildBelow
  <2>5. ASSUME NEW m \in k + 1 .. Len(f), ~Quiet(f[m])  PROVE Owner(f[m]) # calls[k][2]
    <3>0. m \in 1 .. Len(f)
      BY <1>2, <1>4
    <3>1. CASE m \in 1 .. n
      <4>1. m \in k + 1 .. n /\ f[m] = calls[m]
        BY <1>2, <1>4, <3>1
      <4> QED  BY <2>2, <2>5, <4>1
    <3>2. ASSUME NEW j \in 2 .. Len(e), f[m] = e[j]  PROVE Owner(f[m]) # calls[k][2]
      BY <2>3, <2>4, <2>5, <3>2
    <3> QED  BY <1>2, <3>0, <3>1, <3>2
  <2> QED  BY <2>1, <2>2, <2>3, <2>5
<1>5. ASSUME NEW j \in 2 .. Len(e), k = n + j - 1, f[k] = e[j]
      PROVE  /\ \E p \in Below(b) : Kind[p] \in Threaded /\ f[k][2] \in ChildSet(p)
             /\ \A m \in k + 1 .. Len(f) : ~Quiet(f[m]) => Owner(f[m]) # f[k][2]
  <2>0. j \in 1 .. Len(e) /\ e[j][1] = "tick"
    <3>1. j \in 1 .. Len(e)
      BY <1>2
    <3> QED  BY <1>5, <3>1
  <2>1. /\ \E p \in Below(b) : Kind[p] \in Threaded /\ e[j][2] \in ChildSet(p)
        /\ \A m \in j + 1 .. Len(e) : ~Quiet(e[m]) => Owner(e[m]) # e[j][2]
    BY <2>0 DEF Ticks
  <2>2. ASSUME NEW m \in k + 1 .. Len(f)
        PROVE  \E l \in j + 1 .. Len(e) : f[m] = e[l]
    <3>1. m \in 1 .. Len(f) /\ m \notin 1 .. n
      BY <1>2, <1>5
    <3> PICK l \in 2 .. Len(e) : m = n + l - 1 /\ f[m] = e[l]
      BY <1>2, <3>1
    <3>2. l \in j + 1 .. Len(e)
      BY <1>2, <1>5
    <3> QED  BY <3>2
  <2> QED  BY <1>5, <2>1, <2>2
<1> QED  BY <1>2, <1>4, <1>5

LEMMA PushKeepsAscending ==
  ASSUME NEW r \in Roots, NEW b \in Below(r), NEW i, NEW e, NEW calls, NEW f,
         Turns(e, i, calls, f), Held(b, e), Ascending(e)
  PROVE  Ascending(f)
<1> USE DEF Turns
<1> DEFINE n == Len(calls)
<1>1. Spliced(e, calls, f)
  <2>1. calls \in Seq(AnyCall)
    BY DEF Replaces, Fits
  <2> QED  BY <2>1, Places
<1>2. /\ n \in Nat /\ Len(e) \in Nat \ {0} /\ Len(f) = n + Len(e) - 1
      /\ \A k \in 1 .. Len(f) :
           \/ k \in 1 .. n /\ f[k] = calls[k]
           \/ \E j \in 2 .. Len(e) : k = n + j - 1 /\ f[k] = e[j]
      /\ \A k \in 1 .. n : k \in 1 .. Len(f) /\ f[k] = calls[k]
      /\ \A k \in 2 .. Len(e) : n + k - 1 \in 1 .. Len(f) /\ f[n + k - 1] = e[k]
  BY <1>1 DEF Spliced
<1>3. Below(b) \subseteq Below(r) /\ Below(r) \subseteq Instructions /\ b \in Instructions
  BY TreeAssumption, BelowClosed
<1>4. ASSUME NEW k \in 1 .. n, calls[k][1] \notin Signals
      PROVE  /\ i \in Below(r) /\ i \in Instructions
             /\ Owner(calls[k]) \in {i} \union ChildSet(i)
             /\ StrictlyBelow(Owner(calls[k])) \subseteq StrictlyBelow(i)
             /\ \A m \in 2 .. Len(e) : ~Quiet(e[m]) => Owner(e[m]) \notin StrictlyBelow(i)
  <2>1. /\ e[1][1] \notin Signals \union {"tick", "join"} /\ Owner(e[1]) = i
        /\ Owner(calls[k]) \in {i} \union ChildSet(i)
    BY <1>4 DEF Replaces, Fits, FitsAt, Quiet, n
  <2>2. /\ i \in Below(b)
        /\ \A m \in 2 .. Len(e) : ~Quiet(e[m]) => Owner(e[m]) \notin StrictlyBelow(i)
    <3>1. 1 \in 1 .. Len(e) /\ 1 + 1 = 2
      BY <1>2
    <3> QED  BY <2>1, <3>1 DEF Held, Ascending, Quiet
  <2>3. i \in Below(r) /\ i \in Instructions
    BY <1>3, <2>2
  <2>4. ASSUME NEW c \in ChildSet(i)  PROVE StrictlyBelow(c) \subseteq StrictlyBelow(i)
    <3>1. c \in Below(i) /\ i \notin Below(c)
      BY <2>3, ChildBelow DEF StrictlyBelow
    <3>2. Below(c) \subseteq Below(i)
      BY <2>3, <3>1, BelowClosed
    <3> QED  BY <3>1, <3>2 DEF StrictlyBelow
  <2> QED  BY <2>1, <2>2, <2>3, <2>4
<1>5. ASSUME NEW k \in 1 .. n, calls[k][1] \notin Signals \union {"join"},
             NEW m \in k + 1 .. n, ~Quiet(calls[m])
      PROVE  Owner(calls[m]) \notin StrictlyBelow(Owner(calls[k]))
  <2>1. m \in 1 .. n
    BY <1>2
  <2>2. /\ i \in Below(r) /\ i \in Instructions
        /\ Owner(calls[k]) \in {i} \union ChildSet(i) /\ Owner(calls[m]) \in {i} \union ChildSet(i)
    BY <1>4, <1>5, <2>1 DEF Quiet
  <2>3. Owner(calls[k]) = i => Owner(calls[m]) = i
    BY <1>5 DEF Replaces, Fits, FitsAt, Quiet, n
  <2>4. CASE Owner(calls[m]) = i
    <3>1. i \notin StrictlyBelow(i) /\ \A c \in ChildSet(i) : i \notin StrictlyBelow(c)
      BY <2>2, ChildBelow DEF StrictlyBelow
    <3> QED  BY <2>2, <2>4, <3>1
  <2>5. CASE Owner(calls[m]) # i
    <3>1. Owner(calls[k]) \in ChildSet(i) /\ Owner(calls[m]) \in ChildSet(i)
      BY <2>2, <2>3, <2>5
    <3> QED  BY <2>2, <3>1, SiblingsApart
  <2> QED  BY <2>4, <2>5
<1> HIDE DEF n
<1> SUFFICES ASSUME NEW k \in 1 .. Len(f), f[k][1] \notin Signals \union {"join"},
                    NEW m \in k + 1 .. Len(f), ~Quiet(f[m])
             PROVE  Owner(f[m]) \notin StrictlyBelow(Owner(f[k]))
  BY DEF Ascending
<1>6. m \in 1 .. Len(f) /\ m > k
  BY <1>2
<1>7. CASE k \in 1 .. n /\ m \in 1 .. n
  <2>1. f[k] = calls[k] /\ f[m] = calls[m] /\ m \in k + 1 .. n
    BY <1>2, <1>6, <1>7
  <2> QED  BY <1>5, <1>7, <2>1
<1>8. ASSUME k \in 1 .. n, NEW j \in 2 .. Len(e), f[m] = e[j]
      PROVE  Owner(f[m]) \notin StrictlyBelow(Owner(f[k]))
  <2>1. f[k] = calls[k]
    BY <1>2, <1>8
  <2> QED  BY <1>4, <1>8, <2>1
<1>9. ASSUME NEW h \in 2 .. Len(e), k = n + h - 1, f[k] = e[h]
      PROVE  Owner(f[m]) \notin StrictlyBelow(Owner(f[k]))
  <2>1. m \notin 1 .. n
    BY <1>2, <1>6, <1>9, SMTT(40)
  <2> PICK j \in 2 .. Len(e) : m = n + j - 1 /\ f[m] = e[j]
    BY <1>2, <1>6, <2>1
  <2>2. h \in 1 .. Len(e) /\ j \in h + 1 .. Len(e)
    BY <1>2, <1>6, <1>9
  <2>3. e[h][1] \notin Signals \union {"join"} /\ ~Quiet(e[j])
    BY <1>9
  <2>4. Owner(e[j]) \notin StrictlyBelow(Owner(e[h]))
    BY <2>2, <2>3 DEF Ascending
  <2> QED  BY <1>9, <2>4
<1> QED  BY <1>2, <1>6, <1>7, <1>8, <1>9, ZenonT(60)

\* The resets that are left still wait for threads that have ended, when the thread
\* has passed a join.
LEMMA PushKeepsJoined ==
  ASSUME NEW r \in Roots, NEW b \in Below(r), NEW i, NEW e, NEW calls, NEW f,
         Turns(e, i, calls, f), Held(b, e),
         NEW Resting, NEW Rested, Resting \subseteq Rested, Joined(b, e, Resting),
         Ended(e[1], Rested)
  PROVE  Joined(b, f, Rested)
<1> USE DEF Turns
<1> DEFINE n == Len(calls)
<1>1. Spliced(e, calls, f)
  <2>1. calls \in Seq(AnyCall)
    BY DEF Replaces, Fits
  <2> QED  BY <2>1, Places
<1>2. /\ n \in Nat /\ Len(e) \in Nat \ {0} /\ Len(f) = n + Len(e) - 1
      /\ \A k \in 1 .. Len(f) :
           \/ k \in 1 .. n /\ f[k] = calls[k]
           \/ \E j \in 2 .. Len(e) : k = n + j - 1 /\ f[k] = e[j]
      /\ \A k \in 1 .. n : k \in 1 .. Len(f) /\ f[k] = calls[k]
      /\ \A k \in 2 .. Len(e) : n + k - 1 \in 1 .. Len(f) /\ f[n + k - 1] = e[k]
  BY <1>1 DEF Spliced
<1>3. Below(b) \subseteq Below(r) /\ Below(r) \subseteq Instructions /\ b \in Instructions
  BY TreeAssumption, BelowClosed
<1> SUFFICES ASSUME NEW k \in 1 .. Len(f), f[k][1] = "reset",
                    NEW p \in Below(b), Kind[p] \in Threaded, f[k][2] \in ChildSet(p)
             PROVE  f[k][2] \in Rested \/ \E m \in 1 .. k - 1 : f[m] = <<"join", p>>
  BY DEF Joined
<1>4. CASE k \in 1 .. n
  <2>1. f[k] = calls[k] /\ calls[k][1] = "reset" /\ ~Quiet(calls[k]) /\ Owner(calls[k]) = calls[k][2]
    BY <1>2, <1>4 DEF Quiet, Signals, Owner
  <2>2. /\ ~Quiet(e[1]) /\ Owner(e[1]) = i
        /\ calls[k][2] \in ChildSet(i)
        /\ Kind[i] \notin Threaded \/ \E m \in 1 .. k - 1 : calls[m] = <<"join", i>>
    BY <1>4, <2>1 DEF Replaces, Fits, FitsAt, Quiet
  <2>3. i \in Below(b)
    <3>1. 1 \in 1 .. Len(e)
      BY <1>2
    <3> QED  BY <2>2, <3>1 DEF Held
  <2>4. p = i
    BY <1>3, <2>1, <2>2, <2>3, OneParent
  <2> PICK m \in 1 .. k - 1 : calls[m] = <<"join", i>>
    BY <2>2, <2>4
  <2>5. m \in 1 .. n
    BY <1>2, <1>4
  <2>6. f[m] = <<"join", p>>
    BY <1>2, <2>4, <2>5
  <2> QED  BY <2>6
<1>5. ASSUME NEW j \in 2 .. Len(e), k = n + j - 1, f[k] = e[j]
      PROVE  f[k][2] \in Rested \/ \E m \in 1 .. k - 1 : f[m] = <<"join", p>>
  <2>1. j \in 1 .. Len(e) /\ e[j][1] = "reset" /\ e[j][2] \in ChildSet(p)
    BY <1>2, <1>5
  <2>2. e[j][2] \in Resting \/ \E m \in 1 .. j - 1 : e[m] = <<"join", p>>
    BY <2>1 DEF Joined
  <2>3. ASSUME NEW m \in 1 .. j - 1, e[m] = <<"join", p>>
        PROVE  f[k][2] \in Rested \/ \E l \in 1 .. k - 1 : f[l] = <<"join", p>>
    <3>1. CASE m = 1
      BY <1>3, <1>5, <2>1, <2>3, <3>1 DEF Ended
    <3>2. CASE m # 1
      <4>1. m \in 2 .. Len(e) /\ n + m - 1 \in 1 .. k - 1
        BY <1>2, <1>5, <3>2
      <4>2. f[n + m - 1] = <<"join", p>>
        BY <1>2, <2>3, <4>1
      <4> QED  BY <4>1, <4>2
    <3> QED  BY <3>1, <3>2
  <2> QED  BY <1>5, <2>2, <2>3
<1> QED  BY <1>2, <1>4, <1>5

LEMMA PushKeepsProper ==
  ASSUME NEW r \in Roots, NEW b \in Below(r), NEW i, NEW e, NEW calls, NEW f,
         Turns(e, i, calls, f),
         NEW Resting, NEW Rested, Resting \subseteq Rested, Proper(b, e, Resting),
         Ended(e[1], Rested)
  PROVE  f \in Seq(AnyCall) /\ Proper(b, f, Rested)
<1>1. calls \in Seq(AnyCall) /\ \A k \in 1 .. Len(calls) : Shaped(calls[k])
  BY DEF Turns, Replaces, Fits, FitsAt
<1>2. f \in Seq(AnyCall) /\ Spliced(e, calls, f)
  BY <1>1, Places DEF Turns
<1>3. Held(b, e) /\ Ticks(b, e) /\ Ascending(e) /\ Joined(b, e, Resting)
      /\ \A k \in 1 .. Len(e) : Shaped(e[k])
  BY DEF Proper
<1>4. Held(b, f) /\ Ticks(b, f) /\ Ascending(f) /\ Joined(b, f, Rested)
  BY <1>3, PushKeepsHeld, PushKeepsTicks, PushKeepsAscending, PushKeepsJoined
<1>5. ASSUME NEW k \in 1 .. Len(f)  PROVE Shaped(f[k])
  <2>1. \/ k \in 1 .. Len(calls) /\ f[k] = calls[k]
        \/ \E j \in 2 .. Len(e) : f[k] = e[j]
    BY <1>2 DEF Spliced
  <2>2. \A j \in 2 .. Len(e) : j \in 1 .. Len(e)
    BY <1>2 DEF Spliced
  <2> QED  BY <1>1, <1>3, <2>1, <2>2
<1> QED  BY <1>2, <1>4, <1>5 DEF Proper

\* What a thread comes to be inside of is a child that it enters, or one that it resets.
LEMMA PushInside ==
  ASSUME NEW r \in Roots, NEW b \in Below(r), NEW i, NEW e, NEW calls, NEW f,
         Turns(e, i, calls, f), Held(b, e), NEW x \in Inside(f)
  PROVE  \/ x \in Inside(e)
         \/ i \in Below(b) /\ x \in ChildSet(i) /\ Kind[i] \notin Threaded
         \/ 1 \in 1 .. Len(f) /\ f[1][1] = "reset" /\ f[1][2] = x
<1> USE DEF Turns
<1>1. f \in Seq(AnyCall) /\ Spliced(e, calls, f)
  <2>1. calls \in Seq(AnyCall)
    BY DEF Replaces, Fits
  <2> QED  BY <2>1, Places
<1> PICK k \in 1 .. Len(f) : /\ x = Owner(f[k]) /\ f[k][1] \notin {"halt", "drop", "tick"}
                             /\ f[k][1] = "reset" => k = 1
  BY DEF Inside
<1>2. CASE f[k][1] = "reset"
  BY <1>2 DEF Owner
<1>3. CASE k \in 1 .. Len(calls) /\ f[k][1] # "reset"
  <2>1. f[k] = calls[k] /\ ~Quiet(calls[k])
    BY <1>1, <1>3 DEF Spliced, Quiet, Signals
  <2>2. /\ e[1][1] \notin Signals \union {"tick", "join"} /\ Owner(e[1]) = i
        /\ x \in {i} \union ChildSet(i)
        /\ x # i => Kind[i] \notin Threaded
    BY <1>3, <2>1 DEF Replaces, Fits, FitsAt, Quiet
  <2>3. i \in Below(b) /\ i \in Inside(e)
    <3>1. 1 \in 1 .. Len(e)
      BY <1>1 DEF Spliced
    <3>2. i \in Below(b)
      BY <2>2, <3>1 DEF Held, Quiet
    <3> QED  BY <2>2, <3>1, <3>2 DEF Inside, Signals
  <2> QED  BY <2>2, <2>3
<1>4. ASSUME NEW j \in 2 .. Len(e), f[k] = e[j], f[k][1] # "reset"
      PROVE  x \in Inside(e)
  <2>1. j \in 1 .. Len(e)
    BY <1>1 DEF Spliced
  <2> QED  BY <1>4, <2>1 DEF Inside
<1> QED  BY <1>1, <1>2, <1>3, <1>4 DEF Spliced

-----------------------------------------------------------------------------
(* The calls that the instructions make.                                     *)

\* Signals fit anywhere.
LEMMA FitsQuiet ==
  ASSUME NEW i, NEW joined, NEW calls \in Seq(AnyCall), \A k \in 1 .. Len(calls) : Quiet(calls[k])
  PROVE  Fits(i, joined, calls)
BY DEF Fits, FitsAt, Quiet, Signals, Shaped

\* A call about the instruction itself.
LEMMA FitsOwn ==
  ASSUME NEW i \in Instructions, NEW joined,
         NEW op \in {"body", "work", "choose", "listen", "return", "running", "conclude", "clear"},
         op = "listen" => Kind[i] = "Listen" /\ i \notin Leaf
  PROVE  Fits(i, joined, Call(op, i))
<1> DEFINE f == Call(op, i)
<1>1. f \in Seq(AnyCall) /\ Len(f) = 1 /\ f[1] = <<op, i>>
  BY DEF Call, AnyCall, Operations
<1> HIDE DEF f
<1>2. FitsAt(i, joined, f, 1)
  BY <1>1 DEF FitsAt, Shaped, Owner
<1> QED  BY <1>1, <1>2 DEF Fits, f

\* The same for each of some children, and then a call that ends the instruction.
LEMMA FitsEach ==
  ASSUME NEW i \in Instructions, NEW joined, NEW op \in {"exec", "reset", "tick"},
         NEW s \in Seq(ChildSet(i)), NEW last \in AnyCall,
         Shaped(last), last[1] \in Holding, Owner(last) = i,
         op = "exec" => Kind[i] \notin Threaded,
         op = "reset" => joined \/ Kind[i] \notin Threaded,
         op = "tick" => /\ Kind[i] \in Threaded
                        /\ \A j, k \in 1 .. Len(s) : s[j] = s[k] => j = k
  PROVE  Fits(i, joined, ForEach(op, s) \o <<last>>)
<1> DEFINE each == ForEach(op, s)
           f == each \o <<last>>
           n == Len(s)
<1>0. ChildSet(i) \subseteq Instructions /\ i \notin ChildSet(i) /\ op \in Operations
  BY ChildrenAreInstructions, ChildBelow DEF StrictlyBelow, Operations
<1>1. /\ each \in Seq(AnyCall) /\ Len(each) = n /\ n \in Nat
      /\ \A k \in 1 .. n : each[k] = <<op, s[k]>> /\ s[k] \in ChildSet(i)
  <2>1. n \in Nat /\ DOMAIN s = 1 .. n /\ \A k \in 1 .. n : s[k] \in ChildSet(i)
    OBVIOUS
  <2>2. each = [k \in 1 .. n |-> <<op, s[k]>>]
    BY <2>1 DEF ForEach
  <2>3. \A k \in 1 .. n : <<op, s[k]>> \in AnyCall
    BY <1>0, <2>1 DEF AnyCall
  <2> HIDE DEF each, n
  <2> QED  BY <2>1, <2>2, <2>3
<1> HIDE DEF each
<1>2. /\ f \in Seq(AnyCall) /\ Len(f) = n + 1 /\ f[n + 1] = last
      /\ \A k \in 1 .. n : f[k] = each[k]
  <2>1. <<last>> \in Seq(AnyCall) /\ Len(<<last>>) = 1 /\ <<last>>[1] = last
    OBVIOUS
  <2> QED  BY <1>1, <2>1, ConcatProperties
<1> HIDE DEF f, n
<1>3. \A k \in 1 .. n : f[k] = <<op, s[k]>> /\ s[k] \in ChildSet(i) /\ f[k][1] = op /\ Owner(f[k]) = s[k]
  BY <1>1, <1>2 DEF Owner
<1>4. ASSUME NEW k \in 1 .. n  PROVE FitsAt(i, joined, f, k)
  <2>1. f[k] = <<op, s[k]>> /\ s[k] \in ChildSet(i) /\ s[k] # i /\ Owner(f[k]) = s[k]
    BY <1>0, <1>3, <1>4
  <2>2. n + 1 \in k + 1 .. Len(f) /\ f[n + 1][1] \in Holding /\ Owner(f[n + 1]) = i
    BY <1>1, <1>2, <1>4
  <2>3. ASSUME op = "tick", NEW m \in k + 1 .. Len(f)  PROVE Owner(f[m]) # s[k]
    <3>1. CASE m = n + 1
      BY <1>2, <2>1, <3>1
    <3>2. CASE m \in 1 .. n
      <4>1. m # k
        BY <1>1
      <4>2. s[m] # s[k]
        BY <1>4, <2>3, <3>2, <4>1 DEF n
      <4> QED  BY <1>3, <3>2, <4>2
    <3>3. m \in 1 .. n + 1
      BY <1>1, <1>2
    <3> QED  BY <1>1, <3>1, <3>2, <3>3
  <2>4. Shaped(f[k])
    BY <2>1 DEF Shaped
  <2> QED  BY <2>1, <2>2, <2>3, <2>4 DEF FitsAt
<1>5. FitsAt(i, joined, f, n + 1)
  <2>1. last[1] \notin {"reset", "tick"}
    BY DEF Holding
  <2>2. \A m \in (n + 1) + 1 .. Len(f) : FALSE
    BY <1>1, <1>2
  <2> QED  BY <1>2, <2>1, <2>2 DEF FitsAt
<1>6. \A k \in 1 .. Len(f) : k \in 1 .. n \/ k = n + 1
  BY <1>1, <1>2
<1> QED  BY <1>2, <1>4, <1>5, <1>6 DEF Fits, f, each

\* One more call in front.
LEMMA FitsBehind ==
  ASSUME NEW i \in Instructions, NEW joined \in BOOLEAN, NEW before \in BOOLEAN, NEW calls, Fits(i, joined, calls),
         NEW op \in Operations, NEW x \in Instructions,
         \/ op = "halt" /\ joined = before
         \/ op = "join" /\ x = i /\ joined
         \/ /\ op \in {"reset", "exec"} /\ x \in ChildSet(i) /\ Kind[i] \notin Threaded /\ joined = before
            /\ \E m \in 1 .. Len(calls) : calls[m][1] \in Holding /\ Owner(calls[m]) = i
  PROVE  Fits(i, before, Call(op, x) \o calls)
<1> DEFINE f == Call(op, x) \o calls
<1>0. ChildSet(i) \subseteq Instructions /\ i \notin ChildSet(i)
  BY ChildrenAreInstructions, ChildBelow DEF StrictlyBelow
<1>1. /\ calls \in Seq(AnyCall) /\ Call(op, x) \in Seq(AnyCall) /\ Len(Call(op, x)) = 1
      /\ Call(op, x)[1] = <<op, x>>
  BY DEF Fits, Call, AnyCall
<1>2. /\ f \in Seq(AnyCall) /\ Len(f) = Len(calls) + 1 /\ Len(calls) \in Nat
      /\ f[1] = <<op, x>> /\ Owner(f[1]) = x
      /\ \A k \in 1 .. Len(calls) : f[k + 1] = calls[k]
  <2> DEFINE first == Call(op, x)
  <2>1. first \in Seq(AnyCall) /\ Len(first) = 1 /\ first[1] = <<op, x>>
    BY <1>1
  <2> HIDE DEF first
  <2>2. /\ first \o calls \in Seq(AnyCall) /\ Len(first \o calls) = Len(first) + Len(calls)
        /\ \A k \in 1 .. Len(first) + Len(calls) :
             (first \o calls)[k] = IF k <= Len(first) THEN first[k] ELSE calls[k - Len(first)]
    BY <1>1, <2>1, ConcatProperties
  <2>3. Len(calls) \in Nat
    BY <1>1
  <2>4. f = first \o calls
    BY DEF first
  <2>5. \A k \in 1 .. Len(calls) : /\ k + 1 \in 1 .. Len(first) + Len(calls) /\ ~(k + 1 <= Len(first))
                                   /\ (k + 1) - Len(first) = k
    BY <2>1, <2>3
  <2>6. 1 \in 1 .. Len(first) + Len(calls) /\ 1 <= Len(first)
    BY <2>1, <2>3
  <2>7. f[1] = <<op, x>>
    BY <2>1, <2>2, <2>4, <2>6
  <2>8. op # "react"
    OBVIOUS
  <2> HIDE DEF f
  <2> QED  BY <2>1, <2>2, <2>3, <2>4, <2>5, <2>7, <2>8 DEF Owner
<1> HIDE DEF f
<1>3. ASSUME NEW k \in 1 .. Len(f)  PROVE k = 1 \/ \E j \in 1 .. Len(calls) : k = j + 1
  <2>1. k = 1 \/ (k - 1 \in 1 .. Len(calls) /\ k = (k - 1) + 1)
    BY <1>2
  <2> QED  BY <2>1
<1>4. FitsAt(i, before, f, 1)
  <2>1. CASE op = "halt"
    BY <1>2, <2>1 DEF FitsAt, Shaped, Signals
  <2>2. CASE op = "join"
    BY <1>2, <2>2 DEF FitsAt, Shaped
  <2>3. CASE op \in {"reset", "exec"} /\ x \in ChildSet(i) /\ Kind[i] \notin Threaded
    <3> PICK m \in 1 .. Len(calls) : calls[m][1] \in Holding /\ Owner(calls[m]) = i
      BY <2>3
    <3>1. m + 1 \in 1 + 1 .. Len(f) /\ f[m + 1] = calls[m]
      BY <1>2
    <3>2. x # i
      BY <1>0, <2>3
    <3> QED  BY <1>2, <2>3, <3>1, <3>2 DEF FitsAt, Shaped
  <2> QED  BY <2>1, <2>2, <2>3
<1>5. ASSUME NEW j \in 1 .. Len(calls)  PROVE FitsAt(i, before, f, j + 1)
  <2>1. FitsAt(i, joined, calls, j) /\ f[j + 1] = calls[j]
    BY <1>2 DEF Fits
  <2>2. ASSUME NEW m \in (j + 1) + 1 .. Len(f)  PROVE \E l \in j + 1 .. Len(calls) : f[m] = calls[l]
    <3>1. m - 1 \in j + 1 .. Len(calls) /\ m - 1 \in 1 .. Len(calls) /\ m = (m - 1) + 1
      BY <1>2
    <3> QED  BY <1>2, <3>1
  <2>3. ASSUME NEW l \in j + 1 .. Len(calls)  PROVE l + 1 \in (j + 1) + 1 .. Len(f) /\ f[l + 1] = calls[l]
    BY <1>2
  <2>4. joined \/ (\E m \in 1 .. j - 1 : calls[m] = <<"join", i>>)
          => before \/ \E m \in 1 .. (j + 1) - 1 : f[m] = <<"join", i>>
    <3>1. ASSUME NEW m \in 1 .. j - 1, calls[m] = <<"join", i>>
          PROVE  \E l \in 1 .. (j + 1) - 1 : f[l] = <<"join", i>>
      <4>1. m + 1 \in 1 .. (j + 1) - 1 /\ f[m + 1] = calls[m]
        BY <1>2
      <4> QED  BY <3>1, <4>1
    <3>2. CASE op = "join"
      <4>1. 1 \in 1 .. (j + 1) - 1 /\ f[1] = <<"join", i>>
        BY <1>2, <3>2
      <4> QED  BY <4>1
    <3> QED  BY <3>1, <3>2
  <2>5. CASE calls[j][1] \in Signals
    BY <2>1, <2>5 DEF FitsAt
  <2>6. CASE calls[j][1] \notin Signals /\ Owner(calls[j]) = i
    <3>1. calls[j][1] # "join" =>
            \A m \in (j + 1) + 1 .. Len(f) : ~Quiet(f[m]) => Owner(f[m]) = i
      BY <2>1, <2>2, <2>6 DEF FitsAt
    <3>2. Shaped(f[j + 1]) /\ calls[j][1] \notin {"reset", "tick"}
      BY <2>1, <2>6 DEF FitsAt
    <3> QED  BY <2>1, <2>6, <3>1, <3>2 DEF FitsAt
  <2>7. CASE calls[j][1] \notin Signals /\ Owner(calls[j]) # i
    <3>1. \E m \in (j + 1) + 1 .. Len(f) : f[m][1] \in Holding /\ Owner(f[m]) = i
      <4> PICK l \in j + 1 .. Len(calls) : calls[l][1] \in Holding /\ Owner(calls[l]) = i
        BY <2>1, <2>7 DEF FitsAt
      <4> QED  BY <2>3
    <3>2. calls[j][1] = "tick" =>
            /\ Kind[i] \in Threaded
            /\ \A m \in (j + 1) + 1 .. Len(f) : ~Quiet(f[m]) => Owner(f[m]) # Owner(calls[j])
      BY <2>1, <2>2, <2>7 DEF FitsAt
    <3>3. calls[j][1] = "reset" => \/ before \/ Kind[i] \notin Threaded
                                  \/ \E m \in 1 .. (j + 1) - 1 : f[m] = <<"join", i>>
      BY <2>1, <2>4, <2>7 DEF FitsAt
    <3>4. /\ Shaped(f[j + 1]) /\ Owner(f[j + 1]) \in {i} \union ChildSet(i)
          /\ calls[j][1] \notin {"reset", "tick"} => Kind[i] \notin Threaded
      BY <2>1, <2>7 DEF FitsAt
    <3> QED  BY <2>1, <2>7, <3>1, <3>2, <3>3, <3>4 DEF FitsAt
  <2> QED  BY <2>5, <2>6, <2>7
<1>6. \A k \in 1 .. Len(f) : FitsAt(i, before, f, k)
  BY <1>3, <1>4, <1>5
<1> QED  BY <1>2, <1>6 DEF Fits, f

LEMMA ChildIsChild ==
  ASSUME NEW i \in Instructions, i \notin Leaf
  PROVE  Child(i) \in ChildSet(i) /\ Child(i) \in Instructions
<1>1. Children[i] \in Seq(Instructions) /\ Children[i] # << >>
  BY ChildrenAreInstructions DEF Leaf
<1>2. 1 \in 1 .. Len(Children[i])
  BY <1>1
<1> QED  BY <1>2, ChildrenAreInstructions DEF Child

\* The call about one child, and the end of the instruction.
LEMMA FitsChild ==
  ASSUME NEW i \in Instructions, i \notin Leaf, Kind[i] \notin Threaded, NEW joined \in BOOLEAN
  PROVE  /\ Fits(i, joined, ChildCalls(i))
         /\ \E m \in 1 .. Len(ChildCalls(i)) : ChildCalls(i)[m][1] \in Holding /\ Owner(ChildCalls(i)[m]) = i
<1>1. Child(i) \in ChildSet(i) /\ Child(i) \in Instructions
  BY ChildIsChild
<1>2. Fits(i, joined, Call("return", i))
  BY FitsOwn
<1>3. /\ 1 \in 1 .. Len(Call("return", i))
      /\ Call("return", i)[1][1] \in Holding /\ Owner(Call("return", i)[1]) = i
  BY DEF Call, Holding, Owner
<1>4. \E m \in 1 .. Len(Call("return", i)) :
        Call("return", i)[m][1] \in Holding /\ Owner(Call("return", i)[m]) = i
  BY <1>3
<1>5. Fits(i, joined, ChildCalls(i))
  BY <1>1, <1>2, <1>4, FitsBehind DEF ChildCalls, Operations
<1>6. ChildCalls(i) = << <<"exec", Child(i)>>, <<"return", i>> >>
  BY OneConcat DEF ChildCalls, Call
<1>7. /\ 2 \in 1 .. Len(ChildCalls(i)) /\ ChildCalls(i)[2] = <<"return", i>>
  BY <1>6
<1>8. ChildCalls(i)[2][1] \in Holding /\ Owner(ChildCalls(i)[2]) = i
  BY <1>7 DEF Holding, Owner
<1> QED  BY <1>5, <1>7, <1>8

LEMMA FirstUnfinishedIsOne ==
  ASSUME NEW S, NEW s \in Seq(S)
  PROVE  FirstUnfinished(s) = << >> \/ \E c \in S : FirstUnfinished(s) = <<c>>
<1> DEFINE open == {k \in DOMAIN s : NeedsExecute(status[s[k]])}
<1>1. DOMAIN s = 1 .. Len(s) /\ Len(s) \in Nat /\ \A k \in 1 .. Len(s) : s[k] \in S
  OBVIOUS
<1>2. CASE open = {}
  BY <1>2 DEF FirstUnfinished
<1>3. CASE open # {}
  <2>1. open \in SUBSET Nat
    BY <1>1
  <2>2. \E k \in open : \A j \in open : k <= j
    <3> HIDE DEF open
    <3> QED  BY <1>3, <2>1, LeastNumber
  <2>3. FirstIn(open) \in open
    <3> HIDE DEF open
    <3> QED  BY <2>2 DEF FirstIn
  <2>4. s[FirstIn(open)] \in S
    BY <1>1, <2>3
  <2>5. FirstUnfinished(s) = <<s[FirstIn(open)]>>
    BY <1>3 DEF FirstUnfinished
  <2> QED  BY <2>4, <2>5
<1> QED  BY <1>2, <1>3

\* ForEach with no or one instruction.
LEMMA ForEachOne ==
  ASSUME NEW op, NEW c
  PROVE  ForEach(op, << >>) = << >> /\ ForEach(op, <<c>>) = Call(op, c)
<1>1. ForEach(op, << >>) = << >>
  <2>1. DOMAIN << >> = {}
    OBVIOUS
  <2> QED  BY <2>1 DEF ForEach
<1>2. DOMAIN <<c>> = {1} /\ <<c>>[1] = c
  OBVIOUS
<1>3. ForEach(op, <<c>>) = [k \in {1} |-> <<op, c>>]
  BY <1>2 DEF ForEach
<1>4. [k \in {1} |-> <<op, c>>] = <<<<op, c>>>>
  OBVIOUS
<1> QED  BY <1>1, <1>3, <1>4 DEF Call

LEMMA FitsSequential ==
  ASSUME NEW i \in Instructions, Kind[i] \notin Threaded, NEW joined \in BOOLEAN, NEW s \in Seq(ChildSet(i))
  PROVE  /\ Fits(i, joined, SequentialCalls(i, s))
         /\ Fits(i, joined, ForEach("exec", s) \o Call("return", i))
<1>1. <<"return", i>> \in AnyCall /\ Shaped(<<"return", i>>) /\ <<"return", i>>[1] \in Holding
      /\ Owner(<<"return", i>>) = i
  BY DEF AnyCall, Operations, Shaped, Holding, Owner
<1>2. FirstUnfinished(s) \in Seq(ChildSet(i))
  <2>1. << >> \in Seq(ChildSet(i)) /\ \A c \in ChildSet(i) : <<c>> \in Seq(ChildSet(i))
    OBVIOUS
  <2> QED  BY <2>1, FirstUnfinishedIsOne
<1>3. ASSUME NEW u \in Seq(ChildSet(i))  PROVE Fits(i, joined, ForEach("exec", u) \o Call("return", i))
  BY <1>1, FitsEach DEF Call
<1> QED  BY <1>2, <1>3 DEF SequentialCalls

LEMMA FitsReactive ==
  ASSUME NEW i \in Instructions, Kind[i] \in Reactive, NEW joined \in BOOLEAN
  PROVE  Fits(i, joined, ReactiveCalls(i))
<1>1. Children[i] \in Seq(ChildSet(i)) /\ ChildSet(i) \subseteq Instructions
  <2>1. Children[i] \in Seq(Instructions) /\ \A k \in 1 .. Len(Children[i]) : Children[i][k] \in ChildSet(i)
    BY ChildrenAreInstructions
  <2> QED  BY <2>1, ChildrenAreInstructions
<1>2. Kind[i] \notin Threaded
  BY DEF Threaded, Reactive
<1>3. CASE FirstUnfinished(Children[i]) = << >>
  BY <1>3, FitsOwn DEF ReactiveCalls
<1>4. ASSUME NEW c \in ChildSet(i), FirstUnfinished(Children[i]) = <<c>>
      PROVE  Fits(i, joined, ReactiveCalls(i))
  <2>1. Parent[c] = i
    BY TreeAssumption
  <2>2. /\ <<"react", c>> \in AnyCall /\ <<"react", c>>[1] \in Holding
        /\ Shaped(<<"react", c>>) /\ Owner(<<"react", c>>) = i
    BY <1>1, <2>1 DEF AnyCall, Operations, Shaped, Holding, Owner
  <2>3. <<c>> \in Seq(ChildSet(i)) /\ <<c>> # << >>
    OBVIOUS
  <2>4. Fits(i, joined, ForEach("exec", <<c>>) \o <<<<"react", c>>>>)
    BY <1>2, <2>2, <2>3, FitsEach
  <2>5. ReactiveCalls(i) = ForEach("exec", <<c>>) \o ForEach("react", <<c>>)
    BY <1>4, <2>3 DEF ReactiveCalls
  <2>6. ForEach("react", <<c>>) = <<<<"react", c>>>>
    BY ForEachOne DEF Call
  <2> QED  BY <2>4, <2>5, <2>6
<1> QED  BY <1>1, <1>3, <1>4, FirstUnfinishedIsOne

\* The Choice and UserChoice instructions select children of theirs.
Selections ==
  /\ selected = [i \in Instructions |-> selected[i]]
  /\ \A i \in Instructions :
       selected[i] = << >> \/ \E s \in Seq(ChildSet(i)) : selected[i] = <<s>>

\* Whatever an instruction begins to do, it may do.
LEMMA FitsBody ==
  ASSUME Selections, NEW i \in Instructions
  PROVE  Fits(i, FALSE, BodyCalls(i))
<1>0. /\ Children[i] \in Seq(ChildSet(i)) /\ ChildSet(i) \subseteq Instructions
      /\ \A j, k \in 1 .. Len(Children[i]) : Children[i][j] = Children[i][k] => j = k
  <2>1. Children[i] \in Seq(Instructions) /\ \A k \in 1 .. Len(Children[i]) : Children[i][k] \in ChildSet(i)
    BY ChildrenAreInstructions
  <2>2. Children[i] \in Seq(ChildSet(i)) /\ DOMAIN Children[i] = 1 .. Len(Children[i])
    BY <2>1
  <2> QED  BY <2>2, ChildrenAreInstructions, TreeAssumption
<1>1. Fits(i, FALSE, Call("work", i)) /\ Fits(i, FALSE, Call("choose", i)) /\ Fits(i, FALSE, Call("return", i))
  BY FitsOwn
<1>2. i \in Leaf \/ Kind[i] \in Compounds
  BY TreeAssumption
<1>3. CASE i \in Leaf
  BY <1>1, <1>3 DEF BodyCalls
<1> SUFFICES ASSUME i \notin Leaf, Kind[i] \in Compounds  PROVE Fits(i, FALSE, BodyCalls(i))
  BY <1>2, <1>3
<1>4. CASE Kind[i] \in {"Sequence", "Fallback"}
  <2>1. BodyCalls(i) = SequentialCalls(i, Children[i]) /\ Kind[i] \notin Threaded
    BY <1>4 DEF BodyCalls, Reactive, Threaded, Counting
  <2> QED  BY <1>0, <2>1, FitsSequential
<1>5. CASE Kind[i] \in Reactive
  <2>1. BodyCalls(i) = ReactiveCalls(i)
    BY <1>5 DEF BodyCalls, Reactive, Threaded, Counting
  <2> QED  BY <1>5, <2>1, FitsReactive
<1>6. CASE Kind[i] = "Choice"
  <2>1. BodyCalls(i) = ChoiceCalls(i) /\ Kind[i] \notin Threaded
    BY <1>6 DEF BodyCalls, Reactive, Threaded, Counting
  <2>2. CASE selected[i] = << >>
    BY <1>1, <2>1, <2>2 DEF ChoiceCalls
  <2>3. ASSUME NEW s \in Seq(ChildSet(i)), selected[i] = <<s>>  PROVE Fits(i, FALSE, BodyCalls(i))
    <3>1. <<s>> # << >> /\ <<s>>[1] = s
      OBVIOUS
    <3> QED  BY <2>1, <2>3, <3>1, FitsSequential DEF ChoiceCalls
  <2> QED  BY <2>2, <2>3 DEF Selections
<1>7. CASE Kind[i] = "UserChoice"
  <2>1. BodyCalls(i) = Call("choose", i)
    BY <1>7 DEF BodyCalls, Reactive, Threaded, Counting
  <2> QED  BY <1>1, <2>1
<1>8. CASE Kind[i] \in Threaded
  <2>1. \A h \in {"conclude", "return"} : /\ <<h, i>> \in AnyCall /\ Shaped(<<h, i>>)
                                          /\ <<h, i>>[1] \in Holding /\ Owner(<<h, i>>) = i
    BY DEF AnyCall, Operations, Shaped, Holding, Owner
  <2>2. ASSUME NEW s \in Seq(ChildSet(i)), NEW h \in {"conclude", "return"},
               \A j, k \in 1 .. Len(s) : s[j] = s[k] => j = k
        PROVE  Fits(i, FALSE, ForEach("tick", s) \o Call(h, i))
    BY <1>8, <2>1, <2>2, FitsEach DEF Call
  <2>3. CASE Kind[i] = "ParallelSequence"
    <3>1. BodyCalls(i) = ParallelCalls(i)
      BY <2>3 DEF BodyCalls, Reactive, Threaded, Counting
    <3> QED  BY <1>0, <2>2, <3>1 DEF ParallelCalls
  <2>4. CASE Kind[i] = "Async"
    <3>1. BodyCalls(i) = AsyncCalls(i)
      BY <2>4 DEF BodyCalls, Reactive, Threaded, Counting
    <3>2. <<Child(i)>> \in Seq(ChildSet(i)) /\ \A j, k \in 1 .. Len(<<Child(i)>>) : j = k
      BY ChildIsChild
    <3>3. AsyncCalls(i) = ForEach("tick", <<Child(i)>>) \o Call("return", i)
      BY ForEachOne DEF AsyncCalls
    <3> QED  BY <2>2, <3>1, <3>2, <3>3
  <2> QED  BY <1>8, <2>3, <2>4 DEF Threaded
<1>9. CASE Kind[i] \in Counting
  <2>1. BodyCalls(i) = CountingCalls(i) /\ Kind[i] \notin Threaded
    BY <1>9 DEF BodyCalls, Reactive, Threaded, Counting
  <2>2. Fits(i, FALSE, ChildCalls(i)) /\ Fits(i, FALSE, Call("reset", Child(i)) \o ChildCalls(i))
    BY <2>1, FitsChild, ChildIsChild, FitsBehind DEF Operations
  <2> QED  BY <1>1, <2>1, <2>2 DEF CountingCalls
<1>10. CASE Kind[i] = "Listen"
  <2>1. BodyCalls(i) = Call("listen", i)
    BY <1>10 DEF BodyCalls, Reactive, Threaded, Counting
  <2> QED  BY <1>10, <2>1, FitsOwn
<1>11. CASE Kind[i] \in {"Inverter", "ForceSuccess", "Include"}
  <2>1. BodyCalls(i) = ChildCalls(i) /\ Kind[i] \notin Threaded
    BY <1>11 DEF BodyCalls, Reactive, Threaded, Counting
  <2> QED  BY <2>1, FitsChild
<1> QED  BY <1>4, <1>5, <1>6, <1>7, <1>8, <1>9, <1>10, <1>11 DEF Compounds

LEMMA FitsReact ==
  ASSUME NEW c \in Instructions, Kind[Parent[c]] \in Reactive, c \in ChildSet(Parent[c]),
         Parent[c] \in Instructions
  PROVE  /\ Fits(Parent[c], FALSE, ResetOtherChildren(Parent[c], c) \o Call("running", Parent[c]))
         /\ Fits(Parent[c], FALSE, Call("return", Parent[c]))
<1> DEFINE p == Parent[c]
           all == Children[p]
           at == CHOOSE k \in DOMAIN all : all[k] = c
           s == SubSeq(all, 1, at - 1) \o SubSeq(all, at + 1, Len(all))
<1> HIDE DEF p
<1>1. p \in Instructions /\ Kind[p] \notin Threaded
  BY DEF p, Reactive, Threaded
<1>2. s \in Seq(ChildSet(p))
  <2>1. all \in Seq(ChildSet(p)) /\ c \in ChildSet(p)
    <3>1. all \in Seq(Instructions) /\ \A k \in 1 .. Len(all) : all[k] \in ChildSet(p)
      BY <1>1, ChildrenAreInstructions
    <3> QED  BY <3>1 DEF p
  <2>2. \E k \in DOMAIN all : all[k] = c
    BY <2>1 DEF ChildSet
  <2>3. at \in 1 .. Len(all) /\ Len(all) \in Nat
    <3>1. at \in DOMAIN all
      BY <2>2
    <3> QED  BY <2>1, <3>1
  <2> HIDE DEF all, at
  <2>4. SubSeq(all, 1, at - 1) \in Seq(ChildSet(p)) /\ SubSeq(all, at + 1, Len(all)) \in Seq(ChildSet(p))
    BY <2>1, <2>3
  <2> QED  BY <2>4, ConcatProperties
<1>3. ResetOtherChildren(p, c) = ForEach("reset", s)
  BY DEF ResetOtherChildren
<1>4. /\ <<"running", p>> \in AnyCall /\ Shaped(<<"running", p>>) /\ <<"running", p>>[1] \in Holding
      /\ Owner(<<"running", p>>) = p
  BY <1>1 DEF AnyCall, Operations, Shaped, Holding, Owner
<1> HIDE DEF s
<1>5. Fits(p, FALSE, ForEach("reset", s) \o Call("running", p))
  BY <1>1, <1>2, <1>4, FitsEach DEF Call
<1>6. Fits(p, FALSE, Call("return", p))
  BY <1>1, FitsOwn
<1> QED  BY <1>3, <1>5, <1>6 DEF p

LEMMA FitsListen ==
  ASSUME NEW i \in Instructions, Kind[i] = "Listen", i \notin Leaf,
         NEW again \in {ChildCalls(i), Call("running", i)}
  PROVE  /\ Fits(i, FALSE, again)
         /\ Fits(i, FALSE, Call("reset", Child(i)) \o again)
         /\ Fits(i, FALSE, << >> \o again)
<1>1. Kind[i] \notin Threaded
  BY DEF Threaded
<1>2. /\ Fits(i, FALSE, again)
      /\ \E m \in 1 .. Len(again) : again[m][1] \in Holding /\ Owner(again[m]) = i
  <2>1. Fits(i, FALSE, Call("running", i))
    BY FitsOwn
  <2>2. /\ 1 \in 1 .. Len(Call("running", i))
        /\ Call("running", i)[1][1] \in Holding /\ Owner(Call("running", i)[1]) = i
    BY DEF Call, Holding, Owner
  <2> QED  BY <1>1, <2>1, <2>2, FitsChild
<1>3. Fits(i, FALSE, Call("reset", Child(i)) \o again)
  BY <1>1, <1>2, ChildIsChild, FitsBehind DEF Operations
<1>4. << >> \o again = again
  <2>1. again \in Seq(AnyCall)
    BY <1>2 DEF Fits
  <2> QED  BY <2>1
<1> QED  BY <1>2, <1>3, <1>4

LEMMA FitsConclude ==
  ASSUME NEW i \in Instructions
  PROVE  /\ Fits(i, FALSE, Call("halt", i) \o Call("return", i))
         /\ Fits(i, FALSE, << >> \o Call("return", i))
<1>1. Fits(i, FALSE, Call("return", i))
  BY FitsOwn
<1>2. << >> \o Call("return", i) = Call("return", i)
  <2>1. Call("return", i) \in Seq(AnyCall)
    BY <1>1 DEF Fits
  <2> QED  BY <2>1
<1> QED  BY <1>1, <1>2, FitsBehind DEF Operations

\* A halt sends signals on, and nothing else.
LEMMA HaltIsQuiet ==
  ASSUME NEW i \in Instructions
  PROVE  HaltCalls(i) \in Seq(AnyCall) /\ \A k \in 1 .. Len(HaltCalls(i)) : Quiet(HaltCalls(i)[k])
<1>1. CASE Kind[i] = "UserChoice"
  BY <1>1 DEF HaltCalls, Call, Quiet, Signals, AnyCall, Operations
<1>2. CASE Kind[i] # "UserChoice"
  <2> DEFINE s == Children[i]
  <2>1. s \in Seq(Instructions) /\ Len(s) \in Nat /\ DOMAIN s = 1 .. Len(s)
    BY ChildrenAreInstructions
  <2>2. \A k \in 1 .. Len(s) : s[k] \in Instructions
    BY <2>1
  <2> HIDE DEF s
  <2>3. ForEach("halt", s) = [k \in 1 .. Len(s) |-> <<"halt", s[k]>>]
    BY <2>1 DEF ForEach
  <2>4. \A k \in 1 .. Len(s) : <<"halt", s[k]>> \in AnyCall
    BY <2>2 DEF AnyCall, Operations
  <2>5. ForEach("halt", s) \in Seq(AnyCall) /\ Len(ForEach("halt", s)) = Len(s)
    BY <2>1, <2>3, <2>4
  <2>6. \A k \in 1 .. Len(s) : Quiet(ForEach("halt", s)[k])
    BY <2>3 DEF Quiet, Signals
  <2>7. HaltCalls(i) = ForEach("halt", s)
    BY <1>2 DEF HaltCalls, s
  <2> QED  BY <2>5, <2>6, <2>7
<1> QED  BY <1>1, <1>2

\* A reset joins the threads of children before it resets them.
LEMMA FitsReset ==
  ASSUME NEW i \in Instructions
  PROVE  Fits(i, FALSE, ResetCalls(i))
<1> DEFINE halts == IF HaltsOnReset(i) THEN Call("halt", i) ELSE << >>
           joins == IF Kind[i] \in Threaded THEN Call("join", i) ELSE << >>
           resets == ForEach("reset", Children[i])
           clears == Call("clear", i)
           down == resets \o clears
<1>1. Fits(i, Kind[i] \in Threaded, down)
  <2>1. Children[i] \in Seq(ChildSet(i))
    <3>1. Children[i] \in Seq(Instructions) /\ \A k \in 1 .. Len(Children[i]) : Children[i][k] \in ChildSet(i)
      BY ChildrenAreInstructions
    <3> QED  BY <3>1
  <2>2. /\ <<"clear", i>> \in AnyCall /\ Shaped(<<"clear", i>>) /\ <<"clear", i>>[1] \in Holding
        /\ Owner(<<"clear", i>>) = i
    BY DEF AnyCall, Operations, Shaped, Holding, Owner
  <2> QED  BY <2>1, <2>2, FitsEach DEF Call
<1>2. /\ resets \in Seq(AnyCall) /\ clears \in Seq(AnyCall) /\ down \in Seq(AnyCall)
      /\ joins \in Seq(AnyCall) /\ halts \in Seq(AnyCall)
  <2>1. down \in Seq(AnyCall)
    BY <1>1 DEF Fits
  <2>2. \A op \in Operations : Call(op, i) \in Seq(AnyCall)
    BY DEF Call, AnyCall
  <2>3. resets \in Seq(AnyCall)
    <3> DEFINE s == Children[i]
    <3>1. s \in Seq(Instructions) /\ Len(s) \in Nat /\ DOMAIN s = 1 .. Len(s)
      BY ChildrenAreInstructions
    <3>2. \A k \in 1 .. Len(s) : <<"reset", s[k]>> \in AnyCall
      BY <3>1 DEF AnyCall, Operations
    <3> HIDE DEF s
    <3>3. resets = [k \in 1 .. Len(s) |-> <<"reset", s[k]>>]
      BY <3>1 DEF ForEach, s
    <3> QED  BY <3>1, <3>2, <3>3
  <2>4. << >> \in Seq(AnyCall) /\ {"join", "halt", "clear"} \subseteq Operations
    BY DEF Operations
  <2> HIDE DEF down, resets
  <2> QED  BY <2>1, <2>2, <2>3, <2>4
<1>3. Fits(i, FALSE, joins \o down)
  <2>1. CASE Kind[i] \in Threaded
    BY <1>1, <2>1, FitsBehind DEF Operations
  <2>2. CASE Kind[i] \notin Threaded
    <3> HIDE DEF down
    <3>1. joins \o down = down
      BY <1>2, <2>2
    <3>2. (Kind[i] \in Threaded) = FALSE
      BY <2>2
    <3> QED  BY <1>1, <3>1, <3>2
  <2> QED  BY <2>1, <2>2
<1>4. Fits(i, FALSE, halts \o (joins \o down))
  <2>1. CASE HaltsOnReset(i)
    BY <1>3, <2>1, FitsBehind DEF Operations
  <2>2. CASE ~HaltsOnReset(i)
    <3> HIDE DEF down, joins
    <3>1. joins \o down \in Seq(AnyCall)
      BY <1>2
    <3>2. halts = << >>
      BY <2>2
    <3>3. halts \o (joins \o down) = joins \o down
      BY <3>1, <3>2, ConcatEmptySeq
    <3> QED  BY <1>3, <3>3
  <2> QED  BY <2>1, <2>2
<1>5. ResetCalls(i) = halts \o (joins \o down)
  <2>1. ResetCalls(i) = ((halts \o joins) \o resets) \o clears
    BY DEF ResetCalls
  <2> HIDE DEF halts, joins, resets, clears, down
  <2>2. /\ halts \o joins \in Seq(AnyCall) /\ down = resets \o clears
        /\ joins \o resets \in Seq(AnyCall)
    BY <1>2 DEF down
  <2>3. ((halts \o joins) \o resets) \o clears = (halts \o joins) \o down
    BY <1>2, <2>2, ConcatAssociative, SMTT(60)
  <2>4. (halts \o joins) \o down = halts \o (joins \o down)
    BY <1>2, ConcatAssociative, SMTT(40)
  <2> QED  BY <2>1, <2>3, <2>4
<1> QED  BY <1>4, <1>5

-----------------------------------------------------------------------------
(* No two threads inside the same instruction                                *)

\* The threads that execute and reset instructions, and where each of them starts.
Doers == {Ticker} \union Workers
Base(t) == IF t = Ticker THEN root ELSE t
Rest == {c \in Workers : Idle(c)}

\* The client's thread only sends signals; the others go about their walks.
Walks == /\ agenda \in [Threads -> Seq(AnyCall)]
         /\ \A k \in 1 .. Len(agenda[Halter]) : Quiet(agenda[Halter][k])
         /\ \A t \in Doers : Proper(Base(t), agenda[t], Rest)

\* A thread that runs was launched by an instruction of the tree, and no other thread
\* is inside of the child that it runs.
Busy == \A c \in Workers : ~Idle(c) =>
          \E p \in Below(root) : Kind[p] \in Threaded /\ c \in ChildSet(p)
Apart == \A c \in Workers : ~Idle(c) => \A t \in Doers \ {c} : c \notin Inside(agenda[t])

ExclusiveInv == root \in Roots /\ Selections /\ Walks /\ Busy /\ Apart

LEMMA ThreadNames ==
  /\ Threads = Doers \union {Halter} /\ Halter \notin Doers /\ Ticker \notin Workers
  /\ Workers \subseteq Instructions
  /\ \A p \in Instructions : Kind[p] \in Threaded => ChildSet(p) \subseteq Workers
<1>1. Workers \subseteq Instructions
  BY WorkerIsInstruction
<1>2. Ticker \notin Instructions /\ Halter \notin Instructions /\ Ticker # Halter
  BY TreeAssumption DEF Ticker, Halter
<1>3. Threads = Doers \union {Halter} /\ Halter \notin Doers /\ Ticker \notin Workers
  <2> HIDE DEF Ticker, Halter
  <2> QED  BY <1>1, <1>2 DEF Threads, Doers
<1>4. ASSUME NEW p \in Instructions, Kind[p] \in Threaded  PROVE ChildSet(p) \subseteq Workers
  BY <1>4 DEF Workers, Wrapped
<1> QED  BY <1>1, <1>3, <1>4

\* Where a thread starts is in the tree, and no thread starts where another does.
LEMMA BaseInTree ==
  ASSUME root \in Roots, Busy, NEW t \in Doers, ~Idle(t)
  PROVE  /\ Base(t) \in Below(root) /\ root \in Instructions /\ Below(root) \subseteq Instructions
         /\ t \in Workers => t # root /\ Base(t) = t
<1>1. root \in Instructions /\ root \in Below(root) /\ Below(root) \subseteq Instructions
  BY TreeAssumption, BelowClosed
<1>2. CASE t = Ticker
  BY <1>1, <1>2, ThreadNames DEF Base
<1>3. CASE t # Ticker
  <2> PICK p \in Below(root) : t \in ChildSet(p)
    BY <1>3 DEF Doers, Busy
  <2>1. t # root /\ t \in Below(root)
    BY OneParent, <1>1
  <2> QED  BY <1>1, <1>3, <2>1 DEF Base
<1> QED  BY <1>2, <1>3

LEMMA HeldInside ==
  ASSUME NEW b, NEW e, Held(b, e), NEW k \in 1 .. Len(e), ~Quiet(e[k]), Len(e) \in Nat,
         NEW z \in Below(b), Owner(e[k]) \in StrictlyBelow(z)
  PROVE  z \in Inside(e)
<1> PICK m \in k + 1 .. Len(e) : e[m][1] \in Holding /\ Owner(e[m]) = z
  BY DEF Held
<1>1. m \in 1 .. Len(e)
  OBVIOUS
<1> QED  BY <1>1 DEF Inside, Holding

\* Nothing is inside of what another thread, started below it, is inside of.
LEMMA OthersOutside ==
  ASSUME ExclusiveInv, NEW t \in Doers, NEW u \in Doers, t # u, Base(t) \in Below(Base(u)),
         NEW x \in Inside(agenda[t]) \intersect Inside(agenda[u])
  PROVE  FALSE
<1>1. /\ root \in Roots /\ Busy /\ Apart
      /\ Held(Base(t), agenda[t]) /\ Held(Base(u), agenda[u])
      /\ agenda[t] \in Seq(AnyCall) /\ agenda[u] \in Seq(AnyCall)
  BY ThreadNames DEF ExclusiveInv, Walks, Proper
<1>2. PICK j \in 1 .. Len(agenda[t]) : x = Owner(agenda[t][j]) /\ ~Quiet(agenda[t][j])
  BY DEF Inside, Quiet, Signals
<1>3. PICK k \in 1 .. Len(agenda[u]) : x = Owner(agenda[u][k]) /\ ~Quiet(agenda[u][k])
  BY DEF Inside, Quiet, Signals
<1>4. Len(agenda[t]) \in Nat /\ Len(agenda[u]) \in Nat /\ ~Idle(t) /\ ~Idle(u)
  BY <1>1, <1>2, <1>3 DEF Idle
<1>5. /\ Base(t) \in Below(root) /\ Base(u) \in Below(root)
      /\ root \in Instructions /\ Below(root) \subseteq Instructions
      /\ t \in Workers => t # root /\ Base(t) = t
      /\ u \in Workers => u # root /\ Base(u) = u
  BY <1>1, <1>4, BaseInTree
<1>6. CASE t = Ticker
  <2>1. u \in Workers /\ Base(t) = root
    BY <1>6 DEF Doers, Base
  <2>2. u \in StrictlyBelow(root)
    BY <1>5, <2>1 DEF StrictlyBelow
  <2> QED  BY <1>5, <2>1, <2>2, BelowOneWay
<1>7. CASE t \in Workers
  <2>1. t \in Below(Base(u)) /\ t \notin Inside(agenda[u])
    BY <1>1, <1>4, <1>5, <1>7 DEF Apart
  <2>2. x \in Below(t) /\ x # t
    BY <1>1, <1>2, <1>5, <1>7, <2>1 DEF Held
  <2>3. x \in StrictlyBelow(t)
    BY <2>2 DEF StrictlyBelow
  <2> QED  BY <1>1, <1>3, <1>4, <2>1, <2>3, HeldInside
<1> QED  BY <1>6, <1>7 DEF Doers

LEMMA InsidesApart ==
  ASSUME ExclusiveInv, NEW t \in Doers, NEW u \in Doers, t # u
  PROVE  Inside(agenda[t]) \intersect Inside(agenda[u]) = {}
<1> SUFFICES ASSUME NEW x \in Inside(agenda[t]) \intersect Inside(agenda[u])  PROVE FALSE
  OBVIOUS
<1>1. /\ root \in Roots /\ Busy /\ Held(Base(t), agenda[t]) /\ Held(Base(u), agenda[u])
      /\ agenda[t] \in Seq(AnyCall) /\ agenda[u] \in Seq(AnyCall)
  BY ThreadNames DEF ExclusiveInv, Walks, Proper
<1>2. PICK j \in 1 .. Len(agenda[t]) : x = Owner(agenda[t][j]) /\ ~Quiet(agenda[t][j])
  BY DEF Inside, Quiet, Signals
<1>3. PICK k \in 1 .. Len(agenda[u]) : x = Owner(agenda[u][k]) /\ ~Quiet(agenda[u][k])
  BY DEF Inside, Quiet, Signals
<1>4. x \in Below(Base(t)) \intersect Below(Base(u)) /\ ~Idle(t) /\ ~Idle(u)
  <2>1. x \in Below(Base(t)) /\ x \in Below(Base(u))
    BY <1>1, <1>2, <1>3 DEF Held
  <2>2. ~Idle(t) /\ ~Idle(u)
    BY <1>1, <1>2, <1>3 DEF Idle
  <2> QED  BY <2>1, <2>2
<1>5. Base(t) \in Below(root) /\ Base(u) \in Below(root)
  BY <1>1, <1>4, BaseInTree
<1>6. Base(t) \in Below(Base(u)) \/ Base(u) \in Below(Base(t))
  BY <1>1, <1>4, <1>5, OneLine
<1> QED  BY <1>6, OthersOutside

LEMMA InvIsExclusive == ExclusiveInv => ExclusiveExecution
<1> SUFFICES ASSUME ExclusiveInv, NEW t \in Threads, NEW u \in Threads, t # u
             PROVE  InsideOf(t) \intersect InsideOf(u) = {}
  BY DEF ExclusiveExecution
<1>1. ASSUME NEW v \in Doers  PROVE InsideOf(v) = Inside(agenda[v])
  <2>1. DOMAIN agenda[v] = 1 .. Len(agenda[v])
    <3>1. agenda[v] \in Seq(AnyCall)
      BY ThreadNames DEF ExclusiveInv, Walks
    <3> QED  BY <3>1
  <2> QED  BY <2>1 DEF InsideOf, Inside
<1>2. InsideOf(Halter) = {}
  <2>1. DOMAIN agenda[Halter] = 1 .. Len(agenda[Halter])
    <3>1. agenda[Halter] \in Seq(AnyCall)
      BY ThreadNames DEF ExclusiveInv, Walks
    <3> QED  BY <3>1
  <2>2. \A k \in DOMAIN agenda[Halter] : agenda[Halter][k][1] \in {"halt", "drop"}
    BY <2>1 DEF ExclusiveInv, Walks, Quiet, Signals
  <2> QED  BY <2>2 DEF InsideOf
<1> QED  BY <1>1, <1>2, InsidesApart, ThreadNames

\* The next thing that a thread does is to reset a child with a thread: that has ended.
LEMMA ResetRests ==
  ASSUME NEW r \in Roots, NEW b \in Below(r), NEW e, NEW Resting, Held(b, e), Joined(b, e, Resting),
         1 \in 1 .. Len(e), NEW c, e[1][1] = "reset", e[1][2] = c, c # b,
         NEW p \in Below(r), Kind[p] \in Threaded, c \in ChildSet(p)
  PROVE  c \in Resting
<1>1. b \in Instructions /\ Below(b) \subseteq Below(r)
  BY TreeAssumption, BelowClosed
<1>2. c \in StrictlyBelow(b)
  <2>1. ~Quiet(e[1]) /\ Owner(e[1]) = c
    BY DEF Quiet, Signals, Owner
  <2> QED  BY <2>1 DEF Held, StrictlyBelow
<1> PICK q \in Below(b) : c \in ChildSet(q)
  BY <1>1, <1>2, ParentBelow
<1>3. q = p
  BY <1>1, OneParent
<1>4. c \in Resting \/ \E m \in 1 .. 1 - 1 : e[m] = <<"join", p>>
  BY <1>3 DEF Joined
<1> QED  BY <1>4

\* What a walk comes to be inside of, of the children with threads, is one whose
\* thread has ended.
LEMMA WalkEnters ==
  ASSUME NEW r \in Roots, NEW b \in Below(r), NEW i, NEW e, NEW calls, NEW f, Turns(e, i, calls, f),
         NEW Resting, NEW Rested, Proper(b, e, Resting), Proper(b, f, Rested),
         NEW c \in Inside(f), c \notin Inside(e), c # b,
         NEW p \in Below(r), Kind[p] \in Threaded, c \in ChildSet(p)
  PROVE  c \in Rested
<1>1. Held(b, e) /\ Held(b, f) /\ Joined(b, f, Rested)
  BY DEF Proper
<1>2. \/ i \in Below(b) /\ c \in ChildSet(i) /\ Kind[i] \notin Threaded
      \/ 1 \in 1 .. Len(f) /\ f[1][1] = "reset" /\ f[1][2] = c
  BY <1>1, PushInside
<1>3. CASE i \in Below(b) /\ c \in ChildSet(i) /\ Kind[i] \notin Threaded
  <2>1. i \in Below(r)
    BY <1>3, BelowClosed, TreeAssumption
  <2>2. i = p
    BY <1>3, <2>1, OneParent
  <2> QED  BY <1>3, <2>2
<1>4. CASE 1 \in 1 .. Len(f) /\ f[1][1] = "reset" /\ f[1][2] = c
  BY <1>1, <1>4, ResetRests
<1> QED  BY <1>2, <1>3, <1>4

\* A call that waits for the threads of children goes on when these have ended.
HasJoined(call) ==
  \A p \in Instructions : call = <<"join", p>> => \A c \in ChildSet(p) : Idle(c)

\* A thread replaces its next call by others that may take its place.
LEMMA DoerPushes ==
  ASSUME ExclusiveInv, NEW t \in Doers, ~Idle(t), NEW i, NEW calls, Continue(t, calls),
         Replaces(agenda[t][1], i, calls), UNCHANGED root, Selections',
         HasJoined(agenda[t][1])
  PROVE  ExclusiveInv'
<1>e. PICK e : e = agenda[t]
  OBVIOUS
<1>f. PICK f : f = calls \o Tail(e)
  OBVIOUS
<1>b. PICK b : b = Base(t)
  OBVIOUS
<1>1. /\ root \in Roots /\ Busy /\ Apart /\ e \in Seq(AnyCall) /\ e # << >>
      /\ agenda \in [Threads -> Seq(AnyCall)]
      /\ \A u \in Doers : Proper(Base(u), agenda[u], Rest)
      /\ t \in Threads
  BY <1>e, ThreadNames DEF ExclusiveInv, Walks, Idle
<1>2. agenda' = [agenda EXCEPT ![t] = f]
  BY <1>e, <1>f DEF Continue, Replace
<1>3. /\ Base(t) \in Below(root)
      /\ t \in Workers => t # root /\ Base(t) = t
      /\ root \in Instructions /\ Below(root) \subseteq Instructions
  BY <1>1, BaseInTree
<1>4. /\ \A u \in Threads : u # t => agenda'[u] = agenda[u]
      /\ agenda'[t] = f
  BY <1>1, <1>2
<1>5. \A c \in Workers : Idle(c) => Idle(c)'
  <2> SUFFICES ASSUME NEW c \in Workers, agenda[c] = << >>  PROVE agenda'[c] = << >>
    BY DEF Idle
  <2>1. c \in Threads /\ c # t
    <3>1. c \in Threads
      BY ThreadNames DEF Doers
    <3>2. agenda[t] # << >>
      BY DEF Idle
    <3> QED  BY <3>1, <3>2
  <2> QED  BY <1>4, <2>1
<1>6. Rest \subseteq Rest'
  BY <1>5 DEF Rest
<1>7. Turns(e, i, calls, f) /\ Proper(b, e, Rest) /\ b \in Below(root)
  <2>1. Proper(b, e, Rest) /\ b \in Below(root)
    BY <1>b, <1>e, <1>1, <1>3
  <2>2. Turns(e, i, calls, f)
    BY <1>e, <1>f, <1>1 DEF Turns
  <2> QED  BY <2>1, <2>2
<1>8. f \in Seq(AnyCall) /\ Proper(b, f, Rest')
  <2>1. Ended(e[1], Rest')
    BY <1>e, <1>5, ThreadNames DEF Ended, Rest, HasJoined
  <2> QED  BY <1>1, <1>6, <1>7, <2>1, PushKeepsProper
<1>9. agenda' \in [Threads -> Seq(AnyCall)]
  BY <1>1, <1>2, <1>8
<1>10. \A u \in Doers : Base(u)' = Base(u)
  BY DEF Base
<1>11. ASSUME NEW u \in Doers, u # t  PROVE Proper(Base(u), agenda'[u], Rest')
  <2>1. Proper(Base(u), agenda[u], Rest) /\ agenda'[u] = agenda[u]
    BY <1>1, <1>4, <1>11, ThreadNames
  <2>2. Joined(Base(u), agenda[u], Rest')
    BY <1>6, <2>1 DEF Proper, Joined
  <2> QED  BY <2>1, <2>2 DEF Proper
<1>12. Walks'
  <2>1. agenda'[Halter] = agenda[Halter]
    BY <1>4, ThreadNames
  <2>2. \A k \in 1 .. Len(agenda'[Halter]) : Quiet(agenda'[Halter][k])
    BY <2>1 DEF ExclusiveInv, Walks
  <2>3. \A u \in Doers : Proper(Base(u)', agenda'[u], Rest')
    BY <1>b, <1>4, <1>8, <1>10, <1>11
  <2> QED  BY <1>9, <2>2, <2>3 DEF Walks
<1>13. Busy'
  BY <1>1, <1>5 DEF Busy
<1>14. Apart'
  <2> SUFFICES ASSUME NEW c \in Workers, ~Idle(c)', NEW u \in Doers \ {c}, c \in Inside(agenda'[u])
               PROVE  FALSE
    BY DEF Apart
  <2>1. ~Idle(c) /\ c \notin Inside(agenda[u])
    BY <1>1, <1>5 DEF Apart
  <2>2. u = t
    BY <1>4, <2>1, ThreadNames
  <2>3. c \notin Inside(e) /\ c \in Inside(f)
    BY <1>e, <1>4, <2>1, <2>2
  <2> PICK p \in Below(root) : Kind[p] \in Threaded /\ c \in ChildSet(p)
    BY <1>1, <2>1 DEF Busy
  <2>4. c # root
    BY <1>1, OneParent
  <2>5. c # b
    BY <1>b, <1>3, <2>2, <2>4 DEF Base, Doers
  <2>6. c \in Rest'
    BY <1>1, <1>7, <1>8, <2>3, <2>5, WalkEnters
  <2> QED  BY <2>6 DEF Rest
<1> QED  BY <1>1, <1>12, <1>13, <1>14 DEF ExclusiveInv

\* What the client's thread does is seen by no walk.
LEMMA HalterMoves ==
  ASSUME ExclusiveInv, NEW e \in Seq(AnyCall), \A k \in 1 .. Len(e) : Quiet(e[k]),
         agenda' = [agenda EXCEPT ![Halter] = e], UNCHANGED root, Selections'
  PROVE  ExclusiveInv'
<1>1. /\ root \in Roots /\ Busy /\ Apart /\ agenda \in [Threads -> Seq(AnyCall)]
      /\ \A u \in Doers : Proper(Base(u), agenda[u], Rest)
  BY DEF ExclusiveInv, Walks
<1>2. agenda' \in [Threads -> Seq(AnyCall)] /\ agenda'[Halter] = e
  BY <1>1, ThreadNames
<1>3. \A u \in Doers : agenda'[u] = agenda[u] /\ Base(u)' = Base(u)
  BY <1>1, ThreadNames DEF Base
<1>4. \A c \in Workers : Idle(c)' = Idle(c)
  BY <1>3 DEF Idle, Doers
<1>5. Rest' = Rest
  BY <1>4 DEF Rest
<1>6. Walks'
  <2>1. \A u \in Doers : Proper(Base(u)', agenda'[u], Rest')
    BY <1>1, <1>3, <1>5
  <2>2. \A k \in 1 .. Len(agenda'[Halter]) : Quiet(agenda'[Halter][k])
    BY <1>2
  <2> QED  BY <1>2, <2>1, <2>2 DEF Walks
<1>7. Busy'
  BY <1>1, <1>4 DEF Busy
<1>8. Apart'
  BY <1>1, <1>3, <1>4 DEF Apart
<1> QED  BY <1>1, <1>6, <1>7, <1>8 DEF ExclusiveInv

\* The same for any thread: a client may only pass signals on.
LEMMA Pushes ==
  ASSUME ExclusiveInv, NEW t \in Threads, ~Idle(t), NEW i, NEW calls, Continue(t, calls),
         Replaces(agenda[t][1], i, calls), UNCHANGED root, Selections',
         HasJoined(agenda[t][1])
  PROVE  ExclusiveInv'
<1>1. CASE t \in Doers
  BY <1>1, DoerPushes
<1>2. CASE t = Halter
  <2> DEFINE e == agenda[t]
             f == calls \o Tail(e)
  <2>1. e \in Seq(AnyCall) /\ e # << >> /\ \A k \in 1 .. Len(e) : Quiet(e[k])
    BY <1>2 DEF ExclusiveInv, Walks, Idle
  <2>2. agenda' = [agenda EXCEPT ![Halter] = f]
    BY <1>2 DEF Continue, Replace
  <2>3. Replaces(e[1], i, calls)
    OBVIOUS
  <2> HIDE DEF e, f
  <2>4. 1 \in 1 .. Len(e) /\ Len(e) \in Nat
    BY <2>1
  <2>5. calls \in Seq(AnyCall) /\ \A k \in 1 .. Len(calls) : Quiet(calls[k])
    BY <2>1, <2>3, <2>4 DEF Replaces, Fits, Quiet
  <2>6. f \in Seq(AnyCall) /\ Spliced(e, calls, f)
    BY <2>1, <2>5, Places DEF f
  <2>7. \A k \in 1 .. Len(f) : Quiet(f[k])
    <3>1. \A j \in 2 .. Len(e) : j \in 1 .. Len(e)
      BY <2>4
    <3>2. \A k \in 1 .. Len(f) : \/ k \in 1 .. Len(calls) /\ f[k] = calls[k]
                                \/ \E j \in 2 .. Len(e) : f[k] = e[j]
      BY <2>6 DEF Spliced
    <3> QED  BY <2>1, <2>5, <3>1, <3>2
  <2> QED  BY <2>2, <2>6, <2>7, HalterMoves
<1> QED  BY <1>1, <1>2, ThreadNames

\* A walk that begins is proper.
LEMMA ProperBegins ==
  ASSUME NEW b \in Instructions, NEW op \in {"exec", "reset"}, NEW Resting
  PROVE  /\ Call(op, b) \in Seq(AnyCall)
         /\ Proper(b, Call(op, b), Resting) /\ Inside(Call(op, b)) = {b}
<1>1. PICK e : e = Call(op, b)
  OBVIOUS
<1>2. /\ e \in Seq(AnyCall) /\ Len(e) = 1 /\ e[1] = <<op, b>> /\ 1 .. Len(e) = {1}
      /\ e[1][1] = op /\ e[1][2] = b /\ Owner(e[1]) = b
  BY <1>1 DEF Call, AnyCall, Operations, Owner
<1>3. b \in Below(b) /\ Below(b) \subseteq Instructions
  BY BelowClosed
<1>4. Held(b, e)
  <2>1. ASSUME NEW z \in Below(b), b \in StrictlyBelow(z)  PROVE FALSE
    <3>1. z \in Instructions
      BY <1>3
    <3> QED  BY <2>1, <3>1, BelowOneWay
  <2> QED  BY <1>2, <1>3, <2>1 DEF Held
<1>5. Joined(b, e, Resting)
  <2>1. ASSUME NEW p \in Below(b), b \in ChildSet(p)  PROVE FALSE
    <3>1. p \in Instructions
      BY <1>3
    <3> QED  BY <2>1, <3>1, ChildBelow
  <2> QED  BY <1>2, <2>1 DEF Joined
<1>6. Ticks(b, e) /\ Ascending(e) /\ \A k \in 1 .. Len(e) : Shaped(e[k])
  <2>1. \A m \in 1 + 1 .. Len(e) : FALSE
    BY <1>2
  <2>2. Ticks(b, e)
    BY <1>2 DEF Ticks
  <2>3. Ascending(e)
    BY <1>2, <2>1 DEF Ascending
  <2>4. Shaped(e[1])
    BY <1>2 DEF Shaped
  <2> QED  BY <1>2, <2>2, <2>3, <2>4
<1>7. Inside(e) = {b}
  BY <1>2 DEF Inside
<1> QED  BY <1>1, <1>2, <1>4, <1>5, <1>6, <1>7 DEF Proper

LEMMA ProperNothing ==
  ASSUME NEW b, NEW Resting
  PROVE  Proper(b, << >>, Resting) /\ Inside(<< >>) = {}
<1>1. 1 .. Len(<< >>) = {}
  OBVIOUS
<1> QED  BY <1>1 DEF Proper, Held, Ticks, Ascending, Joined, Inside

\* The loop thread begins a walk at the root.
LEMMA TickerBegins ==
  ASSUME ExclusiveInv, NEW op \in {"exec", "reset"},
         agenda' = [agenda EXCEPT ![Ticker] = Call(op, root)], UNCHANGED root, Selections'
  PROVE  ExclusiveInv'
<1>1. /\ root \in Roots /\ Busy /\ Apart /\ agenda \in [Threads -> Seq(AnyCall)]
      /\ \A u \in Doers : Proper(Base(u), agenda[u], Rest)
      /\ \A k \in 1 .. Len(agenda[Halter]) : Quiet(agenda[Halter][k])
  BY DEF ExclusiveInv, Walks
<1>2. /\ root \in Instructions /\ Call(op, root) \in Seq(AnyCall)
      /\ Proper(root, Call(op, root), Rest) /\ Inside(Call(op, root)) = {root}
  BY <1>1, TreeAssumption, ProperBegins
<1>3. Ticker \in Threads /\ Ticker # Halter /\ Halter \in Threads /\ Workers \subseteq Threads
  BY ThreadNames DEF Doers
<1>4. agenda' \in [Threads -> Seq(AnyCall)] /\ agenda'[Ticker] = Call(op, root)
  BY <1>1, <1>2, <1>3
<1>5. \A u \in Threads : u # Ticker => agenda'[u] = agenda[u]
  BY <1>1
<1>6. \A c \in Workers : agenda'[c] = agenda[c] /\ Idle(c)' = Idle(c)
  BY <1>3, <1>5, ThreadNames DEF Idle
<1>7. Rest' = Rest
  BY <1>6 DEF Rest
<1>8. Walks'
  <2>1. \A u \in Doers : Base(u)' = Base(u)
    BY DEF Base
  <2>2. ASSUME NEW u \in Doers  PROVE Proper(Base(u), agenda'[u], Rest)
    <3>1. CASE u = Ticker
      BY <1>2, <1>4, <3>1 DEF Base
    <3>2. CASE u \in Workers
      BY <1>1, <1>6, <3>2
    <3> QED  BY <3>1, <3>2 DEF Doers
  <2>3. \A u \in Doers : Proper(Base(u)', agenda'[u], Rest')
    BY <1>7, <2>1, <2>2
  <2>4. agenda'[Halter] = agenda[Halter]
    BY <1>3, <1>5
  <2>5. \A k \in 1 .. Len(agenda'[Halter]) : Quiet(agenda'[Halter][k])
    BY <1>1, <2>4
  <2> QED  BY <1>4, <2>3, <2>5 DEF Walks
<1>9. Busy'
  BY <1>1, <1>6 DEF Busy
<1>10. Apart'
  <2> SUFFICES ASSUME NEW c \in Workers, ~Idle(c)', NEW u \in Doers \ {c}, c \in Inside(agenda'[u])
               PROVE  FALSE
    BY DEF Apart
  <2>1. ~Idle(c) /\ c \notin Inside(agenda[u])
    BY <1>1, <1>6 DEF Apart
  <2>2. u = Ticker
    BY <1>6, <2>1 DEF Doers
  <2>3. c = root
    BY <1>2, <1>4, <2>2
  <2> QED  BY <1>1, <2>1, <2>3, BaseInTree DEF Doers
<1> QED  BY <1>1, <1>8, <1>9, <1>10 DEF ExclusiveInv

LEMMA ExclusiveInit == Init => ExclusiveInv
<1> SUFFICES ASSUME Init  PROVE ExclusiveInv
  OBVIOUS
<1>1. /\ root \in Roots /\ agenda = [t \in Threads |-> << >>]
      /\ selected = [i \in Instructions |-> << >>]
  BY DEF Init
<1>2. Selections
  BY <1>1 DEF Selections
<1>3. \A t \in Threads : agenda[t] = << >>
  BY <1>1
<1>4. agenda \in [Threads -> Seq(AnyCall)]
  BY <1>1
<1>5. \A t \in Doers : t \in Threads
  BY ThreadNames
<1>6. Walks
  <2>1. \A t \in Doers : Proper(Base(t), agenda[t], Rest)
    BY <1>3, <1>5, ProperNothing
  <2>2. 1 .. Len(agenda[Halter]) = {}
    BY <1>3, ThreadNames
  <2> QED  BY <1>4, <2>1, <2>2 DEF Walks
<1>7. \A c \in Workers : Idle(c)
  BY <1>3, <1>5 DEF Idle, Doers
<1> QED  BY <1>1, <1>2, <1>6, <1>7 DEF ExclusiveInv, Busy, Apart

LEMMA TurnsPlaces ==
  ASSUME NEW e, NEW i, NEW calls, NEW f, Turns(e, i, calls, f)
  PROVE  Spliced(e, calls, f)
<1>1. calls \in Seq(AnyCall)
  BY DEF Turns, Replaces, Fits
<1> QED  BY <1>1, Places DEF Turns

\* Only the thread that is to launch a child is inside of the parent, and no thread is
\* inside of the child or is to reset it.
LEMMA LaunchAlone ==
  ASSUME ExclusiveInv, NEW t \in Doers, NEW u \in Doers, u # t,
         NEW p \in Below(Base(t)) \intersect Below(root), NEW c \in ChildSet(p), u # c, NEW j \in 1 .. Len(agenda[t]),
         ~Quiet(agenda[t][j]), Owner(agenda[t][j]) = c,
         NEW k \in 1 .. Len(agenda[u]), ~Quiet(agenda[u][k])
  PROVE  Owner(agenda[u][k]) # c
<1> SUFFICES ASSUME Owner(agenda[u][k]) = c  PROVE FALSE
  OBVIOUS
<1>1. /\ root \in Roots /\ Busy
      /\ Held(Base(t), agenda[t]) /\ Held(Base(u), agenda[u])
      /\ agenda[t] \in Seq(AnyCall) /\ agenda[u] \in Seq(AnyCall)
  BY ThreadNames DEF ExclusiveInv, Walks, Proper
<1>2. Len(agenda[t]) \in Nat /\ Len(agenda[u]) \in Nat /\ ~Idle(u)
  BY <1>1 DEF Idle
<1>3. /\ Base(u) \in Below(root) /\ root \in Instructions /\ Below(root) \subseteq Instructions
      /\ u \in Workers => Base(u) = u
  BY <1>1, <1>2, BaseInTree
<1>4. c # root
  BY <1>1, OneParent
<1>5. c # Base(u)
  BY <1>3, <1>4 DEF Base, Doers
<1>6. c \in StrictlyBelow(Base(u))
  BY <1>1, <1>5 DEF Held, StrictlyBelow
<1> PICK q \in Below(Base(u)) : c \in ChildSet(q)
  BY <1>3, <1>6, ParentBelow
<1>7. q \in Below(root)
  BY <1>3, BelowClosed
<1>8. q = p /\ c \in StrictlyBelow(p)
  BY <1>1, <1>3, <1>7, OneParent, ChildBelow
<1>9. p \in Inside(agenda[u])
  BY <1>1, <1>2, <1>8, HeldInside
<1>10. p \in Inside(agenda[t])
  BY <1>1, <1>2, <1>8, HeldInside
<1> QED  BY <1>9, <1>10, InsidesApart

\* What is proper stays so when a child begins to run that the agenda does not reset.
LEMMA ProperWithout ==
  ASSUME NEW b, NEW e, NEW Resting, NEW Rested, NEW c, Resting \subseteq Rested \union {c}, Proper(b, e, Resting),
         \A k \in 1 .. Len(e) : ~Quiet(e[k]) => Owner(e[k]) # c
  PROVE  Proper(b, e, Rested) /\ c \notin Inside(e)
<1>1. ASSUME NEW k \in 1 .. Len(e), e[k][1] = "reset"  PROVE e[k][2] # c
  BY <1>1 DEF Quiet, Signals, Owner
<1>2. Joined(b, e, Rested)
  BY <1>1 DEF Proper, Joined
<1>3. c \notin Inside(e)
  BY DEF Inside, Quiet, Signals
<1> QED  BY <1>2, <1>3 DEF Proper

\* A child that is launched begins a walk of its own.
LEMMA LaunchKeepsInv ==
  ASSUME ExclusiveInv, NEW t \in Threads, NEW c, LaunchChild(t, c)
  PROVE  ExclusiveInv'
<1>1. /\ agenda[t] # << >> /\ agenda[t][1] = <<"tick", c>> /\ agenda[c] = << >>
      /\ agenda' = [agenda EXCEPT ![t] = << >> \o Tail(agenda[t]), ![c] = Call("exec", c)]
      /\ UNCHANGED <<root, selected>>
  BY DEF LaunchChild, Due, Replace
<1>2. /\ root \in Roots /\ Selections /\ Busy /\ Apart /\ agenda \in [Threads -> Seq(AnyCall)]
      /\ \A u \in Doers : Proper(Base(u), agenda[u], Rest)
      /\ \A k \in 1 .. Len(agenda[Halter]) : Quiet(agenda[Halter][k])
  BY DEF ExclusiveInv, Walks
<1>3. agenda[t] \in Seq(AnyCall) /\ 1 \in 1 .. Len(agenda[t])
  <2>1. agenda[t] \in Seq(AnyCall)
    BY <1>2
  <2> QED  BY <1>1, <2>1
<1>4. t \in Doers /\ ~Idle(t)
  <2>1. ~Quiet(agenda[t][1])
    BY <1>1 DEF Quiet, Signals
  <2>2. t # Halter
    BY <1>2, <1>3, <2>1
  <2> QED  BY <1>1, <2>2, ThreadNames DEF Idle
<1>5. /\ Base(t) \in Below(root) /\ root \in Instructions /\ Below(root) \subseteq Instructions
      /\ Proper(Base(t), agenda[t], Rest)
  BY <1>2, <1>4, BaseInTree
<1>6. PICK p \in Below(Base(t)) : Kind[p] \in Threaded /\ c \in ChildSet(p)
  BY <1>1, <1>3, <1>5 DEF Proper, Ticks
<1>7. /\ p \in Below(root) /\ p \in Instructions /\ c \in Workers /\ c \in Instructions
      /\ c \in Threads /\ c \in Doers /\ c # t /\ c # root
  <2>1. p \in Below(root) /\ p \in Instructions
    BY <1>5, BelowClosed
  <2>2. c \in Workers
    BY <1>6, <2>1, ThreadNames
  <2>3. c # root
    BY <1>2, <1>6, <2>1, OneParent
  <2> QED  BY <1>1, <1>4, <2>1, <2>2, <2>3, ThreadNames DEF Doers, Idle
<1>8. PICK f : f = << >> \o Tail(agenda[t])
  OBVIOUS
<1>9. Turns(agenda[t], p, << >>, f) /\ f \in Seq(AnyCall) /\ Proper(Base(t), f, Rest)
  <2>1. << >> \in Seq(AnyCall) /\ 1 .. Len(<< >>) = {}
    OBVIOUS
  <2>2. Replaces(agenda[t][1], p, << >>)
    BY <2>1 DEF Replaces, Fits
  <2>3. Turns(agenda[t], p, << >>, f)
    BY <1>1, <1>3, <1>8, <2>2 DEF Turns
  <2>4. Ended(agenda[t][1], Rest)
    BY <1>1 DEF Ended
  <2> QED  BY <1>2, <1>5, <2>3, <2>4, PushKeepsProper
<1>10. /\ agenda'[t] = f /\ agenda'[c] = Call("exec", c)
       /\ \A u \in Threads : u # t /\ u # c => agenda'[u] = agenda[u]
  BY <1>1, <1>2, <1>7, <1>8
<1>11. /\ Call("exec", c) \in Seq(AnyCall) /\ Proper(c, Call("exec", c), Rest')
       /\ Inside(Call("exec", c)) = {c}
  BY <1>7, ProperBegins
<1>12. ~Idle(c)' /\ \A d \in Workers : d # c /\ Idle(d) => Idle(d)'
  <2>1. agenda'[c] # << >>
    BY <1>10 DEF Call
  <2>2. ASSUME NEW d \in Workers, d # c, Idle(d)  PROVE Idle(d)'
    <3>1. d # t /\ d \in Threads
      BY <1>4, <2>2, ThreadNames DEF Doers
    <3> QED  BY <1>10, <2>2, <3>1 DEF Idle
  <2> QED  BY <2>1, <2>2 DEF Idle
<1>13. Rest \subseteq Rest' \union {c}
  BY <1>12 DEF Rest
<1>14. Proper(Base(t), f, Rest') /\ c \notin Inside(f)
  <2>1. \A m \in 2 .. Len(agenda[t]) : ~Quiet(agenda[t][m]) => Owner(agenda[t][m]) # c
    <3>1. 1 + 1 = 2
      OBVIOUS
    <3> QED  BY <1>1, <1>3, <1>5, <3>1 DEF Proper, Ticks
  <2>2. \A k \in 1 .. Len(f) : ~Quiet(f[k]) => Owner(f[k]) # c
    <3>1. Spliced(agenda[t], << >>, f)
      BY <1>9, TurnsPlaces
    <3>2. 1 .. Len(<< >>) = {}
      OBVIOUS
    <3>3. \A k \in 1 .. Len(f) : \E j \in 2 .. Len(agenda[t]) : f[k] = agenda[t][j]
      BY <3>1, <3>2 DEF Spliced
    <3> QED  BY <2>1, <3>3
  <2> QED  BY <1>9, <1>13, <2>2, ProperWithout
<1>15. ASSUME NEW u \in Doers, u # t, u # c
       PROVE  Proper(Base(u), agenda[u], Rest') /\ c \notin Inside(agenda[u])
  <2>1. ~Quiet(agenda[t][1]) /\ Owner(agenda[t][1]) = c
    BY <1>1 DEF Quiet, Signals, Owner
  <2>2. \A k \in 1 .. Len(agenda[u]) : ~Quiet(agenda[u][k]) => Owner(agenda[u][k]) # c
    BY <1>3, <1>4, <1>6, <1>7, <1>15, <2>1, LaunchAlone
  <2>3. Proper(Base(u), agenda[u], Rest)
    BY <1>2
  <2> QED  BY <1>13, <2>2, <2>3, ProperWithout
<1>16. Walks'
  <2>1. \A u \in Doers : Base(u)' = Base(u)
    BY <1>1 DEF Base
  <2>2. ASSUME NEW u \in Doers  PROVE Proper(Base(u), agenda'[u], Rest')
    <3>1. CASE u = c
      <4>1. Base(c) = c
        BY <1>7, ThreadNames DEF Base
      <4> QED  BY <1>10, <1>11, <3>1, <4>1
    <3>2. CASE u = t
      BY <1>10, <1>14, <3>2
    <3>3. CASE u # c /\ u # t
      <4>1. agenda'[u] = agenda[u]
        BY <1>10, <3>3, ThreadNames
      <4> QED  BY <1>15, <3>3, <4>1
    <3> QED  BY <3>1, <3>2, <3>3
  <2>3. \A u \in Doers : Proper(Base(u)', agenda'[u], Rest')
    BY <2>1, <2>2
  <2>4. agenda'[Halter] = agenda[Halter]
    BY <1>4, <1>7, <1>10, ThreadNames
  <2>5. \A k \in 1 .. Len(agenda'[Halter]) : Quiet(agenda'[Halter][k])
    BY <1>2, <2>4
  <2>6. agenda' \in [Threads -> Seq(AnyCall)]
    BY <1>1, <1>2, <1>8, <1>9, <1>11
  <2> QED  BY <2>3, <2>5, <2>6 DEF Walks
<1>17. Busy'
  <2> SUFFICES ASSUME NEW d \in Workers, ~Idle(d)'
               PROVE  \E q \in Below(root) : Kind[q] \in Threaded /\ d \in ChildSet(q)
    BY <1>1 DEF Busy
  <2>1. CASE d = c
    BY <1>6, <1>7, <2>1
  <2>2. CASE d # c
    BY <1>2, <1>12, <2>2 DEF Busy
  <2> QED  BY <2>1, <2>2
<1>18. Apart'
  <2> SUFFICES ASSUME NEW d \in Workers, ~Idle(d)', NEW u \in Doers \ {d}, d \in Inside(agenda'[u])
               PROVE  FALSE
    BY DEF Apart
  <2>1. CASE d = c
    <3>1. u = t => FALSE
      BY <1>10, <1>14, <2>1
    <3>2. u # t => FALSE
      <4>1. u # t => agenda'[u] = agenda[u]
        BY <1>10, <2>1, ThreadNames
      <4> QED  BY <1>15, <2>1, <4>1
    <3> QED  BY <3>1, <3>2
  <2>2. CASE d # c
    <3>1. ~Idle(d) /\ d \notin Inside(agenda[u])
      BY <1>2, <1>12, <2>2 DEF Apart
    <3>2. u # c
      BY <1>10, <1>11, <2>2
    <3>3. u = t
      BY <1>10, <3>1, <3>2, ThreadNames
    <3>4. d \in Inside(f) /\ d \notin Inside(agenda[t])
      BY <1>10, <3>1, <3>3
    <3> PICK q \in Below(root) : Kind[q] \in Threaded /\ d \in ChildSet(q)
      BY <1>2, <3>1 DEF Busy
    <3>5. d # root
      BY <1>2, OneParent
    <3>6. d # Base(t)
      BY <3>3, <3>5 DEF Base, Doers
    <3>7. d \in Rest
      BY <1>2, <1>5, <1>9, <3>4, <3>6, WalkEnters
    <3> QED  BY <3>1, <3>7 DEF Rest
  <2> QED  BY <2>1, <2>2
<1>19. Selections' /\ root' \in Roots
  BY <1>1, <1>2 DEF Selections
<1> QED  BY <1>16, <1>17, <1>18, <1>19 DEF ExclusiveInv

\* The call that is due is one that its thread may make.
LEMMA DueCall ==
  ASSUME ExclusiveInv, NEW t \in Threads, NEW op, NEW i, Due(t, op, i)
  PROVE  /\ ~Idle(t) /\ agenda[t][1] = <<op, i>> /\ i \in Instructions
         /\ op \notin Signals => Shaped(<<op, i>>) /\ Owner(<<op, i>>) \in Instructions
<1>1. agenda[t] \in Seq(AnyCall) /\ agenda[t] # << >> /\ agenda[t][1] = <<op, i>>
  BY DEF ExclusiveInv, Walks, Due
<1>2. 1 \in 1 .. Len(agenda[t])
  BY <1>1
<1>3. i \in Instructions
  <2>1. <<op, i>> \in AnyCall
    BY <1>1, <1>2
  <2> QED  BY <2>1 DEF AnyCall
<1>4. ASSUME op \notin Signals  PROVE Shaped(<<op, i>>) /\ Owner(<<op, i>>) \in Instructions
  <2>1. ~Quiet(agenda[t][1])
    BY <1>1, <1>4 DEF Quiet
  <2>2. t \in Doers
    BY <1>2, <2>1, ThreadNames DEF ExclusiveInv, Walks
  <2>3. Proper(Base(t), agenda[t], Rest) /\ root \in Roots /\ Busy /\ ~Idle(t)
    BY <1>1, <2>2 DEF ExclusiveInv, Walks, Idle
  <2>4. Base(t) \in Below(root) /\ root \in Instructions /\ Below(root) \subseteq Instructions
    BY <2>2, <2>3, BaseInTree
  <2>5. Below(Base(t)) \subseteq Instructions
    BY <2>4, BelowClosed
  <2>6. Owner(agenda[t][1]) \in Below(Base(t)) /\ Shaped(agenda[t][1])
    BY <1>2, <2>1, <2>3 DEF Proper, Held
  <2> QED  BY <1>1, <2>5, <2>6
<1> QED  BY <1>1, <1>3, <1>4 DEF Idle

\* The thread calls what fits.
LEMMA CallsFit ==
  ASSUME ExclusiveInv, NEW t \in Threads, NEW op, NEW i, Due(t, op, i), NEW calls, Continue(t, calls),
         op \notin Signals \union {"tick", "join"}, Fits(Owner(<<op, i>>), FALSE, calls),
         UNCHANGED root, Selections'
  PROVE  ExclusiveInv'
<1>1. ~Idle(t) /\ agenda[t][1] = <<op, i>>
  BY DueCall
<1>2. Replaces(agenda[t][1], Owner(<<op, i>>), calls)
  <2>1. agenda[t][1][1] \notin Signals \union {"tick", "join"}
    BY <1>1
  <2>2. Owner(agenda[t][1]) = Owner(<<op, i>>)
    BY <1>1
  <2> QED  BY <2>1, <2>2 DEF Replaces
<1>3. HasJoined(agenda[t][1])
  BY <1>1 DEF HasJoined
<1> QED  BY <1>1, <1>2, <1>3, Pushes

\* The thread returns, or only sends signals.
LEMMA CallsQuiet ==
  ASSUME ExclusiveInv, NEW t \in Threads, NEW op, NEW i, Due(t, op, i), NEW calls \in Seq(AnyCall),
         Continue(t, calls), \A k \in 1 .. Len(calls) : Quiet(calls[k]),
         op = "join" => \A c \in ChildSet(i) : Idle(c),
         UNCHANGED root, Selections'
  PROVE  ExclusiveInv'
<1>1. ~Idle(t) /\ agenda[t][1] = <<op, i>>
  BY DueCall
<1>2. Replaces(agenda[t][1], i, calls)
  BY FitsQuiet DEF Replaces
<1>3. HasJoined(agenda[t][1])
  BY <1>1 DEF HasJoined
<1> QED  BY <1>1, <1>2, <1>3, Pushes

LEMMA CallReturns ==
  ASSUME ExclusiveInv, NEW t \in Threads, NEW op, NEW i, Due(t, op, i), Continue(t, << >>),
         op = "join" => \A c \in ChildSet(i) : Idle(c),
         UNCHANGED root, Selections'
  PROVE  ExclusiveInv'
<1>1. << >> \in Seq(AnyCall) /\ \A k \in 1 .. Len(<< >>) : Quiet(<< >>[k])
  OBVIOUS
<1> QED  BY <1>1, CallsQuiet

LEMMA SelectionsKept ==
  ASSUME Selections, UNCHANGED selected
  PROVE  Selections'
BY DEF Selections

LEMMA SelectionChanged ==
  ASSUME Selections, NEW i \in Instructions, NEW s,
         s = << >> \/ \E u \in Seq(ChildSet(i)) : s = <<u>>,
         selected' = [selected EXCEPT ![i] = s]
  PROVE  Selections'
<1>1. selected' = [j \in Instructions |-> selected'[j]]
  BY DEF Selections
<1>2. ASSUME NEW j \in Instructions
      PROVE  selected'[j] = << >> \/ \E u \in Seq(ChildSet(j)) : selected'[j] = <<u>>
  <2>1. CASE j = i
    <3>1. selected'[i] = s
      BY DEF Selections
    <3> QED  BY <2>1, <3>1
  <2>2. CASE j # i
    <3>1. selected'[j] = selected[j]
      BY <2>2 DEF Selections
    <3> QED  BY <3>1 DEF Selections
  <2> QED  BY <2>1, <2>2
<1> QED  BY <1>1, <1>2 DEF Selections

\* The selection of a Choice is a list of its children.
LEMMA ChosenChildren ==
  ASSUME NEW i \in Instructions, NEW s \in GetIndexListFromVariable(i),
         \A k \in DOMAIN s : s[k] < Len(Children[i])
  PROVE  [k \in DOMAIN s |-> Children[i][s[k] + 1]] \in Seq(ChildSet(i))
<1>1. s \in Seq(Int) /\ \A k \in DOMAIN s : s[k] >= 0
  BY TreeAssumption DEF GetIndexListFromVariable
<1>2. DOMAIN s = 1 .. Len(s) /\ Len(s) \in Nat /\ \A k \in 1 .. Len(s) : s[k] \in Int
  BY <1>1
<1>3. Children[i] \in Seq(Instructions) /\ \A k \in 1 .. Len(Children[i]) : Children[i][k] \in ChildSet(i)
  BY ChildrenAreInstructions
<1>4. ASSUME NEW k \in 1 .. Len(s)  PROVE Children[i][s[k] + 1] \in ChildSet(i)
  <2>1. s[k] + 1 \in 1 .. Len(Children[i])
    BY <1>1, <1>2, <1>3, SMTT(40)
  <2> QED  BY <1>3, <2>1
<1> QED  BY <1>2, <1>4

LEMMA StepKeepsExclusive ==
  ASSUME ExclusiveInv, NEW t \in Threads, NEW i, Step(t, i) \/ Work(t, i)
  PROVE  ExclusiveInv'
<1>0. Selections
  BY DEF ExclusiveInv
<1>a. UNCHANGED selected => Selections'
  BY <1>0, SelectionsKept
<1>1. CASE Preamble(t, i)
  <2>1. /\ Due(t, "exec", i) /\ Continue(t, Call("body", i)) /\ UNCHANGED <<root, selected>>
    BY <1>1 DEF Preamble
  <2>2. i \in Instructions
    BY <2>1, DueCall
  <2>3. Owner(<<"exec", i>>) = i /\ Fits(i, FALSE, Call("body", i))
    BY <2>2, FitsOwn DEF Owner
  <2> QED  BY <1>a, <2>1, <2>3, CallsFit DEF Signals
<1>2. CASE SkipBody(t, i)
  BY <1>2, <1>a, CallReturns DEF SkipBody
<1>3. CASE Body(t, i)
  <2>1. /\ Due(t, "body", i) /\ Continue(t, BodyCalls(i)) /\ UNCHANGED <<root, selected>>
    BY <1>3 DEF Body, Entered
  <2>2. i \in Instructions
    BY <2>1, DueCall
  <2>3. Owner(<<"body", i>>) = i /\ Fits(i, FALSE, BodyCalls(i))
    BY <1>0, <2>2, FitsBody DEF Owner
  <2> QED  BY <1>a, <2>1, <2>3, CallsFit DEF Signals
<1>4. CASE SetStatus(t, i)
  BY <1>4, <1>a, CallReturns DEF SetStatus, Return
<1>5. CASE ElementFails(t, i)
  BY <1>5, <1>a, CallReturns DEF ElementFails, Entered, Return
<1>6. CASE React(t, i)
  <2>1. PICK calls \in {ResetOtherChildren(Parent[i], i) \o Call("running", Parent[i]), Call("return", Parent[i])} :
          Due(t, "react", i) /\ Continue(t, calls) /\ UNCHANGED <<root, selected>>
    BY <1>6 DEF React
  <2>2. i \in Instructions /\ Shaped(<<"react", i>>) /\ Owner(<<"react", i>>) \in Instructions
    BY <2>1, DueCall DEF Signals
  <2>3. /\ Owner(<<"react", i>>) = Parent[i] /\ Parent[i] \in Instructions
        /\ Kind[Parent[i]] \in Reactive /\ i \in ChildSet(Parent[i])
    BY <2>2 DEF Owner, Shaped
  <2>4. Fits(Owner(<<"react", i>>), FALSE, calls)
    BY <2>1, <2>2, <2>3, FitsReact
  <2> QED  BY <1>a, <2>1, <2>4, CallsFit DEF Signals
<1>7. CASE ReturnRunning(t, i)
  BY <1>7, <1>a, CallReturns DEF ReturnRunning, Return
<1>8. CASE ListenHalted(t, i)
  BY <1>8, <1>a, CallReturns DEF ListenHalted, Return
<1>9. CASE Listen(t, i)
  <2>1. PICK again \in {ChildCalls(i), Call("running", i)} :
          \E calls \in {again, Call("reset", Child(i)) \o again, << >> \o again} :
             Due(t, "listen", i) /\ Continue(t, calls) /\ UNCHANGED <<root, selected>>
    BY <1>9 DEF Listen
  <2> PICK calls \in {again, Call("reset", Child(i)) \o again, << >> \o again} :
        Due(t, "listen", i) /\ Continue(t, calls) /\ UNCHANGED <<root, selected>>
    BY <2>1
  <2>2. i \in Instructions /\ Shaped(<<"listen", i>>)
    BY <2>1, DueCall DEF Signals
  <2>3. Owner(<<"listen", i>>) = i /\ Kind[i] = "Listen" /\ i \notin Leaf
    BY <2>2 DEF Owner, Shaped
  <2>4. Fits(i, FALSE, calls)
    BY <2>1, <2>2, <2>3, FitsListen
  <2> QED  BY <1>a, <2>1, <2>3, <2>4, CallsFit DEF Signals
<1>10. CASE CreateInstructionList(t, i)
  <2>1. /\ Due(t, "choose", i) /\ Continue(t, << >>) /\ UNCHANGED root
        /\ \/ \E s \in GetIndexListFromVariable(i) :
                /\ \A k \in DOMAIN s : s[k] < Len(Children[i])
                /\ selected' = [selected EXCEPT ![i] = <<[k \in DOMAIN s |-> Children[i][s[k] + 1]]>>]
           \/ selected' = [selected EXCEPT ![i] = <<<< >>>>]
    BY <1>10 DEF CreateInstructionList, Return
  <2>2. i \in Instructions
    BY <2>1, DueCall
  <2>3. << >> \in Seq(ChildSet(i))
    OBVIOUS
  <2>4. PICK u \in Seq(ChildSet(i)) : selected' = [selected EXCEPT ![i] = <<u>>]
    BY <2>1, <2>2, <2>3, ChosenChildren
  <2>5. Selections'
    BY <1>0, <2>2, <2>4, SelectionChanged
  <2> QED  BY <2>1, <2>5, CallReturns
<1>11. CASE AskUser(t, i)
  <2>1. Due(t, "choose", i) /\ Kind[i] = "UserChoice" /\ UNCHANGED root
    BY <1>11 DEF AskUser
  <2>2. i \in Instructions /\ Owner(<<"choose", i>>) = i
    BY <2>1, DueCall DEF Owner
  <2>3. CASE selected[i] # << >> /\ UNCHANGED selected
             /\ Continue(t, ForEach("exec", selected[i][1]) \o Call("return", i))
    <3>1. PICK u \in Seq(ChildSet(i)) : selected[i] = <<u>>
      BY <1>0, <2>2, <2>3 DEF Selections
    <3>2. selected[i][1] = u /\ Kind[i] \notin Threaded
      BY <2>1, <3>1 DEF Threaded
    <3>3. Fits(i, FALSE, ForEach("exec", selected[i][1]) \o Call("return", i))
      BY <2>2, <3>2, FitsSequential
    <3>4. PICK calls : calls = ForEach("exec", selected[i][1]) \o Call("return", i)
      OBVIOUS
    <3>5. Fits(Owner(<<"choose", i>>), FALSE, calls) /\ Continue(t, calls)
      BY <2>2, <2>3, <3>3, <3>4
    <3>6. "choose" \notin Signals \union {"tick", "join"}
      BY DEF Signals
    <3>7. Selections' /\ UNCHANGED root
      BY <1>a, <2>1, <2>3
    <3> QED  BY <2>1, <3>5, <3>6, <3>7, CallsFit
  <2>4. CASE Continue(t, << >>) /\ UNCHANGED selected
    BY <1>a, <2>1, <2>4, CallReturns
  <2>5. ASSUME NEW c \in ChildSet(i), selected' = [selected EXCEPT ![i] = <<<<c>>>>], Continue(t, << >>)
        PROVE  ExclusiveInv'
    <3>1. <<c>> \in Seq(ChildSet(i))
      OBVIOUS
    <3>2. Selections'
      BY <1>0, <2>2, <2>5, <3>1, SelectionChanged
    <3> QED  BY <2>1, <2>5, <3>2, CallReturns
  <2> QED  BY <1>11, <2>3, <2>4, <2>5 DEF AskUser, Return
<1>12. CASE NoAnswer(t, i)
  BY <1>12, <1>a, CallReturns DEF NoAnswer, Return
<1>13. CASE TickNothing(t, i)
  BY <1>13, <1>a, CallReturns DEF TickNothing
<1>14. CASE UpdateStatus(t, i)
  BY <1>14, <1>a, CallReturns DEF UpdateStatus
<1>15. CASE LaunchChild(t, i)
  BY <1>15, LaunchKeepsInv
<1>16. CASE Conclude(t, i)
  <2>1. PICK calls \in {Call("halt", i) \o Call("return", i), << >> \o Call("return", i)} :
          Due(t, "conclude", i) /\ Continue(t, calls) /\ UNCHANGED <<root, selected>>
    BY <1>16 DEF Conclude
  <2>2. i \in Instructions /\ Owner(<<"conclude", i>>) = i
    BY <2>1, DueCall DEF Owner
  <2>3. Fits(i, FALSE, calls)
    BY <2>1, <2>2, FitsConclude
  <2> QED  BY <1>a, <2>1, <2>2, <2>3, CallsFit DEF Signals
<1>17. CASE Halt(t, i)
  <2>1. Due(t, "halt", i) /\ Continue(t, HaltCalls(i)) /\ UNCHANGED <<root, selected>>
    BY <1>17 DEF Halt
  <2>2. i \in Instructions
    BY <2>1, DueCall
  <2> QED  BY <1>a, <2>1, <2>2, HaltIsQuiet, CallsQuiet
<1>18. CASE DropFuture(t, i)
  BY <1>18, <1>a, CallReturns DEF DropFuture
<1>19. CASE Reset(t, i)
  <2>1. /\ Due(t, "reset", i) /\ Continue(t, ResetCalls(i)) /\ UNCHANGED root
        /\ selected' = [selected EXCEPT ![i] = << >>]
    BY <1>19 DEF Reset
  <2>2. i \in Instructions /\ Owner(<<"reset", i>>) = i
    BY <2>1, DueCall DEF Owner
  <2>3. Selections'
    BY <1>0, <2>1, <2>2, SelectionChanged
  <2> QED  BY <2>1, <2>2, <2>3, FitsReset, CallsFit DEF Signals
<1>20. CASE Join(t, i)
  <2>1. /\ Due(t, "join", i) /\ Continue(t, << >>) /\ UNCHANGED <<root, selected>>
        /\ \A c \in ChildSet(i) : Idle(c)
    BY <1>20 DEF Join, Idle
  <2> QED  BY <1>a, <2>1, CallReturns
<1>21. CASE Clear(t, i)
  BY <1>21, <1>a, CallReturns DEF Clear, Return
<1>22. CASE Work(t, i)
  BY <1>22, <1>a, CallReturns DEF Work, Return
<1> QED  BY <1>1, <1>2, <1>3, <1>4, <1>5, <1>6, <1>7, <1>8, <1>9, <1>10, <1>11, <1>12, <1>13, <1>14, <1>15, <1>16, <1>17, <1>18, <1>19, <1>20, <1>21, <1>22 DEF Step

LEMMA ExclusiveStep ==
  ASSUME ExclusiveInv, [Next]_vars  PROVE ExclusiveInv'
<1>0. root \in Roots /\ Selections
  BY DEF ExclusiveInv
<1>1. CASE BeginTick
  <2>1. /\ agenda' = [agenda EXCEPT ![Ticker] = Call("exec", root)] /\ UNCHANGED <<root, selected>>
    BY <1>1 DEF BeginTick
  <2> QED  BY <1>0, <2>1, SelectionsKept, TickerBegins
<1>2. CASE BeginReset
  <2>1. /\ agenda' = [agenda EXCEPT ![Ticker] = Call("reset", root)] /\ UNCHANGED <<root, selected>>
    BY <1>2 DEF BeginReset
  <2> QED  BY <1>0, <2>1, SelectionsKept, TickerBegins
<1>3. CASE BeginHalt
  <2>1. /\ agenda' = [agenda EXCEPT ![Halter] = Call("halt", root)] /\ UNCHANGED <<root, selected>>
    BY <1>3 DEF BeginHalt
  <2>2. root \in Instructions
    BY <1>0, TreeAssumption
  <2>3. /\ Call("halt", root) \in Seq(AnyCall)
        /\ \A k \in 1 .. Len(Call("halt", root)) : Quiet(Call("halt", root)[k])
    BY <2>2 DEF Call, AnyCall, Operations, Quiet, Signals
  <2> QED  BY <1>0, <2>1, <2>3, SelectionsKept, HalterMoves
<1>4. CASE \E t \in Threads : \E i \in Current(t) : Step(t, i) \/ Work(t, i)
  BY <1>4, StepKeepsExclusive
<1>5. CASE UNCHANGED vars
  <2>1. UNCHANGED <<root, selected, agenda>>
    BY <1>5 DEF vars
  <2>2. Walks'
    <3>1. Walks
      BY DEF ExclusiveInv
    <3>2. Rest' = Rest /\ \A t \in Doers : Base(t)' = Base(t)
      BY <2>1 DEF Rest, Idle, Base
    <3> QED  BY <2>1, <3>1, <3>2 DEF Walks
  <2>3. Busy' /\ Apart'
    BY <2>1 DEF ExclusiveInv, Busy, Apart, Idle
  <2> QED  BY <1>0, <2>1, <2>2, <2>3, SelectionsKept DEF ExclusiveInv
<1> QED  BY <1>1, <1>2, <1>3, <1>4, <1>5 DEF Next

\* Whatever the tree: no two threads are ever inside the same instruction, although
\* ExecuteSingle and Reset take no lock, and Reset is only for an instruction that
\* nothing executes (instruction.h:140-142).
THEOREM ExclusiveExecutionHolds == Spec => []ExclusiveExecution
<1> QED  BY ExclusiveInit, ExclusiveStep, InvIsExclusive, PTL DEF Spec
-----------------------------------------------------------------------------
(* A halt reaches every leaf                                                 *)

\* The calls that lead to the work of a leaf, and those that lead to clearing a flag.
Entering == {"exec", "body", "work", "tick"}
Undoing == {"reset", "join", "clear"}

\* A thread t does not reset what it was started for, and does not enter again what it
\* resets.
Onward(t, e) ==
  \A k \in 1 .. Len(e) : e[k][1] \in Undoing =>
    /\ e[k][2] # t
    /\ \A m \in k + 1 .. Len(e) : e[m][1] \in Entering => e[m][2] # e[k][2]

\* Nothing comes before the work of a leaf once the leaf is entered.
WorkFirst(e) == \A k \in 2 .. Len(e) : e[k][1] # "work"

Makes(calls, ops) == \A k \in 1 .. Len(calls) : calls[k][1] \in ops

\* Calls that replace another enter or reset, and never both.
OneWay(call, calls) ==
  /\ Makes(calls, Operations \ Undoing) \/ Makes(calls, Operations \ Entering)
  /\ call[1] # "reset" => Makes(calls, Operations \ {"join", "clear"})
  /\ WorkFirst(calls)

LEMMA PushKeepsOnward ==
  ASSUME NEW r \in Roots, NEW b \in Below(r), NEW t, t = b \/ t \notin Instructions,
         NEW i, NEW e, NEW calls, NEW f, Turns(e, i, calls, f), OneWay(e[1], calls),
         Held(b, e), Ascending(e), Onward(t, e), WorkFirst(e)
  PROVE  Onward(t, f) /\ WorkFirst(f)
<1> DEFINE n == Len(calls)
<1>1. Spliced(e, calls, f)
  BY TurnsPlaces
<1>2. /\ n \in Nat /\ Len(e) \in Nat \ {0} /\ Len(f) = n + Len(e) - 1
      /\ \A k \in 1 .. Len(f) :
           \/ k \in 1 .. n /\ f[k] = calls[k]
           \/ \E j \in 2 .. Len(e) : k = n + j - 1 /\ f[k] = e[j]
  BY <1>1 DEF Spliced
<1>3. Below(b) \subseteq Below(r) /\ Below(r) \subseteq Instructions /\ b \in Instructions
  BY TreeAssumption, BelowClosed
<1>4. WorkFirst(f)
  <2> SUFFICES ASSUME NEW k \in 2 .. Len(f)  PROVE f[k][1] # "work"
    BY DEF WorkFirst
  <2>1. k \in 1 .. Len(f) /\ (k \in 1 .. n => k \in 2 .. n)
    BY <1>2
  <2>2. \A j \in 2 .. Len(e) : e[j][1] # "work"
    BY DEF WorkFirst
  <2>3. \A j \in 2 .. n : calls[j][1] # "work"
    BY DEF OneWay, WorkFirst
  <2> HIDE DEF n
  <2> QED  BY <1>2, <2>1, <2>2, <2>3
\* What the calls reset is a child, or what is reset anyway.
<1>5. ASSUME NEW k \in 1 .. n, calls[k][1] \in Undoing
      PROVE  /\ calls[k][2] # t
             /\ \A j \in 2 .. Len(e) : e[j][1] \in Entering => e[j][2] # calls[k][2]
  <2>1. /\ ~Quiet(calls[k]) /\ Owner(calls[k]) = calls[k][2]
    BY <1>5 DEF Undoing, Quiet, Signals, Owner
  <2>2. /\ e[1][1] \notin Signals \union {"tick", "join"} /\ Owner(e[1]) = i
        /\ calls[k][2] \in {i} \union ChildSet(i)
        /\ calls[k][2] = i => calls[k][1] # "reset"
    BY <1>5, <2>1 DEF Turns, Replaces, Fits, FitsAt, Quiet
  <2>3. 1 \in 1 .. Len(e) /\ 1 + 1 = 2
    BY <1>2
  <2>4. /\ i \in Below(b)
        /\ \A m \in 2 .. Len(e) : ~Quiet(e[m]) => Owner(e[m]) \notin StrictlyBelow(i)
    BY <2>2, <2>3 DEF Held, Ascending, Quiet
  <2>5. CASE calls[k][2] = i
    <3>1. calls[k][1] \in {"join", "clear"}
      BY <1>5, <2>2, <2>5 DEF Undoing
    <3>2. e[1][1] = "reset"
      BY <1>5, <3>1 DEF OneWay, Makes
    <3>3. e[1][2] = i /\ e[1][1] \in Undoing
      BY <2>2, <3>2 DEF Owner, Undoing
    <3> QED  BY <2>3, <2>5, <3>3 DEF Onward
  <2>6. CASE calls[k][2] \in ChildSet(i)
    <3>1. /\ calls[k][2] \in StrictlyBelow(i) /\ calls[k][2] \in Instructions
          /\ i \notin Below(calls[k][2])
      BY <1>3, <2>4, <2>6, ChildBelow
    <3>2. calls[k][2] # t
      BY <2>4, <3>1
    <3>3. ASSUME NEW j \in 2 .. Len(e), e[j][1] \in Entering  PROVE e[j][2] # calls[k][2]
      <4>1. ~Quiet(e[j]) /\ Owner(e[j]) = e[j][2]
        BY <3>3 DEF Entering, Quiet, Signals, Owner
      <4> QED  BY <2>4, <3>1, <4>1
    <3> QED  BY <3>2, <3>3
  <2> QED  BY <2>2, <2>5, <2>6
<1>6. ASSUME NEW k \in 1 .. n, calls[k][1] \in Undoing, NEW m \in 1 .. n
      PROVE  calls[m][1] \notin Entering
  BY <1>6 DEF OneWay, Makes
<1>7. Onward(t, f)
  <2> HIDE DEF n
  <2> SUFFICES ASSUME NEW k \in 1 .. Len(f), f[k][1] \in Undoing
               PROVE  /\ f[k][2] # t
                      /\ \A m \in k + 1 .. Len(f) : f[m][1] \in Entering => f[m][2] # f[k][2]
    BY DEF Onward
  <2>1. CASE k \in 1 .. n /\ f[k] = calls[k]
    <3>1. f[k][2] # t
      BY <1>5, <2>1
    <3>2. ASSUME NEW m \in k + 1 .. Len(f), f[m][1] \in Entering  PROVE f[m][2] # f[k][2]
      <4>1. m \in 1 .. Len(f)
        BY <1>2, <2>1
      <4>2. CASE m \in 1 .. n /\ f[m] = calls[m]
        BY <1>6, <2>1, <3>2, <4>2
      <4>3. ASSUME NEW j \in 2 .. Len(e), f[m] = e[j]  PROVE f[m][2] # f[k][2]
        BY <1>5, <2>1, <3>2, <4>3
      <4> QED  BY <1>2, <4>1, <4>2, <4>3
    <3> QED  BY <3>1, <3>2
  <2>2. ASSUME NEW h \in 2 .. Len(e), k = n + h - 1, f[k] = e[h]
        PROVE  /\ f[k][2] # t
               /\ \A m \in k + 1 .. Len(f) : f[m][1] \in Entering => f[m][2] # f[k][2]
    <3>1. h \in 1 .. Len(e)
      BY <1>2
    <3>2. /\ e[h][2] # t
          /\ \A j \in h + 1 .. Len(e) : e[j][1] \in Entering => e[j][2] # e[h][2]
      BY <2>2, <3>1 DEF Onward
    <3>3. ASSUME NEW m \in k + 1 .. Len(f)  PROVE \E j \in h + 1 .. Len(e) : f[m] = e[j]
      <4>1. m \in 1 .. Len(f) /\ m \notin 1 .. n
        BY <1>2, <2>2
      <4> PICK j \in 2 .. Len(e) : m = n + j - 1 /\ f[m] = e[j]
        BY <1>2, <4>1
      <4>2. j \in h + 1 .. Len(e)
        BY <1>2, <2>2
      <4> QED  BY <4>2
    <3> QED  BY <2>2, <3>2, <3>3
  <2> QED  BY <1>2, <2>1, <2>2
<1> QED  BY <1>4, <1>7

LEMMA MakesCalls ==
  /\ \A ops : Makes(<< >>, ops)
  /\ \A op, x, ops : op \in ops => Makes(Call(op, x), ops)
<1>1. 1 .. Len(<< >>) = {}
  OBVIOUS
<1> QED  BY <1>1 DEF Makes, Call

LEMMA MakesEach ==
  ASSUME NEW S, NEW s \in Seq(S), NEW ops, NEW op \in ops
  PROVE  Makes(ForEach(op, s), ops)
<1>1. DOMAIN s = 1 .. Len(s) /\ Len(s) \in Nat
  OBVIOUS
<1>2. ForEach(op, s) = [k \in 1 .. Len(s) |-> <<op, s[k]>>]
  BY <1>1 DEF ForEach
<1>3. Len(ForEach(op, s)) = Len(s)
  BY <1>1, <1>2
<1> QED  BY <1>2, <1>3 DEF Makes

LEMMA MakesBoth ==
  ASSUME NEW ops, NEW p \in Seq(AnyCall), NEW q \in Seq(AnyCall), Makes(p, ops), Makes(q, ops)
  PROVE  Makes(p \o q, ops) /\ p \o q \in Seq(AnyCall)
<1>1. PICK f : f = p \o q
  OBVIOUS
<1>2. /\ f \in Seq(AnyCall) /\ Len(f) = Len(p) + Len(q) /\ Len(p) \in Nat /\ Len(q) \in Nat
      /\ \A k \in 1 .. Len(p) + Len(q) : f[k] = IF k <= Len(p) THEN p[k] ELSE q[k - Len(p)]
  BY <1>1, ConcatProperties
<1>3. ASSUME NEW k \in 1 .. Len(f)  PROVE f[k][1] \in ops
  <2>1. CASE k <= Len(p)
    <3>1. k \in 1 .. Len(p) /\ f[k] = p[k]
      BY <1>2, <2>1
    <3> QED  BY <3>1 DEF Makes
  <2>2. CASE ~(k <= Len(p))
    <3>1. k - Len(p) \in 1 .. Len(q) /\ f[k] = q[k - Len(p)]
      BY <1>2, <2>2
    <3> QED  BY <3>1 DEF Makes
  <2> QED  BY <2>1, <2>2
<1> QED  BY <1>1, <1>2, <1>3 DEF Makes

LEMMA SeqsOfCalls ==
  /\ << >> \in Seq(AnyCall)
  /\ \A op \in Operations, x \in Instructions : Call(op, x) \in Seq(AnyCall)
  /\ \A op \in Operations, s \in Seq(Instructions) : ForEach(op, s) \in Seq(AnyCall)
<1>1. << >> \in Seq(AnyCall)
  OBVIOUS
<1>2. ASSUME NEW op \in Operations, NEW x \in Instructions  PROVE Call(op, x) \in Seq(AnyCall)
  BY DEF Call, AnyCall
<1>3. ASSUME NEW op \in Operations, NEW s \in Seq(Instructions)  PROVE ForEach(op, s) \in Seq(AnyCall)
  <2>1. DOMAIN s = 1 .. Len(s) /\ Len(s) \in Nat /\ \A k \in 1 .. Len(s) : s[k] \in Instructions
    OBVIOUS
  <2>2. \A k \in 1 .. Len(s) : <<op, s[k]>> \in AnyCall
    BY <2>1 DEF AnyCall
  <2>3. ForEach(op, s) = [k \in 1 .. Len(s) |-> <<op, s[k]>>]
    BY <2>1 DEF ForEach
  <2> QED  BY <2>1, <2>2, <2>3
<1> QED  BY <1>1, <1>2, <1>3

\* Calls that only go on, the work of a leaf, calls that only take back, and those of a reset.
Forth == {"exec", "body", "choose", "listen", "tick", "react", "return", "running", "conclude", "halt", "drop"}
Back  == {"choose", "listen", "react", "return", "running", "conclude", "reset", "halt", "drop"}

LEMMA OneWayCalls ==
  ASSUME NEW call, NEW calls,
         \/ Makes(calls, Forth)
         \/ \E x : calls = Call("work", x)
         \/ Makes(calls, Back)
         \/ call[1] = "reset" /\ Makes(calls, Back \union {"join", "clear"})
  PROVE  OneWay(call, calls)
<1>1. CASE Makes(calls, Forth)
  <2>1. /\ Forth \subseteq Operations \ Undoing /\ Forth \subseteq Operations \ {"join", "clear"}
        /\ "work" \notin Forth
    BY DEF Forth, Operations, Undoing
  <2>2. WorkFirst(calls)
    <3>1. ASSUME NEW k \in 2 .. Len(calls)  PROVE k \in 1 .. Len(calls)
      OBVIOUS
    <3> QED  BY <1>1, <2>1, <3>1 DEF Makes, WorkFirst
  <2> QED  BY <1>1, <2>1, <2>2 DEF OneWay, Makes
<1>2. ASSUME NEW x, calls = Call("work", x)  PROVE OneWay(call, calls)
  <2>1. Len(calls) = 1 /\ calls[1] = <<"work", x>>
    BY <1>2 DEF Call
  <2>2. 1 .. Len(calls) = {1} /\ 2 .. Len(calls) = {}
    BY <2>1
  <2> QED  BY <2>1, <2>2 DEF OneWay, Makes, WorkFirst, Operations, Undoing
<1>3. ASSUME NEW ops, Makes(calls, ops), ops \subseteq Back \union {"join", "clear"},
             ops \subseteq Back \/ call[1] = "reset"
      PROVE  OneWay(call, calls)
  <2>1. /\ Back \union {"join", "clear"} \subseteq Operations \ Entering
        /\ Back \subseteq Operations \ {"join", "clear"}
        /\ "work" \notin Back \union {"join", "clear"}
    BY DEF Back, Operations, Entering
  <2>2. WorkFirst(calls)
    <3>1. ASSUME NEW k \in 2 .. Len(calls)  PROVE k \in 1 .. Len(calls)
      OBVIOUS
    <3> QED  BY <1>3, <2>1, <3>1 DEF Makes, WorkFirst
  <2> QED  BY <1>3, <2>1, <2>2 DEF OneWay, Makes
<1> QED  BY <1>1, <1>2, <1>3

\* The kinds of instruction that let a halt through.
Hears(i) == Kind[i] \notin Counting \union {"Listen", "UserChoice"}

LEMMA HearsBelow ==
  ASSUME root \in Roots, HearsHalts, NEW i \in Below(root)
  PROVE  Hears(i)
<1>1. root \in Instructions
  BY TreeAssumption
<1> DEFINE S == Subtree[root] \intersect Instructions
<1>2. Closed(S) /\ root \in S
  <2>1. root \in Subtree[root] /\ \A j \in Subtree[root] : ChildSet(j) \subseteq Subtree[root]
    BY <1>1, TreeAssumption
  <2> QED  BY <1>1, <2>1, ChildrenAreInstructions DEF Closed
<1>3. i \in Subtree[root]
  BY <1>1, <1>2, BelowLeast
<1> QED  BY <1>3 DEF HearsHalts, Hears

LEMMA BodyOneWay ==
  ASSUME Selections, NEW i \in Instructions, Hears(i)
  PROVE  OneWay(<<"body", i>>, BodyCalls(i))
<1>1. CASE i \in Leaf
  BY <1>1, OneWayCalls DEF BodyCalls
<1>2. ASSUME i \notin Leaf  PROVE Makes(BodyCalls(i), Forth)
  <2>1. /\ Children[i] \in Seq(Instructions) /\ ChildSet(i) \subseteq Instructions
        /\ Child(i) \in Instructions
    BY <1>2, ChildrenAreInstructions, ChildIsChild
  <2>2. \A op \in Forth : op \in Operations
    BY DEF Forth, Operations
  <2>3. ASSUME NEW s \in Seq(Instructions), NEW op \in Forth, NEW e \in Seq(AnyCall), Makes(e, Forth)
        PROVE  Makes(ForEach(op, s) \o e, Forth)
    BY <2>2, <2>3, SeqsOfCalls, MakesEach, MakesBoth
  <2>4. ASSUME NEW op \in Forth, NEW x \in Instructions
        PROVE  Makes(Call(op, x), Forth) /\ Call(op, x) \in Seq(AnyCall)
    BY <2>2, MakesCalls, SeqsOfCalls
  <2>5. {"exec", "return", "choose", "tick", "react", "conclude"} \subseteq Forth
    BY DEF Forth
  <2>6. ASSUME NEW s \in Seq(Instructions)  PROVE Makes(SequentialCalls(i, s), Forth)
    <3>1. FirstUnfinished(s) \in Seq(Instructions)
      <4>1. << >> \in Seq(Instructions) /\ \A c \in Instructions : <<c>> \in Seq(Instructions)
        OBVIOUS
      <4> QED  BY <4>1, FirstUnfinishedIsOne
    <3> QED  BY <2>3, <2>4, <2>5, <3>1 DEF SequentialCalls
  <2>7. CASE Kind[i] \in {"Sequence", "Fallback"}
    <3>1. BodyCalls(i) = SequentialCalls(i, Children[i])
      BY <1>2, <2>7 DEF BodyCalls, Reactive, Threaded, Counting
    <3> QED  BY <2>1, <2>6, <3>1
  <2>8. CASE Kind[i] \in Reactive
    <3>1. BodyCalls(i) = ReactiveCalls(i)
      BY <1>2, <2>8 DEF BodyCalls, Reactive, Threaded, Counting
    <3>2. FirstUnfinished(Children[i]) \in Seq(Instructions)
      <4>1. << >> \in Seq(Instructions) /\ \A c \in Instructions : <<c>> \in Seq(Instructions)
        OBVIOUS
      <4> QED  BY <2>1, <4>1, FirstUnfinishedIsOne
    <3>3. PICK c : c = FirstUnfinished(Children[i])
      OBVIOUS
    <3>4. Makes(ForEach("react", c), Forth) /\ ForEach("react", c) \in Seq(AnyCall)
      BY <2>2, <2>5, <3>2, <3>3, MakesEach, SeqsOfCalls
    <3>5. Makes(ForEach("exec", c) \o ForEach("react", c), Forth)
      BY <2>3, <2>5, <3>2, <3>3, <3>4
    <3> QED  BY <2>4, <2>5, <3>1, <3>3, <3>5 DEF ReactiveCalls
  <2>9. CASE Kind[i] = "Choice"
    <3>1. BodyCalls(i) = ChoiceCalls(i)
      BY <1>2, <2>9 DEF BodyCalls, Reactive, Threaded, Counting
    <3>2. CASE selected[i] = << >>
      BY <2>4, <2>5, <3>1, <3>2 DEF ChoiceCalls
    <3>3. ASSUME NEW s \in Seq(ChildSet(i)), selected[i] = <<s>>  PROVE Makes(BodyCalls(i), Forth)
      <4>1. <<s>> # << >> /\ <<s>>[1] = s /\ s \in Seq(Instructions)
        BY <2>1
      <4> QED  BY <2>6, <3>1, <3>3, <4>1 DEF ChoiceCalls
    <3> QED  BY <3>2, <3>3 DEF Selections
  <2>10. CASE Kind[i] = "ParallelSequence"
    <3>1. BodyCalls(i) = ForEach("tick", Children[i]) \o Call("conclude", i)
      BY <1>2, <2>10 DEF BodyCalls, ParallelCalls, Reactive, Threaded, Counting
    <3> QED  BY <2>1, <2>3, <2>4, <2>5, <3>1
  <2>11. CASE Kind[i] = "Async"
    <3>1. BodyCalls(i) = Call("tick", Child(i)) \o Call("return", i)
      BY <1>2, <2>11 DEF BodyCalls, AsyncCalls, Reactive, Threaded, Counting
    <3> QED  BY <2>1, <2>4, <2>5, <3>1, MakesBoth
  <2>12. CASE Kind[i] \in {"Inverter", "ForceSuccess", "Include"}
    <3>1. BodyCalls(i) = Call("exec", Child(i)) \o Call("return", i)
      BY <1>2, <2>12 DEF BodyCalls, ChildCalls, Reactive, Threaded, Counting
    <3> QED  BY <2>1, <2>4, <2>5, <3>1, MakesBoth
  <2>13. Kind[i] \in Compounds /\ Kind[i] \notin Counting \union {"Listen", "UserChoice"}
    BY <1>2, TreeAssumption DEF Hears
  <2> QED  BY <2>7, <2>8, <2>9, <2>10, <2>11, <2>12, <2>13 DEF Compounds, Threaded
<1> QED  BY <1>1, <1>2, OneWayCalls

\* Calls that enter nothing.
BacksOut(call, calls) == OneWay(call, calls) /\ Makes(calls, Operations \ Entering)

LEMMA BacksOutCalls ==
  /\ \A call, calls : Makes(calls, Back) => BacksOut(call, calls)
  /\ \A op, i, calls : op = "reset" /\ Makes(calls, Back \union {"join", "clear"})
                        => BacksOut(<<op, i>>, calls)
<1>1. Back \union {"join", "clear"} \subseteq Operations \ Entering
  BY DEF Back, Operations, Entering
<1>2. ASSUME NEW call, NEW calls, Makes(calls, Back)  PROVE BacksOut(call, calls)
  BY <1>1, <1>2, OneWayCalls DEF BacksOut, Makes
<1>3. ASSUME NEW call, call[1] = "reset", NEW calls, Makes(calls, Back \union {"join", "clear"})
      PROVE  BacksOut(call, calls)
  BY <1>1, <1>3, OneWayCalls DEF BacksOut, Makes
<1>4. ASSUME NEW i, NEW calls, Makes(calls, Back \union {"join", "clear"})
      PROVE  BacksOut(<<"reset", i>>, calls)
  BY <1>3, <1>4
<1> QED  BY <1>2, <1>4

LEMMA OthersBackOut ==
  ASSUME NEW i \in Instructions
  PROVE  /\ BacksOut(<<"halt", i>>, HaltCalls(i))
         /\ BacksOut(<<"reset", i>>, ResetCalls(i))
         /\ \A h \in {Call("halt", i), << >>} : BacksOut(<<"conclude", i>>, h \o Call("return", i))
         /\ \A call : BacksOut(call, << >>)
<1>1. Children[i] \in Seq(Instructions)
  BY ChildrenAreInstructions
<1>2. \A call : BacksOut(call, << >>)
  BY MakesCalls, BacksOutCalls
<1>3. BacksOut(<<"halt", i>>, HaltCalls(i))
  <2>1. Makes(HaltCalls(i), Back)
    BY <1>1, MakesCalls, MakesEach DEF HaltCalls, Back
  <2> QED  BY <2>1, BacksOutCalls
<1>4. ASSUME NEW h \in {Call("halt", i), << >>}  PROVE BacksOut(<<"conclude", i>>, h \o Call("return", i))
  <2>1. Makes(h, Back) /\ Makes(Call("return", i), Back)
    BY MakesCalls DEF Back
  <2>2. h \in Seq(AnyCall) /\ Call("return", i) \in Seq(AnyCall)
    BY SeqsOfCalls DEF Operations
  <2>3. Makes(h \o Call("return", i), Back)
    BY <2>1, <2>2, MakesBoth
  <2> QED  BY <2>3, BacksOutCalls
<1>5. BacksOut(<<"reset", i>>, ResetCalls(i))
  <2> DEFINE ops == Back \union {"join", "clear"}
             halts == IF HaltsOnReset(i) THEN Call("halt", i) ELSE << >>
             joins == IF Kind[i] \in Threaded THEN Call("join", i) ELSE << >>
             resets == ForEach("reset", Children[i])
  <2>0. \A op \in ops : op \in Operations
    BY DEF Back, Operations
  <2>1. {"halt", "join", "reset", "clear"} \subseteq ops
    BY DEF Back
  <2> HIDE DEF ops
  <2>2. /\ Makes(halts, ops) /\ halts \in Seq(AnyCall)
        /\ Makes(joins, ops) /\ joins \in Seq(AnyCall)
        /\ Makes(Call("clear", i), ops) /\ Call("clear", i) \in Seq(AnyCall)
    BY <2>0, <2>1, MakesCalls, SeqsOfCalls
  <2>3. Makes(resets, ops) /\ resets \in Seq(AnyCall)
    BY <1>1, <2>0, <2>1, MakesEach, SeqsOfCalls
  <2>4. ResetCalls(i) = ((halts \o joins) \o resets) \o Call("clear", i)
    BY DEF ResetCalls
  <2> HIDE DEF halts, joins, resets
  <2>5. Makes(((halts \o joins) \o resets) \o Call("clear", i), ops)
    BY <2>2, <2>3, MakesBoth
  <2> QED  BY <2>4, <2>5, BacksOutCalls DEF ops
<1> QED  BY <1>2, <1>3, <1>4, <1>5

LEMMA ReactBacksOut ==
  ASSUME NEW c \in Instructions, Parent[c] \in Instructions, Kind[Parent[c]] \in Reactive,
         c \in ChildSet(Parent[c])
  PROVE  /\ BacksOut(<<"react", c>>, ResetOtherChildren(Parent[c], c) \o Call("running", Parent[c]))
         /\ BacksOut(<<"react", c>>, Call("return", Parent[c]))
<1> DEFINE p == Parent[c]
           all == Children[p]
           at == CHOOSE k \in DOMAIN all : all[k] = c
           s == SubSeq(all, 1, at - 1) \o SubSeq(all, at + 1, Len(all))
<1>1. p \in Instructions /\ all \in Seq(Instructions) /\ at \in 1 .. Len(all)
  <2>1. all \in Seq(Instructions)
    BY ChildrenAreInstructions
  <2>2. \E k \in DOMAIN all : all[k] = c
    BY DEF ChildSet
  <2> QED  BY <2>1, <2>2
<1> HIDE DEF p, all, at
<1>2. s \in Seq(Instructions)
  <2>1. SubSeq(all, 1, at - 1) \in Seq(Instructions) /\ SubSeq(all, at + 1, Len(all)) \in Seq(Instructions)
    BY <1>1
  <2> QED  BY <2>1, ConcatProperties
<1>3. ResetOtherChildren(p, c) = ForEach("reset", s)
  BY DEF ResetOtherChildren, p, all, at
<1> HIDE DEF s
<1>4. Makes(ForEach("reset", s), Back) /\ ForEach("reset", s) \in Seq(AnyCall)
  BY <1>2, MakesEach, SeqsOfCalls DEF Back, Operations
<1>5. ASSUME NEW op \in {"running", "return"}
      PROVE  Makes(Call(op, p), Back) /\ Call(op, p) \in Seq(AnyCall)
  <2>1. op \in Back /\ op \in Operations
    BY DEF Back, Operations
  <2> QED  BY <1>1, <2>1, MakesCalls, SeqsOfCalls
<1>6. Makes(ForEach("reset", s) \o Call("running", p), Back)
  BY <1>4, <1>5, MakesBoth
<1> QED  BY <1>3, <1>5, <1>6, BacksOutCalls DEF p

\* A halt of the client has set the flag of an instruction, or is on its way to it.
Pending(i) == \E k \in 1 .. Len(agenda[Halter]) : i \in Below(agenda[Halter][k][2])
Reached(i) == haltReq[i] \/ Pending(i)

\* The client's thread only halts instructions of the tree.
Signalled ==
  \A k \in 1 .. Len(agenda[Halter]) :
    agenda[Halter][k][1] = "halt" /\ agenda[Halter][k][2] \in Below(root)

Orderly == \A t \in Doers : Onward(t, agenda[t]) /\ WorkFirst(agenda[t])

\* Whatever is still to be entered has been reached.
Told == halted => \A t \in Doers : \A k \in 1 .. Len(agenda[t]) :
                    agenda[t][k][1] \in Entering => Reached(agenda[t][k][2])

TellInv == haltReq \in [Instructions -> BOOLEAN] /\ Signalled /\ Orderly /\ Told

\* The flags that others rely on stay, while thread t makes its next call, and what it
\* calls has been reached.
KeepsFlags(t) ==
  \A u \in Doers : \A k \in 1 .. Len(agenda[u]) :
    /\ u = t => k # 1
    /\ agenda[u][k][1] \in Entering /\ haltReq[agenda[u][k][2]]
    => haltReq'[agenda[u][k][2]]

Heard(calls) ==
  halted => \A k \in 1 .. Len(calls) :
    calls[k][1] \in Entering => haltReq'[calls[k][2]] \/ Pending(calls[k][2])

LEMMA DoerTells ==
  ASSUME ExclusiveInv, TellInv, NEW t \in Doers, ~Idle(t), NEW i, NEW calls, Continue(t, calls),
         Replaces(agenda[t][1], i, calls), OneWay(agenda[t][1], calls),
         UNCHANGED <<root, halted>>, haltReq' \in [Instructions -> BOOLEAN],
         KeepsFlags(t), Heard(calls)
  PROVE  TellInv'
<1>e. PICK e : e = agenda[t]
  OBVIOUS
<1>f. PICK f : f = calls \o Tail(e)
  OBVIOUS
<1>b. PICK b : b = Base(t)
  OBVIOUS
<1>1. /\ root \in Roots /\ Busy /\ e \in Seq(AnyCall) /\ e # << >>
      /\ agenda \in [Threads -> Seq(AnyCall)] /\ Proper(b, e, Rest)
      /\ t \in Threads
  BY <1>b, <1>e, ThreadNames DEF ExclusiveInv, Walks, Idle
<1>2. agenda' = [agenda EXCEPT ![t] = f]
  BY <1>e, <1>f DEF Continue, Replace
<1>3. /\ \A u \in Threads : u # t => agenda'[u] = agenda[u]
      /\ agenda'[t] = f /\ agenda'[Halter] = agenda[Halter]
  BY <1>1, <1>2, ThreadNames
<1>4. Turns(e, i, calls, f)
  BY <1>e, <1>f, <1>1 DEF Turns
<1>5. Signalled'
  BY <1>3 DEF TellInv, Signalled
<1>6. Onward(t, f) /\ WorkFirst(f)
  <2>1. b \in Below(root) /\ (t = b \/ t \notin Instructions)
    <3>1. Base(t) \in Below(root) /\ (t \in Workers => Base(t) = t)
      BY <1>1, BaseInTree
    <3>2. t = Ticker => t \notin Instructions
      BY TreeAssumption
    <3> QED  BY <1>b, <3>1, <3>2 DEF Doers
  <2>2. Held(b, e) /\ Ascending(e) /\ Onward(t, e) /\ WorkFirst(e) /\ OneWay(e[1], calls)
    BY <1>e, <1>1 DEF Proper, TellInv, Orderly
  <2> QED  BY <1>1, <1>4, <2>1, <2>2, PushKeepsOnward
<1>7. Orderly'
  <2>1. \A u \in Doers : u # t => agenda'[u] = agenda[u]
    BY <1>3, ThreadNames
  <2> QED  BY <1>3, <1>6, <2>1 DEF TellInv, Orderly
<1>8. ASSUME halted, NEW u \in Doers, NEW k \in 1 .. Len(agenda[u]), u = t => k # 1,
             agenda[u][k][1] \in Entering
      PROVE  haltReq'[agenda[u][k][2]] \/ Pending(agenda[u][k][2])
  <2>1. haltReq[agenda[u][k][2]] \/ Pending(agenda[u][k][2])
    BY <1>8 DEF TellInv, Told, Reached
  <2>2. haltReq[agenda[u][k][2]] => haltReq'[agenda[u][k][2]]
    BY <1>8 DEF KeepsFlags
  <2> QED  BY <2>1, <2>2
<1>9. Told'
  <2> SUFFICES ASSUME halted, NEW u \in Doers, NEW k \in 1 .. Len(agenda'[u]),
                      agenda'[u][k][1] \in Entering
               PROVE  haltReq'[agenda'[u][k][2]] \/ Pending(agenda'[u][k][2])
    BY <1>3 DEF Told, Reached, Pending
  <2>1. CASE u # t
    <3>1. agenda'[u] = agenda[u]
      BY <1>3, <2>1, ThreadNames
    <3> QED  BY <1>8, <2>1, <3>1
  <2>2. CASE u = t
    <3>1. Spliced(e, calls, f) /\ agenda'[u] = f
      BY <1>3, <1>4, <2>2, TurnsPlaces
    <3>2. CASE k \in 1 .. Len(calls) /\ f[k] = calls[k]
      BY <3>1, <3>2 DEF Heard
    <3>3. ASSUME NEW j \in 2 .. Len(e), f[k] = e[j]
          PROVE  haltReq'[f[k][2]] \/ Pending(f[k][2])
      <4>1. j \in 1 .. Len(agenda[u]) /\ j # 1 /\ f[k] = agenda[u][j]
        BY <1>e, <2>2, <3>1, <3>3 DEF Spliced
      <4> QED  BY <1>8, <3>1, <4>1
    <3> QED  BY <3>1, <3>2, <3>3 DEF Spliced
  <2> QED  BY <2>1, <2>2
<1> QED  BY <1>5, <1>7, <1>9 DEF TellInv

\* The client's thread makes no other calls than its halts.
LEMMA DueDoer ==
  ASSUME ExclusiveInv, TellInv, NEW t \in Threads, NEW op, NEW i, Due(t, op, i)
  PROVE  op # "halt" => t \in Doers
<1>1. agenda[t] \in Seq(AnyCall) /\ agenda[t] # << >> /\ agenda[t][1] = <<op, i>>
  BY DEF ExclusiveInv, Walks, Due
<1>2. 1 \in 1 .. Len(agenda[t])
  BY <1>1
<1>3. t = Halter => op = "halt"
  BY <1>1, <1>2 DEF TellInv, Signalled
<1> QED  BY <1>3, ThreadNames

\* Nothing that a reset is done with is entered by any thread.
LEMMA ClearAlone ==
  ASSUME ExclusiveInv, Orderly, NEW t \in Doers, NEW i, Due(t, "clear", i),
         NEW u \in Doers, NEW k \in 1 .. Len(agenda[u]), u = t => k # 1, agenda[u][k][1] \in Entering
  PROVE  agenda[u][k][2] # i
<1> SUFFICES ASSUME agenda[u][k][2] = i  PROVE FALSE
  OBVIOUS
<1>1. /\ agenda[t] \in Seq(AnyCall) /\ agenda[t] # << >> /\ agenda[t][1] = <<"clear", i>>
      /\ agenda[u] \in Seq(AnyCall) /\ root \in Roots /\ Busy
      /\ Proper(Base(u), agenda[u], Rest)
  BY ThreadNames DEF ExclusiveInv, Walks, Due
<1>2. 1 \in 1 .. Len(agenda[t])
  BY <1>1
<1>3. /\ i # t /\ \A m \in 2 .. Len(agenda[t]) : agenda[t][m][1] \in Entering => agenda[t][m][2] # i
  <2>1. 1 + 1 = 2 /\ agenda[t][1][1] \in Undoing /\ agenda[t][1][2] = i
    BY <1>1 DEF Undoing
  <2> QED  BY <1>2, <2>1 DEF Orderly, Onward
<1>4. u # t
  BY <1>3
<1>5. ~Quiet(agenda[t][1]) /\ Owner(agenda[t][1]) = i /\ i \in Inside(agenda[t])
  <2>1. agenda[t][1][1] = "clear" /\ agenda[t][1][2] = i
    BY <1>1
  <2> QED  BY <1>2, <2>1 DEF Inside, Quiet, Signals, Owner
<1>6. ~Quiet(agenda[u][k]) /\ Owner(agenda[u][k]) = i
  BY DEF Entering, Quiet, Signals, Owner
<1>7. CASE agenda[u][k][1] # "tick"
  <2>1. agenda[u][k][1] \in {"exec", "body", "work"}
    BY <1>7 DEF Entering
  <2>2. i \in Inside(agenda[u])
    BY <1>6, <2>1 DEF Inside
  <2> QED  BY <1>4, <1>5, <2>2, InsidesApart
<1>8. CASE agenda[u][k][1] = "tick"
  <2> PICK p \in Below(Base(u)) : Kind[p] \in Threaded /\ i \in ChildSet(p)
    BY <1>1, <1>8 DEF Proper, Ticks
  <2>1. p \in Below(root)
    <3>1. ~Idle(u)
      BY <1>1 DEF Idle
    <3>2. Base(u) \in Below(root) /\ root \in Instructions
      BY <1>1, <3>1, BaseInTree
    <3> QED  BY <3>2, BelowClosed
  <2> QED  BY <1>2, <1>3, <1>4, <1>5, <1>6, <2>1, LaunchAlone
<1> QED  BY <1>7, <1>8

\* The next call of thread t makes others.  In a tree that hears halts it only enters
\* anything when it is about to execute an instruction that was not halted.
Goes(t, op, i, calls) ==
  /\ Due(t, op, i) /\ Continue(t, calls) /\ UNCHANGED <<root, halted>>
  /\ OneWay(<<op, i>>, calls) /\ \E x : Replaces(<<op, i>>, x, calls)
  /\ \/ Makes(calls, Operations \ Entering)
     \/ op = "exec" /\ calls = Call("body", i)
     \/ op = "body" /\ calls = BodyCalls(i) /\ ~haltReq[i] /\ Fits(i, FALSE, calls)
  /\ op = "halt" => calls = HaltCalls(i) /\ haltReq' = [haltReq EXCEPT ![i] = TRUE]
  /\ op = "clear" => calls = << >> /\ haltReq' = [haltReq EXCEPT ![i] = FALSE]
  /\ op \notin {"halt", "clear"} => UNCHANGED haltReq

LEMMA GoesOut ==
  ASSUME NEW t, NEW op, NEW i, Due(t, op, i), Continue(t, << >>), UNCHANGED <<root, halted>>,
         op # "halt", op = "clear" => haltReq' = [haltReq EXCEPT ![i] = FALSE],
         op # "clear" => UNCHANGED haltReq
  PROVE  \E o, calls : Goes(t, o, i, calls)
<1>1. << >> \in Seq(AnyCall) /\ 1 .. Len(<< >>) = {}
  OBVIOUS
<1>2. Replaces(<<op, i>>, i, << >>)
  BY <1>1, FitsQuiet DEF Replaces
<1>3. OneWay(<<op, i>>, << >>) /\ Makes(<< >>, Operations \ Entering)
  BY MakesCalls, OneWayCalls
<1>4. Goes(t, op, i, << >>)
  BY <1>2, <1>3 DEF Goes
<1> QED  BY <1>4

LEMMA GoesBack ==
  ASSUME NEW t, NEW op, NEW i, Due(t, op, i), NEW calls, Continue(t, calls), UNCHANGED <<root, halted, haltReq>>,
         op \notin Signals \union {"tick", "join", "clear"}, Fits(Owner(<<op, i>>), FALSE, calls),
         BacksOut(<<op, i>>, calls)
  PROVE  \E o, e : Goes(t, o, i, e)
<1>1. Replaces(<<op, i>>, Owner(<<op, i>>), calls)
  BY DEF Replaces
<1>2. op \notin {"halt", "clear"}
  BY DEF Signals
<1>3. Goes(t, op, i, calls)
  BY <1>1, <1>2 DEF Goes, BacksOut
<1> QED  BY <1>3

\* What is due is about an instruction of the tree.
LEMMA DueBelow ==
  ASSUME ExclusiveInv, NEW t \in Threads, NEW op, NEW i, Due(t, op, i), op \notin Signals
  PROVE  Owner(<<op, i>>) \in Below(root) /\ root \in Roots
<1>1. agenda[t] \in Seq(AnyCall) /\ agenda[t] # << >> /\ agenda[t][1] = <<op, i>>
  BY DEF ExclusiveInv, Walks, Due
<1>2. 1 \in 1 .. Len(agenda[t]) /\ ~Quiet(agenda[t][1])
  BY <1>1 DEF Quiet
<1>3. t \in Doers
  BY <1>2, ThreadNames DEF ExclusiveInv, Walks
<1>4. Held(Base(t), agenda[t]) /\ root \in Roots /\ Busy /\ ~Idle(t)
  BY <1>1, <1>3 DEF ExclusiveInv, Walks, Proper, Idle
<1>5. Base(t) \in Below(root) /\ root \in Instructions
  BY <1>3, <1>4, BaseInTree
<1>6. Owner(agenda[t][1]) \in Below(Base(t))
  BY <1>2, <1>4 DEF Held
<1> QED  BY <1>1, <1>4, <1>5, <1>6, BelowClosed

LEMMA StepGoes ==
  ASSUME ExclusiveInv, HearsHalts, NEW t \in Threads, NEW i, Step(t, i) \/ Work(t, i)
  PROVE  LaunchChild(t, i) \/ \E op, calls : Goes(t, op, i, calls)
<1>0. Selections
  BY DEF ExclusiveInv
<1>1. CASE Preamble(t, i)
  <2>1. /\ Due(t, "exec", i) /\ Continue(t, Call("body", i)) /\ UNCHANGED <<root, halted, haltReq>>
    BY <1>1 DEF Preamble
  <2>2. i \in Instructions
    BY <2>1, DueCall
  <2>3. OneWay(<<"exec", i>>, Call("body", i))
    BY MakesCalls, OneWayCalls DEF Forth
  <2>4. Replaces(<<"exec", i>>, i, Call("body", i))
    BY <2>2, FitsOwn DEF Replaces, Owner, Signals
  <2>5. Goes(t, "exec", i, Call("body", i))
    BY <2>1, <2>3, <2>4 DEF Goes
  <2> QED  BY <2>5
<1>2. CASE SkipBody(t, i)
  BY <1>2, GoesOut DEF SkipBody
<1>3. CASE Body(t, i)
  <2>1. /\ Due(t, "body", i) /\ Continue(t, BodyCalls(i)) /\ UNCHANGED <<root, halted, haltReq>>
        /\ ~haltReq[i]
    BY <1>3 DEF Body, Entered
  <2>2. i \in Instructions
    BY <2>1, DueCall
  <2>3. Hears(i)
    <3>1. Owner(<<"body", i>>) = i
      BY DEF Owner
    <3>2. i \in Below(root) /\ root \in Roots
      BY <2>1, <3>1, DueBelow DEF Signals
    <3> QED  BY <3>2, HearsBelow
  <2>4. PICK calls : calls = BodyCalls(i)
    OBVIOUS
  <2>5. OneWay(<<"body", i>>, calls) /\ Fits(i, FALSE, calls)
    BY <1>0, <2>2, <2>3, <2>4, BodyOneWay, FitsBody
  <2>6. Replaces(<<"body", i>>, i, calls)
    BY <2>5 DEF Replaces, Owner, Signals
  <2>7. Goes(t, "body", i, calls)
    BY <2>1, <2>4, <2>5, <2>6 DEF Goes
  <2> QED  BY <2>7
<1>4. CASE SetStatus(t, i)
  BY <1>4, GoesOut DEF SetStatus, Return
<1>5. CASE ElementFails(t, i)
  BY <1>5, GoesOut DEF ElementFails, Entered, Return
<1>6. CASE React(t, i)
  <2>1. PICK calls \in {ResetOtherChildren(Parent[i], i) \o Call("running", Parent[i]), Call("return", Parent[i])} :
          Due(t, "react", i) /\ Continue(t, calls) /\ UNCHANGED <<root, halted, haltReq>>
    BY <1>6 DEF React
  <2>2. i \in Instructions /\ Shaped(<<"react", i>>) /\ Owner(<<"react", i>>) \in Instructions
    BY <2>1, DueCall DEF Signals
  <2>3. /\ Owner(<<"react", i>>) = Parent[i] /\ Parent[i] \in Instructions
        /\ Kind[Parent[i]] \in Reactive /\ i \in ChildSet(Parent[i])
    BY <2>2 DEF Owner, Shaped
  <2>4. Fits(Owner(<<"react", i>>), FALSE, calls) /\ BacksOut(<<"react", i>>, calls)
    BY <2>1, <2>2, <2>3, FitsReact, ReactBacksOut
  <2> QED  BY <2>1, <2>4, GoesBack DEF Signals
<1>7. CASE ReturnRunning(t, i)
  BY <1>7, GoesOut DEF ReturnRunning, Return
<1>8. CASE ListenHalted(t, i)
  BY <1>8, GoesOut DEF ListenHalted, Return
<1>9. CASE Listen(t, i)
  <2>1. Due(t, "listen", i)
    BY <1>9 DEF Listen
  <2>2. Shaped(<<"listen", i>>) /\ Owner(<<"listen", i>>) \in Below(root) /\ root \in Roots
    BY <2>1, DueCall, DueBelow DEF Signals
  <2>3. Kind[i] = "Listen" /\ i \in Below(root)
    BY <2>2 DEF Shaped, Owner
  <2> QED  BY <2>2, <2>3, HearsBelow DEF Hears
<1>10. CASE CreateInstructionList(t, i)
  BY <1>10, GoesOut DEF CreateInstructionList, Return
<1>11. CASE AskUser(t, i)
  <2>1. Due(t, "choose", i) /\ Kind[i] = "UserChoice"
    BY <1>11 DEF AskUser
  <2>2. Owner(<<"choose", i>>) \in Below(root) /\ root \in Roots
    BY <2>1, DueBelow DEF Signals
  <2>3. i \in Below(root)
    BY <2>2 DEF Owner
  <2> QED  BY <2>1, <2>2, <2>3, HearsBelow DEF Hears
<1>12. CASE NoAnswer(t, i)
  BY <1>12, GoesOut DEF NoAnswer, Return
<1>13. CASE TickNothing(t, i)
  BY <1>13, GoesOut DEF TickNothing
<1>14. CASE UpdateStatus(t, i)
  BY <1>14, GoesOut DEF UpdateStatus
<1>15. CASE LaunchChild(t, i)
  BY <1>15
<1>16. CASE Conclude(t, i)
  <2>1. PICK h \in {Call("halt", i), << >>} :
          Due(t, "conclude", i) /\ Continue(t, h \o Call("return", i)) /\ UNCHANGED <<root, halted, haltReq>>
    BY <1>16 DEF Conclude
  <2>2. PICK calls : calls = h \o Call("return", i)
    OBVIOUS
  <2>3. i \in Instructions /\ Owner(<<"conclude", i>>) = i
    BY <2>1, DueCall DEF Owner
  <2>4. Fits(i, FALSE, calls) /\ BacksOut(<<"conclude", i>>, calls)
    BY <2>1, <2>2, <2>3, FitsConclude, OthersBackOut
  <2>5. Fits(Owner(<<"conclude", i>>), FALSE, calls)
    BY <2>3, <2>4
  <2>6. Continue(t, calls)
    BY <2>1, <2>2
  <2> QED  BY <2>1, <2>4, <2>5, <2>6, GoesBack DEF Signals
<1>17. CASE Halt(t, i)
  <2>1. Due(t, "halt", i) /\ Continue(t, HaltCalls(i)) /\ UNCHANGED <<root, halted>>
        /\ haltReq' = [haltReq EXCEPT ![i] = TRUE]
    BY <1>17 DEF Halt
  <2>2. i \in Instructions
    BY <2>1, DueCall
  <2>3. PICK calls : calls = HaltCalls(i)
    OBVIOUS
  <2>4. Replaces(<<"halt", i>>, i, calls)
    BY <2>2, <2>3, HaltIsQuiet, FitsQuiet DEF Replaces
  <2>5. BacksOut(<<"halt", i>>, calls)
    BY <2>2, <2>3, OthersBackOut
  <2>6. Goes(t, "halt", i, calls)
    BY <2>1, <2>3, <2>4, <2>5 DEF Goes, BacksOut
  <2> QED  BY <2>6
<1>18. CASE DropFuture(t, i)
  BY <1>18, GoesOut DEF DropFuture
<1>19. CASE Reset(t, i)
  <2>1. Due(t, "reset", i) /\ Continue(t, ResetCalls(i)) /\ UNCHANGED <<root, halted, haltReq>>
    BY <1>19 DEF Reset
  <2>2. i \in Instructions /\ Owner(<<"reset", i>>) = i
    BY <2>1, DueCall DEF Owner
  <2>3. PICK calls : calls = ResetCalls(i)
    OBVIOUS
  <2>4. Fits(Owner(<<"reset", i>>), FALSE, calls) /\ BacksOut(<<"reset", i>>, calls)
    BY <2>2, <2>3, FitsReset, OthersBackOut
  <2>5. Continue(t, calls)
    BY <2>1, <2>3
  <2> QED  BY <2>1, <2>4, <2>5, GoesBack DEF Signals
<1>20. CASE Join(t, i)
  BY <1>20, GoesOut DEF Join
<1>21. CASE Clear(t, i)
  BY <1>21, GoesOut DEF Clear, Return
<1>22. CASE Work(t, i)
  BY <1>22, GoesOut DEF Work, Return
<1> QED  BY <1>1, <1>2, <1>3, <1>4, <1>5, <1>6, <1>7, <1>8, <1>9, <1>10, <1>11, <1>12, <1>13, <1>14, <1>15, <1>16, <1>17, <1>18, <1>19, <1>20, <1>21, <1>22 DEF Step

\* A call of a thread that executes or resets.
LEMMA GoesTells ==
  ASSUME ExclusiveInv, TellInv, NEW t \in Doers, NEW op, NEW i, NEW calls, Goes(t, op, i, calls)
  PROVE  TellInv'
<1>1. /\ Due(t, op, i) /\ Continue(t, calls) /\ UNCHANGED <<root, halted>> /\ OneWay(<<op, i>>, calls)
      /\ t \in Threads /\ haltReq \in [Instructions -> BOOLEAN]
  BY ThreadNames DEF Goes, TellInv
<1>2. ~Idle(t) /\ agenda[t][1] = <<op, i>> /\ i \in Instructions
      /\ agenda[t] \in Seq(AnyCall) /\ agenda[t] # << >>
  <2>1. agenda[t] \in Seq(AnyCall) /\ agenda[t] # << >>
    BY <1>1 DEF ExclusiveInv, Walks, Due
  <2> QED  BY <1>1, <2>1, DueCall
<1>3. PICK x : Replaces(agenda[t][1], x, calls)
  BY <1>2 DEF Goes
<1>4. OneWay(agenda[t][1], calls)
  BY <1>1, <1>2
<1>5. haltReq' \in [Instructions -> BOOLEAN]
  BY <1>1, <1>2 DEF Goes
<1>6. KeepsFlags(t)
  <2> SUFFICES ASSUME NEW u \in Doers, NEW k \in 1 .. Len(agenda[u]), u = t => k # 1,
                      agenda[u][k][1] \in Entering, haltReq[agenda[u][k][2]]
               PROVE  haltReq'[agenda[u][k][2]]
    BY DEF KeepsFlags
  <2>1. agenda[u][k][2] \in Instructions
    <3>1. agenda[u] \in Seq(AnyCall)
      BY ThreadNames DEF ExclusiveInv, Walks
    <3>2. agenda[u][k] \in AnyCall
      BY <3>1
    <3> QED  BY <3>2 DEF AnyCall
  <2>2. CASE op = "halt"
    BY <1>1, <2>1, <2>2 DEF Goes
  <2>3. CASE op = "clear"
    <3>1. haltReq' = [haltReq EXCEPT ![i] = FALSE]
      BY <2>3 DEF Goes
    <3>2. agenda[u][k][2] # i
      BY <1>1, <2>3, ClearAlone DEF TellInv
    <3> QED  BY <1>1, <2>1, <3>1, <3>2
  <2>4. CASE op \notin {"halt", "clear"}
    BY <2>4 DEF Goes
  <2> QED  BY <2>2, <2>3, <2>4
<1>7. Heard(calls)
  <2> SUFFICES ASSUME halted, NEW k \in 1 .. Len(calls), calls[k][1] \in Entering
               PROVE  haltReq'[calls[k][2]] \/ Pending(calls[k][2])
    BY DEF Heard
  <2>1. 1 \in 1 .. Len(agenda[t])
    BY <1>2
  <2>2. op \in Entering => Reached(i)
    BY <1>2, <2>1 DEF TellInv, Told
  <2>3. CASE op = "exec" /\ calls = Call("body", i)
    <3>1. calls[k][2] = i
      BY <2>3 DEF Call
    <3>2. UNCHANGED haltReq
      BY <2>3 DEF Goes
    <3> QED  BY <2>2, <2>3, <3>1, <3>2 DEF Reached, Entering
  <2>4. CASE op = "body" /\ ~haltReq[i] /\ Fits(i, FALSE, calls)
    <3>1. Pending(i)
      BY <2>2, <2>4 DEF Reached, Entering
    <3>2. PICK m \in 1 .. Len(agenda[Halter]) : i \in Below(agenda[Halter][m][2])
      BY <3>1 DEF Pending
    <3>3. agenda[Halter][m][2] \in Instructions
      <4>1. agenda[Halter][m] \in AnyCall
        <5>1. agenda[Halter] \in Seq(AnyCall)
          BY ThreadNames DEF ExclusiveInv, Walks
        <5> QED  BY <5>1
      <4> QED  BY <4>1 DEF AnyCall
    <3>4. calls[k][2] \in {i} \union ChildSet(i)
      <4>1. ~Quiet(calls[k]) /\ Owner(calls[k]) = calls[k][2] /\ calls[k][1] \notin Signals
        BY DEF Entering, Quiet, Signals, Owner
      <4> QED  BY <2>4, <4>1 DEF Fits, FitsAt
    <3>5. calls[k][2] \in Below(agenda[Halter][m][2])
      BY <3>2, <3>3, <3>4, BelowClosed
    <3> QED  BY <3>5 DEF Pending
  <2>5. CASE Makes(calls, Operations \ Entering)
    BY <2>5 DEF Makes
  <2> QED  BY <2>3, <2>4, <2>5 DEF Goes
<1> QED  BY <1>1, <1>2, <1>3, <1>4, <1>5, <1>6, <1>7, DoerTells

\* The client's halt goes on to the children.
LEMMA HalterTells ==
  ASSUME ExclusiveInv, TellInv, HearsHalts, NEW i, Due(Halter, "halt", i), Continue(Halter, HaltCalls(i)),
         haltReq' = [haltReq EXCEPT ![i] = TRUE], UNCHANGED <<root, halted>>
  PROVE  TellInv'
<1>e. PICK e : e = agenda[Halter]
  OBVIOUS
<1>c. PICK calls : calls = ForEach("halt", Children[i])
  OBVIOUS
<1>f. PICK f : f = calls \o Tail(e)
  OBVIOUS
<1>1. /\ root \in Roots /\ agenda \in [Threads -> Seq(AnyCall)] /\ Halter \in Threads
      /\ e \in Seq(AnyCall) /\ e # << >> /\ e[1] = <<"halt", i>>
  BY <1>e, ThreadNames DEF ExclusiveInv, Walks, Due
<1>2. 1 \in 1 .. Len(e)
  BY <1>1
<1>3. i \in Below(root) /\ i \in Instructions /\ root \in Instructions /\ Below(root) \subseteq Instructions
  <2>1. i \in Below(root)
    BY <1>e, <1>1, <1>2 DEF TellInv, Signalled
  <2> QED  BY <1>1, <2>1, TreeAssumption, BelowClosed
<1>4. HaltCalls(i) = calls
  BY <1>1, <1>3, <1>c, HearsBelow DEF HaltCalls, Hears
<1>5. /\ calls \in Seq(AnyCall) /\ Len(calls) = Len(Children[i]) /\ DOMAIN Children[i] = 1 .. Len(Children[i])
      /\ \A k \in 1 .. Len(calls) : calls[k] = <<"halt", Children[i][k]>> /\ Children[i][k] \in ChildSet(i)
  <2>1. Children[i] \in Seq(Instructions) /\ \A k \in 1 .. Len(Children[i]) : Children[i][k] \in ChildSet(i)
    BY <1>3, ChildrenAreInstructions
  <2>2. DOMAIN Children[i] = 1 .. Len(Children[i]) /\ Len(Children[i]) \in Nat
    BY <2>1
  <2>3. calls = [k \in 1 .. Len(Children[i]) |-> <<"halt", Children[i][k]>>]
    BY <1>c, <2>2 DEF ForEach
  <2>4. calls \in Seq(AnyCall)
    BY <1>c, <2>1, SeqsOfCalls DEF Operations
  <2>5. Len(calls) = Len(Children[i])
    BY <2>2, <2>3
  <2> QED  BY <2>1, <2>2, <2>3, <2>4, <2>5
<1>6. agenda' = [agenda EXCEPT ![Halter] = f]
  BY <1>4, <1>e, <1>f DEF Continue, Replace
<1>7. agenda'[Halter] = f /\ \A u \in Doers : agenda'[u] = agenda[u]
  BY <1>1, <1>6, ThreadNames
<1>8. Spliced(e, calls, f)
  BY <1>1, <1>5, <1>f, Places
<1>9. Signalled'
  <2> SUFFICES ASSUME NEW k \in 1 .. Len(f)  PROVE f[k][1] = "halt" /\ f[k][2] \in Below(root)
    BY <1>7 DEF Signalled
  <2>1. CASE k \in 1 .. Len(calls) /\ f[k] = calls[k]
    <3>1. f[k] = <<"halt", Children[i][k]>> /\ Children[i][k] \in Below(root)
      BY <1>3, <1>5, <2>1, BelowClosed
    <3> QED  BY <3>1
  <2>2. ASSUME NEW j \in 2 .. Len(e), f[k] = e[j]
        PROVE  f[k][1] = "halt" /\ f[k][2] \in Below(root)
    <3>1. j \in 1 .. Len(agenda[Halter])
      BY <1>e
    <3> QED  BY <1>e, <2>2, <3>1 DEF TellInv, Signalled
  <2> QED  BY <1>8, <2>1, <2>2 DEF Spliced
<1>10. Orderly'
  BY <1>7 DEF TellInv, Orderly
<1>11. ASSUME NEW y \in Instructions, Reached(y)
       PROVE  haltReq'[y] \/ \E k \in 1 .. Len(f) : y \in Below(f[k][2])
  <2>1. CASE haltReq[y]
    BY <1>3, <1>11, <2>1 DEF TellInv
  <2>2. CASE Pending(y)
    <3> PICK m \in 1 .. Len(e) : y \in Below(e[m][2])
      BY <1>e, <2>2 DEF Pending
    <3>1. CASE m = 1
      <4>1. y \in Below(i)
        BY <1>1, <3>1
      <4>2. CASE y = i
        BY <1>3, <4>2 DEF TellInv
      <4>3. CASE y # i
        <5> PICK c \in ChildSet(i) : y \in Below(c)
          BY <1>3, <4>1, <4>3, BelowChild DEF StrictlyBelow
        <5> PICK k \in DOMAIN Children[i] : c = Children[i][k]
          BY DEF ChildSet
        <5>1. k \in 1 .. Len(calls)
          BY <1>5
        <5>2. k \in 1 .. Len(f) /\ f[k] = <<"halt", c>>
          BY <1>5, <1>8, <5>1 DEF Spliced
        <5> QED  BY <5>2
      <4> QED  BY <4>2, <4>3
    <3>2. CASE m # 1
      <4>1. m \in 2 .. Len(e)
        BY <1>1, <3>2
      <4>2. Len(calls) + m - 1 \in 1 .. Len(f) /\ f[Len(calls) + m - 1] = e[m]
        BY <1>8, <4>1 DEF Spliced
      <4> QED  BY <4>2
    <3> QED  BY <3>1, <3>2
  <2> QED  BY <1>11, <2>1, <2>2 DEF Reached
<1>12. Told'
  <2> SUFFICES ASSUME halted, NEW u \in Doers, NEW k \in 1 .. Len(agenda[u]),
                      agenda[u][k][1] \in Entering
               PROVE  haltReq'[agenda[u][k][2]] \/ \E m \in 1 .. Len(f) : agenda[u][k][2] \in Below(f[m][2])
    BY <1>7 DEF Told, Reached, Pending
  <2>1. agenda[u][k][2] \in Instructions
    <3>1. agenda[u] \in Seq(AnyCall)
      BY ThreadNames DEF ExclusiveInv, Walks
    <3>2. agenda[u][k] \in AnyCall
      BY <3>1
    <3> QED  BY <3>2 DEF AnyCall
  <2>2. Reached(agenda[u][k][2])
    BY DEF TellInv, Told
  <2> QED  BY <1>11, <2>1, <2>2
<1>13. haltReq' \in [Instructions -> BOOLEAN]
  BY <1>3 DEF TellInv
<1> QED  BY <1>9, <1>10, <1>12, <1>13 DEF TellInv

\* A walk that begins is orderly.
LEMMA OrderlyBegins ==
  ASSUME NEW t, NEW op \in {"exec", "reset"}, NEW b, b # t \/ op = "exec"
  PROVE  Onward(t, Call(op, b)) /\ WorkFirst(Call(op, b))
<1>1. PICK e : e = Call(op, b)
  OBVIOUS
<1>2. Len(e) = 1 /\ e[1] = <<op, b>> /\ 1 .. Len(e) = {1} /\ 2 .. Len(e) = {} /\ 1 + 1 .. Len(e) = {}
  BY <1>1 DEF Call
<1>3. op \in Undoing => b # t
  BY DEF Undoing
<1> QED  BY <1>1, <1>2, <1>3 DEF Onward, WorkFirst

\* The child that is launched was reached when its parent was to launch it.
LEMMA LaunchTells ==
  ASSUME ExclusiveInv, TellInv, NEW t \in Threads, NEW c, LaunchChild(t, c)
  PROVE  TellInv'
<1>1. /\ Due(t, "tick", c) /\ agenda[t] # << >> /\ agenda[t][1] = <<"tick", c>> /\ agenda[c] = << >>
      /\ agenda' = [agenda EXCEPT ![t] = << >> \o Tail(agenda[t]), ![c] = Call("exec", c)]
      /\ UNCHANGED <<root, haltReq, halted>>
  BY DEF LaunchChild, Due, Replace
<1>2. /\ t \in Doers /\ ~Idle(t) /\ root \in Roots /\ Busy /\ agenda \in [Threads -> Seq(AnyCall)]
      /\ Proper(Base(t), agenda[t], Rest) /\ agenda[t] \in Seq(AnyCall)
  BY <1>1, DueDoer DEF ExclusiveInv, Walks, Idle
<1>3. 1 \in 1 .. Len(agenda[t])
  BY <1>1, <1>2
<1>4. /\ Base(t) \in Below(root) /\ root \in Instructions
      /\ t \in Workers => Base(t) = t
  BY <1>2, BaseInTree
<1>5. PICK p \in Below(Base(t)) : Kind[p] \in Threaded /\ c \in ChildSet(p)
  BY <1>1, <1>2, <1>3 DEF Proper, Ticks
<1>6. c \in Workers /\ c \in Threads /\ c \in Doers /\ c # t /\ Halter \notin {c, t}
  <2>1. p \in Instructions
    BY <1>4, <1>5, BelowClosed
  <2>2. c \in Workers
    BY <1>5, <2>1, ThreadNames
  <2>3. c # t
    BY <1>1
  <2> QED  BY <1>2, <2>2, <2>3, ThreadNames DEF Doers
<1>f. PICK f : f = << >> \o Tail(agenda[t])
  OBVIOUS
<1>7. /\ agenda'[t] = f /\ agenda'[c] = Call("exec", c) /\ agenda'[Halter] = agenda[Halter]
      /\ \A u \in Doers : u # t /\ u # c => agenda'[u] = agenda[u]
  BY <1>1, <1>2, <1>6, <1>f, ThreadNames
<1>8. Turns(agenda[t], p, << >>, f)
  <2>1. << >> \in Seq(AnyCall) /\ 1 .. Len(<< >>) = {}
    OBVIOUS
  <2>2. Replaces(agenda[t][1], p, << >>)
    BY <2>1, FitsQuiet DEF Replaces
  <2> QED  BY <1>1, <1>2, <1>f, <2>2 DEF Turns
<1>9. Onward(t, f) /\ WorkFirst(f)
  <2>1. t = Base(t) \/ t \notin Instructions
    BY <1>2, <1>4, TreeAssumption DEF Doers
  <2>2. Held(Base(t), agenda[t]) /\ Ascending(agenda[t]) /\ Onward(t, agenda[t]) /\ WorkFirst(agenda[t])
    BY <1>2 DEF Proper, TellInv, Orderly
  <2>3. OneWay(agenda[t][1], << >>)
    BY MakesCalls, OneWayCalls
  <2> QED  BY <1>2, <1>4, <1>8, <2>1, <2>2, <2>3, PushKeepsOnward
<1>10. Orderly'
  <2>1. Onward(c, Call("exec", c)) /\ WorkFirst(Call("exec", c))
    BY OrderlyBegins
  <2> QED  BY <1>7, <1>9, <2>1 DEF TellInv, Orderly
<1>11. Told'
  <2> SUFFICES ASSUME halted, NEW u \in Doers, NEW k \in 1 .. Len(agenda'[u]),
                      agenda'[u][k][1] \in Entering
               PROVE  Reached(agenda'[u][k][2])
    BY <1>1, <1>7 DEF Told, Reached, Pending
  <2>1. CASE u = c
    <3>1. agenda'[u][k] = <<"exec", c>>
      BY <1>7, <2>1 DEF Call
    <3>2. Reached(c)
      BY <1>1, <1>2, <1>3 DEF TellInv, Told, Entering
    <3> QED  BY <3>1, <3>2
  <2>2. CASE u = t
    <3>1. Spliced(agenda[t], << >>, f) /\ 1 .. Len(<< >>) = {}
      BY <1>8, TurnsPlaces
    <3>2. PICK j \in 2 .. Len(agenda[t]) : f[k] = agenda[t][j]
      BY <1>7, <2>2, <3>1 DEF Spliced
    <3>3. j \in 1 .. Len(agenda[t]) /\ agenda[t][j][1] \in Entering /\ agenda'[u][k] = agenda[t][j]
      BY <1>7, <2>2, <3>2
    <3> QED  BY <1>2, <3>3 DEF TellInv, Told
  <2>3. CASE u # c /\ u # t
    BY <1>7, <2>3 DEF TellInv, Told
  <2> QED  BY <2>1, <2>2, <2>3
<1> QED  BY <1>1, <1>7, <1>10, <1>11 DEF TellInv, Signalled

HaltInv == ExclusiveInv /\ (HearsHalts => TellInv)

LEMMA HaltInit == Init => HaltInv
<1> SUFFICES ASSUME Init  PROVE HaltInv
  OBVIOUS
<1>1. /\ agenda = [t \in Threads |-> << >>] /\ haltReq = [i \in Instructions |-> FALSE] /\ ~halted
  BY DEF Init
<1>2. \A t \in Threads : agenda[t] = << >> /\ 1 .. Len(agenda[t]) = {} /\ 2 .. Len(agenda[t]) = {}
  BY <1>1
<1>3. Signalled /\ Orderly
  BY <1>2, ThreadNames DEF Signalled, Orderly, Onward, WorkFirst
<1> QED  BY <1>1, <1>3, ExclusiveInit DEF HaltInv, TellInv, Told

\* The loop thread begins a walk: not after a halt, or to take it back.
LEMMA TickerTells ==
  ASSUME ExclusiveInv, TellInv, NEW op \in {"exec", "reset"},
         agenda' = [agenda EXCEPT ![Ticker] = Call(op, root)], UNCHANGED <<root, haltReq>>, ~halted'
  PROVE  TellInv'
<1>1. agenda \in [Threads -> Seq(AnyCall)] /\ root \in Instructions
  BY TreeAssumption DEF ExclusiveInv, Walks
<1>2. /\ agenda'[Halter] = agenda[Halter] /\ agenda'[Ticker] = Call(op, root)
      /\ \A u \in Doers : u # Ticker => agenda'[u] = agenda[u]
  BY <1>1, ThreadNames DEF Doers
<1>3. Onward(Ticker, Call(op, root)) /\ WorkFirst(Call(op, root))
  <2>1. root # Ticker
    BY <1>1, TreeAssumption
  <2> QED  BY <2>1, OrderlyBegins
<1>4. Orderly'
  BY <1>2, <1>3 DEF TellInv, Orderly
<1> QED  BY <1>2, <1>4 DEF TellInv, Signalled, Told

\* A halt of the client is on its way to every instruction of the tree.
LEMMA BeginHaltTells ==
  ASSUME ExclusiveInv, TellInv, BeginHalt
  PROVE  TellInv'
<1>1. /\ agenda \in [Threads -> Seq(AnyCall)] /\ root \in Instructions /\ root \in Roots /\ Busy
      /\ agenda' = [agenda EXCEPT ![Halter] = Call("halt", root)] /\ UNCHANGED <<root, haltReq>>
  BY TreeAssumption DEF ExclusiveInv, Walks, BeginHalt
<1>2. agenda'[Halter] = Call("halt", root) /\ \A u \in Doers : agenda'[u] = agenda[u]
  BY <1>1, ThreadNames
<1>3. PICK f : f = Call("halt", root)
  OBVIOUS
<1>4. Len(f) = 1 /\ f[1] = <<"halt", root>> /\ 1 .. Len(f) = {1} /\ agenda'[Halter] = f
  BY <1>2, <1>3 DEF Call
<1>5. Signalled'
  BY <1>1, <1>4, BelowClosed DEF Signalled
<1>6. Orderly'
  BY <1>2 DEF TellInv, Orderly
<1>7. ASSUME NEW u \in Doers, NEW k \in 1 .. Len(agenda[u]), agenda[u][k][1] \in Entering
      PROVE  agenda[u][k][2] \in Below(root)
  <2>1. ~Quiet(agenda[u][k]) /\ Owner(agenda[u][k]) = agenda[u][k][2]
    BY <1>7 DEF Entering, Quiet, Signals, Owner
  <2>2. ~Idle(u) /\ Held(Base(u), agenda[u])
    <3>1. agenda[u] # << >>
      OBVIOUS
    <3> QED  BY <3>1 DEF Idle, ExclusiveInv, Walks, Proper
  <2>3. agenda[u][k][2] \in Below(Base(u))
    BY <2>1, <2>2 DEF Held
  <2>4. Base(u) \in Below(root)
    BY <1>1, <2>2, BaseInTree
  <2> QED  BY <1>1, <2>3, <2>4, BelowClosed
<1>8. Told'
  <2>1. f[1][2] = root /\ 1 \in 1 .. Len(f)
    BY <1>4
  <2> QED  BY <1>2, <1>4, <1>7, <2>1 DEF Told, Reached, Pending
<1> QED  BY <1>1, <1>5, <1>6, <1>8 DEF TellInv

LEMMA StepKeepsRoot ==
  ASSUME NEW t, NEW i, Step(t, i) \/ Work(t, i)
  PROVE  UNCHANGED root
BY DEF Step, Work, Preamble, SkipBody, Body, SetStatus, ElementFails, React, ReturnRunning, ListenHalted,
       Listen, CreateInstructionList, AskUser, NoAnswer, TickNothing, UpdateStatus, LaunchChild, Conclude,
       Halt, DropFuture, Reset, Join, Clear

LEMMA HaltStep ==
  ASSUME HaltInv, [Next]_vars  PROVE HaltInv'
<1>1. ExclusiveInv /\ ExclusiveInv'
  BY ExclusiveStep DEF HaltInv
<1>2. SUFFICES ASSUME HearsHalts'  PROVE TellInv'
  BY <1>1 DEF HaltInv
<1>3. UNCHANGED root => HearsHalts /\ TellInv
  BY <1>2 DEF HaltInv, HearsHalts
<1>4. CASE BeginTick
  <2>1. /\ agenda' = [agenda EXCEPT ![Ticker] = Call("exec", root)] /\ UNCHANGED <<root, haltReq>> /\ ~halted'
    BY <1>4 DEF BeginTick
  <2> QED  BY <1>1, <1>3, <2>1, TickerTells
<1>5. CASE BeginReset
  <2>1. /\ agenda' = [agenda EXCEPT ![Ticker] = Call("reset", root)] /\ UNCHANGED <<root, haltReq>> /\ ~halted'
    BY <1>5 DEF BeginReset
  <2> QED  BY <1>1, <1>3, <2>1, TickerTells
<1>6. CASE BeginHalt
  BY <1>1, <1>3, <1>6, BeginHaltTells DEF BeginHalt
<1>7. ASSUME NEW t \in Threads, NEW i \in Current(t), Step(t, i) \/ Work(t, i)  PROVE TellInv'
  <2>1. HearsHalts /\ TellInv
    <3>1. UNCHANGED root
      BY <1>7, StepKeepsRoot
    <3> QED  BY <1>3, <3>1
  <2>2. CASE LaunchChild(t, i)
    BY <1>1, <2>1, <2>2, LaunchTells
  <2>3. ASSUME NEW op, NEW calls, Goes(t, op, i, calls)  PROVE TellInv'
    <3>1. CASE t \in Doers
      BY <1>1, <2>1, <2>3, <3>1, GoesTells
    <3>2. CASE t \notin Doers
      <4>1. op = "halt" /\ t = Halter
        BY <1>1, <2>1, <2>3, <3>2, DueDoer, ThreadNames DEF Goes
      <4>2. /\ Due(Halter, "halt", i) /\ Continue(Halter, HaltCalls(i))
            /\ haltReq' = [haltReq EXCEPT ![i] = TRUE] /\ UNCHANGED <<root, halted>>
        BY <2>3, <4>1 DEF Goes
      <4> QED  BY <1>1, <2>1, <4>2, HalterTells
    <3> QED  BY <3>1, <3>2
  <2> QED  BY <1>1, <1>7, <2>1, <2>2, <2>3, StepGoes
<1>8. CASE UNCHANGED vars
  BY <1>3, <1>8 DEF vars, TellInv, Signalled, Orderly, Told, Reached, Pending
<1> QED  BY <1>4, <1>5, <1>6, <1>7, <1>8 DEF Next

\* What works on a leaf is a thread that was not told, or the client's halt is still
\* under way.
LEMMA InvReachesLeaves == HaltInv => (HearsHalts => HaltReachesLeaves)
<1> SUFFICES ASSUME ExclusiveInv, TellInv, halted, Idle(Halter), NEW i \in AtWork
             PROVE  haltReq[i]
  BY DEF HaltInv, HaltReachesLeaves
<1>1. PICK t \in Threads : Due(t, "work", i)
  BY DEF AtWork
<1>2. t \in Doers
  BY <1>1, DueDoer
<1>3. agenda[t] \in Seq(AnyCall) /\ agenda[t] # << >> /\ agenda[t][1] = <<"work", i>>
  BY <1>1 DEF ExclusiveInv, Walks, Due
<1>4. 1 \in 1 .. Len(agenda[t])
  BY <1>3
<1>5. Reached(i)
  BY <1>2, <1>3, <1>4 DEF TellInv, Told, Entering
<1>6. 1 .. Len(agenda[Halter]) = {}
  BY DEF Idle
<1> QED  BY <1>5, <1>6 DEF Reached, Pending

\* Whatever the tree, as long as nothing in it resets a child within a tick or keeps a
\* halt to itself: once a halt of the procedure has returned, every leaf that still
\* works has been told to stop (Instruction::Halt and the HaltImpl of the compounds).
THEOREM HaltReachesLeavesHolds == Spec => [](HearsHalts => HaltReachesLeaves)
<1> QED  BY HaltInit, HaltStep, InvReachesLeaves, PTL DEF Spec


\* After a halt that has returned, no call makes work the next one of its thread.
LEMMA GoesToNoWork ==
  ASSUME ExclusiveInv, TellInv, halted, Idle(Halter),
         NEW t \in Threads, NEW op, NEW i, NEW calls, Goes(t, op, i, calls), NEW j
  PROVE  ~Due(t, "work", j)' /\ \A u \in Threads : u # t => agenda'[u] = agenda[u]
<1>1. /\ agenda[t] \in Seq(AnyCall) /\ agenda[t] # << >> /\ agenda[t][1] = <<op, i>>
      /\ agenda \in [Threads -> Seq(AnyCall)]
  BY DEF Goes, Due, ExclusiveInv, Walks
<1>2. t \in Doers /\ 1 \in 1 .. Len(agenda[t])
  BY <1>1, ThreadNames DEF Idle
<1>f. PICK f : f = calls \o Tail(agenda[t])
  OBVIOUS
<1>3. agenda'[t] = f /\ \A u \in Threads : u # t => agenda'[u] = agenda[u]
  BY <1>1, <1>f DEF Goes, Continue, Replace
<1>4. calls \in Seq(AnyCall)
  <2>1. PICK x : Replaces(<<op, i>>, x, calls)
    BY DEF Goes
  <2> QED  BY <2>1 DEF Replaces, Fits
<1>5. f \in Seq(AnyCall) /\ Spliced(agenda[t], calls, f)
  BY <1>1, <1>4, <1>f, Places
<1>6. ASSUME NEW k \in 1 .. Len(calls)  PROVE calls[k][1] # "work"
  <2>1. ~(op = "body" /\ ~haltReq[i])
    BY <1>1, <1>2 DEF TellInv, Told, Entering, Reached, Pending, Idle
  <2>2. CASE Makes(calls, Operations \ Entering)
    BY <2>2 DEF Makes, Entering
  <2>3. CASE calls = Call("body", i)
    BY <2>3 DEF Call
  <2> QED  BY <2>1, <2>2, <2>3 DEF Goes
<1>7. ASSUME NEW k \in 2 .. Len(agenda[t])  PROVE agenda[t][k][1] # "work"
  BY <1>2 DEF TellInv, Orderly, WorkFirst
<1>8. ASSUME NEW k \in 1 .. Len(f)  PROVE f[k][1] # "work"
  <2>1. CASE k \in 1 .. Len(calls) /\ f[k] = calls[k]
    BY <1>6, <2>1
  <2>2. ASSUME NEW m \in 2 .. Len(agenda[t]), f[k] = agenda[t][m]  PROVE f[k][1] # "work"
    BY <1>7, <2>2
  <2> QED  BY <1>5, <2>1, <2>2 DEF Spliced
<1>9. f # << >> => 1 \in 1 .. Len(f)
  BY <1>5
<1> QED  BY <1>3, <1>8, <1>9 DEF Due

LEMMA NoNewWork ==
  ASSUME HaltInv, HearsHalts, halted, Idle(Halter), [Next]_vars
  PROVE  AtWork' \subseteq AtWork
<1>1. ExclusiveInv /\ TellInv /\ agenda \in [Threads -> Seq(AnyCall)]
  BY DEF HaltInv, ExclusiveInv, Walks
<1>2. SUFFICES ASSUME NEW t \in Threads, NEW j, Due(t, "work", j)'  PROVE Due(t, "work", j)
  BY DEF AtWork
<1>3. agenda'[t] = agenda[t] => Due(t, "work", j)
  BY <1>2 DEF Due
<1>4. ASSUME NEW op \in {"exec", "reset", "halt"}, NEW u, NEW b,
             agenda' = [agenda EXCEPT ![u] = Call(op, b)]
      PROVE  Due(t, "work", j)
  BY <1>1, <1>2, <1>3, <1>4 DEF Due, Call
<1>5. CASE BeginTick
  BY <1>4, <1>5 DEF BeginTick
<1>6. CASE BeginReset
  BY <1>4, <1>6 DEF BeginReset
<1>7. CASE BeginHalt
  BY <1>4, <1>7 DEF BeginHalt
<1>8. ASSUME NEW u \in Threads, NEW i \in Current(u), Step(u, i) \/ Work(u, i)
      PROVE  Due(t, "work", j)
  <2>1. CASE LaunchChild(u, i)
    <3>1. /\ agenda[u] \in Seq(AnyCall) /\ agenda[u] # << >> /\ u \in Doers
          /\ agenda' = [agenda EXCEPT ![u] = << >> \o Tail(agenda[u]), ![i] = Call("exec", i)]
      BY <1>1, <2>1, DueDoer DEF LaunchChild, Due, Replace
    <3>f. PICK f : f = << >> \o Tail(agenda[u])
      OBVIOUS
    <3>2. << >> \in Seq(AnyCall) /\ 1 .. Len(<< >>) = {}
      OBVIOUS
    <3>3. f \in Seq(AnyCall) /\ Spliced(agenda[u], << >>, f)
      BY <3>1, <3>2, <3>f, Places
    <3>4. \A k \in 1 .. Len(f) : f[k][1] # "work"
      BY <1>1, <3>1, <3>2, <3>3 DEF Spliced, TellInv, Orderly, WorkFirst
    <3>5. f # << >> => f[1][1] # "work"
      BY <3>3, <3>4
    <3>6. CASE t = i
      <4>1. agenda'[t] = Call("exec", i)
        BY <1>1, <3>1, <3>6
      <4> QED  BY <1>2, <4>1 DEF Due, Call
    <3>7. CASE t # i /\ t = u
      <4>1. agenda'[t] = f
        BY <1>1, <3>1, <3>f, <3>7
      <4> QED  BY <1>2, <3>5, <4>1 DEF Due
    <3>8. CASE t # i /\ t # u
      BY <1>1, <1>3, <3>1, <3>8
    <3> QED  BY <3>6, <3>7, <3>8
  <2>2. ASSUME NEW op, NEW calls, Goes(u, op, i, calls)  PROVE Due(t, "work", j)
    BY <1>1, <1>2, <1>3, <2>2, GoesToNoWork
  <2> QED  BY <1>1, <1>8, <2>1, <2>2, StepGoes
<1>9. CASE UNCHANGED vars
  BY <1>3, <1>9 DEF vars
<1> QED  BY <1>5, <1>6, <1>7, <1>8, <1>9 DEF Next

LEMMA HearsHaltsStays == ASSUME HearsHalts, [Next]_vars  PROVE HearsHalts'
<1>1. CASE \E t \in Threads : \E i \in Current(t) : Step(t, i) \/ Work(t, i)
  BY <1>1, StepKeepsRoot DEF HearsHalts
<1> QED  BY <1>1 DEF Next, BeginTick, BeginReset, BeginHalt, vars, HearsHalts

\* Under the same condition, and however the threads of the tree are interleaved: once
\* a halt of the procedure has returned, no leaf begins to work before a reset takes it
\* back (IsHaltRequested in Instruction::ExecuteSingle, instruction.cpp:116).
THEOREM NoWorkAfterHaltHolds == Spec /\ HearsHalts => NoWorkAfterHalt
<1>1. HaltInv /\ HearsHalts /\ [Next]_vars => [(halted /\ Idle(Halter)) => AtWork' \subseteq AtWork]_vars
  BY NoNewWork
<1> QED  BY <1>1, HaltInit, HaltStep, HearsHaltsStays, PTL DEF Spec, NoWorkAfterHalt
-----------------------------------------------------------------------------
(* How the calls of an agenda about one instruction follow each other        *)

\* The calls of an instruction that is being executed, after its preamble, and those
\* that a reset makes.
UnderWay == {"body", "work", "choose", "listen", "react", "return", "running", "conclude"}
Backward == {"reset", "join", "clear", "halt", "drop"}

\* Two calls about the same instruction: it is reset, or waits for its children, before
\* it is executed or cleared.
MayFollow(first, second) == \/ first \in Undoing /\ second = "exec"
                            \/ first = "join" /\ second = "clear"

Alone(e) ==
  \A k \in 1 .. Len(e) : \A m \in k + 1 .. Len(e) :
    ~Quiet(e[k]) /\ ~Quiet(e[m]) /\ Owner(e[k]) = Owner(e[m]) => MayFollow(e[k][1], e[m][1])

SignalsBelow(b, e) == \A k \in 1 .. Len(e) : Quiet(e[k]) => e[k][2] \in Below(b)

\* A thread does not reset what it was started for.
NotItself(t, e) == \A k \in 1 .. Len(e) : e[k][1] \in Undoing => e[k][2] # t

\* What returns the status of its children has some, and only a ParallelSequence concludes.
OfParent(call) == /\ call[1] \in {"return", "conclude"} => call[2] \notin Leaf
                  /\ call[1] = "conclude" => Kind[call[2]] = "ParallelSequence"
OfParents(e) == \A k \in 1 .. Len(e) : OfParent(e[k])

\* Who is to launch a child is going to look at its status.
Concludes(call, c) == call[1] \in {"return", "conclude"} /\ c \in ChildSet(call[2])
TicksEnd(e) ==
  \A k \in 1 .. Len(e) : e[k][1] = "tick" => \E m \in k + 1 .. Len(e) : Concludes(e[m], e[k][2])

\* Who joins the threads of children clears the instruction after that.
JoinsEnd(e) ==
  \A k \in 1 .. Len(e) : e[k][1] = "join" => \E m \in k + 1 .. Len(e) : e[m] = <<"clear", e[k][2]>>

Layout(t, e) ==
  /\ Alone(e) /\ SignalsBelow(Base(t), e) /\ OfParents(e) /\ TicksEnd(e) /\ JoinsEnd(e)
  /\ t \in Workers => NotItself(t, e)

\* What calls do not do that replace one of kind op about instruction i.
NeatAt(op, i, calls, k) ==
  /\ Quiet(calls[k]) => calls[k][2] \in {i} \union ChildSet(i)
  /\ ~Quiet(calls[k]) =>
       /\ op \notin {"join", "clear", "tick"}
       /\ Owner(calls[k]) = i =>
            IF op = "reset" THEN calls[k][1] \in {"join", "clear"} ELSE calls[k][1] \in UnderWay
       /\ calls[k][1] \in {"join", "clear"} => op = "reset" /\ Owner(calls[k]) = i
       /\ calls[k][1] = "reset" => calls[k][2] \in ChildSet(i)
       /\ calls[k][1] \in UnderWay => Owner(calls[k]) = i
       /\ calls[k][1] = "join" => \E m \in k + 1 .. Len(calls) : calls[m] = <<"clear", calls[k][2]>>
       /\ OfParent(calls[k])
       /\ calls[k][1] = "tick" => \E m \in k + 1 .. Len(calls) : Concludes(calls[m], calls[k][2])
       /\ op \in Backward => calls[k][1] \in Backward

Neat(op, i, calls) == Alone(calls) /\ \A k \in 1 .. Len(calls) : NeatAt(op, i, calls, k)

LEMMA PushKeepsAlone ==
  ASSUME NEW r \in Roots, NEW b \in Below(r), NEW i, NEW e, NEW calls, NEW f,
         Turns(e, i, calls, f), Held(b, e), Ascending(e), Alone(e), Neat(e[1][1], i, calls)
  PROVE  Alone(f)
<1> USE DEF Turns
<1> DEFINE n == Len(calls)
<1>1. Spliced(e, calls, f)
  <2>1. calls \in Seq(AnyCall)
    BY DEF Replaces, Fits
  <2> QED  BY <2>1, Places
<1>2. /\ n \in Nat /\ Len(e) \in Nat \ {0} /\ Len(f) = n + Len(e) - 1
      /\ \A k \in 1 .. Len(f) :
           \/ k \in 1 .. n /\ f[k] = calls[k]
           \/ \E j \in 2 .. Len(e) : k = n + j - 1 /\ f[k] = e[j]
  BY <1>1 DEF Spliced
<1>3. Below(b) \subseteq Instructions /\ b \in Instructions
  BY TreeAssumption, BelowClosed
<1> HIDE DEF n
<1> SUFFICES ASSUME NEW k \in 1 .. Len(f), NEW m \in k + 1 .. Len(f),
                    ~Quiet(f[k]), ~Quiet(f[m]), Owner(f[k]) = Owner(f[m])
             PROVE  MayFollow(f[k][1], f[m][1])
  BY DEF Alone
<1>m. m \in 1 .. Len(f)
  BY <1>2
<1>4. ASSUME k \in 1 .. n, f[k] = calls[k], NEW j \in 2 .. Len(e), f[m] = e[j]
      PROVE  MayFollow(f[k][1], f[m][1])
  <2>1. 1 \in 1 .. Len(e) /\ j \in 1 + 1 .. Len(e)
    BY <1>2
  <2>2. /\ e[1][1] \notin Signals \union {"tick", "join"} /\ Owner(e[1]) = i /\ ~Quiet(e[1])
        /\ Owner(calls[k]) \in {i} \union ChildSet(i)
    BY <1>4 DEF Replaces, Fits, FitsAt, Quiet, n
  <2>3. i \in Below(b) /\ Owner(e[j]) \notin StrictlyBelow(i)
    BY <1>4, <2>1, <2>2 DEF Held, Ascending
  <2>4. Owner(calls[k]) = i
    BY <1>3, <1>4, <2>2, <2>3, ChildBelow
  <2>5. MayFollow(e[1][1], e[j][1])
    BY <1>4, <2>1, <2>2, <2>4 DEF Alone
  <2>6. NeatAt(e[1][1], i, calls, k)
    BY <1>4 DEF Neat, n
  <2> QED  BY <1>4, <2>2, <2>4, <2>5, <2>6 DEF NeatAt, MayFollow, Undoing
<1>5. ASSUME NEW l \in 2 .. Len(e), k = n + l - 1, f[k] = e[l], NEW j \in 2 .. Len(e), m = n + j - 1, f[m] = e[j]
      PROVE  MayFollow(f[k][1], f[m][1])
  <2>1. l \in 1 .. Len(e) /\ j \in l + 1 .. Len(e)
    BY <1>2, <1>5
  <2> QED  BY <1>5, <2>1 DEF Alone
<1>6. ASSUME k \in 1 .. n, f[k] = calls[k], m \in 1 .. n, f[m] = calls[m]
      PROVE  MayFollow(f[k][1], f[m][1])
  <2>1. k \in 1 .. Len(calls) /\ m \in k + 1 .. Len(calls)
    BY <1>2, <1>6 DEF n
  <2> QED  BY <1>6, <2>1 DEF Neat, Alone
<1>7. CASE k \in 1 .. n /\ f[k] = calls[k]
  BY <1>2, <1>m, <1>4, <1>6, <1>7
<1>8. ASSUME NEW l \in 2 .. Len(e), k = n + l - 1, f[k] = e[l]
      PROVE  MayFollow(f[k][1], f[m][1])
  <2>1. m \notin 1 .. n
    BY <1>2, <1>8
  <2> QED  BY <1>2, <1>m, <1>5, <1>8, <2>1
<1> QED  BY <1>2, <1>7, <1>8

LEMMA PushKeepsLayout ==
  ASSUME NEW r \in Roots, NEW t \in Doers, Base(t) \in Below(r), t \in Workers => Base(t) = t,
         NEW i, NEW e, NEW calls, NEW f,
         Turns(e, i, calls, f), Held(Base(t), e), Ascending(e), Layout(t, e),
         Neat(e[1][1], i, calls), Owner(e[1]) = i \/ calls = << >>
  PROVE  Layout(t, f)
<1>b. PICK b : b = Base(t)
  OBVIOUS
<1> DEFINE n == Len(calls)
<1>1. Spliced(e, calls, f)
  <2>1. calls \in Seq(AnyCall)
    BY DEF Turns, Replaces, Fits
  <2> QED  BY <2>1, Places DEF Turns
<1>2. /\ n \in Nat /\ Len(e) \in Nat \ {0} /\ Len(f) = n + Len(e) - 1
      /\ \A k \in 1 .. Len(f) :
           \/ k \in 1 .. n /\ f[k] = calls[k] /\ NeatAt(e[1][1], i, calls, k)
           \/ \E j \in 2 .. Len(e) : k = n + j - 1 /\ f[k] = e[j]
      /\ \A k \in 1 .. n : k \in 1 .. Len(f) /\ f[k] = calls[k]
      /\ \A k \in 2 .. Len(e) : n + k - 1 \in 1 .. Len(f) /\ f[n + k - 1] = e[k]
  BY <1>1 DEF Spliced, Neat
<1>3. Below(b) \subseteq Instructions /\ b \in Instructions /\ b \in Below(r)
  BY <1>b, TreeAssumption, BelowClosed
<1>4. \A j \in 2 .. Len(e) : j \in 1 .. Len(e)
  BY <1>2
<1>5. n > 0 => i \in Below(b) /\ e[1] \in AnyCall /\ Owner(e[1]) = i
  <2> SUFFICES ASSUME n > 0  PROVE i \in Below(b) /\ e[1] \in AnyCall /\ Owner(e[1]) = i
    OBVIOUS
  <2>1. 1 \in 1 .. Len(e) /\ calls # << >> /\ e[1] \in AnyCall
    BY <1>2 DEF Turns
  <2>2. Owner(e[1]) = i /\ e[1][1] \in {"halt", "drop"} => e[1][2] = i
    BY <2>1 DEF Owner
  <2>3. CASE Quiet(e[1])
    BY <1>b, <2>1, <2>2, <2>3 DEF Layout, SignalsBelow, Quiet, Signals
  <2>4. CASE ~Quiet(e[1])
    BY <1>b, <2>1, <2>2, <2>4 DEF Held
  <2> QED  BY <2>1, <2>2, <2>3, <2>4
<1> HIDE DEF n
<1>6. Alone(f)
  BY <1>b, <1>3, PushKeepsAlone DEF Layout
<1>7. SignalsBelow(b, f)
  <2> SUFFICES ASSUME NEW k \in 1 .. Len(f), Quiet(f[k])  PROVE f[k][2] \in Below(b)
    BY DEF SignalsBelow
  <2>1. ASSUME k \in 1 .. n, f[k] = calls[k], NeatAt(e[1][1], i, calls, k)  PROVE f[k][2] \in Below(b)
    BY <1>2, <1>3, <1>5, <2>1, BelowClosed DEF NeatAt
  <2>2. ASSUME NEW j \in 2 .. Len(e), f[k] = e[j]  PROVE f[k][2] \in Below(b)
    BY <1>b, <1>4, <2>2 DEF Layout, SignalsBelow
  <2> QED  BY <1>2, <2>1, <2>2
<1>8. OfParents(f)
  <2> SUFFICES ASSUME NEW k \in 1 .. Len(f)  PROVE OfParent(f[k])
    BY DEF OfParents
  <2>1. ASSUME k \in 1 .. n, f[k] = calls[k], NeatAt(e[1][1], i, calls, k)  PROVE OfParent(f[k])
    <3>1. Quiet(calls[k]) => OfParent(calls[k])
      BY DEF OfParent, Quiet, Signals
    <3> QED  BY <2>1, <3>1 DEF NeatAt
  <2>2. ASSUME NEW j \in 2 .. Len(e), f[k] = e[j]  PROVE OfParent(f[k])
    BY <1>4, <2>2 DEF Layout, OfParents
  <2> QED  BY <1>2, <2>1, <2>2
<1>9. TicksEnd(f)
  <2> SUFFICES ASSUME NEW k \in 1 .. Len(f), f[k][1] = "tick"
               PROVE  \E m \in k + 1 .. Len(f) : Concludes(f[m], f[k][2])
    BY DEF TicksEnd
  <2>1. ASSUME k \in 1 .. n, f[k] = calls[k], NeatAt(e[1][1], i, calls, k)
        PROVE  \E m \in k + 1 .. Len(f) : Concludes(f[m], f[k][2])
    <3> PICK m \in k + 1 .. Len(calls) : Concludes(calls[m], calls[k][2])
      BY <2>1 DEF NeatAt, Quiet, Signals
    <3>1. m \in 1 .. n /\ m \in k + 1 .. Len(f) /\ f[m] = calls[m]
      BY <1>2, <2>1 DEF n
    <3> QED  BY <2>1, <3>1
  <2>2. ASSUME NEW j \in 2 .. Len(e), k = n + j - 1, f[k] = e[j]
        PROVE  \E m \in k + 1 .. Len(f) : Concludes(f[m], f[k][2])
    <3> PICK m \in j + 1 .. Len(e) : Concludes(e[m], e[j][2])
      BY <1>4, <2>2 DEF Layout, TicksEnd
    <3>1. m \in 2 .. Len(e) /\ n + m - 1 \in k + 1 .. Len(f) /\ f[n + m - 1] = e[m]
      BY <1>2, <2>2
    <3> QED  BY <2>2, <3>1
  <2> QED  BY <1>2, <2>1, <2>2
<1>10. ASSUME t \in Workers  PROVE NotItself(t, f)
  <2> SUFFICES ASSUME NEW k \in 1 .. Len(f), f[k][1] \in Undoing  PROVE f[k][2] # t
    BY DEF NotItself
  <2>1. ASSUME k \in 1 .. n, f[k] = calls[k], NeatAt(e[1][1], i, calls, k)  PROVE f[k][2] # t
    <3>1. ~Quiet(calls[k]) /\ Owner(calls[k]) = calls[k][2] /\ n > 0
      BY <1>2, <2>1 DEF Quiet, Signals, Undoing, Owner
    <3>2. CASE calls[k][1] = "reset"
      <4>1. calls[k][2] \in StrictlyBelow(i) /\ i \in Below(t)
        BY <1>b, <1>3, <1>5, <1>10, <2>1, <3>1, <3>2, ChildBelow DEF NeatAt
      <4>2. i \in Instructions
        BY <1>3, <1>5, <3>1
      <4> QED  BY <2>1, <4>1, <4>2, BelowOneWay
    <3>3. CASE calls[k][1] \in {"join", "clear"}
      <4>1. e[1][1] = "reset" /\ calls[k][2] = i /\ e[1][2] = i /\ 1 \in 1 .. Len(e)
        BY <1>2, <1>5, <2>1, <3>1, <3>3 DEF NeatAt, Owner
      <4> QED  BY <1>10, <2>1, <4>1 DEF Layout, NotItself, Undoing
    <3> QED  BY <2>1, <3>2, <3>3 DEF Undoing
  <2>2. ASSUME NEW j \in 2 .. Len(e), f[k] = e[j]  PROVE f[k][2] # t
    BY <1>4, <1>10, <2>2 DEF Layout, NotItself
  <2> QED  BY <1>2, <2>1, <2>2
<1>11. JoinsEnd(f)
  <2> SUFFICES ASSUME NEW k \in 1 .. Len(f), f[k][1] = "join"
               PROVE  \E m \in k + 1 .. Len(f) : f[m] = <<"clear", f[k][2]>>
    BY DEF JoinsEnd
  <2>1. ASSUME k \in 1 .. n, f[k] = calls[k], NeatAt(e[1][1], i, calls, k)
        PROVE  \E m \in k + 1 .. Len(f) : f[m] = <<"clear", f[k][2]>>
    <3> PICK m \in k + 1 .. Len(calls) : calls[m] = <<"clear", calls[k][2]>>
      BY <2>1 DEF NeatAt, Quiet, Signals
    <3>1. m \in 1 .. n /\ m \in k + 1 .. Len(f) /\ f[m] = calls[m]
      BY <1>2, <2>1 DEF n
    <3> QED  BY <2>1, <3>1
  <2>2. ASSUME NEW j \in 2 .. Len(e), k = n + j - 1, f[k] = e[j]
        PROVE  \E m \in k + 1 .. Len(f) : f[m] = <<"clear", f[k][2]>>
    <3> PICK m \in j + 1 .. Len(e) : e[m] = <<"clear", e[j][2]>>
      BY <1>4, <2>2 DEF Layout, JoinsEnd
    <3>1. m \in 2 .. Len(e) /\ n + m - 1 \in k + 1 .. Len(f) /\ f[n + m - 1] = e[m]
      BY <1>2, <2>2
    <3> QED  BY <2>2, <3>1
  <2> QED  BY <1>2, <2>1, <2>2
<1> QED  BY <1>b, <1>6, <1>7, <1>8, <1>9, <1>10, <1>11 DEF Layout

\* The child whose status an instruction takes for its own, if there is such a child.
Shows(i) == \/ Kind[i] \in {"Inverter", "ForceSuccess", "Include", "Listen", "UserChoice"}
            \/ Kind[i] \in Counting /\ MaxCount[i] # 0
ShownBy(i, c) == IF Kind[i] = "UserChoice" THEN selected[i] = <<<<c>>>> ELSE c = Child(i)

\* An instruction that returns has just executed the child whose status it shows, or
\* has brought the child's wrapper up to date, or has selected children.
LooksAt(i, calls, k) ==
  calls[k] = <<"return", i>> =>
    /\ Shows(i) => \E c \in ChildSet(i) : ShownBy(i, c) /\ k > 1 /\ calls[k - 1] = <<"exec", c>>
    /\ Kind[i] = "Async" => k > 1 /\ calls[k - 1] = <<"tick", Child(i)>>
    /\ Kind[i] = "Choice" => selected[i] # << >>

Looks(i, calls) == \A k \in 1 .. Len(calls) : LooksAt(i, calls, k)

\* What fits in place of a call of kind op, and follows the order above.
Proceeds(op, i, calls) == Neat(op, i, calls) /\ Looks(i, calls)

LEMMA NeatEach ==
  ASSUME NEW i \in Instructions, NEW op, op \notin Backward \union {"tick"},
         NEW o \in {"exec", "tick", "reset"}, NEW s \in Seq(ChildSet(i)),
         \A j, k \in 1 .. Len(s) : s[j] = s[k] => j = k,
         NEW last \in AnyCall, last[1] \in UnderWay, Owner(last) = i,
         OfParent(last),
         o = "tick" => last[1] \in {"return", "conclude"},
         last[1] = "return" /\ Shows(i) => o = "exec" /\ \E c \in ChildSet(i) : ShownBy(i, c) /\ s = <<c>>,
         last[1] = "return" /\ Kind[i] = "Async" => o = "tick" /\ s = <<Child(i)>>,
         last[1] = "return" /\ Kind[i] = "Choice" => selected[i] # << >>
  PROVE  Proceeds(op, i, ForEach(o, s) \o <<last>>)
<1>f. PICK f : f = ForEach(o, s) \o <<last>>
  OBVIOUS
<1>n. PICK n : n = Len(s)
  OBVIOUS
<1>1. /\ n \in Nat /\ Len(f) = n + 1 /\ f[n + 1] = last
      /\ \A k \in 1 .. n : f[k] = <<o, s[k]>> /\ s[k] \in ChildSet(i)
  <2>1. DOMAIN s = 1 .. n /\ n \in Nat /\ \A k \in 1 .. n : s[k] \in ChildSet(i)
    BY <1>n
  <2>2. PICK each : each = [k \in 1 .. n |-> <<o, s[k]>>]
    OBVIOUS
  <2>3. ForEach(o, s) = each
    BY <2>1, <2>2 DEF ForEach
  <2>4. each \in Seq(AnyCall) /\ Len(each) = n /\ \A k \in 1 .. n : each[k] = <<o, s[k]>>
    <3>1. \A k \in 1 .. n : <<o, s[k]>> \in AnyCall
      BY <2>1, ChildrenAreInstructions DEF AnyCall, Operations
    <3> QED  BY <2>1, <2>2, <3>1
  <2>5. <<last>> \in Seq(AnyCall) /\ Len(<<last>>) = 1 /\ <<last>>[1] = last
    OBVIOUS
  <2>6. /\ Len(f) = n + 1
        /\ \A k \in 1 .. n + 1 : f[k] = IF k <= n THEN each[k] ELSE <<last>>[k - n]
    BY <1>f, <2>1, <2>3, <2>4, <2>5, ConcatProperties
  <2>7. f[n + 1] = last
    BY <2>1, <2>5, <2>6
  <2> QED  BY <2>1, <2>4, <2>6, <2>7
<1>2. \A k \in 1 .. Len(f) : k \in 1 .. n \/ k = n + 1
  BY <1>1
<1>3. \A c \in ChildSet(i) : c # i
  BY ChildBelow DEF StrictlyBelow
<1>4. ASSUME NEW k \in 1 .. n
      PROVE  ~Quiet(f[k]) /\ Owner(f[k]) = s[k] /\ Owner(f[k]) # i /\ f[k][1] = o /\ f[k][2] = s[k]
  BY <1>1, <1>3 DEF Quiet, Signals, Owner
<1>5. ~Quiet(last)
  BY DEF Quiet, Signals, UnderWay
<1>6. Alone(f)
  <2> SUFFICES ASSUME NEW k \in 1 .. Len(f), NEW m \in k + 1 .. Len(f), Owner(f[k]) = Owner(f[m])
               PROVE  FALSE
    BY DEF Alone
  <2>1. k \in 1 .. n /\ m \in 1 .. Len(f) /\ k # m
    BY <1>1
  <2>2. CASE m \in 1 .. n
    <3>1. s[k] = s[m]
      BY <1>4, <2>1, <2>2
    <3> QED  BY <1>n, <2>1, <2>2, <3>1
  <2>3. CASE m = n + 1
    BY <1>1, <1>4, <2>1, <2>3
  <2> QED  BY <1>2, <2>1, <2>2, <2>3
<1>7. ASSUME NEW k \in 1 .. Len(f)  PROVE NeatAt(op, i, f, k)
  <2>1. CASE k \in 1 .. n
    <3>1. ASSUME o = "tick"  PROVE \E m \in k + 1 .. Len(f) : Concludes(f[m], f[k][2])
      <4>1. n + 1 \in k + 1 .. Len(f)
        BY <1>1, <2>1
      <4>2. last[2] = i /\ f[k][2] \in ChildSet(i)
        BY <1>1, <1>4, <2>1, <3>1 DEF Owner
      <4> QED  BY <1>1, <3>1, <4>1, <4>2 DEF Concludes
    <3> QED  BY <1>1, <1>4, <2>1, <3>1 DEF NeatAt, OfParent, Backward, UnderWay
  <2>2. CASE k = n + 1
    BY <1>1, <1>5, <2>2 DEF NeatAt, UnderWay, Backward, Owner
  <2> QED  BY <1>2, <2>1, <2>2
<1>8. ASSUME NEW k \in 1 .. Len(f)  PROVE LooksAt(i, f, k)
  <2> SUFFICES ASSUME f[k] = <<"return", i>>
               PROVE  /\ Shows(i) => \E c \in ChildSet(i) : ShownBy(i, c) /\ k > 1 /\ f[k - 1] = <<"exec", c>>
                      /\ Kind[i] = "Async" => k > 1 /\ f[k - 1] = <<"tick", Child(i)>>
                      /\ Kind[i] = "Choice" => selected[i] # << >>
    BY DEF LooksAt
  <2>1. k = n + 1 /\ last[1] = "return"
    <3>1. k \notin 1 .. n
      BY <1>4
    <3> QED  BY <1>1, <1>2, <3>1
  <2>2. ASSUME NEW c, s = <<c>>  PROVE k > 1 /\ f[k - 1] = <<o, c>>
    <3>1. n = 1 /\ s[1] = c
      BY <1>n, <2>2
    <3> QED  BY <1>1, <2>1, <3>1
  <2> QED  BY <2>1, <2>2
<1> QED  BY <1>f, <1>6, <1>7, <1>8 DEF Proceeds, Neat, Looks

LEMMA NeatNothing ==
  ASSUME NEW op, NEW i  PROVE Proceeds(op, i, << >>)
<1>1. 1 .. Len(<< >>) = {}
  OBVIOUS
<1> QED  BY <1>1 DEF Proceeds, Neat, Alone, Looks

LEMMA NeatOwn ==
  ASSUME NEW i \in Instructions, NEW op, op \notin Backward \union {"tick"}, NEW o,
         <<o, i>> \in AnyCall, o \in UnderWay \ {"react"}, o = "return" => i \notin Leaf /\ ~Shows(i) /\ Kind[i] \notin {"Async", "Choice"},
         o = "conclude" => i \notin Leaf /\ Kind[i] = "ParallelSequence"
  PROVE  Proceeds(op, i, Call(o, i))
<1>1. PICK last \in AnyCall : last = <<o, i>>
  OBVIOUS
<1>2. << >> \in Seq(ChildSet(i)) /\ 1 .. Len(<< >>) = {}
  OBVIOUS
<1>3. last[1] = o /\ Owner(last) = i /\ OfParent(last)
  BY <1>1 DEF Owner, OfParent
<1>4. Proceeds(op, i, ForEach("exec", << >>) \o <<last>>)
  BY <1>2, <1>3, NeatEach
<1>5. ForEach("exec", << >>) \o <<last>> = Call(o, i)
  <2>1. << >> \o <<last>> = <<last>>
    OBVIOUS
  <2> QED  BY <1>1, <2>1, ForEachOne DEF Call
<1> QED  BY <1>4, <1>5

LEMMA ChildKnown ==
  ASSUME NEW i \in Instructions, i \notin Leaf
  PROVE  <<Child(i)>> \in Seq(ChildSet(i)) /\ \A j, k \in 1 .. Len(<<Child(i)>>) : j = k
BY ChildIsChild

\* The child is executed, and its status taken.
LEMMA NeatChild ==
  ASSUME NEW i \in Instructions, i \notin Leaf, NEW op, op \notin Backward \union {"tick"},
         Kind[i] \notin {"UserChoice", "Async", "Choice"}
  PROVE  Proceeds(op, i, ChildCalls(i))
<1>1. PICK last \in AnyCall : last = <<"return", i>>
  BY DEF AnyCall, Operations
<1>2. last[1] = "return" /\ Owner(last) = i /\ OfParent(last)
  BY <1>1 DEF Owner, OfParent
<1>3. Shows(i) => \E c \in ChildSet(i) : ShownBy(i, c) /\ <<Child(i)>> = <<c>>
  BY ChildIsChild DEF ShownBy
<1>4. Proceeds(op, i, ForEach("exec", <<Child(i)>>) \o <<last>>)
  BY <1>2, <1>3, ChildKnown, NeatEach DEF UnderWay
<1>5. ForEach("exec", <<Child(i)>>) \o <<last>> = ChildCalls(i)
  BY <1>1, ForEachOne DEF ChildCalls, Call
<1> QED  BY <1>4, <1>5

\* The same after a reset of the child.
LEMMA NeatAgain ==
  ASSUME NEW i \in Instructions, i \notin Leaf, NEW op, op \notin Backward \union {"tick"},
         Kind[i] \notin {"UserChoice", "Async", "Choice"}
  PROVE  Proceeds(op, i, Call("reset", Child(i)) \o ChildCalls(i))
<1>c. PICK c : c = Child(i)
  OBVIOUS
<1>f. PICK f : f = Call("reset", c) \o ChildCalls(i)
  OBVIOUS
<1>1. c \in ChildSet(i) /\ c \in Instructions /\ c # i
  BY <1>c, ChildIsChild, ChildBelow DEF StrictlyBelow
<1>2. /\ Len(f) = 3 /\ f[1] = <<"reset", c>> /\ f[2] = <<"exec", c>> /\ f[3] = <<"return", i>>
      /\ 1 .. Len(f) = {1, 2, 3}
  <2>1. ChildCalls(i) = <<<<"exec", c>>, <<"return", i>>>>
    BY <1>c, OneConcat DEF ChildCalls, Call
  <2>2. PICK q : q = <<<<"exec", c>>, <<"return", i>>>>
    OBVIOUS
  <2>3. q \in Seq(AnyCall) /\ Len(q) = 2 /\ q[1] = <<"exec", c>> /\ q[2] = <<"return", i>>
    <3>1. <<"exec", c>> \in AnyCall /\ <<"return", i>> \in AnyCall
      BY <1>1 DEF AnyCall, Operations
    <3> QED  BY <2>2, <3>1
  <2>4. PICK p : p = Call("reset", c)
    OBVIOUS
  <2>5. p \in Seq(AnyCall) /\ Len(p) = 1 /\ p[1] = <<"reset", c>>
    BY <1>1, <2>4 DEF Call, AnyCall, Operations
  <2>6. Len(f) = 3 /\ \A k \in 1 .. 3 : f[k] = IF k <= 1 THEN p[k] ELSE q[k - 1]
    BY <1>f, <2>1, <2>2, <2>3, <2>4, <2>5, ConcatProperties
  <2> QED  BY <2>3, <2>5, <2>6
<1>3. /\ ~Quiet(f[1]) /\ ~Quiet(f[2]) /\ ~Quiet(f[3])
      /\ Owner(f[1]) = c /\ Owner(f[2]) = c /\ Owner(f[3]) = i
  BY <1>2 DEF Quiet, Signals, Owner
<1>4. Alone(f)
  <2> SUFFICES ASSUME NEW k \in 1 .. Len(f), NEW m \in k + 1 .. Len(f), Owner(f[k]) = Owner(f[m])
               PROVE  MayFollow(f[k][1], f[m][1])
    BY DEF Alone
  <2>1. (k = 1 /\ m = 2) \/ (m = 3 /\ k \in {1, 2})
    BY <1>2
  <2> QED  BY <1>1, <1>2, <1>3, <2>1 DEF MayFollow, Undoing
<1>5. NeatAt(op, i, f, 1)
  BY <1>1, <1>2, <1>3 DEF NeatAt, OfParent, Backward, UnderWay
<1>6. NeatAt(op, i, f, 2)
  BY <1>1, <1>2, <1>3 DEF NeatAt, OfParent, Backward, UnderWay
<1>7. NeatAt(op, i, f, 3)
  BY <1>1, <1>2, <1>3 DEF NeatAt, OfParent, Backward, UnderWay
<1>8. LooksAt(i, f, 1) /\ LooksAt(i, f, 2)
  BY <1>2 DEF LooksAt
<1>9. LooksAt(i, f, 3)
  <2>1. ShownBy(i, c)
    BY <1>c DEF ShownBy
  <2> QED  BY <1>1, <1>2, <2>1 DEF LooksAt
<1> QED  BY <1>c, <1>f, <1>2, <1>4, <1>5, <1>6, <1>7, <1>8, <1>9 DEF Proceeds, Neat, Looks

\* One child, or none, is executed, and the status calculated from all.
LEMMA NeatSequential ==
  ASSUME NEW i \in Instructions, i \notin Leaf, NEW op, op \notin Backward \union {"tick"},
         NEW s \in Seq(ChildSet(i)), ~Shows(i), Kind[i] # "Async",
         Kind[i] = "Choice" => selected[i] # << >>
  PROVE  Proceeds(op, i, SequentialCalls(i, s))
<1>1. PICK last \in AnyCall : last = <<"return", i>>
  BY DEF AnyCall, Operations
<1>2. last[1] = "return" /\ Owner(last) = i /\ OfParent(last)
  BY <1>1 DEF Owner, OfParent
<1>3. PICK u : u = FirstUnfinished(s)
  OBVIOUS
<1>4. u \in Seq(ChildSet(i)) /\ \A j, k \in 1 .. Len(u) : j = k
  <2>1. u = << >> \/ \E c \in ChildSet(i) : u = <<c>>
    BY <1>3, FirstUnfinishedIsOne
  <2>2. u = << >> => u \in Seq(ChildSet(i)) /\ \A j, k \in 1 .. Len(u) : j = k
    OBVIOUS
  <2>3. ASSUME NEW c \in ChildSet(i), u = <<c>>
        PROVE  u \in Seq(ChildSet(i)) /\ \A j, k \in 1 .. Len(u) : j = k
    BY <2>3
  <2> QED  BY <2>1, <2>2, <2>3
<1>5. Proceeds(op, i, ForEach("exec", u) \o <<last>>)
  BY <1>2, <1>4, NeatEach DEF UnderWay
<1> QED  BY <1>1, <1>3, <1>5 DEF SequentialCalls, Call

LEMMA NeatReactive ==
  ASSUME NEW i \in Instructions, i \notin Leaf, Kind[i] \in Reactive
  PROVE  Proceeds("body", i, ReactiveCalls(i))
<1>1. Children[i] \in Seq(ChildSet(i)) /\ ChildSet(i) \subseteq Instructions
  <2>1. Children[i] \in Seq(Instructions) /\ \A k \in 1 .. Len(Children[i]) : Children[i][k] \in ChildSet(i)
    BY ChildrenAreInstructions
  <2> QED  BY <2>1, ChildrenAreInstructions
<1>2. ~Shows(i) /\ Kind[i] \notin {"Async", "Choice"}
  BY DEF Reactive, Shows, Counting
<1>3. CASE FirstUnfinished(Children[i]) = << >>
  <2>1. <<"return", i>> \in AnyCall
    BY DEF AnyCall, Operations
  <2>2. Proceeds("body", i, Call("return", i))
    BY <1>2, <2>1, NeatOwn DEF UnderWay, Backward
  <2> QED  BY <1>3, <2>2 DEF ReactiveCalls
<1>4. ASSUME NEW c \in ChildSet(i), FirstUnfinished(Children[i]) = <<c>>
      PROVE  Proceeds("body", i, ReactiveCalls(i))
  <2>1. PICK last \in AnyCall : last = <<"react", c>>
    BY <1>1 DEF AnyCall, Operations
  <2>2. last[1] = "react" /\ Owner(last) = i /\ OfParent(last)
    BY <2>1, TreeAssumption DEF Owner, OfParent
  <2>3. <<c>> \in Seq(ChildSet(i)) /\ (\A j, k \in 1 .. Len(<<c>>) : j = k) /\ <<c>> # << >>
    OBVIOUS
  <2>4. Proceeds("body", i, ForEach("exec", <<c>>) \o <<last>>)
    BY <2>2, <2>3, NeatEach DEF UnderWay, Backward
  <2>5. ReactiveCalls(i) = ForEach("exec", <<c>>) \o <<last>>
    BY <1>4, <2>1, <2>3, ForEachOne DEF ReactiveCalls, Call
  <2> QED  BY <2>4, <2>5
<1> QED  BY <1>1, <1>3, <1>4, FirstUnfinishedIsOne

LEMMA NeatThreaded ==
  ASSUME NEW i \in Instructions, i \notin Leaf, Kind[i] \in Threaded
  PROVE  Proceeds("body", i, BodyCalls(i))
<1>0. /\ Children[i] \in Seq(ChildSet(i))
      /\ \A j, k \in 1 .. Len(Children[i]) : Children[i][j] = Children[i][k] => j = k
  <2>1. Children[i] \in Seq(Instructions) /\ \A k \in 1 .. Len(Children[i]) : Children[i][k] \in ChildSet(i)
    BY ChildrenAreInstructions
  <2>2. Children[i] \in Seq(ChildSet(i)) /\ DOMAIN Children[i] = 1 .. Len(Children[i])
    BY <2>1
  <2> QED  BY <2>2, TreeAssumption
<1>1. ~Shows(i)
  BY DEF Threaded, Shows, Counting
<1>2. CASE Kind[i] = "ParallelSequence"
  <2>1. PICK last \in AnyCall : last = <<"conclude", i>>
    BY DEF AnyCall, Operations
  <2>2. last[1] = "conclude" /\ Owner(last) = i /\ OfParent(last)
    BY <1>2, <2>1 DEF Owner, OfParent
  <2>3. Proceeds("body", i, ForEach("tick", Children[i]) \o <<last>>)
    BY <1>0, <2>2, NeatEach DEF UnderWay, Backward
  <2>4. BodyCalls(i) = ParallelCalls(i)
    BY <1>2 DEF BodyCalls, Reactive, Threaded, Counting
  <2> QED  BY <2>1, <2>3, <2>4 DEF ParallelCalls, Call
<1>3. CASE Kind[i] = "Async"
  <2>1. PICK last \in AnyCall : last = <<"return", i>>
    BY DEF AnyCall, Operations
  <2>2. last[1] = "return" /\ Owner(last) = i /\ OfParent(last)
    BY <2>1 DEF Owner, OfParent
  <2>3. Proceeds("body", i, ForEach("tick", <<Child(i)>>) \o <<last>>)
    BY <1>1, <1>3, <2>1, <2>2, ChildKnown, NeatEach DEF UnderWay, Backward
  <2>4. BodyCalls(i) = AsyncCalls(i)
    BY <1>3 DEF BodyCalls, Reactive, Threaded, Counting
  <2>5. AsyncCalls(i) = ForEach("tick", <<Child(i)>>) \o <<last>>
    BY <2>1, ForEachOne DEF AsyncCalls, Call
  <2> QED  BY <2>3, <2>4, <2>5
<1> QED  BY <1>2, <1>3 DEF Threaded

LEMMA NeatBody ==
  ASSUME Selections, NEW i \in Instructions
  PROVE  Proceeds("body", i, BodyCalls(i))
<1>1. \A o \in {"work", "choose", "listen", "return"} : <<o, i>> \in AnyCall
  BY DEF AnyCall, Operations
<1>2. Proceeds("body", i, Call("work", i)) /\ Proceeds("body", i, Call("choose", i))
      /\ Proceeds("body", i, Call("listen", i))
  BY <1>1, NeatOwn DEF UnderWay, Backward
<1>3. CASE i \in Leaf
  BY <1>2, <1>3 DEF BodyCalls
<1> SUFFICES ASSUME i \notin Leaf, Kind[i] \in Compounds  PROVE Proceeds("body", i, BodyCalls(i))
  BY <1>3, TreeAssumption
<1>4. CASE Kind[i] \in {"Sequence", "Fallback"}
  <2>1. BodyCalls(i) = SequentialCalls(i, Children[i]) /\ ~Shows(i) /\ Kind[i] \notin {"Async", "Choice"}
    BY <1>4 DEF BodyCalls, Reactive, Threaded, Counting, Shows
  <2>2. Children[i] \in Seq(ChildSet(i))
    <3>1. Children[i] \in Seq(Instructions) /\ \A k \in 1 .. Len(Children[i]) : Children[i][k] \in ChildSet(i)
      BY ChildrenAreInstructions
    <3> QED  BY <3>1
  <2> QED  BY <2>1, <2>2, NeatSequential DEF Backward
<1>5. CASE Kind[i] \in Reactive
  <2>1. BodyCalls(i) = ReactiveCalls(i)
    BY <1>5 DEF BodyCalls, Reactive, Threaded, Counting
  <2> QED  BY <1>5, <2>1, NeatReactive
<1>6. CASE Kind[i] = "Choice"
  <2>1. BodyCalls(i) = ChoiceCalls(i) /\ ~Shows(i) /\ Kind[i] # "Async"
    BY <1>6 DEF BodyCalls, Reactive, Threaded, Counting, Shows
  <2>2. CASE selected[i] = << >>
    BY <1>2, <2>1, <2>2 DEF ChoiceCalls
  <2>3. ASSUME NEW s \in Seq(ChildSet(i)), selected[i] = <<s>>  PROVE Proceeds("body", i, BodyCalls(i))
    <3>1. <<s>> # << >> /\ <<s>>[1] = s /\ selected[i] # << >>
      BY <2>3
    <3> QED  BY <2>1, <2>3, <3>1, NeatSequential DEF ChoiceCalls, Backward
  <2> QED  BY <2>2, <2>3 DEF Selections
<1>7. CASE Kind[i] = "UserChoice"
  <2>1. BodyCalls(i) = Call("choose", i)
    BY <1>7 DEF BodyCalls, Reactive, Threaded, Counting
  <2> QED  BY <1>2, <2>1
<1>8. CASE Kind[i] \in Counting
  <2>1. BodyCalls(i) = CountingCalls(i) /\ Kind[i] \notin {"UserChoice", "Async", "Choice"}
    BY <1>8 DEF BodyCalls, Reactive, Threaded, Counting
  <2>2. Proceeds("body", i, ChildCalls(i)) /\ Proceeds("body", i, Call("reset", Child(i)) \o ChildCalls(i))
    BY <2>1, NeatChild, NeatAgain DEF Backward
  <2>3. MaxCount[i] = 0 => Proceeds("body", i, Call("return", i))
    <3>1. MaxCount[i] = 0 => ~Shows(i)
      BY <1>8 DEF Shows, Counting
    <3> QED  BY <1>1, <2>1, <3>1, NeatOwn DEF UnderWay, Backward
  <2> QED  BY <2>1, <2>2, <2>3 DEF CountingCalls
<1>9. CASE Kind[i] = "Listen"
  <2>1. BodyCalls(i) = Call("listen", i)
    BY <1>9 DEF BodyCalls, Reactive, Threaded, Counting
  <2> QED  BY <1>2, <2>1
<1>10. CASE Kind[i] \in {"Inverter", "ForceSuccess", "Include"}
  <2>1. BodyCalls(i) = ChildCalls(i) /\ Kind[i] \notin {"UserChoice", "Async", "Choice"}
    BY <1>10 DEF BodyCalls, Reactive, Threaded, Counting
  <2> QED  BY <2>1, NeatChild DEF Backward
<1> QED  BY <1>4, <1>5, <1>6, <1>7, <1>8, <1>9, <1>10, NeatThreaded DEF Compounds

LEMMA NeatReact ==
  ASSUME NEW p \in Instructions, NEW c \in ChildSet(p), p = Parent[c], Kind[p] \in Reactive
  PROVE  /\ Proceeds("react", p, ResetOtherChildren(p, c) \o Call("running", p))
         /\ Proceeds("react", p, Call("return", p))
<1>a. PICK all : all = Children[p]
  OBVIOUS
<1>1. /\ all \in Seq(ChildSet(p)) /\ DOMAIN all = 1 .. Len(all) /\ Len(all) \in Nat
      /\ \A j, k \in 1 .. Len(all) : all[j] = all[k] => j = k
      /\ \E k \in 1 .. Len(all) : all[k] = c
  <2>1. all \in Seq(Instructions) /\ \A k \in 1 .. Len(all) : all[k] \in ChildSet(p)
    BY <1>a, ChildrenAreInstructions
  <2>2. all \in Seq(ChildSet(p)) /\ DOMAIN all = 1 .. Len(all) /\ Len(all) \in Nat
    BY <2>1
  <2>3. \A j, k \in 1 .. Len(all) : all[j] = all[k] => j = k
    BY <1>a, <2>2, TreeAssumption, SMTT(40)
  <2>4. \E k \in 1 .. Len(all) : all[k] = c
    BY <1>a, <2>2 DEF ChildSet
  <2> QED  BY <2>2, <2>3, <2>4
<1>2. PICK at : at = CHOOSE k \in DOMAIN all : all[k] = c
  OBVIOUS
<1>3. at \in 1 .. Len(all)
  BY <1>1, <1>2
<1>4. PICK s : s = RemoveAt(all, at)
  BY Zenon
<1>5. /\ s \in Seq(ChildSet(p)) /\ Len(s) = Len(all) - 1
      /\ \A j \in 1 .. at - 1 : s[j] = all[j]
      /\ \A j \in at .. Len(all) - 1 : s[j] = all[j + 1]
  BY <1>1, <1>3, <1>4, ErasedAt, ZenonT(60)
<1>6. ResetOtherChildren(p, c) = ForEach("reset", s)
  BY <1>a, <1>2, <1>4 DEF ResetOtherChildren, RemoveAt
<1>7. ASSUME NEW j \in 1 .. Len(s), NEW k \in 1 .. Len(s), s[j] = s[k]  PROVE j = k
  <2> DEFINE from(m) == IF m < at THEN m ELSE m + 1
  <2>1. ASSUME NEW m \in 1 .. Len(s)  PROVE from(m) \in 1 .. Len(all) /\ s[m] = all[from(m)]
    <3>1. Len(all) \in Nat /\ Len(s) = Len(all) - 1
      BY <1>1, <1>5
    <3>2. CASE m < at
      <4>1. m \in 1 .. at - 1 /\ from(m) = m /\ m \in 1 .. Len(all)
        BY <1>3, <3>1, <3>2
      <4> QED  BY <1>5, <4>1
    <3>3. CASE ~(m < at)
      <4>1. m \in at .. Len(all) - 1 /\ from(m) = m + 1 /\ m + 1 \in 1 .. Len(all)
        BY <1>3, <3>1, <3>3
      <4> QED  BY <1>5, <4>1
    <3> QED  BY <3>2, <3>3
  <2>2. from(j) = from(k)
    BY <1>1, <1>7, <2>1
  <2> QED  BY <1>3, <2>2
<1>8. ~Shows(p) /\ Kind[p] \notin {"Async", "Choice"} /\ p \notin Leaf
  <2>1. p \notin Leaf
    BY <1>a, <1>1 DEF Leaf
  <2> QED  BY <2>1 DEF Reactive, Shows, Counting
<1>9. PICK last \in AnyCall : last = <<"running", p>>
  BY DEF AnyCall, Operations
<1>10. last[1] = "running" /\ Owner(last) = p /\ OfParent(last)
  BY <1>9 DEF Owner, OfParent
<1>11. Proceeds("react", p, ForEach("reset", s) \o <<last>>)
  <2>1. \A j, k \in 1 .. Len(s) : s[j] = s[k] => j = k
    BY <1>7
  <2> QED  BY <1>5, <1>10, <2>1, NeatEach DEF UnderWay, Backward
<1>12. Proceeds("react", p, Call("return", p))
  <2>1. <<"return", p>> \in AnyCall
    BY DEF AnyCall, Operations
  <2> QED  BY <1>8, <2>1, NeatOwn DEF UnderWay, Backward
<1> QED  BY <1>6, <1>9, <1>11, <1>12 DEF Call

LEMMA NeatListen ==
  ASSUME NEW i \in Instructions, i \notin Leaf, Kind[i] = "Listen",
         NEW again \in {ChildCalls(i), Call("running", i)}
  PROVE  /\ Proceeds("listen", i, << >> \o again)
         /\ Proceeds("listen", i, Call("reset", Child(i)) \o again)
<1>1. PICK last \in AnyCall : last = <<"running", i>>
  BY DEF AnyCall, Operations
<1>2. last[1] = "running" /\ Owner(last) = i /\ OfParent(last)
  BY <1>1 DEF Owner, OfParent
<1>3. Proceeds("listen", i, Call("running", i))
  BY <1>1, NeatOwn DEF UnderWay, Backward
<1>4. Proceeds("listen", i, Call("reset", Child(i)) \o Call("running", i))
  <2>1. Proceeds("listen", i, ForEach("reset", <<Child(i)>>) \o <<last>>)
    BY <1>2, ChildKnown, NeatEach DEF UnderWay, Backward
  <2>2. ForEach("reset", <<Child(i)>>) \o <<last>> = Call("reset", Child(i)) \o Call("running", i)
    BY <1>1, ForEachOne DEF Call
  <2> QED  BY <2>1, <2>2
<1>5. Proceeds("listen", i, ChildCalls(i)) /\ Proceeds("listen", i, Call("reset", Child(i)) \o ChildCalls(i))
  BY NeatChild, NeatAgain DEF Backward
<1>6. << >> \o again = again
  <2>1. ChildCalls(i) = <<<<"exec", Child(i)>>, <<"return", i>>>>
    BY OneConcat DEF ChildCalls, Call
  <2>2. again = <<<<"exec", Child(i)>>, <<"return", i>>>> \/ again = <<<<"running", i>>>>
    BY <2>1 DEF Call
  <2> QED  BY <2>2
<1> QED  BY <1>3, <1>4, <1>5, <1>6

\* The user's choice is executed.
LEMMA NeatChosen ==
  ASSUME NEW i \in Instructions, Kind[i] = "UserChoice", NEW c \in ChildSet(i), selected[i] = <<<<c>>>>
  PROVE  Proceeds("choose", i, ForEach("exec", <<c>>) \o Call("return", i))
<1>1. PICK last \in AnyCall : last = <<"return", i>>
  BY DEF AnyCall, Operations
<1>2. i \notin Leaf
  BY DEF Leaf, ChildSet
<1>3. last[1] = "return" /\ Owner(last) = i /\ OfParent(last)
  BY <1>1, <1>2 DEF Owner, OfParent
<1>4. <<c>> \in Seq(ChildSet(i)) /\ \A j, k \in 1 .. Len(<<c>>) : j = k
  OBVIOUS
<1>5. ShownBy(i, c)
  BY DEF ShownBy
<1>6. Proceeds("choose", i, ForEach("exec", <<c>>) \o <<last>>)
  BY <1>3, <1>4, <1>5, NeatEach DEF UnderWay, Backward
<1> QED  BY <1>1, <1>6 DEF Call

LEMMA NeatConclude ==
  ASSUME NEW i \in Instructions, i \notin Leaf, Kind[i] = "ParallelSequence", NEW h \in {Call("halt", i), << >>}
  PROVE  Proceeds("conclude", i, h \o Call("return", i))
<1>1. ~Shows(i) /\ Kind[i] \notin {"Async", "Choice"}
  BY DEF Shows, Counting
<1>2. <<"return", i>> \in AnyCall
  BY DEF AnyCall, Operations
<1>3. Proceeds("conclude", i, Call("return", i))
  BY <1>1, <1>2, NeatOwn DEF UnderWay, Backward
<1>4. << >> \o Call("return", i) = Call("return", i)
  BY DEF Call
<1>5. PICK f : f = <<<<"halt", i>>, <<"return", i>>>>
  OBVIOUS
<1>6. Call("halt", i) \o Call("return", i) = f
  BY <1>5, OneConcat DEF Call
<1>7. Len(f) = 2 /\ 1 .. Len(f) = {1, 2} /\ f[1] = <<"halt", i>> /\ f[2] = <<"return", i>>
  BY <1>5
<1>8. Quiet(f[1]) /\ ~Quiet(f[2]) /\ Owner(f[2]) = i
  BY <1>7 DEF Quiet, Signals, Owner
<1>9. Alone(f)
  BY <1>7, <1>8 DEF Alone
<1>10. NeatAt("conclude", i, f, 1) /\ NeatAt("conclude", i, f, 2)
  <2>1. NeatAt("conclude", i, f, 1)
    BY <1>7, <1>8 DEF NeatAt
  <2>2. NeatAt("conclude", i, f, 2)
    BY <1>7, <1>8 DEF NeatAt, OfParent, UnderWay, Backward
  <2> QED  BY <2>1, <2>2
<1>11. LooksAt(i, f, 1) /\ LooksAt(i, f, 2)
  BY <1>1, <1>7 DEF LooksAt
<1>12. Proceeds("conclude", i, f)
  BY <1>7, <1>9, <1>10, <1>11 DEF Proceeds, Neat, Looks
<1> QED  BY <1>3, <1>4, <1>6, <1>12

\* A halt passes signals on to the children.
LEMMA NeatHalt ==
  ASSUME NEW i \in Instructions
  PROVE  /\ Proceeds("halt", i, HaltCalls(i))
         /\ \A k \in 1 .. Len(HaltCalls(i)) : HaltCalls(i)[k][2] \in {i} \union ChildSet(i)
<1>f. PICK f : f = HaltCalls(i)
  OBVIOUS
<1>1. f \in Seq(AnyCall) /\ \A k \in 1 .. Len(f) : Quiet(f[k])
  BY <1>f, HaltIsQuiet
<1>2. \A k \in 1 .. Len(f) : f[k][2] \in {i} \union ChildSet(i)
  <2>1. CASE Kind[i] = "UserChoice"
    BY <1>f, <2>1 DEF HaltCalls, Call
  <2>2. CASE Kind[i] # "UserChoice"
    <3>1. f = ForEach("halt", Children[i]) /\ DOMAIN Children[i] = 1 .. Len(Children[i])
      BY <1>f, <2>2, ChildrenAreInstructions DEF HaltCalls
    <3>2. DOMAIN f = DOMAIN Children[i] /\ \A k \in DOMAIN Children[i] : f[k] = <<"halt", Children[i][k]>>
      BY <3>1 DEF ForEach
    <3>3. DOMAIN f = 1 .. Len(f)
      BY <1>1
    <3> QED  BY <3>1, <3>2, <3>3, ChildrenAreInstructions
  <2> QED  BY <2>1, <2>2
<1>3. \A k \in 1 .. Len(f) : NeatAt("halt", i, f, k) /\ LooksAt(i, f, k)
  <2> TAKE k \in 1 .. Len(f)
  <2>1. NeatAt("halt", i, f, k)
    BY <1>1, <1>2 DEF NeatAt
  <2>2. f[k] # <<"return", i>>
    <3>1. f[k][1] \in {"halt", "drop"}
      BY <1>1 DEF Quiet, Signals
    <3> QED  BY <3>1
  <2> QED  BY <2>1, <2>2 DEF LooksAt
<1>4. Alone(f)
  BY <1>1 DEF Alone
<1> QED  BY <1>f, <1>2, <1>3, <1>4 DEF Proceeds, Neat, Looks

\* What a reset calls: a halt and a join of its own threads, where it has some, the
\* resets of its children and what clears its own status.
ResetShape(i, f, a) ==
  LET n == Len(Children[i])
  IN /\ a \in 0 .. 2 /\ n \in Nat /\ f \in Seq(AnyCall) /\ Len(f) = a + n + 1
     /\ \A k \in 1 .. a : f[k] \in {<<"halt", i>>, <<"join", i>>}
     /\ \A j, k \in 1 .. a : f[j] = <<"join", i>> /\ f[k] = <<"join", i>> => j = k
     /\ \A k \in 1 .. n : f[a + k] = <<"reset", Children[i][k]>>
     /\ f[a + n + 1] = <<"clear", i>>
     /\ Kind[i] \in Threaded => \E k \in 1 .. a : f[k] = <<"join", i>>

\* The elements of two sequences in one.
Parts(r, p, q) == /\ Len(r) = Len(p) + Len(q)
                  /\ \A k \in 1 .. Len(p) : r[k] = p[k]
                  /\ \A k \in 1 .. Len(q) : r[Len(p) + k] = q[k]

LEMMA BothParts ==
  ASSUME NEW S, NEW p \in Seq(S), NEW q \in Seq(S), NEW r, r = p \o q
  PROVE  r \in Seq(S) /\ Parts(r, p, q)
<1>1. Len(p) \in Nat /\ Len(q) \in Nat
  OBVIOUS
<1>2. \A k \in 1 .. Len(q) : Len(p) + k \in 1 .. Len(p) + Len(q)
  BY <1>1
<1> QED  BY <1>1, <1>2 DEF Parts

LEMMA ResetHasShape ==
  ASSUME NEW i \in Instructions
  PROVE  \E a \in 0 .. 2 : ResetShape(i, ResetCalls(i), a)
<1>s. PICK s : s = Children[i]
  OBVIOUS
<1>n. PICK n : n = Len(s)
  OBVIOUS
<1>p. PICK pre : pre = (IF HaltsOnReset(i) THEN Call("halt", i) ELSE << >>)
                       \o (IF Kind[i] \in Threaded THEN Call("join", i) ELSE << >>)
  OBVIOUS
<1>0. <<"halt", i>> \in AnyCall /\ <<"join", i>> \in AnyCall /\ <<"clear", i>> \in AnyCall
  BY DEF AnyCall, Operations
<1>1. \/ pre = << >> \/ pre = <<<<"halt", i>>>> \/ pre = <<<<"join", i>>>> \/ pre = <<<<"halt", i>>, <<"join", i>>>>
  <2>1. << >> \o << >> = << >> /\ << >> \o <<<<"join", i>>>> = <<<<"join", i>>>>
    OBVIOUS
  <2>2. CASE Kind[i] \in Threaded
    BY <1>p, <2>1, <2>2, OneConcat DEF Call
  <2>3. CASE Kind[i] \notin Threaded
    BY <1>p, <2>1, <2>3, OneConcat DEF Call
  <2> QED  BY <2>2, <2>3
<1>2. Kind[i] \in Threaded => pre = <<<<"join", i>>>> \/ pre = <<<<"halt", i>>, <<"join", i>>>>
  <2>1. << >> \o <<<<"join", i>>>> = <<<<"join", i>>>>
    OBVIOUS
  <2> QED  BY <1>p, <2>1, OneConcat DEF Call
<1>3. PICK a : a = Len(pre)
  OBVIOUS
<1>4. /\ a \in 0 .. 2 /\ pre \in Seq(AnyCall) /\ \A k \in 1 .. a : pre[k] \in {<<"halt", i>>, <<"join", i>>}
      /\ \A j, k \in 1 .. a : pre[j] = <<"join", i>> /\ pre[k] = <<"join", i>> => j = k
      /\ Kind[i] \in Threaded => \E k \in 1 .. a : pre[k] = <<"join", i>>
  <2>0. <<"halt", i>> # <<"join", i>>
    OBVIOUS
  <2>1. CASE pre = << >>
    BY <1>2, <1>3, <2>1
  <2>2. CASE pre = <<<<"halt", i>>>>
    BY <1>0, <1>2, <1>3, <2>0, <2>2
  <2>3. CASE pre = <<<<"join", i>>>>
    <3>1. a = 1 /\ pre[1] = <<"join", i>> /\ 1 .. a = {1}
      BY <1>3, <2>3
    <3> QED  BY <1>0, <2>3, <3>1
  <2>4. CASE pre = <<<<"halt", i>>, <<"join", i>>>>
    <3>1. a = 2 /\ pre[1] = <<"halt", i>> /\ pre[2] = <<"join", i>> /\ 1 .. a = {1, 2}
      BY <1>3, <2>4
    <3> QED  BY <1>0, <2>0, <2>4, <3>1
  <2> QED  BY <1>1, <2>1, <2>2, <2>3, <2>4
<1>5. PICK each : each = ForEach("reset", s)
  OBVIOUS
<1>6. each \in Seq(AnyCall) /\ Len(each) = n /\ n \in Nat /\ \A k \in 1 .. n : each[k] = <<"reset", s[k]>>
  <2>1. s \in Seq(Instructions) /\ DOMAIN s = 1 .. n /\ n \in Nat /\ \A k \in 1 .. n : s[k] \in Instructions
    <3>1. s \in Seq(Instructions)
      BY <1>s, ChildrenAreInstructions
    <3> QED  BY <1>n, <3>1
  <2>2. each = [k \in 1 .. n |-> <<"reset", s[k]>>]
    BY <1>5, <2>1 DEF ForEach
  <2>3. \A k \in 1 .. n : <<"reset", s[k]>> \in AnyCall
    BY <2>1 DEF AnyCall, Operations
  <2> QED  BY <2>1, <2>2, <2>3
<1>7. PICK head : head = pre \o each
  OBVIOUS
<1>8. /\ head \in Seq(AnyCall) /\ Len(head) = a + n
      /\ \A k \in 1 .. a : head[k] = pre[k]
      /\ \A k \in 1 .. n : head[a + k] = each[k]
  <2>1. head \in Seq(AnyCall) /\ Parts(head, pre, each)
    BY <1>4, <1>6, <1>7, BothParts
  <2> QED  BY <1>3, <1>6, <2>1 DEF Parts
<1>9. PICK tail : tail = Call("clear", i)
  OBVIOUS
<1>10. tail \in Seq(AnyCall) /\ Len(tail) = 1 /\ tail[1] = <<"clear", i>>
  BY <1>0, <1>9 DEF Call
<1>11. PICK f : f = head \o tail
  OBVIOUS
<1>12. /\ f \in Seq(AnyCall) /\ Len(f) = a + n + 1
       /\ \A k \in 1 .. a + n : f[k] = head[k]
       /\ f[a + n + 1] = tail[1]
  <2>1. 1 \in 1 .. Len(tail) /\ a + n \in Nat /\ tail \in Seq(AnyCall) /\ head \in Seq(AnyCall)
    BY <1>4, <1>6, <1>8, <1>10
  <2>2. f \in Seq(AnyCall) /\ Parts(f, head, tail)
    BY <1>11, <2>1, BothParts
  <2> QED  BY <1>8, <1>10, <2>1, <2>2 DEF Parts
<1>13. f = ResetCalls(i)
  BY <1>s, <1>p, <1>5, <1>7, <1>9, <1>11 DEF ResetCalls
<1>14. \A k \in 1 .. a : f[k] = pre[k]
  BY <1>4, <1>6, <1>8, <1>12
<1>15. \A k \in 1 .. n : f[a + k] = <<"reset", s[k]>>
  <2> TAKE k \in 1 .. n
  <2>1. a + k \in 1 .. a + n
    BY <1>4, <1>6
  <2> QED  BY <1>6, <1>8, <1>12, <2>1
<1>16. f[a + n + 1] = <<"clear", i>>
  BY <1>10, <1>12
<1>17. ResetShape(i, f, a)
  BY <1>s, <1>n, <1>4, <1>6, <1>12, <1>14, <1>15, <1>16 DEF ResetShape
<1> QED  BY <1>4, <1>13, <1>17

\* Where the calls of a reset are.
ResetPlaced(i, f, a, n) ==
  /\ a \in Nat /\ n \in Nat /\ Len(f) = a + n + 1 /\ f \in Seq(AnyCall)
  /\ \A k \in 1 .. Len(f) :
       \/ k \in 1 .. a /\ (f[k] = <<"halt", i>> \/ f[k] = <<"join", i>>)
       \/ \E j \in 1 .. n : k = a + j /\ f[k] = <<"reset", Children[i][j]>> /\ Children[i][j] \in ChildSet(i)
       \/ k = a + n + 1 /\ f[k] = <<"clear", i>>
  /\ a + n + 1 \in 1 .. Len(f) /\ f[a + n + 1] = <<"clear", i>>
  /\ \A c \in ChildSet(i) : \E k \in a + 1 .. Len(f) : f[k] = <<"reset", c>>

LEMMA ResetPlaces ==
  ASSUME NEW i \in Instructions, NEW f, NEW a, ResetShape(i, f, a), NEW n, n = Len(Children[i])
  PROVE  ResetPlaced(i, f, a, n)
<1>1. /\ a \in Nat /\ n \in Nat /\ Len(f) = a + n + 1 /\ f \in Seq(AnyCall)
      /\ \A k \in 1 .. a : f[k] = <<"halt", i>> \/ f[k] = <<"join", i>>
      /\ \A k \in 1 .. n : f[a + k] = <<"reset", Children[i][k]>>
      /\ f[a + n + 1] = <<"clear", i>>
  BY SMTT(40) DEF ResetShape
<1>2. Children[i] \in Seq(Instructions) /\ \A k \in 1 .. n : Children[i][k] \in ChildSet(i)
  BY ChildrenAreInstructions
<1>3. ASSUME NEW k \in 1 .. Len(f), k \notin 1 .. a, k # a + n + 1
      PROVE  \E j \in 1 .. n : k = a + j /\ f[k] = <<"reset", Children[i][j]>> /\ Children[i][j] \in ChildSet(i)
  <2>1. k - a \in 1 .. n /\ k = a + (k - a)
    BY <1>1, <1>3
  <2> QED  BY <1>1, <1>2, <2>1
<1>4. ASSUME NEW c \in ChildSet(i)  PROVE \E k \in a + 1 .. Len(f) : f[k] = <<"reset", c>>
  <2>1. DOMAIN Children[i] = 1 .. n
    BY <1>2
  <2>2. PICK j \in 1 .. n : Children[i][j] = c
    BY <2>1 DEF ChildSet
  <2>3. a + j \in a + 1 .. Len(f)
    BY <1>1
  <2> QED  BY <1>1, <2>2, <2>3
<1>5. a + n + 1 \in 1 .. Len(f)
  BY <1>1
<1> QED  BY <1>1, <1>3, <1>4, <1>5 DEF ResetPlaced

LEMMA NeatReset ==
  ASSUME NEW i \in Instructions
  PROVE  Proceeds("reset", i, ResetCalls(i))
<1>f. PICK f : f = ResetCalls(i)
  OBVIOUS
<1>a. PICK a : ResetShape(i, f, a)
  BY <1>f, ResetHasShape
<1>n. PICK n : n = Len(Children[i])
  OBVIOUS
<1>1. /\ a \in Nat /\ n \in Nat /\ Len(f) = a + n + 1
      /\ \A k \in 1 .. Len(f) :
           \/ k \in 1 .. a /\ (f[k] = <<"halt", i>> \/ f[k] = <<"join", i>>)
           \/ \E j \in 1 .. n : k = a + j /\ f[k] = <<"reset", Children[i][j]>> /\ Children[i][j] \in ChildSet(i)
           \/ k = a + n + 1 /\ f[k] = <<"clear", i>>
      /\ a + n + 1 \in 1 .. Len(f) /\ f[a + n + 1] = <<"clear", i>>
  <2>1. ResetPlaced(i, f, a, n)
    BY <1>a, <1>n, ResetPlaces
  <2> QED  BY <2>1 DEF ResetPlaced
<1>2. \A j, k \in 1 .. a : f[j] = <<"join", i>> /\ f[k] = <<"join", i>> => j = k
  BY <1>a DEF ResetShape
<1>3. \A j, k \in 1 .. n : Children[i][j] = Children[i][k] => j = k
  <2>1. Children[i] \in Seq(Instructions)
    BY ChildrenAreInstructions
  <2>2. DOMAIN Children[i] = 1 .. n
    BY <1>n, <2>1
  <2> QED  BY <2>2, TreeAssumption
<1>4. \A c \in ChildSet(i) : c # i
  BY ChildBelow DEF StrictlyBelow
<1>5. /\ Quiet(<<"halt", i>>) /\ ~Quiet(<<"join", i>>) /\ ~Quiet(<<"clear", i>>) /\ \A c : ~Quiet(<<"reset", c>>)
      /\ Owner(<<"join", i>>) = i /\ Owner(<<"clear", i>>) = i /\ \A c : Owner(<<"reset", c>>) = c
  BY DEF Quiet, Signals, Owner
<1>6. Alone(f)
  <2> SUFFICES ASSUME NEW k \in 1 .. Len(f), NEW m \in k + 1 .. Len(f),
                      ~Quiet(f[k]), ~Quiet(f[m]), Owner(f[k]) = Owner(f[m])
               PROVE  MayFollow(f[k][1], f[m][1])
    BY DEF Alone
  <2>m. m \in 1 .. Len(f) /\ m > k
    BY <1>1
  <2>1. CASE k \in 1 .. a /\ f[k] = <<"join", i>>
    <3>1. CASE m \in 1 .. a /\ (f[m] = <<"halt", i>> \/ f[m] = <<"join", i>>)
      <4>1. f[m] # <<"halt", i>>
        BY <1>5
      <4> QED  BY <1>2, <2>m, <2>1, <3>1, <4>1
    <3>2. ASSUME NEW c \in ChildSet(i), f[m] = <<"reset", c>>  PROVE FALSE
      BY <1>4, <1>5, <2>1, <3>2
    <3>3. CASE f[m] = <<"clear", i>>
      BY <2>1, <3>3 DEF MayFollow
    <3> QED  BY <1>1, <2>m, <3>1, <3>2, <3>3
  <2>2. ASSUME NEW j \in 1 .. n, k = a + j, f[k] = <<"reset", Children[i][j]>>, Children[i][j] \in ChildSet(i)
        PROVE  FALSE
    <3>1. CASE m \in 1 .. a
      BY <1>1, <2>m, <2>2, <3>1
    <3>2. ASSUME NEW l \in 1 .. n, m = a + l, f[m] = <<"reset", Children[i][l]>>  PROVE FALSE
      <4>1. Children[i][j] = Children[i][l]
        BY <1>5, <2>2, <3>2
      <4> QED  BY <1>3, <2>m, <2>2, <3>2, <4>1
    <3>3. CASE f[m] = <<"clear", i>>
      BY <1>4, <1>5, <2>2, <3>3
    <3> QED  BY <1>1, <2>m, <3>1, <3>2, <3>3
  <2>3. k # a + n + 1
    BY <1>1, <2>m
  <2>4. f[k] # <<"halt", i>>
    BY <1>5
  <2> QED  BY <1>1, <2>1, <2>2, <2>3, <2>4
<1>7. ASSUME NEW k \in 1 .. Len(f)  PROVE NeatAt("reset", i, f, k) /\ f[k] # <<"return", i>>
  <2>1. CASE f[k] = <<"halt", i>>
    BY <1>5, <2>1 DEF NeatAt
  <2>2. CASE k \in 1 .. a /\ f[k] = <<"join", i>>
    <3>1. a + n + 1 \in k + 1 .. Len(f)
      BY <1>1, <2>2
    <3>2. \E m \in k + 1 .. Len(f) : f[m] = <<"clear", f[k][2]>>
      BY <1>1, <2>2, <3>1
    <3> QED  BY <1>5, <2>2, <3>2 DEF NeatAt, OfParent, UnderWay, Backward
  <2>3. ASSUME NEW c \in ChildSet(i), f[k] = <<"reset", c>>  PROVE NeatAt("reset", i, f, k) /\ f[k] # <<"return", i>>
    BY <1>4, <1>5, <2>3 DEF NeatAt, OfParent, UnderWay, Backward
  <2>4. CASE f[k] = <<"clear", i>>
    BY <1>5, <2>4 DEF NeatAt, OfParent, UnderWay, Backward
  <2> QED  BY <1>1, <2>1, <2>2, <2>3, <2>4
<1> QED  BY <1>f, <1>6, <1>7 DEF Proceeds, Neat, Looks, LooksAt
-----------------------------------------------------------------------------
(* What a call does to the instructions                                      *)

Tables == /\ status \in [Instructions -> ExecutionStatus]
          /\ wrapper \in [Instructions -> ExecutionStatus \union {"absent"}]
          /\ haltReq \in [Instructions -> BOOLEAN]

\* Only clearing takes a status back to NOT_STARTED.
Started == ExecutionStatus \ {"NOT_STARTED"}

Marks(op, i) ==
  \/ op = "clear" /\ status' = [status EXCEPT ![i] = "NOT_STARTED"]
  \/ op # "clear" /\ UNCHANGED status /\ (op = "exec" => status[i] # "NOT_STARTED")
  \/ /\ op \in (UnderWay \ {"react"}) \union {"exec"}
     /\ \E s \in Started : status' = [status EXCEPT ![i] = s]

Signs(op, i) ==
  \/ op = "clear" /\ haltReq' = [haltReq EXCEPT ![i] = FALSE]
  \/ op = "halt" /\ haltReq' = [haltReq EXCEPT ![i] = TRUE]
  \/ op \notin {"clear", "halt"} /\ UNCHANGED haltReq

Selects(op, i, calls) ==
  \/ op = "reset" /\ selected' = [selected EXCEPT ![i] = << >>]
  \/ op # "reset" /\ UNCHANGED selected
  \/ /\ op = "choose" /\ calls = << >>
     /\ \E s : /\ selected' = [selected EXCEPT ![i] = s]
               /\ Kind[i] = "UserChoice" => \E c \in ChildSet(i) : s = <<<<c>>>>

Wraps(op, i) ==
  \/ /\ op = "exec" /\ status[i] = "NOT_STARTED"
     /\ wrapper' = [c \in Instructions |-> IF c \in Wrapped(i) THEN "NOT_STARTED" ELSE wrapper[c]]
  \/ /\ op = "join"
     /\ wrapper' = [c \in Instructions |-> IF c \in ChildSet(i) THEN "absent" ELSE wrapper[c]]
  \/ /\ op = "tick" /\ agenda[i] = << >> /\ wrapper[i] # status[i]
     /\ wrapper' = [wrapper EXCEPT ![i] = status[i]]
  \/ /\ op = "tick" /\ agenda'[i] = Call("exec", i)
     /\ wrapper' = [wrapper EXCEPT ![i] = "RUNNING"]
  \/ /\ op # "join" /\ UNCHANGED wrapper
     /\ op = "exec" => status[i] # "NOT_STARTED"
     /\ op = "tick" => IsFinishedStatus(wrapper[i]) \/ agenda[i] # << >>

Effects(op, i, calls) == Marks(op, i) /\ Signs(op, i) /\ Selects(op, i, calls) /\ Wraps(op, i)

\* What takes the place of a call, when that is always the same.
MakesAlways(op, i, calls) ==
  /\ op = "exec" => calls = Call("body", i)
  /\ op = "reset" => calls = ResetCalls(i)
  /\ op = "halt" => calls = HaltCalls(i)
  /\ op \in {"join", "clear", "drop", "tick"} => calls = << >>

\* A thread makes its next call; the threads that execute and reset go on, unless
\* one is launched.
Takes(t, op, i, calls) ==
  /\ agenda'[t] = calls \o Tail(agenda[t])
  /\ \A u \in Doers \ {t} :
       \/ agenda'[u] = agenda[u]
       \/ op = "tick" /\ u = i /\ agenda[u] = << >> /\ agenda'[u] = Call("exec", u)
  /\ t # Halter => agenda'[Halter] = agenda[Halter]

Moves(t, op, i, calls) ==
  /\ Due(t, op, i) /\ UNCHANGED <<root, halted>> /\ Takes(t, op, i, calls)
  /\ Replaces(<<op, i>>, Owner(<<op, i>>), calls) /\ Proceeds(op, Owner(<<op, i>>), calls)
  /\ MakesAlways(op, i, calls) /\ Effects(op, i, calls)

\* A status that is returned is one.
Sure == \A t \in Doers : \A i : Due(t, "return", i) => ImplStatus(i) \in Started

Laid == \A t \in Doers : Layout(t, agenda[t])

\* The user selects one child.
Answers == \A i \in Instructions : Kind[i] = "UserChoice" /\ selected[i] # << >> =>
             \E c \in ChildSet(i) : selected[i] = <<<<c>>>>

LEMMA Leaves ==
  ASSUME NEW op, op \notin {"exec", "clear", "halt", "reset", "join", "tick"}, NEW i, NEW calls,
         UNCHANGED <<haltReq, selected, wrapper>>,
         \/ UNCHANGED status
         \/ op \in UnderWay \ {"react"} /\ \E s \in Started : status' = [status EXCEPT ![i] = s]
  PROVE  Effects(op, i, calls)
BY DEF Effects, Marks, Signs, Selects, Wraps

LEMMA TakesCalls ==
  ASSUME ExclusiveInv, NEW t \in Threads, NEW calls, Continue(t, calls), NEW op, NEW i
  PROVE  Takes(t, op, i, calls)
<1>1. agenda \in [Threads -> Seq(AnyCall)] /\ agenda' = [agenda EXCEPT ![t] = calls \o Tail(agenda[t])]
  BY DEF ExclusiveInv, Walks, Continue, Replace
<1>2. \A u \in Doers : u \in Threads
  BY ThreadNames
<1> QED  BY <1>1, <1>2, ThreadNames DEF Takes

LEMMA MovesOut ==
  ASSUME ExclusiveInv, NEW t \in Threads, NEW op, NEW i, Due(t, op, i), Continue(t, << >>),
         UNCHANGED <<root, halted>>, op \notin {"exec", "reset", "halt"}, Effects(op, i, << >>)
  PROVE  \E o, calls : Moves(t, o, i, calls)
<1>1. << >> \in Seq(AnyCall) /\ 1 .. Len(<< >>) = {}
  OBVIOUS
<1>2. Replaces(<<op, i>>, Owner(<<op, i>>), << >>)
  BY <1>1, FitsQuiet DEF Replaces
<1>3. Proceeds(op, Owner(<<op, i>>), << >>)
  BY NeatNothing
<1>4. Takes(t, op, i, << >>)
  BY TakesCalls
<1>5. MakesAlways(op, i, << >>)
  BY DEF MakesAlways
<1>6. Moves(t, op, i, << >>)
  BY <1>2, <1>3, <1>4, <1>5 DEF Moves
<1> QED  BY <1>6

LEMMA MovesOn ==
  ASSUME ExclusiveInv, NEW t \in Threads, NEW op, NEW i, Due(t, op, i), NEW calls, Continue(t, calls),
         UNCHANGED <<root, halted, status, haltReq, selected, wrapper>>,
         op \in UnderWay, NEW x, x = Owner(<<op, i>>), Fits(x, FALSE, calls), Proceeds(op, x, calls)
  PROVE  \E o, e : Moves(t, o, i, e)
<1>1. op \notin Signals \union {"tick", "join", "exec", "clear", "halt", "reset", "drop"}
  BY DEF UnderWay, Signals
<1>2. Replaces(<<op, i>>, x, calls)
  BY <1>1 DEF Replaces
<1>3. Takes(t, op, i, calls)
  BY TakesCalls
<1>4. MakesAlways(op, i, calls)
  BY <1>1 DEF MakesAlways
<1>5. Effects(op, i, calls)
  BY <1>1 DEF Effects, Marks, Signs, Selects, Wraps
<1>6. Moves(t, op, i, calls)
  BY <1>2, <1>3, <1>4, <1>5 DEF Moves
<1> QED  BY <1>6

LEMMA LaunchMoves ==
  ASSUME ExclusiveInv, NEW t \in Threads, NEW c, LaunchChild(t, c)
  PROVE  \E op, calls : Moves(t, op, c, calls)
<1>1. /\ Due(t, "tick", c) /\ UNCHANGED <<root, halted, status, haltReq, selected>> /\ agenda[c] = << >>
      /\ wrapper' = [wrapper EXCEPT ![c] = "RUNNING"]
      /\ agenda' = [[agenda EXCEPT ![t] = << >> \o Tail(agenda[t])] EXCEPT ![c] = Call("exec", c)]
  BY DEF LaunchChild, Replace
<1>2. agenda \in [Threads -> Seq(AnyCall)] /\ t # c
  BY <1>1 DEF ExclusiveInv, Walks, Due
<1>3. c \in Workers /\ c \in Threads
  <2>1. Shaped(<<"tick", c>>) /\ c \in Instructions
    BY <1>1, DueCall DEF Signals
  <2>2. 1 \in 1 .. Len(agenda[t]) /\ agenda[t][1] = <<"tick", c>> /\ ~Quiet(agenda[t][1])
    <3>1. agenda[t] \in Seq(AnyCall) /\ agenda[t] # << >>
      BY <1>1, <1>2 DEF Due
    <3> QED  BY <1>1, <3>1 DEF Due, Quiet, Signals
  <2>3. t \in Doers
    BY <2>2, ThreadNames DEF ExclusiveInv, Walks
  <2>4. Ticks(Base(t), agenda[t])
    BY <2>3 DEF ExclusiveInv, Walks, Proper
  <2> PICK p \in Below(Base(t)) : Kind[p] \in Threaded /\ c \in ChildSet(p)
    BY <2>2, <2>4 DEF Ticks
  <2>5. Base(t) \in Instructions
    <3>1. root \in Roots /\ Busy /\ ~Idle(t)
      BY <1>1 DEF ExclusiveInv, Due, Idle
    <3> QED  BY <2>3, <3>1, BaseInTree
  <2>6. p \in Instructions
    BY <2>5, BelowClosed
  <2> QED  BY <2>6, ThreadNames DEF Doers
<1>4. agenda'[t] = << >> \o Tail(agenda[t]) /\ agenda'[c] = Call("exec", c)
      /\ \A u \in Threads \ {t, c} : agenda'[u] = agenda[u]
  BY <1>1, <1>2, <1>3
<1>5. \A u \in Doers : u \in Threads
  BY ThreadNames
<1>6. Takes(t, "tick", c, << >>)
  BY <1>1, <1>3, <1>4, <1>5, ThreadNames DEF Takes, Doers
<1>7. Replaces(<<"tick", c>>, Owner(<<"tick", c>>), << >>)
  <2>1. << >> \in Seq(AnyCall) /\ 1 .. Len(<< >>) = {}
    OBVIOUS
  <2> QED  BY <2>1, FitsQuiet DEF Replaces
<1>8. Effects("tick", c, << >>)
  BY <1>1, <1>4 DEF Effects, Marks, Signs, Selects, Wraps
<1>9. Moves(t, "tick", c, << >>)
  BY <1>1, <1>6, <1>7, <1>8, NeatNothing DEF Moves, MakesAlways
<1> QED  BY <1>9

\* Every step of a thread is one of these.
LEMMA StepMoves ==
  ASSUME ExclusiveInv, Laid, Answers, Sure, NEW t \in Threads, NEW i, Step(t, i) \/ Work(t, i)
  PROVE  \E op, calls : Moves(t, op, i, calls)
<1>0. Selections
  BY DEF ExclusiveInv
<1>s. "FAILURE" \in Started /\ "RUNNING" \in Started /\ "NOT_FINISHED" \in Started
  BY DEF Started, ExecutionStatus
<1>1. CASE Preamble(t, i)
  <2>1. /\ Due(t, "exec", i) /\ Continue(t, Call("body", i)) /\ UNCHANGED <<root, halted, haltReq, selected>>
        /\ \/ status[i] # "NOT_STARTED" /\ UNCHANGED <<status, wrapper>>
           \/ status[i] = "NOT_STARTED" /\ InitHook(i)
    BY <1>1 DEF Preamble
  <2>2. i \in Instructions
    BY <2>1, DueCall
  <2>3. Replaces(<<"exec", i>>, Owner(<<"exec", i>>), Call("body", i))
    BY <2>2, FitsOwn DEF Replaces, Owner, Signals
  <2>4. Proceeds("exec", Owner(<<"exec", i>>), Call("body", i))
    <3>1. <<"body", i>> \in AnyCall /\ Owner(<<"exec", i>>) = i
      BY <2>2 DEF AnyCall, Operations, Owner
    <3> QED  BY <2>2, <3>1, NeatOwn DEF UnderWay, Backward
  <2>5. Effects("exec", i, Call("body", i))
    <3>1. Marks("exec", i)
      BY <1>s, <2>1 DEF InitHook, Marks
    <3>2. Wraps("exec", i)
      BY <2>1 DEF InitHook, Wraps
    <3> QED  BY <2>1, <3>1, <3>2 DEF Effects, Signs, Selects
  <2>6. Takes(t, "exec", i, Call("body", i))
    BY <2>1, TakesCalls
  <2>7. Moves(t, "exec", i, Call("body", i))
    BY <2>1, <2>3, <2>4, <2>5, <2>6 DEF Moves, MakesAlways
  <2> QED  BY <2>7
<1>2. CASE SkipBody(t, i)
  <2>1. Effects("body", i, << >>)
    BY <1>2 DEF SkipBody, Effects, Marks, Signs, Selects, Wraps
  <2> QED  BY <1>2, <2>1, MovesOut DEF SkipBody
<1>3. CASE Body(t, i)
  <2>1. /\ Due(t, "body", i) /\ Continue(t, BodyCalls(i))
        /\ UNCHANGED <<root, halted, status, haltReq, selected, wrapper>>
    BY <1>3 DEF Body, Entered
  <2>2. i \in Instructions
    BY <2>1, DueCall
  <2>3. Owner(<<"body", i>>) = i /\ Fits(i, FALSE, BodyCalls(i)) /\ Proceeds("body", i, BodyCalls(i))
    BY <1>0, <2>2, FitsBody, NeatBody DEF Owner
  <2> QED  BY <2>1, <2>3, MovesOn DEF UnderWay
<1>4. CASE SetStatus(t, i)
  <2>1. /\ Due(t, "return", i) /\ Continue(t, << >>) /\ UNCHANGED <<root, halted, haltReq, wrapper, selected>>
        /\ status' = [status EXCEPT ![i] = ImplStatus(i)]
    BY <1>4 DEF SetStatus, Return
  <2>2. agenda[t] \in Seq(AnyCall) /\ agenda[t] # << >> /\ agenda[t][1] = <<"return", i>>
    BY <2>1 DEF ExclusiveInv, Walks, Due
  <2>3. 1 \in 1 .. Len(agenda[t]) /\ ~Quiet(agenda[t][1])
    BY <2>2 DEF Quiet, Signals
  <2>4. t \in Doers
    BY <2>3, ThreadNames DEF ExclusiveInv, Walks
  <2>5. ImplStatus(i) \in Started
    BY <2>1, <2>4 DEF Sure
  <2>6. Effects("return", i, << >>)
    BY <2>1, <2>5, Leaves DEF UnderWay
  <2> QED  BY <2>1, <2>6, MovesOut
<1>5. CASE ElementFails(t, i)
  <2>1. Effects("body", i, << >>)
    BY <1>5, <1>s, Leaves DEF ElementFails, Return, UnderWay
  <2> QED  BY <1>5, <2>1, MovesOut DEF ElementFails, Entered, Return
<1>6. CASE React(t, i)
  <2>1. PICK calls \in {ResetOtherChildren(Parent[i], i) \o Call("running", Parent[i]), Call("return", Parent[i])} :
          Due(t, "react", i) /\ Continue(t, calls) /\ UNCHANGED <<root, halted, status, haltReq, selected, wrapper>>
    BY <1>6 DEF React
  <2>2. i \in Instructions /\ Shaped(<<"react", i>>) /\ Owner(<<"react", i>>) \in Instructions
    BY <2>1, DueCall DEF Signals
  <2>3. /\ Owner(<<"react", i>>) = Parent[i] /\ Parent[i] \in Instructions
        /\ Kind[Parent[i]] \in Reactive /\ i \in ChildSet(Parent[i])
    BY <2>2 DEF Owner, Shaped
  <2>4. Fits(Owner(<<"react", i>>), FALSE, calls)
    BY <2>1, <2>2, <2>3, FitsReact
  <2>5. PICK p : p = Parent[i]
    OBVIOUS
  <2>6. Proceeds("react", p, calls)
    BY <2>1, <2>3, <2>5, NeatReact
  <2>7. p = Owner(<<"react", i>>) /\ Fits(p, FALSE, calls)
    BY <2>3, <2>4, <2>5
  <2> QED  BY <2>1, <2>6, <2>7, MovesOn DEF UnderWay
<1>7. CASE ReturnRunning(t, i)
  <2>1. Effects("running", i, << >>)
    BY <1>7, <1>s, Leaves DEF ReturnRunning, Return, UnderWay
  <2> QED  BY <1>7, <2>1, MovesOut DEF ReturnRunning, Return
<1>8. CASE ListenHalted(t, i)
  <2>1. Effects("listen", i, << >>)
    BY <1>8, <1>s, Leaves DEF ListenHalted, Return, UnderWay
  <2> QED  BY <1>8, <2>1, MovesOut DEF ListenHalted, Return
<1>9. CASE Listen(t, i)
  <2>1. PICK again \in {ChildCalls(i), Call("running", i)} :
          \E calls \in {again, Call("reset", Child(i)) \o again, << >> \o again} :
             Due(t, "listen", i) /\ Continue(t, calls) /\ UNCHANGED <<root, halted, status, haltReq, selected, wrapper>>
    BY <1>9 DEF Listen
  <2> PICK calls \in {again, Call("reset", Child(i)) \o again, << >> \o again} :
        Due(t, "listen", i) /\ Continue(t, calls) /\ UNCHANGED <<root, halted, status, haltReq, selected, wrapper>>
    BY <2>1
  <2>2. i \in Instructions /\ Shaped(<<"listen", i>>)
    BY <2>1, DueCall DEF Signals
  <2>3. Owner(<<"listen", i>>) = i /\ Kind[i] = "Listen" /\ i \notin Leaf
    BY <2>2 DEF Owner, Shaped
  <2>4. Fits(i, FALSE, calls)
    BY <2>1, <2>2, <2>3, FitsListen
  <2>5. << >> \o again = again
    BY <2>1, OneConcat DEF ChildCalls, Call
  <2>6. Proceeds("listen", i, calls)
    BY <2>1, <2>2, <2>3, <2>5, NeatListen
  <2>7. i = Owner(<<"listen", i>>)
    BY <2>3
  <2> QED  BY <2>1, <2>4, <2>6, <2>7, MovesOn DEF UnderWay
<1>10. CASE CreateInstructionList(t, i)
  <2>1. /\ Due(t, "choose", i) /\ Kind[i] = "Choice" /\ Continue(t, << >>)
        /\ UNCHANGED <<root, halted, haltReq, wrapper>>
        /\ \E s : selected' = [selected EXCEPT ![i] = s]
        /\ \E s \in {"NOT_FINISHED", "FAILURE"} : status' = [status EXCEPT ![i] = s]
    BY <1>10 DEF CreateInstructionList, Return
  <2>2. Effects("choose", i, << >>)
    BY <1>s, <2>1 DEF Effects, Marks, Signs, Selects, Wraps, UnderWay
  <2> QED  BY <2>1, <2>2, MovesOut
<1>11. CASE AskUser(t, i)
  <2>1. Due(t, "choose", i) /\ Kind[i] = "UserChoice" /\ UNCHANGED <<root, halted, haltReq, wrapper>>
    BY <1>11 DEF AskUser
  <2>2. i \in Instructions /\ Owner(<<"choose", i>>) = i
    BY <2>1, DueCall DEF Owner
  <2>3. CASE selected[i] # << >> /\ UNCHANGED <<status, selected>>
             /\ Continue(t, ForEach("exec", selected[i][1]) \o Call("return", i))
    <3>0. PICK c \in ChildSet(i) : selected[i] = <<<<c>>>>
      BY <2>1, <2>2, <2>3 DEF Answers
    <3>1. PICK u \in Seq(ChildSet(i)) : selected[i] = <<u>> /\ u = <<c>>
      <4>1. PICK u : u = <<c>>
        OBVIOUS
      <4>2. u \in Seq(ChildSet(i))
        BY <4>1
      <4> QED  BY <3>0, <4>1, <4>2
    <3>2. selected[i][1] = u /\ Kind[i] \notin Threaded
      BY <2>1, <3>1 DEF Threaded
    <3>3. Fits(i, FALSE, ForEach("exec", selected[i][1]) \o Call("return", i))
      BY <2>2, <3>2, FitsSequential
    <3>4. PICK calls : calls = ForEach("exec", selected[i][1]) \o Call("return", i)
      OBVIOUS
    <3>5. Proceeds("choose", i, calls)
      BY <2>1, <2>2, <3>0, <3>1, <3>2, <3>4, NeatChosen
    <3>6. Fits(i, FALSE, calls) /\ Continue(t, calls) /\ i = Owner(<<"choose", i>>)
      BY <2>2, <2>3, <3>3, <3>4
    <3> QED  BY <2>1, <2>3, <3>5, <3>6, MovesOn DEF UnderWay
  <2>4. ASSUME NEW s \in {"RUNNING", "FAILURE"}, Return(t, i, s), UNCHANGED selected
        PROVE  \E op, calls : Moves(t, op, i, calls)
    <3>1. Effects("choose", i, << >>)
      BY <1>s, <2>1, <2>4 DEF Effects, Marks, Signs, Selects, Wraps, UnderWay, Return
    <3> QED  BY <2>1, <2>4, <3>1, MovesOut DEF Return
  <2>5. ASSUME NEW c \in ChildSet(i), selected' = [selected EXCEPT ![i] = <<<<c>>>>], Return(t, i, "NOT_FINISHED")
        PROVE  \E op, calls : Moves(t, op, i, calls)
    <3>1. Selects("choose", i, << >>)
      BY <2>5 DEF Selects
    <3>2. Effects("choose", i, << >>)
      BY <1>s, <2>1, <2>5, <3>1 DEF Effects, Marks, Signs, Wraps, UnderWay, Return
    <3> QED  BY <2>1, <2>5, <3>2, MovesOut DEF Return
  <2> QED  BY <1>11, <2>3, <2>4, <2>5 DEF AskUser
<1>12. CASE NoAnswer(t, i)
  <2>1. Effects("choose", i, << >>)
    BY <1>12, <1>s DEF NoAnswer, Return, UnderWay, Effects, Marks, Signs, Selects, Wraps
  <2> QED  BY <1>12, <2>1, MovesOut DEF NoAnswer, Return
<1>13. CASE TickNothing(t, i)
  <2>1. Effects("tick", i, << >>)
    BY <1>13 DEF TickNothing, Effects, Marks, Signs, Selects, Wraps
  <2> QED  BY <1>13, <2>1, MovesOut DEF TickNothing
<1>14. CASE UpdateStatus(t, i)
  <2>1. Effects("tick", i, << >>)
    BY <1>14 DEF UpdateStatus, Effects, Marks, Signs, Selects, Wraps
  <2> QED  BY <1>14, <2>1, MovesOut DEF UpdateStatus
<1>15. CASE LaunchChild(t, i)
  BY <1>15, LaunchMoves
<1>16. CASE Conclude(t, i)
  <2>1. PICK h \in {Call("halt", i), << >>} :
          /\ Due(t, "conclude", i) /\ Continue(t, h \o Call("return", i))
          /\ UNCHANGED <<root, halted, status, haltReq, selected, wrapper>>
    BY <1>16 DEF Conclude
  <2>2. PICK calls : calls = h \o Call("return", i)
    OBVIOUS
  <2>3. i \in Instructions /\ i = Owner(<<"conclude", i>>)
    BY <2>1, DueCall DEF Owner
  <2>4. Fits(i, FALSE, calls)
    BY <2>1, <2>2, <2>3, FitsConclude
  <2>5. i \notin Leaf /\ Kind[i] = "ParallelSequence"
    <3>1. agenda[t] \in Seq(AnyCall) /\ agenda[t] # << >> /\ agenda[t][1] = <<"conclude", i>>
      BY <2>1 DEF ExclusiveInv, Walks, Due
    <3>2. 1 \in 1 .. Len(agenda[t]) /\ ~Quiet(agenda[t][1])
      BY <3>1 DEF Quiet, Signals
    <3>3. t \in Doers
      BY <3>2, ThreadNames DEF ExclusiveInv, Walks
    <3> QED  BY <3>1, <3>2, <3>3 DEF Laid, Layout, OfParents, OfParent
  <2>6. Proceeds("conclude", i, calls)
    BY <2>1, <2>2, <2>3, <2>5, NeatConclude
  <2>7. Continue(t, calls)
    BY <2>1, <2>2
  <2> QED  BY <2>1, <2>3, <2>4, <2>6, <2>7, MovesOn DEF UnderWay
<1>17. CASE Halt(t, i)
  <2>1. Due(t, "halt", i) /\ Continue(t, HaltCalls(i)) /\ UNCHANGED <<root, halted, status, selected, wrapper>>
        /\ haltReq' = [haltReq EXCEPT ![i] = TRUE]
    BY <1>17 DEF Halt
  <2>2. i \in Instructions /\ Owner(<<"halt", i>>) = i
    BY <2>1, DueCall DEF Owner
  <2>3. PICK calls : calls = HaltCalls(i)
    OBVIOUS
  <2>4. Replaces(<<"halt", i>>, i, calls) /\ Proceeds("halt", i, calls)
    BY <2>2, <2>3, HaltIsQuiet, FitsQuiet, NeatHalt DEF Replaces
  <2>5. Takes(t, "halt", i, calls)
    BY <2>1, <2>3, TakesCalls
  <2>6. Effects("halt", i, calls)
    BY <2>1 DEF Effects, Marks, Signs, Selects, Wraps
  <2>7. Moves(t, "halt", i, calls)
    BY <2>1, <2>2, <2>3, <2>4, <2>5, <2>6 DEF Moves, MakesAlways
  <2> QED  BY <2>7
<1>18. CASE DropFuture(t, i)
  <2>1. Effects("drop", i, << >>)
    BY <1>18 DEF DropFuture, Effects, Marks, Signs, Selects, Wraps
  <2> QED  BY <1>18, <2>1, MovesOut DEF DropFuture
<1>19. CASE Reset(t, i)
  <2>1. Due(t, "reset", i) /\ Continue(t, ResetCalls(i)) /\ UNCHANGED <<root, halted, status, haltReq, wrapper>>
        /\ selected' = [selected EXCEPT ![i] = << >>]
    BY <1>19 DEF Reset
  <2>2. i \in Instructions /\ Owner(<<"reset", i>>) = i
    BY <2>1, DueCall DEF Owner
  <2>3. PICK calls : calls = ResetCalls(i)
    OBVIOUS
  <2>4. Fits(i, FALSE, calls) /\ Proceeds("reset", i, calls)
    BY <2>2, <2>3, FitsReset, NeatReset
  <2>5. Replaces(<<"reset", i>>, i, calls)
    BY <2>2, <2>4 DEF Replaces, Signals
  <2>6. Takes(t, "reset", i, calls)
    BY <2>1, <2>3, TakesCalls
  <2>7. Effects("reset", i, calls)
    BY <2>1 DEF Effects, Marks, Signs, Selects, Wraps
  <2>8. Moves(t, "reset", i, calls)
    BY <2>1, <2>2, <2>3, <2>4, <2>5, <2>6, <2>7 DEF Moves, MakesAlways
  <2> QED  BY <2>8
<1>20. CASE Join(t, i)
  <2>1. Effects("join", i, << >>)
    BY <1>20 DEF Join, Effects, Marks, Signs, Selects, Wraps
  <2> QED  BY <1>20, <2>1, MovesOut DEF Join
<1>21. CASE Clear(t, i)
  <2>1. Effects("clear", i, << >>)
    BY <1>21 DEF Clear, Return, Effects, Marks, Signs, Selects, Wraps
  <2> QED  BY <1>21, <2>1, MovesOut DEF Clear, Return
<1>22. CASE Work(t, i)
  <2>1. Effects("work", i, << >>)
    BY <1>22 DEF Work, Return, UnderWay, Started, Effects, Marks, Signs, Selects, Wraps
  <2> QED  BY <1>22, <2>1, MovesOut DEF Work, Return
<1> QED  BY <1>1, <1>2, <1>3, <1>4, <1>5, <1>6, <1>7, <1>8, <1>9, <1>10, <1>11, <1>12, <1>13, <1>14, <1>15, <1>16, <1>17, <1>18, <1>19, <1>20, <1>21, <1>22 DEF Step
-----------------------------------------------------------------------------
(* A status that is returned is one                                          *)

LEMMA VerdictStarted ==
  ASSUME status \in [Instructions -> ExecutionStatus], NEW s \in Seq(Instructions),
         NEW pass \in {"SUCCESS", "FAILURE"}
  PROVE  FirstVerdict(s, pass) \in Started
<1> DEFINE open == {k \in DOMAIN s : status[s[k]] # pass}
<1>1. DOMAIN s = 1 .. Len(s) /\ Len(s) \in Nat /\ \A k \in 1 .. Len(s) : s[k] \in Instructions
  OBVIOUS
<1>2. CASE open = {}
  BY <1>2 DEF FirstVerdict, Started, ExecutionStatus
<1>3. CASE open # {}
  <2>1. open \in SUBSET Nat
    BY <1>1
  <2>2. \E k \in open : \A j \in open : k <= j
    <3> HIDE DEF open
    <3> QED  BY <1>3, <2>1, LeastNumber
  <2>3. FirstIn(open) \in open
    <3> HIDE DEF open
    <3> QED  BY <2>2 DEF FirstIn
  <2>4. PICK st \in ExecutionStatus : st = status[s[FirstIn(open)]]
    BY <1>1, <2>3
  <2>5. FirstVerdict(s, pass) = IF ReadyForExecute(st) THEN "NOT_FINISHED" ELSE st
    BY <1>3, <2>4 DEF FirstVerdict
  <2> QED  BY <2>5 DEF ReadyForExecute, Started, ExecutionStatus
<1> QED  BY <1>2, <1>3

LEMMA ReturnStarted ==
  ASSUME status \in [Instructions -> ExecutionStatus], Selections, NEW i \in Instructions, i \notin Leaf,
         Shows(i) => \E c \in ChildSet(i) : ShownBy(i, c) /\ status[c] \in Started,
         Kind[i] = "Async" => wrapper[Child(i)] \in Started,
         Kind[i] = "Choice" => selected[i] # << >>
  PROVE  ImplStatus(i) \in Started
<1>1. Kind[i] \in Compounds /\ Children[i] \in Seq(Instructions)
  BY TreeAssumption
<1>2. "SUCCESS" \in Started /\ "NOT_FINISHED" \in Started /\ "FAILURE" \in Started /\ "RUNNING" \in Started
  BY DEF Started, ExecutionStatus
<1>3. CASE Kind[i] \in {"Sequence", "Fallback", "ReactiveSequence", "ReactiveFallback"}
  <2>1. \/ ImplStatus(i) = FirstVerdict(Children[i], "SUCCESS")
        \/ ImplStatus(i) = FirstVerdict(Children[i], "FAILURE")
    BY <1>3 DEF ImplStatus, Counting, SequenceStatus, FallbackStatus, ReactiveSequenceStatus, ReactiveFallbackStatus
  <2> QED  BY <1>1, <2>1, VerdictStarted
<1>4. CASE Kind[i] = "Choice"
  <2>1. PICK u \in Seq(ChildSet(i)) : selected[i] = <<u>>
    BY <1>4 DEF Selections
  <2>2. ChildSet(i) \subseteq Instructions
    BY ChildrenAreInstructions
  <2>3. u \in Seq(Instructions)
    BY <2>2
  <2>4. ImplStatus(i) = FirstVerdict(u, "SUCCESS")
    <3>1. selected[i][1] = u
      BY <2>1
    <3> QED  BY <1>4, <3>1 DEF ImplStatus, Counting, ChoiceStatus
  <2> QED  BY <2>3, <2>4, VerdictStarted
<1>5. CASE Kind[i] = "UserChoice"
  <2>1. PICK c \in ChildSet(i) : selected[i] = <<<<c>>>> /\ status[c] \in Started
    BY <1>5 DEF Shows, ShownBy
  <2>2. selected[i][1][1] = c
    BY <2>1
  <2> QED  BY <1>5, <2>1, <2>2 DEF ImplStatus, Counting, UserChoiceStatus
<1>6. CASE Kind[i] = "ParallelSequence"
  BY <1>2, <1>6 DEF ImplStatus, Counting, ThresholdVerdict
<1>7. CASE Kind[i] = "Async"
  BY <1>7 DEF ImplStatus, Counting, AsyncStatus
<1>8. CASE Kind[i] \in {"Inverter", "ForceSuccess", "Include", "Listen"}
  <2>1. status[Child(i)] \in Started
    BY <1>8 DEF Shows, ShownBy
  <2> QED  BY <1>2, <1>8, <2>1 DEF ImplStatus, InverterStatus, ForceSuccessStatus, IncludeStatus, ListenStatus, Inverted, Counting
<1>9. CASE Kind[i] \in Counting
  <2>1. MaxCount[i] # 0 => status[Child(i)] \in Started
    BY <1>9 DEF Shows, ShownBy, Counting
  <2>2. ImplStatus(i) = CountingStatus(i)
    BY <1>9 DEF ImplStatus, Counting
  <2> QED  BY <1>2, <2>1, <2>2 DEF CountingStatus, CalculateStatus
<1> QED  BY <1>1, <1>3, <1>4, <1>5, <1>6, <1>7, <1>8, <1>9 DEF Compounds, Threaded, Reactive
-----------------------------------------------------------------------------
(* Who makes a call is where the call is about                               *)

\* What is known of a thread that has a call to make.
LEMMA AtCall ==
  ASSUME ExclusiveInv, NEW u \in Doers, NEW k \in 1 .. Len(agenda[u])
  PROVE  /\ agenda[u] \in Seq(AnyCall) /\ Len(agenda[u]) \in Nat /\ agenda[u][k] \in AnyCall
         /\ Proper(Base(u), agenda[u], Rest) /\ ~Idle(u)
         /\ root \in Roots /\ root \in Instructions /\ Below(root) \subseteq Instructions
         /\ Base(u) \in Below(root) /\ Base(u) \in Instructions /\ Below(Base(u)) \subseteq Below(root)
         /\ u \in Workers => u # root /\ Base(u) = u
<1>1. agenda[u] \in Seq(AnyCall) /\ Proper(Base(u), agenda[u], Rest) /\ root \in Roots /\ Busy
  BY ThreadNames DEF ExclusiveInv, Walks
<1>2. ~Idle(u) /\ Len(agenda[u]) \in Nat /\ agenda[u][k] \in AnyCall
  BY <1>1 DEF Idle
<1>3. /\ Base(u) \in Below(root) /\ root \in Instructions /\ Below(root) \subseteq Instructions
      /\ u \in Workers => u # root /\ Base(u) = u
  BY <1>1, <1>2, BaseInTree
<1> QED  BY <1>1, <1>2, <1>3, BelowClosed

LEMMA AtFront ==
  ASSUME ExclusiveInv, NEW t \in Doers, NEW op, NEW i, Due(t, op, i)
  PROVE  /\ 1 \in 1 .. Len(agenda[t]) /\ agenda[t][1] = <<op, i>> /\ agenda[t] # << >>
         /\ op \notin Signals \union {"tick"} => Owner(<<op, i>>) \in Inside(agenda[t])
         /\ op \notin Signals => Owner(<<op, i>>) \in Below(Base(t)) /\ Owner(<<op, i>>) \in Below(root)
         /\ i \in Instructions
<1>1. agenda[t] \in Seq(AnyCall) /\ agenda[t] # << >> /\ agenda[t][1] = <<op, i>>
  BY ThreadNames DEF ExclusiveInv, Walks, Due
<1>2. 1 \in 1 .. Len(agenda[t])
  BY <1>1
<1>3. op \notin Signals \union {"tick"} => Owner(<<op, i>>) \in Inside(agenda[t])
  BY <1>1, <1>2 DEF Inside, Signals
<1>4. op \notin Signals => Owner(<<op, i>>) \in Below(Base(t))
  BY <1>1, <1>2, AtCall DEF Proper, Held, Quiet
<1>5. i \in Instructions
  BY <1>1, <1>2, AtCall DEF AnyCall
<1> QED  BY <1>1, <1>2, <1>3, <1>4, <1>5, AtCall

\* A thread neither resets nor launches what it was started for.
LEMMA NotOwnBase ==
  ASSUME ExclusiveInv, Laid, NEW u \in Doers, NEW k \in 1 .. Len(agenda[u]),
         agenda[u][k][1] \in Undoing \union {"tick"}
  PROVE  /\ agenda[u][k][2] # u /\ ~Quiet(agenda[u][k]) /\ Owner(agenda[u][k]) = agenda[u][k][2]
<1>0. ~Quiet(agenda[u][k]) /\ Owner(agenda[u][k]) = agenda[u][k][2]
  BY DEF Undoing, Quiet, Signals, Owner
<1>1. CASE u = Ticker
  <2>1. agenda[u][k][2] \in Instructions
    BY AtCall DEF AnyCall
  <2> QED  BY <1>0, <1>1, <2>1, TreeAssumption
<1>2. CASE u \in Workers /\ agenda[u][k][1] \in Undoing
  BY <1>0, <1>2 DEF Laid, Layout, NotItself
<1>3. CASE u \in Workers /\ agenda[u][k][1] = "tick"
  <2>1. Ticks(u, agenda[u]) /\ u \in Instructions
    BY <1>3, AtCall DEF Proper
  <2> PICK p \in Below(u) : agenda[u][k][2] \in ChildSet(p)
    BY <1>3, <2>1 DEF Ticks
  <2>2. agenda[u][k][2] \in StrictlyBelow(p) /\ p \in Instructions
    BY <2>1, BelowClosed, ChildBelow
  <2> QED  BY <1>0, <2>1, <2>2, BelowOneWay
<1> QED  BY <1>1, <1>2, <1>3 DEF Doers

\* To do something with a child, other than what it was started for, a thread is
\* inside of the parent.
LEMMA InParent ==
  ASSUME ExclusiveInv, NEW u \in Doers, NEW k \in 1 .. Len(agenda[u]), ~Quiet(agenda[u][k]),
         NEW p \in Below(root), Owner(agenda[u][k]) \in ChildSet(p), Owner(agenda[u][k]) # u
  PROVE  p \in Below(Base(u)) /\ p \in Inside(agenda[u])
<1>c. PICK c : c = Owner(agenda[u][k])
  OBVIOUS
<1>1. /\ Proper(Base(u), agenda[u], Rest) /\ root \in Roots /\ Below(root) \subseteq Instructions
      /\ Base(u) \in Instructions /\ Below(Base(u)) \subseteq Below(root)
      /\ u \in Workers => Base(u) = u
      /\ Len(agenda[u]) \in Nat
  BY AtCall
<1>2. Held(Base(u), agenda[u])
  BY <1>1 DEF Proper
<1>3. c # root
  BY <1>1, <1>c, OneParent
<1>4. c # Base(u)
  BY <1>1, <1>3, <1>c DEF Base, Doers
<1>5. c \in StrictlyBelow(Base(u))
  BY <1>2, <1>4, <1>c DEF Held, StrictlyBelow
<1> PICK q \in Below(Base(u)) : c \in ChildSet(q)
  BY <1>1, <1>5, ParentBelow
<1>6. q = p /\ c \in StrictlyBelow(p)
  BY <1>1, <1>c, OneParent, ChildBelow
<1>7. p \in Inside(agenda[u])
  BY <1>1, <1>2, <1>6, <1>c, HeldInside
<1> QED  BY <1>6, <1>7

\* The parent in the tree is one.
LEMMA SameParent ==
  ASSUME ExclusiveInv, NEW p \in Below(root), NEW q \in Below(root), NEW c \in ChildSet(p) \intersect ChildSet(q)
  PROVE  p = q
<1>1. root \in Roots
  BY DEF ExclusiveInv
<1> QED  BY <1>1, OneParent

\* While an instruction is under way no other call about it is made.
LEMMA UnderWayAlone ==
  ASSUME ExclusiveInv, Laid, NEW t \in Doers, NEW op, NEW i, Due(t, op, i), op \notin Signals \union {"tick"},
         NEW u \in Doers, NEW k \in 1 .. Len(agenda[u]), u = t => k # 1, agenda[u][k][1] \in UnderWay
  PROVE  Owner(<<op, i>>) # Owner(agenda[u][k])
<1> SUFFICES ASSUME Owner(<<op, i>>) = Owner(agenda[u][k])  PROVE FALSE
  OBVIOUS
<1>1. /\ 1 \in 1 .. Len(agenda[t]) /\ agenda[t][1] = <<op, i>>
      /\ Owner(<<op, i>>) \in Inside(agenda[t])
  BY AtFront
<1>2. Owner(agenda[u][k]) \in Inside(agenda[u]) /\ ~Quiet(agenda[u][k])
  BY DEF Inside, UnderWay, Quiet, Signals
<1>3. u = t
  BY <1>1, <1>2, InsidesApart
<1>4. MayFollow(op, agenda[t][k][1])
  <2>1. Alone(agenda[t]) /\ k \in 1 + 1 .. Len(agenda[t])
    BY <1>3 DEF Laid, Layout
  <2>2. ~Quiet(agenda[t][1])
    BY <1>1 DEF Quiet
  <2> QED  BY <1>1, <1>2, <1>3, <2>1, <2>2 DEF Alone
<1> QED  BY <1>3, <1>4 DEF MayFollow, UnderWay

\* Nor does another thread do anything with its children.
LEMMA ChildrenAlone ==
  ASSUME ExclusiveInv, Laid, NEW t \in Doers, NEW op, NEW i, Due(t, op, i), op \in Undoing \union {"tick"},
         NEW u \in Doers \ {t}, NEW p \in Below(root), p \in Inside(agenda[u])
  PROVE  i \notin ChildSet(p)
<1> SUFFICES ASSUME i \in ChildSet(p)  PROVE FALSE
  OBVIOUS
<1>1. 1 \in 1 .. Len(agenda[t]) /\ agenda[t][1] = <<op, i>>
  BY AtFront
<1>2. i # t /\ ~Quiet(agenda[t][1]) /\ Owner(agenda[t][1]) = i
  <2>1. agenda[t][1][1] \in Undoing \union {"tick"} /\ agenda[t][1][2] = i
    BY <1>1
  <2> QED  BY <1>1, <2>1, NotOwnBase
<1>3. p \in Inside(agenda[t])
  BY <1>1, <1>2, InParent
<1> QED  BY <1>3, InsidesApart
-----------------------------------------------------------------------------
(* Who is under way has started                                              *)

\* The child that an instruction is about to show has been executed, or is about to be.
ShownAt(e, k) ==
  e[k][1] = "return" /\ Shows(e[k][2]) =>
    \E c \in ChildSet(e[k][2]) : /\ ShownBy(e[k][2], c)
                                 /\ \/ k > 1 /\ e[k - 1] = <<"exec", c>>
                                    \/ /\ status[c] # "NOT_STARTED"
                                       /\ \A m \in 1 .. k - 1 : e[m] # <<"reset", c>> /\ e[m] # <<"clear", c>>

\* So has the wrapper of an Async, and a Choice has selected.
TickedAt(e, k) ==
  e[k][1] = "return" /\ Kind[e[k][2]] = "Async" =>
    \/ wrapper[Child(e[k][2])] # "NOT_STARTED"
    \/ k > 1 /\ e[k - 1] = <<"tick", Child(e[k][2])>>

ChosenFor(call) == call[1] = "return" /\ Kind[call[2]] = "Choice" => selected[call[2]] # << >>

\* An instruction with threads that is under way has wrappers.
EquippedFor(call) ==
  call[1] \in UnderWay /\ Kind[Owner(call)] \in Threaded =>
    \A c \in ChildSet(Owner(call)) : wrapper[c] # "absent"

\* A child with a thread is reset when its wrapper is gone or goes before.
JoinedAt(b, e, k) ==
  \A p \in Below(b) : Kind[p] \in Threaded /\ e[k][2] \in ChildSet(p) =>
    /\ e[k][1] = "reset" => wrapper[e[k][2]] = "absent" \/ \E m \in 1 .. k - 1 : e[m] = <<"join", p>>
    /\ e[k][1] = "clear" => wrapper[e[k][2]] = "absent"

Prepared(b, e) == \A k \in 1 .. Len(e) : /\ ShownAt(e, k) /\ TickedAt(e, k) /\ JoinedAt(b, e, k)
                                         /\ ChosenFor(e[k]) /\ EquippedFor(e[k])

\* An instruction that has started and lacks a wrapper is being reset.
Unwrapped ==
  \A p \in Below(root) :
    Kind[p] \in Threaded /\ status[p] # "NOT_STARTED" /\ (\E c \in ChildSet(p) : wrapper[c] = "absent") =>
      \E u \in Doers : \E k \in 1 .. Len(agenda[u]) : agenda[u][k] = <<"clear", p>>

\* What a wrapper has launched has started, or is about to.
Launched ==
  \A p \in Below(root) : Kind[p] \in Threaded => \A c \in ChildSet(p) :
    wrapper[c] \notin {"absent", "NOT_STARTED"} =>
      status[c] # "NOT_STARTED" \/ \E k \in 1 .. Len(agenda[c]) : agenda[c][k] = <<"exec", c>>

\* Wrappers are those of the tree.
InTree == \A c \in Instructions : wrapper[c] # "absent" =>
            \E p \in Below(root) : Kind[p] \in Threaded /\ c \in ChildSet(p)

AllPrepared == \A t \in Doers : Prepared(Base(t), agenda[t])

StartInv == /\ ExclusiveInv /\ WrapperInv /\ Laid /\ Tables /\ Answers
            /\ AllPrepared /\ Unwrapped /\ Launched /\ InTree

LEMMA InvIsSure == StartInv => Sure
<1> SUFFICES ASSUME StartInv, NEW t \in Doers, NEW i, Due(t, "return", i)
             PROVE  ImplStatus(i) \in Started
  BY DEF Sure
<1>e. PICK e : e = agenda[t]
  OBVIOUS
<1>1. ExclusiveInv /\ Laid /\ Tables /\ Prepared(Base(t), e) /\ Layout(t, e)
  BY <1>e DEF StartInv, AllPrepared, Laid
<1>2. /\ 1 \in 1 .. Len(e) /\ e[1] = <<"return", i>> /\ i \in Instructions
  BY <1>1, <1>e, AtFront
<1>3. ShownAt(e, 1) /\ TickedAt(e, 1) /\ ChosenFor(e[1]) /\ EquippedFor(e[1]) /\ OfParent(e[1])
  BY <1>1, <1>2 DEF Prepared, Layout, OfParents
<1>4. i \notin Leaf /\ e[1][1] = "return" /\ e[1][2] = i /\ Owner(e[1]) = i
  BY <1>2, <1>3 DEF OfParent, Owner
<1>5. ASSUME Shows(i)  PROVE \E c \in ChildSet(i) : ShownBy(i, c) /\ status[c] \in Started
  <2> PICK c \in ChildSet(i) : ShownBy(i, c) /\ status[c] # "NOT_STARTED"
    BY <1>3, <1>4, <1>5 DEF ShownAt
  <2>1. status[c] \in ExecutionStatus
    BY <1>1, <1>2, ChildrenAreInstructions DEF Tables
  <2> QED  BY <2>1 DEF Started
<1>6. ASSUME Kind[i] = "Async"  PROVE wrapper[Child(i)] \in Started
  <2>1. Child(i) \in ChildSet(i) /\ Child(i) \in Instructions
    BY <1>2, <1>4, ChildIsChild, ChildrenAreInstructions
  <2>2. wrapper[Child(i)] # "NOT_STARTED" /\ wrapper[Child(i)] # "absent"
    <3>1. wrapper[Child(i)] # "NOT_STARTED"
      BY <1>3, <1>4, <1>6 DEF TickedAt
    <3>2. wrapper[Child(i)] # "absent"
      BY <1>3, <1>4, <1>6, <2>1 DEF EquippedFor, UnderWay, Threaded
    <3> QED  BY <3>1, <3>2
  <2> QED  BY <1>1, <2>1, <2>2 DEF Tables, Started
<1>7. Kind[i] = "Choice" => selected[i] # << >>
  BY <1>3, <1>4 DEF ChosenFor
<1>8. Selections /\ status \in [Instructions -> ExecutionStatus]
  BY <1>1 DEF ExclusiveInv, Tables
<1> QED  BY <1>2, <1>4, <1>5, <1>6, <1>7, <1>8, ReturnStarted

-----------------------------------------------------------------------------
(* How a move changes an instruction                                         *)

LEMMA Rewrapped ==
  ASSUME Tables, NEW t, NEW op, NEW i \in Instructions, NEW calls, Moves(t, op, i, calls),
         NEW c \in Instructions, wrapper'[c] # wrapper[c]
  PROVE  \/ op = "exec" /\ status[i] = "NOT_STARTED" /\ c \in Wrapped(i) /\ wrapper'[c] = "NOT_STARTED"
         \/ op = "join" /\ c \in ChildSet(i) /\ wrapper'[c] = "absent"
         \/ op = "tick" /\ i = c /\ agenda[c] = << >> /\ wrapper'[c] = status[c]
         \/ op = "tick" /\ i = c /\ agenda'[c] = Call("exec", c) /\ wrapper'[c] = "RUNNING"
<1>1. Wraps(op, i) /\ wrapper \in [Instructions -> ExecutionStatus \union {"absent"}]
  BY DEF Moves, Effects, Tables
<1> QED  BY <1>1 DEF Wraps

LEMMA Remarked ==
  ASSUME Tables, NEW t, NEW op, NEW i \in Instructions, NEW calls, Moves(t, op, i, calls),
         NEW c \in Instructions, status'[c] # status[c]
  PROVE  \/ op = "clear" /\ i = c /\ status'[c] = "NOT_STARTED"
         \/ op \in (UnderWay \ {"react"}) \union {"exec"} /\ i = c /\ status'[c] \in Started
<1>1. Marks(op, i) /\ status \in [Instructions -> ExecutionStatus]
  BY DEF Moves, Effects, Tables
<1> QED  BY <1>1 DEF Marks

LEMMA Reselected ==
  ASSUME Selections, NEW t, NEW op, NEW i \in Instructions, NEW calls, Moves(t, op, i, calls),
         NEW c \in Instructions, selected'[c] # selected[c]
  PROVE  i = c /\ (op = "reset" \/ (op = "choose" /\ calls = << >>))
<1>1. Selects(op, i, calls) /\ selected = [j \in Instructions |-> selected[j]]
  BY DEF Moves, Effects, Selections
<1> QED  BY <1>1 DEF Selects

LEMMA ExecStarts ==
  ASSUME Tables, NEW t, NEW i \in Instructions, NEW calls, Moves(t, "exec", i, calls)
  PROVE  status'[i] # "NOT_STARTED"
<1>1. Marks("exec", i) /\ status \in [Instructions -> ExecutionStatus]
  BY DEF Moves, Effects, Tables
<1> QED  BY <1>1 DEF Marks, Started, UnderWay

\* The parent of a child that is to be launched has wrappers.
LEMMA TickEquipped ==
  ASSUME StartInv, NEW t \in Doers, NEW c, Due(t, "tick", c)
  PROVE  c \in Instructions /\ wrapper[c] # "absent" /\
         \E p \in Below(root) : Kind[p] \in Threaded /\ c \in ChildSet(p)
<1>e. PICK e : e = agenda[t]
  OBVIOUS
<1>b. PICK b : b = Base(t)
  OBVIOUS
<1>1. ExclusiveInv /\ Laid /\ Prepared(b, e) /\ Layout(t, e)
  BY <1>e, <1>b DEF StartInv, AllPrepared, Laid
<1>2. 1 \in 1 .. Len(e) /\ e[1] = <<"tick", c>> /\ c \in Instructions
  BY <1>1, <1>e, AtFront
<1>3. /\ Held(b, e) /\ Ticks(b, e) /\ Below(b) \subseteq Below(root) /\ Len(e) \in Nat
  BY <1>1, <1>2, <1>e, <1>b, AtCall DEF Proper
<1> PICK p \in Below(b) : Kind[p] \in Threaded /\ c \in ChildSet(p)
  BY <1>2, <1>3 DEF Ticks
<1> PICK m \in 1 + 1 .. Len(e) : Concludes(e[m], c)
  BY <1>1, <1>2 DEF Layout, TicksEnd
<1>4. m \in 1 .. Len(e) /\ ~Quiet(e[m]) /\ Owner(e[m]) = e[m][2] /\ e[m][1] \in UnderWay /\ c \in ChildSet(e[m][2])
  BY <1>3 DEF Concludes, Quiet, Signals, Owner, UnderWay
<1>5. e[m][2] \in Below(root)
  BY <1>3, <1>4 DEF Held
<1>6. e[m][2] = p
  BY <1>1, <1>3, <1>4, <1>5, SameParent
<1>7. EquippedFor(e[m])
  BY <1>1, <1>4 DEF Prepared
<1> QED  BY <1>2, <1>3, <1>4, <1>6, <1>7 DEF EquippedFor

\* Its wrapper reports that it has started.
LEMMA TickStarts ==
  ASSUME StartInv, NEW t \in Doers, NEW c, NEW calls, Moves(t, "tick", c, calls)
  PROVE  wrapper'[c] \notin {"absent", "NOT_STARTED"}
<1>1. Due(t, "tick", c) /\ Wraps("tick", c)
  BY DEF Moves, Effects
<1>2. PICK p \in Below(root) : Kind[p] \in Threaded /\ c \in ChildSet(p) /\ wrapper[c] # "absent" /\ c \in Instructions
  BY <1>1, TickEquipped
<1>3. Tables /\ WrapperInv /\ Launched /\ ExclusiveInv
  BY DEF StartInv
<1>4. c \in Workers
  <2>1. p \in Instructions
    BY <1>3, TreeAssumption, BelowClosed DEF ExclusiveInv
  <2> QED  BY <1>2, <2>1, ThreadNames
<1>5. CASE wrapper' = [wrapper EXCEPT ![c] = status[c]] /\ agenda[c] = << >> /\ wrapper[c] # status[c]
  <2>1. 1 .. Len(agenda[c]) = {}
    BY <1>5
  <2>2. status[c] # "NOT_STARTED"
    BY <1>2, <1>3, <1>5, <2>1 DEF Launched
  <2>3. wrapper'[c] = status[c] /\ status[c] \in ExecutionStatus
    BY <1>2, <1>3, <1>5 DEF Tables
  <2> QED  BY <2>2, <2>3 DEF ExecutionStatus
<1>6. CASE wrapper' = [wrapper EXCEPT ![c] = "RUNNING"]
  BY <1>2, <1>3, <1>6 DEF Tables
<1>7. CASE UNCHANGED wrapper /\ (IsFinishedStatus(wrapper[c]) \/ agenda[c] # << >>)
  BY <1>3, <1>4, <1>7 DEF WrapperInv, WrapperKnowsThread, Idle, IsFinishedStatus
<1> QED  BY <1>1, <1>5, <1>6, <1>7 DEF Wraps

\* What a thread is about to return is not disturbed.
LEMMA KeptUnderWay ==
  ASSUME StartInv, NEW t \in Doers, NEW op, NEW i, NEW calls, Moves(t, op, i, calls),
         NEW u \in Doers, NEW k \in 1 .. Len(agenda[u]), u = t => k # 1, agenda[u][k][1] \in UnderWay,
         NEW p, p = Owner(agenda[u][k])
  PROVE  /\ p \in Below(root) /\ p \in Instructions /\ p \in Inside(agenda[u])
         /\ selected'[p] = selected[p]
         /\ Kind[p] \in Threaded => \A c \in ChildSet(p) :
              wrapper[c] # "absent" /\ wrapper'[c] # "absent" /\ (wrapper'[c] = "NOT_STARTED" => wrapper[c] = "NOT_STARTED")
<1>1. ExclusiveInv /\ Laid /\ Tables /\ AllPrepared /\ Selections
  BY DEF StartInv, ExclusiveInv
<1>2. Due(t, op, i)
  BY DEF Moves
<1>3. i \in Instructions /\ (op \notin Signals => Owner(<<op, i>>) \in Below(root))
  BY <1>1, <1>2, AtFront
<1>4. ~Quiet(agenda[u][k]) /\ p \in Inside(agenda[u])
  BY DEF UnderWay, Quiet, Signals, Inside
<1>5. p \in Below(root) /\ p \in Instructions
  BY <1>1, <1>4, AtCall DEF Proper, Held
<1>6. op \notin Signals \union {"tick"} => Owner(<<op, i>>) # p
  BY <1>1, <1>2, UnderWayAlone
<1>7. selected'[p] = selected[p]
  <2> SUFFICES ASSUME selected'[p] # selected[p]  PROVE FALSE
    OBVIOUS
  <2>1. i = p /\ op \in {"reset", "choose"}
    BY <1>1, <1>3, <1>5, Reselected
  <2> QED  BY <1>6, <2>1 DEF Signals, Owner
<1>8. ASSUME Kind[p] \in Threaded, NEW c \in ChildSet(p)
      PROVE  wrapper[c] # "absent" /\ wrapper'[c] # "absent" /\ (wrapper'[c] = "NOT_STARTED" => wrapper[c] = "NOT_STARTED")
  <2>1. wrapper[c] # "absent"
    BY <1>1, <1>8 DEF AllPrepared, Prepared, EquippedFor
  <2>2. c \in Instructions
    BY <1>5, ChildrenAreInstructions
  <2>3. ASSUME wrapper'[c] # wrapper[c]  PROVE wrapper'[c] \notin {"absent", "NOT_STARTED"}
    <3>1. CASE op \in {"exec", "join"} /\ c \in ChildSet(i)
      <4>1. i \in Below(root) /\ Owner(<<op, i>>) = i
        BY <1>3, <3>1 DEF Signals, Owner
      <4>2. i = p
        BY <1>1, <1>5, <1>8, <3>1, <4>1, SameParent
      <4> QED  BY <1>6, <3>1, <4>1, <4>2 DEF Signals
    <3>2. CASE op = "tick" /\ i = c
      BY <3>2, TickStarts
    <3> QED  BY <1>1, <1>3, <2>2, <2>3, <3>1, <3>2, Rewrapped DEF Wrapped
  <2> QED  BY <2>1, <2>3
<1> QED  BY <1>4, <1>5, <1>7, <1>8

LEMMA KeptFor ==
  ASSUME StartInv, NEW t \in Doers, NEW op, NEW i, NEW calls, Moves(t, op, i, calls),
         NEW u \in Doers, NEW k \in 1 .. Len(agenda[u]), u = t => k # 1, NEW call, call = agenda[u][k]
  PROVE  ChosenFor(call)' /\ EquippedFor(call)'
<1>1. ChosenFor(call) /\ EquippedFor(call)
  BY DEF StartInv, AllPrepared, Prepared
<1>2. PICK p : p = Owner(call)
  OBVIOUS
<1>3. call[1] \in UnderWay =>
        /\ selected'[p] = selected[p]
        /\ Kind[p] \in Threaded => \A c \in ChildSet(p) : wrapper'[c] # "absent"
  BY <1>2, KeptUnderWay
<1>4. call[1] = "return" => p = call[2] /\ call[1] \in UnderWay
  BY <1>2 DEF Owner, UnderWay
<1>5. ChosenFor(call)'
  BY <1>1, <1>3, <1>4 DEF ChosenFor
<1>6. EquippedFor(call)'
  BY <1>2, <1>3 DEF EquippedFor
<1> QED  BY <1>5, <1>6

\* A wrapper does not come back to a child that a thread is going to reset.
LEMMA KeptUnwrapped ==
  ASSUME StartInv, NEW t \in Doers, NEW op, NEW i, NEW calls, Moves(t, op, i, calls),
         NEW u \in Doers, NEW k \in 1 .. Len(agenda[u]), u = t => k # 1, agenda[u][k][1] \in {"reset", "clear"},
         NEW p \in Below(Base(u)), Kind[p] \in Threaded, NEW c \in ChildSet(p), agenda[u][k][2] = c,
         wrapper[c] = "absent"
  PROVE  wrapper'[c] = "absent"
<1> SUFFICES ASSUME wrapper'[c] # wrapper[c]  PROVE FALSE
  OBVIOUS
<1>1. ExclusiveInv /\ Laid /\ Tables
  BY DEF StartInv
<1>2. Due(t, op, i)
  BY DEF Moves
<1>3. i \in Instructions /\ (op \notin Signals => Owner(<<op, i>>) \in Below(root))
  BY <1>1, <1>2, AtFront
<1>4. p \in Below(root) /\ p \in Instructions
  BY <1>1, AtCall
<1>5. ~Quiet(agenda[u][k]) /\ Owner(agenda[u][k]) = c /\ c # u
  <2>1. agenda[u][k][1] \in Undoing \union {"tick"}
    BY DEF Undoing
  <2> QED  BY <1>1, <2>1, NotOwnBase
<1>6. c \in Instructions
  BY <1>4, ChildrenAreInstructions
<1>7. p \in Inside(agenda[u])
  BY <1>1, <1>4, <1>5, InParent
<1>8. ASSUME op = "exec", c \in Wrapped(i)  PROVE FALSE
  <2>1. i \in Below(root) /\ c \in ChildSet(i) /\ Owner(<<op, i>>) = i
    BY <1>3, <1>8 DEF Signals, Owner, Wrapped
  <2>2. i = p
    BY <1>1, <1>4, <2>1, SameParent
  <2>3. p \in Inside(agenda[t])
    BY <1>1, <1>2, <1>8, <2>1, <2>2, AtFront DEF Signals
  <2>4. u = t
    BY <1>1, <1>7, <2>3, InsidesApart
  <2>5. /\ Ascending(agenda[t]) /\ 1 \in 1 .. Len(agenda[t]) /\ agenda[t][1] = <<"exec", p>>
        /\ k \in 1 + 1 .. Len(agenda[t])
    <3>1. 1 \in 1 .. Len(agenda[t]) /\ agenda[t][1] = <<op, i>>
      BY <1>1, <1>2, AtFront
    <3>2. Ascending(agenda[t]) /\ Len(agenda[t]) \in Nat
      BY <1>1, <3>1, AtCall DEF Proper
    <3>3. k \in 1 .. Len(agenda[t]) /\ k # 1
      BY <2>4
    <3> QED  BY <1>8, <2>2, <3>1, <3>2, <3>3
  <2>6. Owner(agenda[t][1]) = p /\ agenda[t][1][1] \notin Signals \union {"join"}
    BY <2>5 DEF Owner, Signals
  <2>7. c \notin StrictlyBelow(p)
    BY <1>5, <2>4, <2>5, <2>6 DEF Ascending
  <2> QED  BY <1>4, <2>7, ChildBelow
<1>9. ASSUME op = "tick", i = c  PROVE FALSE
  BY <1>2, <1>9, TickEquipped
<1> QED  BY <1>1, <1>3, <1>6, <1>8, <1>9, Rewrapped

\* The status of the child that another thread is going to show is kept.
LEMMA KeptShown ==
  ASSUME StartInv, NEW t \in Doers, NEW op, NEW i, NEW calls, Moves(t, op, i, calls),
         NEW u \in Doers \ {t}, NEW k \in 1 .. Len(agenda[u]), agenda[u][k][1] = "return",
         NEW c \in ChildSet(agenda[u][k][2]), status[c] # "NOT_STARTED"
  PROVE  status'[c] # "NOT_STARTED"
<1> SUFFICES ASSUME status'[c] = "NOT_STARTED"  PROVE FALSE
  OBVIOUS
<1>1. ExclusiveInv /\ Laid /\ Tables
  BY DEF StartInv
<1>2. Due(t, op, i)
  BY DEF Moves
<1>3. PICK p : p = agenda[u][k][2] /\ p = Owner(agenda[u][k])
  BY DEF Owner
<1>4. p \in Below(root) /\ p \in Instructions /\ p \in Inside(agenda[u])
  BY <1>3, KeptUnderWay DEF UnderWay
<1>5. c \in Instructions /\ i \in Instructions
  BY <1>1, <1>2, <1>3, <1>4, ChildrenAreInstructions, AtFront
<1>6. op = "clear" /\ i = c
  <2>1. status'[c] # status[c]
    OBVIOUS
  <2> QED  BY <1>1, <1>5, <2>1, Remarked DEF Started
<1> QED  BY <1>1, <1>2, <1>3, <1>4, <1>6, ChildrenAlone DEF Undoing

LEMMA OtherPrepared ==
  ASSUME StartInv, NEW t \in Doers, NEW op, NEW i, NEW calls, Moves(t, op, i, calls),
         NEW u \in Doers \ {t}, NEW e, e = agenda[u], NEW b, b = Base(u)
  PROVE  Prepared(b, e)'
<1>1. Prepared(b, e)
  BY DEF StartInv, AllPrepared
<1> SUFFICES ASSUME NEW k \in 1 .. Len(e)
             PROVE  /\ ShownAt(e, k)' /\ TickedAt(e, k)' /\ JoinedAt(b, e, k)'
                    /\ ChosenFor(e[k])' /\ EquippedFor(e[k])'
  BY DEF Prepared
<1>2. ShownAt(e, k) /\ TickedAt(e, k) /\ JoinedAt(b, e, k)
  BY <1>1 DEF Prepared
<1>3. ChosenFor(e[k])' /\ EquippedFor(e[k])'
  BY KeptFor
<1>4. ASSUME e[k][1] = "return"
      PROVE  /\ e[k][2] \in Instructions /\ selected'[e[k][2]] = selected[e[k][2]]
             /\ Kind[e[k][2]] \in Threaded => \A c \in ChildSet(e[k][2]) : wrapper'[c] = "NOT_STARTED" => wrapper[c] = "NOT_STARTED"
  <2>1. e[k][2] = Owner(e[k]) /\ e[k][1] \in UnderWay
    BY <1>4 DEF Owner, UnderWay
  <2> QED  BY <2>1, KeptUnderWay
<1>5. ShownAt(e, k)'
  <2> SUFFICES ASSUME e[k][1] = "return", Shows(e[k][2])
               PROVE  (\E c \in ChildSet(e[k][2]) : /\ ShownBy(e[k][2], c)
                                 /\ \/ k > 1 /\ e[k - 1] = <<"exec", c>>
                                    \/ /\ status[c] # "NOT_STARTED"
                                       /\ \A m \in 1 .. k - 1 : e[m] # <<"reset", c>> /\ e[m] # <<"clear", c>>)'
    BY DEF ShownAt, Shows
  <2> PICK c \in ChildSet(e[k][2]) : /\ ShownBy(e[k][2], c)
                                     /\ \/ k > 1 /\ e[k - 1] = <<"exec", c>>
                                        \/ /\ status[c] # "NOT_STARTED"
                                           /\ \A m \in 1 .. k - 1 : e[m] # <<"reset", c>> /\ e[m] # <<"clear", c>>
    BY <1>2 DEF ShownAt
  <2>1. ShownBy(e[k][2], c)'
    BY <1>4 DEF ShownBy, Child
  <2>2. status[c] # "NOT_STARTED" => status'[c] # "NOT_STARTED"
    BY KeptShown
  <2> QED  BY <2>1, <2>2
<1>6. TickedAt(e, k)'
  <2> SUFFICES ASSUME e[k][1] = "return", Kind[e[k][2]] = "Async"
               PROVE  \/ wrapper'[Child(e[k][2])] # "NOT_STARTED"
                      \/ k > 1 /\ e[k - 1] = <<"tick", Child(e[k][2])>>
    BY DEF TickedAt, Child
  <2>1. Child(e[k][2]) \in ChildSet(e[k][2])
    <3>1. OfParent(e[k])
      BY DEF StartInv, Laid, Layout, OfParents
    <3> QED  BY <1>4, <3>1, ChildIsChild DEF OfParent
  <2> QED  BY <1>2, <1>4, <2>1 DEF TickedAt, Threaded
<1>7. JoinedAt(b, e, k)'
  <2> SUFFICES ASSUME NEW p \in Below(b), Kind[p] \in Threaded, e[k][2] \in ChildSet(p)
               PROVE  /\ e[k][1] = "reset" => wrapper'[e[k][2]] = "absent" \/ \E m \in 1 .. k - 1 : e[m] = <<"join", p>>
                      /\ e[k][1] = "clear" => wrapper'[e[k][2]] = "absent"
    BY DEF JoinedAt, Below, Closed, ChildSet
  <2>1. e[k][1] \in {"reset", "clear"} /\ wrapper[e[k][2]] = "absent" => wrapper'[e[k][2]] = "absent"
    BY KeptUnwrapped
  <2> QED  BY <1>2, <2>1 DEF JoinedAt
<1> QED  BY <1>3, <1>5, <1>6, <1>7
-----------------------------------------------------------------------------
(* A thread that makes its next call stays prepared                          *)

\* Agenda e of thread t becomes f.
Advances(t, op, i, calls, e, f) == Moves(t, op, i, calls) /\ e = agenda[t] /\ f = agenda'[t]

LEMMA Advanced ==
  ASSUME StartInv, NEW t \in Doers, NEW op, NEW i, NEW calls, NEW e, NEW f, Advances(t, op, i, calls, e, f),
         NEW x, x = Owner(<<op, i>>), NEW b, b = Base(t)
  PROVE  /\ Due(t, op, i) /\ 1 \in 1 .. Len(e) /\ e[1] = <<op, i>> /\ i \in Instructions
         /\ e \in Seq(AnyCall) /\ calls \in Seq(AnyCall)
         /\ Turns(e, x, calls, f) /\ Spliced(e, calls, f)
         /\ Proceeds(op, x, calls) /\ Layout(t, e) /\ Proper(b, e, Rest) /\ Prepared(b, e)
         /\ op \notin Signals => x \in Below(b) /\ x \in Below(root)
         /\ b \in Below(root) /\ Below(b) \subseteq Below(root) /\ Below(root) \subseteq Instructions
<1>1. /\ Due(t, op, i) /\ Replaces(<<op, i>>, x, calls) /\ Proceeds(op, x, calls) /\ e = agenda[t]
      /\ f = calls \o Tail(e)
  BY DEF Advances, Moves, Takes
<1>2. ExclusiveInv /\ Layout(t, e) /\ Prepared(b, e)
  BY <1>1 DEF StartInv, Laid, AllPrepared
<1>3. 1 \in 1 .. Len(e) /\ e[1] = <<op, i>> /\ i \in Instructions /\ e # << >>
      /\ (op \notin Signals => x \in Below(b) /\ x \in Below(root))
  BY <1>1, <1>2, AtFront
<1>4. e \in Seq(AnyCall) /\ Proper(b, e, Rest)
      /\ b \in Below(root) /\ Below(b) \subseteq Below(root) /\ Below(root) \subseteq Instructions
  BY <1>1, <1>2, <1>3, AtCall
<1>5. Turns(e, x, calls, f)
  BY <1>1, <1>3, <1>4 DEF Turns
<1>6. Spliced(e, calls, f)
  BY <1>5, TurnsPlaces
<1>7. calls \in Seq(AnyCall)
  BY <1>1 DEF Replaces, Fits
<1> QED  BY <1>1, <1>2, <1>3, <1>4, <1>5, <1>6, <1>7

\* What is known of a call that is not a signal.
LEMMA NewCall ==
  ASSUME StartInv, NEW t \in Doers, NEW op, NEW i, NEW calls, NEW e, NEW f, Advances(t, op, i, calls, e, f),
         NEW x, x = Owner(<<op, i>>), NEW k \in 1 .. Len(calls), ~Quiet(calls[k])
  PROVE  /\ op \notin Signals \union {"tick", "join", "clear"} /\ x \in Below(root) /\ x \in Instructions
         /\ calls[k] \in AnyCall /\ FitsAt(x, FALSE, calls, k) /\ NeatAt(op, x, calls, k) /\ LooksAt(x, calls, k)
<1>1. PICK b : b = Base(t)
  OBVIOUS
<1>2. /\ Turns(e, x, calls, f) /\ e[1] = <<op, i>> /\ calls \in Seq(AnyCall) /\ Proceeds(op, x, calls)
      /\ (op \notin Signals => x \in Below(root)) /\ Below(root) \subseteq Instructions
  BY <1>1, Advanced
<1>3. Replaces(e[1], x, calls)
  BY <1>2 DEF Turns
<1>4. op \notin Signals \union {"tick", "join"} /\ FitsAt(x, FALSE, calls, k)
  <2>1. Fits(x, FALSE, calls) /\ e[1][1] \notin Signals \union {"tick", "join"}
    BY <1>3 DEF Replaces
  <2>2. e[1][1] = op
    BY <1>2
  <2> QED  BY <2>1, <2>2 DEF Fits
<1>5. NeatAt(op, x, calls, k) /\ LooksAt(x, calls, k)
  BY <1>2 DEF Proceeds, Neat, Looks
<1>6. op # "clear"
  BY <1>5 DEF NeatAt
<1>7. calls[k] \in AnyCall
  BY <1>2
<1>8. op \notin Signals /\ x \in Below(root) /\ x \in Instructions
  BY <1>2, <1>4
<1> QED  BY <1>4, <1>5, <1>6, <1>7, <1>8

LEMMA OldShown ==
  ASSUME StartInv, NEW t \in Doers, NEW op, NEW i, NEW calls, NEW e, NEW f, Advances(t, op, i, calls, e, f),
         NEW k \in 2 .. Len(e), NEW l, l = Len(calls) + k - 1
  PROVE  ShownAt(f, l)'
<1>x. PICK x : x = Owner(<<op, i>>)
  OBVIOUS
<1>b. PICK b : b = Base(t)
  OBVIOUS
<1>n. PICK n : n = Len(calls)
  OBVIOUS
<1>0. Moves(t, op, i, calls) /\ e = agenda[t] /\ ExclusiveInv /\ Tables
  BY DEF Advances, StartInv
<1>1. /\ e[1] = <<op, i>> /\ Spliced(e, calls, f) /\ Layout(t, e) /\ Prepared(b, e) /\ i \in Instructions
      /\ Due(t, op, i) /\ 1 \in 1 .. Len(e)
  BY <1>x, <1>b, Advanced
<1>2. /\ n \in Nat /\ Len(e) \in Nat
      /\ \A m \in 1 .. Len(f) :
           \/ m \in 1 .. n /\ f[m] = calls[m]
           \/ \E j \in 2 .. Len(e) : m = n + j - 1 /\ f[m] = e[j]
      /\ \A j \in 2 .. Len(e) : n + j - 1 \in 1 .. Len(f) /\ f[n + j - 1] = e[j]
  BY <1>1, <1>n DEF Spliced
<1>3. k \in 1 .. Len(e) /\ k # 1 /\ l \in 1 .. Len(f) /\ f[l] = e[k] /\ l = n + k - 1
  BY <1>2, <1>n
<1> SUFFICES ASSUME e[k][1] = "return", Shows(e[k][2])
             PROVE  (\E c \in ChildSet(e[k][2]) : /\ ShownBy(e[k][2], c)
                               /\ \/ l > 1 /\ f[l - 1] = <<"exec", c>>
                                  \/ /\ status[c] # "NOT_STARTED"
                                     /\ \A m \in 1 .. l - 1 : f[m] # <<"reset", c>> /\ f[m] # <<"clear", c>>)'
  BY <1>3 DEF ShownAt, Shows
<1>p. PICK p : p = e[k][2]
  OBVIOUS
<1>4. p = Owner(e[k]) /\ e[k][1] \in UnderWay /\ ~Quiet(e[k])
  BY <1>p DEF Owner, UnderWay, Quiet, Signals
<1>5. p \in Below(root) /\ p \in Instructions /\ selected'[p] = selected[p]
  BY <1>0, <1>3, <1>4, KeptUnderWay
<1>6. ShownAt(e, k)
  BY <1>1, <1>3 DEF Prepared
<1>7. PICK c \in ChildSet(p) : /\ ShownBy(p, c)
                               /\ \/ k > 1 /\ e[k - 1] = <<"exec", c>>
                                  \/ /\ status[c] # "NOT_STARTED"
                                     /\ \A m \in 1 .. k - 1 : e[m] # <<"reset", c>> /\ e[m] # <<"clear", c>>
  BY <1>6, <1>p DEF ShownAt
<1>8. ShownBy(p, c)'
  BY <1>5, <1>7 DEF ShownBy, Child
<1>9. c \in Instructions /\ c # p
  BY <1>5, ChildrenAreInstructions, ChildBelow DEF StrictlyBelow
<1>10. CASE e[k - 1] = <<"exec", c>> /\ k # 2
  <2>1. k - 1 \in 2 .. Len(e) /\ l - 1 = n + (k - 1) - 1 /\ l > 1
    <3>1. n \in Nat /\ Len(e) \in Nat /\ l = n + k - 1
      BY <1>2, <1>3
    <3>2. k # 2
      BY <1>10
    <3> QED  BY <3>1, <3>2, SMTT(40)
  <2>2. f[l - 1] = e[k - 1]
    BY <1>2, <2>1
  <2> QED  BY <1>p, <1>8, <1>10, <2>1, <2>2
<1>11. CASE e[k - 1] = <<"exec", c>> /\ k = 2
  <2>1. op = "exec" /\ i = c
    BY <1>1, <1>11
  <2>2. calls = Call("body", c)
    BY <1>0, <2>1 DEF Moves, MakesAlways
  <2>3. n = 1 /\ calls[1] = <<"body", c>> /\ l = 2
    BY <1>n, <1>3, <1>11, <2>2 DEF Call
  <2>4. \A m \in 1 .. l - 1 : f[m] = <<"body", c>>
    <3> SUFFICES ASSUME NEW m \in 1 .. l - 1  PROVE f[m] = <<"body", c>>
      OBVIOUS
    <3>1. m = 1 /\ m \in 1 .. Len(f)
      BY <1>3, <2>3
    <3>2. \A j \in 2 .. Len(e) : m # n + j - 1
      BY <1>2, <2>3, <3>1
    <3> QED  BY <1>2, <2>3, <3>1, <3>2
  <2>5. status'[c] # "NOT_STARTED"
    BY <1>0, <1>1, <2>1, ExecStarts
  <2> QED  BY <1>p, <1>8, <2>4, <2>5
<1>12. ASSUME status[c] # "NOT_STARTED", \A m \in 1 .. k - 1 : e[m] # <<"reset", c>> /\ e[m] # <<"clear", c>>
       PROVE  status'[c] # "NOT_STARTED" /\ \A m \in 1 .. l - 1 : f[m] # <<"reset", c>> /\ f[m] # <<"clear", c>>
  <2>1. e[1] # <<"reset", c>> /\ e[1] # <<"clear", c>>
    <3>1. 1 \in 1 .. k - 1
      BY <1>3
    <3> QED  BY <1>12, <3>1
  <2>2. status'[c] # "NOT_STARTED"
    <3> SUFFICES ASSUME status'[c] # status[c]  PROVE status'[c] # "NOT_STARTED"
      BY <1>12
    <3>1. ~(op = "clear" /\ i = c)
      BY <1>1, <2>1
    <3>2. status'[c] \in Started
      BY <1>0, <1>1, <1>9, <3>1, Remarked
    <3> QED  BY <3>2 DEF Started
  <2>3. ASSUME NEW m \in 1 .. n, calls[m] \in {<<"reset", c>>, <<"clear", c>>}  PROVE FALSE
    <3>1. ~Quiet(calls[m]) /\ Owner(calls[m]) = c
      BY <2>3 DEF Quiet, Signals, Owner
    <3>2. op \notin Signals \union {"tick", "join", "clear"} /\ x \in Below(root) /\ NeatAt(op, x, calls, m)
      BY <1>x, <1>n, <3>1, NewCall
    <3>3. CASE calls[m] = <<"clear", c>>
      <4>1. op = "reset" /\ x = c
        BY <3>1, <3>2, <3>3 DEF NeatAt
      <4> QED  BY <1>x, <1>1, <2>1, <4>1 DEF Owner
    <3>4. CASE calls[m] = <<"reset", c>>
      <4>1. x = p
        BY <1>0, <1>5, <3>1, <3>2, <3>4, SameParent DEF NeatAt
      <4>2. ~Quiet(e[1]) /\ Owner(e[1]) = p
        BY <1>x, <1>1, <3>2, <4>1 DEF Quiet
      <4>3. MayFollow(e[1][1], e[k][1])
        <5>1. k \in 1 + 1 .. Len(e) /\ Alone(e)
          BY <1>1, <1>3 DEF Layout
        <5> QED  BY <1>1, <1>4, <4>2, <5>1 DEF Alone
      <4> QED  BY <4>3 DEF MayFollow
    <3> QED  BY <2>3, <3>3, <3>4
  <2>4. ASSUME NEW m \in 1 .. l - 1  PROVE f[m] # <<"reset", c>> /\ f[m] # <<"clear", c>>
    <3>1. m \in 1 .. Len(f)
      BY <1>2, <1>3
    <3>2. ASSUME NEW j \in 2 .. Len(e), m = n + j - 1, f[m] = e[j]
          PROVE  f[m] # <<"reset", c>> /\ f[m] # <<"clear", c>>
      <4>1. j \in 1 .. k - 1
        BY <1>2, <1>3, <3>2
      <4> QED  BY <1>12, <3>2, <4>1
    <3> QED  BY <1>2, <2>3, <3>1, <3>2
  <2> QED  BY <2>2, <2>4
<1>13. CASE e[k - 1] # <<"exec", c>>
  BY <1>p, <1>7, <1>8, <1>12, <1>13
<1> QED  BY <1>10, <1>11, <1>13

LEMMA OldTickedJoined ==
  ASSUME StartInv, NEW t \in Doers, NEW op, NEW i, NEW calls, NEW e, NEW f, Advances(t, op, i, calls, e, f),
         NEW k \in 2 .. Len(e), NEW l, l = Len(calls) + k - 1, NEW b, b = Base(t)
  PROVE  TickedAt(f, l)' /\ JoinedAt(b, f, l)'
<1>x. PICK x : x = Owner(<<op, i>>)
  OBVIOUS
<1>n. PICK n : n = Len(calls)
  OBVIOUS
<1>0. Moves(t, op, i, calls) /\ e = agenda[t] /\ ExclusiveInv /\ Tables
  BY DEF Advances, StartInv
<1>1. /\ e[1] = <<op, i>> /\ Spliced(e, calls, f) /\ Layout(t, e) /\ Prepared(b, e) /\ i \in Instructions
      /\ Due(t, op, i) /\ 1 \in 1 .. Len(e) /\ Below(b) \subseteq Below(root) /\ Below(root) \subseteq Instructions
  BY <1>x, Advanced
<1>2. /\ n \in Nat /\ Len(e) \in Nat
      /\ \A j \in 2 .. Len(e) : n + j - 1 \in 1 .. Len(f) /\ f[n + j - 1] = e[j]
  BY <1>1, <1>n DEF Spliced
<1>3. k \in 1 .. Len(e) /\ k # 1 /\ k > 1 /\ l \in 1 .. Len(f) /\ f[l] = e[k] /\ l = n + k - 1
  BY <1>2, <1>n
<1>4. TickedAt(e, k) /\ JoinedAt(b, e, k) /\ OfParent(e[k])
  BY <1>1, <1>3 DEF Prepared, Layout, OfParents
<1>5. TickedAt(f, l)'
  <2> SUFFICES ASSUME e[k][1] = "return", Kind[e[k][2]] = "Async"
               PROVE  \/ wrapper'[Child(e[k][2])] # "NOT_STARTED"
                      \/ l > 1 /\ f[l - 1] = <<"tick", Child(e[k][2])>>
    BY <1>3 DEF TickedAt, Child
  <2>p. PICK p : p = e[k][2]
    OBVIOUS
  <2>c. PICK c : c = Child(p)
    OBVIOUS
  <2>1. p = Owner(e[k]) /\ e[k][1] \in UnderWay
    BY <2>p DEF Owner, UnderWay
  <2>2. /\ p \in Instructions
        /\ Kind[p] \in Threaded => \A d \in ChildSet(p) : wrapper'[d] = "NOT_STARTED" => wrapper[d] = "NOT_STARTED"
    BY <1>0, <1>3, <2>1, KeptUnderWay
  <2>3. c \in ChildSet(p)
    BY <1>4, <2>p, <2>c, <2>2, ChildIsChild DEF OfParent
  <2>4. CASE wrapper[c] # "NOT_STARTED"
    BY <2>p, <2>c, <2>2, <2>3, <2>4 DEF Threaded
  <2>5. CASE e[k - 1] = <<"tick", c>> /\ k # 2
    <3>1. k - 1 \in 2 .. Len(e) /\ l - 1 = n + (k - 1) - 1 /\ l > 1
      <4>1. n \in Nat /\ Len(e) \in Nat /\ l = n + k - 1
        BY <1>2, <1>3
      <4>2. k # 2
        BY <2>5
      <4> QED  BY <4>1, <4>2, SMTT(40)
    <3>2. f[l - 1] = e[k - 1]
      BY <1>2, <3>1
    <3> QED  BY <2>p, <2>c, <2>5, <3>1, <3>2
  <2>6. CASE e[k - 1] = <<"tick", c>> /\ k = 2
    <3>1. op = "tick" /\ i = c
      BY <1>1, <2>6
    <3>2. wrapper'[c] # "NOT_STARTED"
      BY <1>0, <3>1, TickStarts
    <3> QED  BY <2>p, <2>c, <3>2
  <2> QED  BY <1>4, <2>p, <2>c, <2>4, <2>5, <2>6 DEF TickedAt
<1>6. JoinedAt(b, f, l)'
  <2> SUFFICES ASSUME NEW p \in Below(b), Kind[p] \in Threaded, e[k][2] \in ChildSet(p)
               PROVE  /\ e[k][1] = "reset" => wrapper'[e[k][2]] = "absent" \/ \E m \in 1 .. l - 1 : f[m] = <<"join", p>>
                      /\ e[k][1] = "clear" => wrapper'[e[k][2]] = "absent"
    BY <1>3 DEF JoinedAt, Below, Closed, ChildSet
  <2>c. PICK c : c = e[k][2]
    OBVIOUS
  <2>1. e[k][1] \in {"reset", "clear"} /\ wrapper[c] = "absent" => wrapper'[c] = "absent"
    BY <1>0, <1>3, <2>c, KeptUnwrapped
  <2>2. ASSUME e[k][1] = "reset", NEW m \in 1 .. k - 1, e[m] = <<"join", p>>
        PROVE  wrapper'[c] = "absent" \/ \E j \in 1 .. l - 1 : f[j] = <<"join", p>>
    <3>1. CASE m = 1
      <4>1. op = "join" /\ i = p
        BY <1>1, <2>2, <3>1
      <4>2. Wraps("join", p)
        BY <1>0, <4>1 DEF Moves, Effects
      <4>3. c \in Instructions /\ c \in ChildSet(p)
        BY <1>1, <2>c, ChildrenAreInstructions
      <4> QED  BY <4>2, <4>3 DEF Wraps
    <3>2. CASE m # 1
      <4>1. m \in 2 .. Len(e) /\ n + m - 1 \in 1 .. l - 1
        BY <1>2, <1>3, <2>2, <3>2
      <4> QED  BY <1>2, <2>2, <4>1
    <3> QED  BY <3>1, <3>2
  <2> QED  BY <1>4, <2>c, <2>1, <2>2 DEF JoinedAt
<1> QED  BY <1>5, <1>6

\* What is called in place of an instruction that is under way, or begins, finds the
\* wrappers there.
LEMMA NewEquipped ==
  ASSUME StartInv, NEW t \in Doers, NEW op, NEW i, NEW calls, NEW e, NEW f, Advances(t, op, i, calls, e, f),
         NEW k \in 1 .. Len(calls)
  PROVE  EquippedFor(calls[k])'
<1>x. PICK x : x = Owner(<<op, i>>)
  OBVIOUS
<1>b. PICK b : b = Base(t)
  OBVIOUS
<1> SUFFICES ASSUME calls[k][1] \in UnderWay, Kind[Owner(calls[k])] \in Threaded,
                    NEW c \in ChildSet(Owner(calls[k]))
             PROVE  wrapper'[c] # "absent"
  BY DEF EquippedFor, Owner, ChildSet, Parent
<1>0. Moves(t, op, i, calls) /\ e = agenda[t] /\ ExclusiveInv /\ Tables /\ Laid
  BY DEF Advances, StartInv
<1>1. /\ e[1] = <<op, i>> /\ e \in Seq(AnyCall) /\ Layout(t, e) /\ Prepared(b, e) /\ i \in Instructions
      /\ Due(t, op, i) /\ 1 \in 1 .. Len(e)
  BY <1>x, <1>b, Advanced
<1>2. ~Quiet(calls[k])
  BY DEF UnderWay, Quiet, Signals
<1>3. /\ op \notin Signals \union {"tick", "join", "clear"} /\ x \in Below(root) /\ x \in Instructions
      /\ NeatAt(op, x, calls, k)
  BY <1>x, <1>2, NewCall
<1>4. Owner(calls[k]) = x /\ op # "reset"
  BY <1>2, <1>3 DEF NeatAt, Backward, UnderWay
<1>5. c \in ChildSet(x) /\ c \in Instructions /\ Kind[x] \in Threaded
  BY <1>3, <1>4, ChildrenAreInstructions
<1>6. op \in UnderWay \union {"exec"}
  <2>1. <<op, i>> \in AnyCall
    BY <1>1
  <2> QED  BY <1>3, <1>4, <2>1 DEF AnyCall, Operations, Signals, UnderWay
<1>7. ASSUME wrapper'[c] = wrapper[c]  PROVE wrapper[c] # "absent"
  <2>1. CASE op \in UnderWay
    <3>1. EquippedFor(e[1]) /\ e[1][1] = op /\ Owner(e[1]) = x
      BY <1>1, <1>x DEF Prepared
    <3> QED  BY <1>5, <2>1, <3>1 DEF EquippedFor
  <2>2. CASE op = "exec"
    <3> SUFFICES ASSUME wrapper[c] = "absent"  PROVE FALSE
      OBVIOUS
    <3>1. i = x
      BY <1>x, <2>2 DEF Owner
    <3>2. status[x] # "NOT_STARTED"
      <4>1. Wraps(op, i)
        BY <1>0 DEF Moves, Effects
      <4>2. status[i] = "NOT_STARTED" => wrapper'[c] = "NOT_STARTED"
        BY <1>5, <2>2, <3>1, <4>1 DEF Wraps, Wrapped
      <4> QED  BY <1>7, <3>1, <4>2
    <3>3. PICK u \in Doers : \E m \in 1 .. Len(agenda[u]) : agenda[u][m] = <<"clear", x>>
      BY <1>3, <1>5, <3>2 DEF StartInv, Unwrapped
    <3> PICK m \in 1 .. Len(agenda[u]) : agenda[u][m] = <<"clear", x>>
      BY <3>3
    <3>4. x \in Inside(agenda[u]) /\ Owner(agenda[u][m]) = x /\ ~Quiet(agenda[u][m]) /\ agenda[u][m][1] = "clear"
      <4>1. Owner(agenda[u][m]) = x /\ agenda[u][m][1] = "clear"
        BY DEF Owner
      <4> QED  BY <4>1 DEF Inside, Quiet, Signals
    <3>5. x \in Inside(agenda[t])
      BY <1>0, <1>1, <1>3, <1>x, AtFront
    <3>6. u = t
      BY <1>0, <3>4, <3>5, InsidesApart
    <3>7. m \in 1 + 1 .. Len(e) /\ Alone(e)
      <4>1. m # 1
        BY <1>0, <1>1, <2>2, <3>4, <3>6
      <4>2. m \in 1 .. Len(e) /\ Len(e) \in Nat
        BY <1>0, <1>1, <3>6
      <4> QED  BY <1>1, <4>1, <4>2 DEF Layout
    <3>8. ~Quiet(e[1]) /\ Owner(e[1]) = x
      BY <1>1, <1>3, <1>x DEF Quiet
    <3>9. MayFollow(e[1][1], e[m][1])
      BY <1>0, <1>1, <3>4, <3>6, <3>7, <3>8 DEF Alone
    <3> QED  BY <1>0, <1>1, <2>2, <3>4, <3>6, <3>9 DEF MayFollow, Undoing
  <2> QED  BY <1>6, <2>1, <2>2
<1>8. ASSUME wrapper'[c] # wrapper[c]  PROVE wrapper'[c] # "absent"
  <2>1. Moves(t, op, i, calls) /\ Tables /\ i \in Instructions /\ c \in Instructions
    BY <1>0, <1>1, <1>5
  <2>2. \/ op = "exec" /\ wrapper'[c] = "NOT_STARTED"
        \/ op \in {"join", "tick"}
    BY <1>8, <2>1, Rewrapped
  <2> QED  BY <1>3, <2>2
<1> QED  BY <1>7, <1>8

LEMMA NewPrepared ==
  ASSUME StartInv, NEW t \in Doers, NEW op, NEW i, NEW calls, NEW e, NEW f, Advances(t, op, i, calls, e, f),
         NEW k \in 1 .. Len(calls), NEW b, b = Base(t)
  PROVE  ShownAt(f, k)' /\ TickedAt(f, k)' /\ JoinedAt(b, f, k)' /\ ChosenFor(calls[k])'
<1>x. PICK x : x = Owner(<<op, i>>)
  OBVIOUS
<1>0. Moves(t, op, i, calls) /\ e = agenda[t] /\ ExclusiveInv /\ Tables /\ Selections
  BY DEF Advances, StartInv, ExclusiveInv
<1>1. /\ e[1] = <<op, i>> /\ Spliced(e, calls, f) /\ Prepared(b, e) /\ i \in Instructions /\ calls \in Seq(AnyCall)
      /\ 1 \in 1 .. Len(e) /\ Below(b) \subseteq Below(root) /\ Below(root) \subseteq Instructions
      /\ e \in Seq(AnyCall)
  BY <1>x, Advanced
<1>2. Len(calls) \in Nat /\ \A m \in 1 .. Len(calls) : m \in 1 .. Len(f) /\ f[m] = calls[m]
  BY <1>1 DEF Spliced
<1>3. f[k] = calls[k]
  BY <1>2
<1>4. ASSUME calls[k][1] = "return"
      PROVE  /\ calls[k] = <<"return", x>> /\ x \in Instructions
             /\ LooksAt(x, calls, k) /\ selected'[x] = selected[x]
  <2>1. ~Quiet(calls[k])
    BY <1>4 DEF Quiet, Signals
  <2>2. /\ x \in Instructions /\ calls[k] \in AnyCall /\ NeatAt(op, x, calls, k) /\ LooksAt(x, calls, k)
    BY <1>x, <2>1, NewCall
  <2>3. Owner(calls[k]) = x /\ op \notin Backward
    BY <1>4, <2>1, <2>2 DEF NeatAt, UnderWay, Backward
  <2>4. calls[k] = <<"return", x>>
    BY <1>4, <2>2, <2>3 DEF Owner, AnyCall
  <2>5. calls # << >>
    BY <1>2
  <2>6. selected'[x] = selected[x]
    BY <1>0, <1>1, <2>2, <2>3, <2>5, Reselected DEF Backward
  <2> QED  BY <2>2, <2>4, <2>6
<1>5. k > 1 => f[k - 1] = calls[k - 1]
  BY <1>2
<1>6. ShownAt(f, k)'
  <2> SUFFICES ASSUME calls[k][1] = "return", Shows(calls[k][2])
               PROVE  \E c \in ChildSet(calls[k][2]) : ShownBy(calls[k][2], c)' /\ k > 1 /\ f[k - 1] = <<"exec", c>>
    BY <1>3 DEF ShownAt, Shows, ChildSet
  <2>1. calls[k] = <<"return", x>> /\ calls[k][2] = x /\ LooksAt(x, calls, k) /\ selected'[x] = selected[x]
    BY <1>4
  <2>2. PICK c \in ChildSet(x) : ShownBy(x, c) /\ k > 1 /\ calls[k - 1] = <<"exec", c>>
    BY <2>1 DEF LooksAt
  <2>3. ShownBy(x, c)'
    BY <2>1, <2>2 DEF ShownBy, Child
  <2> QED  BY <1>5, <2>1, <2>2, <2>3
<1>7. TickedAt(f, k)'
  <2> SUFFICES ASSUME calls[k][1] = "return", Kind[calls[k][2]] = "Async"
               PROVE  k > 1 /\ f[k - 1] = <<"tick", Child(calls[k][2])>>
    BY <1>3 DEF TickedAt, Child
  <2>1. calls[k] = <<"return", x>> /\ calls[k][2] = x /\ LooksAt(x, calls, k)
    BY <1>4
  <2> QED  BY <1>5, <2>1 DEF LooksAt
<1>8. ChosenFor(calls[k])'
  <2> SUFFICES ASSUME calls[k][1] = "return", Kind[calls[k][2]] = "Choice"
               PROVE  selected'[calls[k][2]] # << >>
    BY DEF ChosenFor
  <2>1. calls[k] = <<"return", x>> /\ calls[k][2] = x /\ LooksAt(x, calls, k) /\ selected'[x] = selected[x]
    BY <1>4
  <2> QED  BY <2>1 DEF LooksAt
<1>9. JoinedAt(b, f, k)'
  <2> SUFFICES ASSUME NEW p \in Below(b), Kind[p] \in Threaded, calls[k][2] \in ChildSet(p)
               PROVE  /\ calls[k][1] = "reset" => wrapper'[calls[k][2]] = "absent" \/ \E m \in 1 .. k - 1 : f[m] = <<"join", p>>
                      /\ calls[k][1] = "clear" => wrapper'[calls[k][2]] = "absent"
    BY <1>3 DEF JoinedAt, Below, Closed, ChildSet
  <2>c. PICK c : c = calls[k][2]
    OBVIOUS
  <2>1. ASSUME calls[k][1] \in {"reset", "clear"}
        PROVE  /\ ~Quiet(calls[k]) /\ Owner(calls[k]) = c /\ c \in Instructions /\ p \in Below(root) /\ p \in Instructions
               /\ x \in Below(root) /\ x \in Instructions /\ FitsAt(x, FALSE, calls, k) /\ NeatAt(op, x, calls, k)
               /\ calls[k] \in AnyCall
    <3>1. ~Quiet(calls[k]) /\ Owner(calls[k]) = c
      BY <2>1, <2>c DEF Quiet, Signals, Owner
    <3>2. p \in Below(root) /\ p \in Instructions /\ c \in Instructions
      BY <1>1, <2>c, ChildrenAreInstructions
    <3>3. /\ x \in Below(root) /\ x \in Instructions /\ FitsAt(x, FALSE, calls, k) /\ NeatAt(op, x, calls, k)
          /\ calls[k] \in AnyCall
      BY <1>x, <3>1, NewCall
    <3> QED  BY <3>1, <3>2, <3>3
  <2>2. ASSUME calls[k][1] = "reset"  PROVE \E m \in 1 .. k - 1 : f[m] = <<"join", p>>
    <3>1. c \in ChildSet(x) /\ calls[k][1] \notin Signals
      BY <2>c, <2>1, <2>2 DEF NeatAt, Signals
    <3>2. x = p
      BY <1>0, <2>c, <2>1, <2>2, <3>1, SameParent
    <3>3. c # x
      BY <2>1, <2>2, <3>1, ChildBelow DEF StrictlyBelow
    <3>4. PICK m \in 1 .. k - 1 : calls[m] = <<"join", x>>
      BY <2>1, <2>2, <3>1, <3>2, <3>3 DEF FitsAt
    <3>5. m \in 1 .. Len(calls)
      BY <1>2
    <3> QED  BY <1>2, <3>2, <3>4, <3>5
  <2>3. ASSUME calls[k][1] = "clear"  PROVE wrapper'[c] = "absent"
    <3>1. op = "reset" /\ c = x /\ i = x
      <4>1. op = "reset" /\ c = x
        BY <2>c, <2>1, <2>3 DEF NeatAt
      <4> QED  BY <1>x, <4>1 DEF Owner
    <3>2. JoinedAt(b, e, 1)
      BY <1>1 DEF Prepared
    <3>3. e[1][1] = "reset" /\ e[1][2] = c /\ 1 .. 1 - 1 = {}
      BY <1>1, <3>1
    <3>4. wrapper[c] = "absent"
      BY <2>c, <3>2, <3>3 DEF JoinedAt
    <3>5. wrapper'[c] = wrapper[c]
      <4>1. Moves(t, op, i, calls) /\ Tables /\ i \in Instructions /\ c \in Instructions
        BY <1>0, <1>1, <2>1, <2>3
      <4>2. wrapper'[c] # wrapper[c] => op \in {"exec", "join", "tick"}
        BY <4>1, Rewrapped
      <4> QED  BY <3>1, <4>2
    <3> QED  BY <3>4, <3>5
  <2> QED  BY <2>c, <2>2, <2>3
<1> QED  BY <1>6, <1>7, <1>8, <1>9

LEMMA MoverPrepared ==
  ASSUME StartInv, NEW t \in Doers, NEW op, NEW i, NEW calls, NEW e, NEW f, Advances(t, op, i, calls, e, f),
         NEW b, b = Base(t)
  PROVE  Prepared(b, f)'
<1>x. PICK x : x = Owner(<<op, i>>)
  OBVIOUS
<1>1. Spliced(e, calls, f) /\ Moves(t, op, i, calls) /\ e = agenda[t]
  BY <1>x, Advanced DEF Advances
<1> SUFFICES ASSUME NEW k \in 1 .. Len(f)
             PROVE  /\ ShownAt(f, k)' /\ TickedAt(f, k)' /\ JoinedAt(b, f, k)'
                    /\ ChosenFor(f[k])' /\ EquippedFor(f[k])'
  BY DEF Prepared
<1>2. CASE k \in 1 .. Len(calls) /\ f[k] = calls[k]
  <2>1. ShownAt(f, k)' /\ TickedAt(f, k)' /\ JoinedAt(b, f, k)' /\ ChosenFor(calls[k])'
    BY <1>2, NewPrepared
  <2>2. EquippedFor(calls[k])'
    BY <1>2, NewEquipped
  <2>3. ChosenFor(f[k])' /\ EquippedFor(f[k])'
    <3>1. PICK call : call = f[k]
      OBVIOUS
    <3>2. ChosenFor(call)' /\ EquippedFor(call)'
      BY <1>2, <2>1, <2>2, <3>1
    <3> QED  BY <3>1, <3>2
  <2> QED  BY <2>1, <2>3
<1>3. ASSUME NEW j \in 2 .. Len(e), k = Len(calls) + j - 1, f[k] = e[j]
      PROVE  /\ ShownAt(f, k)' /\ TickedAt(f, k)' /\ JoinedAt(b, f, k)'
             /\ ChosenFor(f[k])' /\ EquippedFor(f[k])'
  <2>1. ShownAt(f, k)'
    BY <1>3, OldShown
  <2>2. TickedAt(f, k)' /\ JoinedAt(b, f, k)'
    BY <1>3, OldTickedJoined
  <2>3. j \in 1 .. Len(e) /\ j # 1
    BY <1>1 DEF Spliced
  <2>4. PICK call : call = f[k] /\ call = agenda[t][j]
    BY <1>1, <1>3
  <2>5. ChosenFor(call)' /\ EquippedFor(call)'
    BY <1>1, <2>3, <2>4, KeptFor
  <2> QED  BY <2>1, <2>2, <2>4, <2>5
<1> QED  BY <1>1, <1>2, <1>3 DEF Spliced
-----------------------------------------------------------------------------
(* What has started stays so, whoever moves                                  *)

LEMMA StillThere ==
  ASSUME StartInv, NEW t \in Threads, NEW op, NEW i, NEW calls, Moves(t, op, i, calls),
         NEW u \in Doers, NEW k \in 1 .. Len(agenda[u]), u = t => k # 1
  PROVE  \E m \in 1 .. Len(agenda'[u]) : agenda'[u][m] = agenda[u][k]
<1>1. ExclusiveInv /\ Takes(t, op, i, calls)
  BY DEF StartInv, Moves
<1>2. CASE u # t
  <2>1. agenda[u] \in Seq(AnyCall) /\ ~Idle(u)
    BY <1>1, AtCall
  <2>2. agenda'[u] = agenda[u]
    BY <1>1, <1>2, <2>1 DEF Takes, Idle
  <2> QED  BY <2>2
<1>3. CASE u = t
  <2>1. PICK e : e = agenda[t]
    OBVIOUS
  <2>2. PICK f : f = agenda'[t]
    OBVIOUS
  <2>3. PICK x : x = Owner(<<op, i>>)
    OBVIOUS
  <2>4. PICK b : b = Base(t)
    OBVIOUS
  <2>5. Advances(t, op, i, calls, e, f)
    BY <2>1, <2>2 DEF Advances
  <2>6. Spliced(e, calls, f)
    BY <1>3, <2>3, <2>4, <2>5, Advanced
  <2>7. k \in 2 .. Len(e)
    BY <1>3, <2>1, <2>6 DEF Spliced
  <2>8. Len(calls) + k - 1 \in 1 .. Len(f) /\ f[Len(calls) + k - 1] = e[k]
    BY <2>6, <2>7 DEF Spliced
  <2> QED  BY <1>3, <2>1, <2>2, <2>8
<1> QED  BY <1>2, <1>3

\* The client's thread only passes signals on.
LEMMA HalterQuiet ==
  ASSUME StartInv, NEW op, NEW i, NEW calls, Moves(Halter, op, i, calls)
  PROVE  /\ op \in Signals /\ i \in Instructions /\ UNCHANGED <<root, halted, status, wrapper, selected>>
         /\ \A u \in Doers : agenda'[u] = agenda[u]
<1>1. Walks /\ Due(Halter, op, i) /\ Takes(Halter, op, i, calls) /\ Effects(op, i, calls) /\ UNCHANGED <<root, halted>>
  BY DEF StartInv, ExclusiveInv, Moves
<1>2. agenda[Halter] \in Seq(AnyCall) /\ agenda[Halter] # << >> /\ agenda[Halter][1] = <<op, i>>
  BY <1>1, ThreadNames DEF Walks, Due
<1>3. 1 \in 1 .. Len(agenda[Halter]) /\ <<op, i>> \in AnyCall
  BY <1>2
<1>4. op \in Signals /\ i \in Instructions
  <2>1. Quiet(agenda[Halter][1])
    BY <1>1, <1>3 DEF Walks
  <2> QED  BY <1>2, <1>3, <2>1 DEF Quiet, AnyCall
<1>5. \A u \in Doers : agenda'[u] = agenda[u]
  <2>1. Halter \notin Doers /\ op # "tick"
    BY <1>4, ThreadNames DEF Signals
  <2> QED  BY <1>1, <2>1 DEF Takes
<1>6. UNCHANGED <<status, wrapper, selected>>
  BY <1>1, <1>4 DEF Effects, Marks, Selects, Wraps, Signals, UnderWay
<1> QED  BY <1>1, <1>4, <1>5, <1>6

\* A walk that begins, or has ended, is prepared and laid out.
LEMMA BeginPrepared ==
  ASSUME NEW b \in Instructions, NEW c, NEW e, e = << >> \/ e = Call("exec", c)
  PROVE  Prepared(b, e) /\ Prepared(b, e)'
<1>1. \A k \in 1 .. Len(e) : e[k][1] = "exec"
  BY DEF Call
<1> QED  BY <1>1 DEF Prepared, ShownAt, TickedAt, JoinedAt, ChosenFor, EquippedFor, UnderWay

LEMMA BeginLaid ==
  ASSUME NEW t \in Doers, NEW c, NEW e, e = << >> \/ e = Call("exec", c) \/ (e = Call("reset", c) /\ t \notin Workers)
  PROVE  Layout(t, e) /\ Layout(t, e)'
<1>1. /\ \A k \in 1 .. Len(e) : e[k][1] = "exec" \/ (e[k][1] = "reset" /\ t \notin Workers)
      /\ \A k \in 1 .. Len(e) : 1 + 1 > Len(e) /\ k = 1
  BY DEF Call
<1>2. \A k \in 1 .. Len(e) : k + 1 .. Len(e) = {}
  BY <1>1
<1>3. \A k \in 1 .. Len(e) : ~Quiet(e[k])
  BY <1>1 DEF Quiet, Signals
<1> QED  BY <1>1, <1>2, <1>3
         DEF Layout, Alone, SignalsBelow, OfParents, OfParent, TicksEnd, JoinsEnd, NotItself, Undoing

LEMMA PreparedKept ==
  ASSUME StartInv, NEW t \in Threads, NEW op, NEW i, NEW calls, Moves(t, op, i, calls)
  PROVE  AllPrepared'
<1>0. UNCHANGED root /\ Takes(t, op, i, calls)
  BY DEF Moves
<1> SUFFICES ASSUME NEW u \in Doers  PROVE Prepared(Base(u), agenda[u])'
  BY DEF AllPrepared, Doers, Workers, Wrapped, ChildSet
<1>b. PICK b : b = Base(u) /\ b = Base(u)'
  BY <1>0 DEF Base
<1>f. PICK f : f = agenda'[u]
  OBVIOUS
<1> SUFFICES Prepared(b, f)'
  BY <1>b, <1>f
<1>1. CASE u = t
  <2>1. PICK e : e = agenda[t]
    OBVIOUS
  <2>2. Advances(t, op, i, calls, e, f)
    BY <1>1, <1>f, <2>1 DEF Advances
  <2> QED  BY <1>1, <1>b, <2>2, MoverPrepared
<1>2. CASE u # t /\ t \in Doers /\ f = agenda[u]
  BY <1>2, <1>b, OtherPrepared
<1>3. CASE f = Call("exec", u)
  <2>1. b \in Instructions
    <3>1. root \in Instructions
      BY TreeAssumption DEF StartInv, ExclusiveInv
    <3> QED  BY <1>b, <3>1, ThreadNames DEF Base, Doers
  <2> QED  BY <1>3, <2>1, BeginPrepared
<1>4. CASE t = Halter
  <2>1. agenda'[u] = agenda[u] /\ UNCHANGED <<status, wrapper, selected>>
    BY <1>4, HalterQuiet
  <2>2. Prepared(b, f)
    BY <1>b, <1>f, <2>1 DEF StartInv, AllPrepared
  <2> QED  BY <2>1, <2>2 DEF Prepared, ShownAt, TickedAt, JoinedAt, ChosenFor, EquippedFor,
             Shows, ShownBy, Child, ChildSet, Below, Closed, Owner, Parent
<1>5. t \in Doers \/ t = Halter
  BY ThreadNames
<1> QED  BY <1>0, <1>f, <1>1, <1>2, <1>3, <1>4, <1>5 DEF Takes

LEMMA LaidKept ==
  ASSUME StartInv, NEW t \in Threads, NEW op, NEW i, NEW calls, Moves(t, op, i, calls)
  PROVE  Laid'
<1>0. UNCHANGED root /\ Takes(t, op, i, calls) /\ Laid
  BY DEF Moves, StartInv
<1> SUFFICES ASSUME NEW u \in Doers  PROVE Layout(u, agenda[u])'
  BY DEF Laid, Doers, Workers, Wrapped, ChildSet
<1>f. PICK f : f = agenda'[u]
  OBVIOUS
<1>b. PICK b : b = Base(u) /\ b = Base(u)'
  BY <1>0 DEF Base
<1> SUFFICES Layout(u, f)
  BY <1>b, <1>f DEF Layout
<1>1. CASE u = t
  <2>1. PICK e : e = agenda[t]
    OBVIOUS
  <2>2. Advances(t, op, i, calls, e, f)
    BY <1>1, <1>f, <2>1 DEF Advances
  <2>3. PICK x : x = Owner(<<op, i>>)
    OBVIOUS
  <2>4. /\ Turns(e, x, calls, f) /\ Layout(t, e) /\ Proper(b, e, Rest) /\ Proceeds(op, x, calls)
        /\ e[1] = <<op, i>> /\ b \in Below(root) /\ 1 \in 1 .. Len(e)
    <3>1. t \in Doers /\ b = Base(t)
      BY <1>1, <1>b
    <3> QED  BY <2>2, <2>3, <3>1, Advanced
  <2>5. root \in Roots /\ (t \in Workers => b = t)
    <3>1. ExclusiveInv
      BY DEF StartInv
    <3> QED  BY <1>1, <1>b, <2>1, <2>4, <3>1, AtCall
  <2>6. Held(b, e) /\ Ascending(e) /\ Neat(e[1][1], x, calls) /\ Owner(e[1]) = x
    BY <2>3, <2>4 DEF Proper, Proceeds
  <2> QED  BY <1>1, <1>b, <2>4, <2>5, <2>6, PushKeepsLayout
<1>2. CASE f = agenda[u]
  BY <1>0, <1>2 DEF Laid
<1>3. CASE f = Call("exec", u)
  BY <1>3, BeginLaid
<1> QED  BY <1>0, <1>f, <1>1, <1>2, <1>3 DEF Takes

LEMMA TablesKept ==
  ASSUME StartInv, NEW t \in Threads, NEW op, NEW i \in Instructions, NEW calls, Moves(t, op, i, calls)
  PROVE  Tables' /\ Answers'
<1>1. Tables /\ Answers /\ Selections /\ Effects(op, i, calls)
  BY DEF Moves, StartInv, ExclusiveInv
<1>2. status' \in [Instructions -> ExecutionStatus]
  BY <1>1 DEF Tables, Effects, Marks, Started, ExecutionStatus
<1>3. haltReq' \in [Instructions -> BOOLEAN]
  BY <1>1 DEF Tables, Effects, Signs
<1>4. wrapper' \in [Instructions -> ExecutionStatus \union {"absent"}]
  <2>1. "NOT_STARTED" \in ExecutionStatus /\ "RUNNING" \in ExecutionStatus
    BY DEF ExecutionStatus
  <2> QED  BY <1>1, <2>1 DEF Tables, Effects, Wraps
<1>5. Answers'
  <2> SUFFICES ASSUME NEW j \in Instructions, Kind[j] = "UserChoice", selected'[j] # << >>
               PROVE  \E c \in ChildSet(j) : selected'[j] = <<<<c>>>>
    BY DEF Answers, ChildSet
  <2>1. selected = [k \in Instructions |-> selected[k]]
    BY <1>1 DEF Selections
  <2> QED  BY <1>1, <2>1 DEF Answers, Effects, Selects
<1> QED  BY <1>2, <1>3, <1>4, <1>5 DEF Tables

\* Below(root) is a matter of the tree alone.
LEMMA UnwrappedKept ==
  ASSUME StartInv, NEW t \in Threads, NEW op, NEW i, NEW calls, Moves(t, op, i, calls)
  PROVE  Unwrapped'
<1>0. /\ UNCHANGED root /\ ExclusiveInv /\ Tables /\ Laid /\ Unwrapped /\ Due(t, op, i) /\ Effects(op, i, calls)
      /\ agenda \in [Threads -> Seq(AnyCall)]
  BY DEF Moves, StartInv, ExclusiveInv, Walks
<1> SUFFICES ASSUME NEW p \in Below(root), Kind[p] \in Threaded, status'[p] # "NOT_STARTED",
                    NEW c \in ChildSet(p), wrapper'[c] = "absent"
             PROVE  \E u \in Doers : \E k \in 1 .. Len(agenda'[u]) : agenda'[u][k] = <<"clear", p>>
  BY <1>0 DEF Unwrapped, Below, Closed, ChildSet, Doers, Workers, Wrapped
<1>1. p \in Instructions /\ c \in Instructions
  <2>1. root \in Instructions
    BY <1>0, TreeAssumption DEF ExclusiveInv
  <2>2. p \in Instructions
    BY <2>1, BelowClosed
  <2> QED  BY <2>2, ChildrenAreInstructions
<1>2. CASE t = Halter
  <2>1. status'[p] = status[p] /\ wrapper'[c] = wrapper[c] /\ \A u \in Doers : agenda'[u] = agenda[u]
    BY <1>2, HalterQuiet
  <2>2. \E u \in Doers : \E k \in 1 .. Len(agenda[u]) : agenda[u][k] = <<"clear", p>>
    BY <1>0, <2>1 DEF Unwrapped
  <2> QED  BY <2>1, <2>2
<1>3. CASE t \in Doers
  <2>1. /\ i \in Instructions /\ 1 \in 1 .. Len(agenda[t]) /\ agenda[t][1] = <<op, i>>
        /\ op \notin Signals => Owner(<<op, i>>) \in Below(root)
    BY <1>0, <1>3, AtFront
  <2>2. CASE wrapper[c] = "absent" /\ status[p] # "NOT_STARTED"
    <3>1. PICK u \in Doers : \E k \in 1 .. Len(agenda[u]) : agenda[u][k] = <<"clear", p>>
      BY <1>0, <2>2 DEF Unwrapped
    <3> PICK k \in 1 .. Len(agenda[u]) : agenda[u][k] = <<"clear", p>>
      BY <3>1
    <3>2. ~(u = t /\ k = 1)
      <4> SUFFICES ASSUME u = t, k = 1  PROVE FALSE
        OBVIOUS
      <4>1. op = "clear" /\ i = p
        BY <2>1
      <4> QED  BY <1>0, <1>1, <4>1 DEF Effects, Marks, UnderWay, Tables
    <3> QED  BY <3>2, StillThere
  <2>3. CASE wrapper[c] # "absent"
    <3>1. op = "join" /\ c \in ChildSet(i)
      <4>1. wrapper'[c] # wrapper[c] /\ wrapper'[c] # "RUNNING" /\ wrapper'[c] # "NOT_STARTED"
        BY <2>3
      <4>2. status[c] # "absent"
        BY <1>0, <1>1 DEF Tables, ExecutionStatus
      <4>3. Moves(t, op, i, calls) /\ Tables /\ i \in Instructions /\ c \in Instructions
        BY <1>0, <1>1, <2>1
      <4> QED  BY <4>1, <4>2, <4>3, Rewrapped
    <3>2. i = p
      <4>1. Owner(<<op, i>>) = i /\ op \notin Signals
        BY <3>1 DEF Owner, Signals
      <4> QED  BY <1>0, <2>1, <3>1, <4>1, SameParent
    <3>3. JoinsEnd(agenda[t])
      BY <1>0, <1>3 DEF Laid, Layout
    <3>4. PICK m \in 1 + 1 .. Len(agenda[t]) : agenda[t][m] = <<"clear", p>>
      <4>1. agenda[t][1][1] = "join" /\ agenda[t][1][2] = p
        BY <2>1, <3>1, <3>2
      <4> QED  BY <2>1, <3>3, <4>1 DEF JoinsEnd
    <3>5. m \in 1 .. Len(agenda[t]) /\ m # 1
      BY <2>1
    <3> QED  BY <1>3, <3>4, <3>5, StillThere
  <2>4. CASE wrapper[c] = "absent" /\ status[p] = "NOT_STARTED"
    <3>1. op \in (UnderWay \ {"react"}) \union {"exec"} /\ i = p
      BY <1>0, <1>1, <2>1, <2>4, Remarked
    <3>2. op # "exec"
      BY <1>0, <1>1, <2>4, <3>1 DEF Effects, Wraps, Wrapped
    <3>3. EquippedFor(agenda[t][1])
      BY <1>3, <2>1 DEF StartInv, AllPrepared, Prepared
    <3>4. Owner(agenda[t][1]) = p /\ agenda[t][1][1] \in UnderWay
      BY <2>1, <3>1, <3>2 DEF Owner
    <3> QED  BY <2>4, <3>3, <3>4 DEF EquippedFor
  <2> QED  BY <2>2, <2>3, <2>4
<1> QED  BY <1>2, <1>3, ThreadNames

LEMMA LaunchedKept ==
  ASSUME StartInv, NEW t \in Threads, NEW op, NEW i, NEW calls, Moves(t, op, i, calls)
  PROVE  Launched' /\ InTree'
<1>0. /\ UNCHANGED root /\ ExclusiveInv /\ Tables /\ Laid /\ Launched /\ InTree /\ Due(t, op, i) /\ Effects(op, i, calls)
      /\ agenda \in [Threads -> Seq(AnyCall)]
  BY DEF Moves, StartInv, ExclusiveInv, Walks
<1>r. root \in Instructions
  BY <1>0, TreeAssumption DEF ExclusiveInv
<1>1. ASSUME NEW p \in Below(root), Kind[p] \in Threaded, NEW c \in ChildSet(p), wrapper'[c] \notin {"absent", "NOT_STARTED"}
      PROVE  status'[c] # "NOT_STARTED" \/ \E k \in 1 .. Len(agenda'[c]) : agenda'[c][k] = <<"exec", c>>
  <2>1. p \in Instructions /\ c \in Instructions /\ c \in Doers
    <3>1. p \in Instructions
      BY <1>r, BelowClosed
    <3> QED  BY <1>1, <3>1, ChildrenAreInstructions, ThreadNames DEF Doers
  <2>2. CASE t = Halter
    <3>1. status'[c] = status[c] /\ wrapper'[c] = wrapper[c] /\ agenda'[c] = agenda[c]
      BY <2>1, <2>2, HalterQuiet
    <3> QED  BY <1>0, <1>1, <3>1 DEF Launched
  <2>3. CASE t \in Doers
    <3>1. /\ i \in Instructions /\ 1 \in 1 .. Len(agenda[t]) /\ agenda[t][1] = <<op, i>>
          /\ op \notin Signals => Owner(<<op, i>>) \in Below(root)
      BY <1>0, <2>3, AtFront
    <3>2. CASE wrapper'[c] # wrapper[c]
      <4>1. \/ op = "tick" /\ i = c /\ wrapper'[c] = status[c]
            \/ agenda'[c] = Call("exec", c)
        <5>1. Moves(t, op, i, calls) /\ Tables /\ i \in Instructions /\ c \in Instructions
          BY <1>0, <2>1, <3>1
        <5>2. wrapper'[c] # "absent" /\ wrapper'[c] # "NOT_STARTED"
          BY <1>1
        <5>3. \/ op = "tick" /\ i = c /\ wrapper'[c] = status[c]
              \/ op = "tick" /\ i = c /\ agenda'[c] = Call("exec", c) /\ wrapper'[c] = "RUNNING"
          BY <1>0, <2>1, <3>2, <5>2 DEF Effects, Wraps, Tables
        <5> QED  BY <5>3
      <4>2. CASE op = "tick" /\ i = c /\ wrapper'[c] = status[c]
        <5>1. status' = status
          BY <1>0, <4>2 DEF Effects, Marks, UnderWay
        <5> QED  BY <1>1, <4>2, <5>1
      <4>3. CASE agenda'[c] = Call("exec", c)
        <5>1. 1 \in 1 .. Len(Call("exec", c)) /\ Call("exec", c)[1] = <<"exec", c>>
          BY DEF Call
        <5> QED  BY <4>3, <5>1
      <4> QED  BY <4>1, <4>2, <4>3
    <3>3. CASE wrapper'[c] = wrapper[c] /\ status[c] # "NOT_STARTED"
      <4> SUFFICES ASSUME status'[c] = "NOT_STARTED"  PROVE FALSE
        OBVIOUS
      <4>1. op = "clear" /\ i = c
        <5>1. status'[c] # status[c]
          BY <3>3
        <5> QED  BY <1>0, <2>1, <3>1, <5>1, Remarked DEF Started
      <4>2. agenda[t][1][1] = "clear" /\ agenda[t][1][2] = c
        BY <3>1, <4>1
      <4>3. c # t /\ ~Quiet(agenda[t][1]) /\ Owner(agenda[t][1]) = c
        <5>1. agenda[t][1][1] \in Undoing \union {"tick"}
          BY <4>2 DEF Undoing
        <5> QED  BY <1>0, <2>3, <3>1, <4>2, <5>1, NotOwnBase
      <4>4. p \in Below(Base(t))
        BY <1>0, <2>3, <3>1, <4>3, InParent
      <4>5. JoinedAt(Base(t), agenda[t], 1)
        BY <2>3, <3>1 DEF StartInv, AllPrepared, Prepared
      <4>6. wrapper[c] = "absent"
        BY <1>1, <4>2, <4>4, <4>5 DEF JoinedAt
      <4> QED  BY <1>1, <3>3, <4>6
    <3>4. ASSUME wrapper'[c] = wrapper[c], NEW k \in 1 .. Len(agenda[c]), agenda[c][k] = <<"exec", c>>
          PROVE  status'[c] # "NOT_STARTED" \/ \E m \in 1 .. Len(agenda'[c]) : agenda'[c][m] = <<"exec", c>>
      <4>1. CASE c = t /\ k = 1
        <5>1. op = "exec" /\ i = c
          BY <3>1, <3>4, <4>1
        <5> QED  BY <1>0, <3>1, <5>1, ExecStarts
      <4>2. CASE c = t => k # 1
        BY <2>1, <3>4, <4>2, StillThere
      <4> QED  BY <4>1, <4>2
    <3> QED  BY <1>0, <1>1, <3>2, <3>3, <3>4 DEF Launched
  <2> QED  BY <2>2, <2>3, ThreadNames
<1>2. Launched'
  BY <1>0, <1>1 DEF Launched, Below, Closed, ChildSet
<1>3. ASSUME NEW c \in Instructions, wrapper'[c] # "absent"
      PROVE  \E p \in Below(root) : Kind[p] \in Threaded /\ c \in ChildSet(p)
  <2>1. CASE t = Halter
    BY <1>0, <1>3, <2>1, HalterQuiet DEF InTree
  <2>2. CASE t \in Doers
    <3>1. i \in Instructions /\ (op \notin Signals => Owner(<<op, i>>) \in Below(root))
      BY <1>0, <2>2, AtFront
    <3>2. CASE op = "exec" /\ c \in Wrapped(i)
      BY <3>1, <3>2 DEF Wrapped, Signals, Owner
    <3>3. CASE op = "tick" /\ i = c
      BY <1>0, <2>2, <3>3, TickEquipped
    <3> QED  BY <1>0, <1>3, <3>1, <3>2, <3>3, Rewrapped DEF InTree
  <2> QED  BY <2>1, <2>2, ThreadNames
<1>4. InTree'
  BY <1>0, <1>3 DEF InTree, Below, Closed, ChildSet
<1> QED  BY <1>2, <1>4

LEMMA MoveKeepsStart ==
  ASSUME StartInv, ExclusiveInv', WrapperInv', NEW t \in Threads, NEW op, NEW i, NEW calls, Moves(t, op, i, calls)
  PROVE  StartInv'
<1>1. ExclusiveInv /\ Due(t, op, i)
  BY DEF StartInv, Moves
<1>2. i \in Instructions
  BY <1>1, DueCall
<1>3. Laid'
  BY LaidKept
<1>4. Tables' /\ Answers'
  BY <1>2, TablesKept
<1>5. AllPrepared'
  BY PreparedKept
<1>6. Unwrapped'
  BY UnwrappedKept
<1>7. Launched' /\ InTree'
  BY LaunchedKept
<1> QED  BY <1>3, <1>4, <1>5, <1>6, <1>7 DEF StartInv

LEMMA StartInit == Init => StartInv
<1> SUFFICES ASSUME Init  PROVE StartInv
  OBVIOUS
<1>1. ExclusiveInv /\ WrapperInv
  BY ExclusiveInit, WrapperInvInit
<1>2. /\ root \in Instructions /\ status = [i \in Instructions |-> "NOT_STARTED"]
      /\ haltReq = [i \in Instructions |-> FALSE] /\ wrapper = [i \in Instructions |-> "absent"]
      /\ selected = [i \in Instructions |-> << >>] /\ agenda = [t \in Threads |-> << >>]
  BY TreeAssumption DEF Init
<1>3. \A t \in Doers : agenda[t] = << >> /\ Base(t) \in Instructions
  BY <1>2, ThreadNames DEF Base, Doers
<1>4. Laid
  BY <1>3, BeginLaid DEF Laid
<1>5. AllPrepared
  <2> SUFFICES ASSUME NEW t \in Doers  PROVE Prepared(Base(t), agenda[t])
    BY DEF AllPrepared
  <2>1. PICK b : b = Base(t)
    OBVIOUS
  <2>2. PICK e : e = agenda[t]
    OBVIOUS
  <2>3. b \in Instructions /\ e = << >>
    BY <1>3, <2>1, <2>2
  <2>4. Prepared(b, e)
    BY <2>3, BeginPrepared
  <2> QED  BY <2>1, <2>2, <2>4
<1>6. Tables
  BY <1>2 DEF Tables, ExecutionStatus
<1>7. Answers
  BY <1>2 DEF Answers
<1>8. Below(root) \subseteq Instructions
  BY <1>2, BelowClosed
<1>9. Unwrapped
  BY <1>2, <1>8 DEF Unwrapped
<1>10. Launched
  <2> SUFFICES ASSUME NEW p \in Below(root), NEW c \in ChildSet(p)  PROVE wrapper[c] = "absent"
    BY DEF Launched
  <2>1. c \in Instructions
    BY <1>8, ChildrenAreInstructions
  <2> QED  BY <1>2, <2>1
<1>11. InTree
  BY <1>2 DEF InTree
<1> QED  BY <1>1, <1>4, <1>5, <1>6, <1>7, <1>9, <1>10, <1>11 DEF StartInv

LEMMA LaunchedSame ==
  ASSUME StartInv, UNCHANGED <<root, status, wrapper>>, \A c \in Workers : agenda'[c] = agenda[c]
  PROVE  Launched'
<1> SUFFICES ASSUME NEW p \in Below(root), Kind[p] \in Threaded, NEW c \in ChildSet(p),
                    wrapper'[c] \notin {"absent", "NOT_STARTED"}
             PROVE  status'[c] # "NOT_STARTED" \/ \E k \in 1 .. Len(agenda'[c]) : agenda'[c][k] = <<"exec", c>>
  BY ZenonT(60) DEF Launched, Below, Closed, ChildSet
<1>1. c \in Workers
  <2>1. root \in Instructions
    BY TreeAssumption DEF StartInv, ExclusiveInv
  <2>2. p \in Instructions
    BY <2>1, BelowClosed
  <2> QED  BY <2>2, ThreadNames
<1>2. agenda'[c] = agenda[c]
  BY <1>1
<1> QED  BY <1>2 DEF StartInv, Launched

\* What the client's thread is about does not matter to this.
LEMMA StartSame ==
  ASSUME StartInv, ExclusiveInv', WrapperInv',
         UNCHANGED <<root, status, haltReq, wrapper, selected>>, \A u \in Doers : agenda'[u] = agenda[u]
  PROVE  StartInv'
<1>1. ASSUME NEW t \in Doers  PROVE Prepared(Base(t), agenda[t])' /\ Layout(t, agenda[t])'
  <2>b. PICK b : b = Base(t) /\ b = Base(t)'
    BY DEF Base
  <2>e. PICK e : e = agenda[t] /\ e = agenda'[t]
    BY <1>1
  <2>1. Prepared(b, e) /\ Layout(t, e)
    BY <1>1, <2>b, <2>e DEF StartInv, AllPrepared, Laid
  <2>2. Prepared(b, e)'
    BY <2>1, ZenonT(60) DEF Prepared, ShownAt, TickedAt, JoinedAt, ChosenFor, EquippedFor,
                Shows, ShownBy, Child, ChildSet, Below, Closed, Owner, Parent
  <2>3. Layout(t, e)'
    BY <2>b, <2>1 DEF Layout
  <2> QED  BY <2>b, <2>e, <2>2, <2>3
<1>2. AllPrepared' /\ Laid'
  BY <1>1 DEF AllPrepared, Laid, Doers, Workers, Wrapped, ChildSet
<1>3. Tables' /\ Answers'
  BY DEF StartInv, Tables, Answers, ChildSet
<1>4. Unwrapped'
  <2> SUFFICES ASSUME NEW p \in Below(root), Kind[p] \in Threaded, status'[p] # "NOT_STARTED",
                      NEW c \in ChildSet(p), wrapper'[c] = "absent"
               PROVE  \E u \in Doers : \E k \in 1 .. Len(agenda'[u]) : agenda'[u][k] = <<"clear", p>>
    BY DEF Unwrapped, Below, Closed, ChildSet, Doers, Workers, Wrapped
  <2>1. PICK u \in Doers : \E k \in 1 .. Len(agenda[u]) : agenda[u][k] = <<"clear", p>>
    BY DEF StartInv, Unwrapped
  <2> QED  BY <2>1
<1>6. Launched'
  BY LaunchedSame DEF Doers
<1>7. InTree'
  BY DEF StartInv, InTree, Below, Closed, ChildSet
<1> QED  BY <1>2, <1>3, <1>4, <1>6, <1>7 DEF StartInv

\* The loop thread begins a walk at the root, which no instruction of the tree launches.
LEMMA StartBegins ==
  ASSUME StartInv, ExclusiveInv', WrapperInv', NEW op \in {"exec", "reset"}, Idle(Ticker),
         UNCHANGED <<root, status, haltReq, wrapper, selected>>,
         agenda' = [agenda EXCEPT ![Ticker] = Call(op, root)]
  PROVE  StartInv'
<1>0. ExclusiveInv /\ root \in Roots /\ root \in Instructions /\ agenda \in [Threads -> Seq(AnyCall)]
  BY TreeAssumption DEF StartInv, ExclusiveInv, Walks
<1>t. Ticker \in Doers /\ Ticker \in Threads /\ Ticker \notin Workers /\ \A u \in Doers : u \in Threads
  BY ThreadNames DEF Doers
<1>r. Below(root) \subseteq Instructions
  BY <1>0, BelowClosed
<1>a. agenda'[Ticker] = Call(op, root) /\ \A u \in Doers \ {Ticker} : agenda'[u] = agenda[u]
  BY <1>0, <1>t
<1>1. ASSUME NEW t \in Doers  PROVE Prepared(Base(t), agenda[t])' /\ Layout(t, agenda[t])'
  <2>b. PICK b : b = Base(t) /\ b = Base(t)'
    BY DEF Base
  <2>e. PICK e : e = agenda'[t]
    OBVIOUS
  <2>1. CASE t # Ticker
    <3>1. e = agenda[t]
      BY <1>1, <1>a, <2>1, <2>e
    <3>2. Prepared(b, e) /\ Layout(t, e)
      BY <1>1, <2>b, <3>1 DEF StartInv, AllPrepared, Laid
    <3>3. Prepared(b, e)'
      BY <3>2 DEF Prepared, ShownAt, TickedAt, JoinedAt, ChosenFor, EquippedFor,
                  Shows, ShownBy, Child, ChildSet, Below, Closed, Owner, Parent
    <3>4. Layout(t, e)'
      BY <2>b, <3>2 DEF Layout
    <3> QED  BY <2>b, <2>e, <3>3, <3>4
  <2>2. CASE t = Ticker
    <3>1. b = root /\ e = Call(op, root) /\ t \notin Workers
      BY <1>a, <1>t, <2>2, <2>b, <2>e DEF Base
    <3>2. Len(e) = 1 /\ e[1] = <<op, root>> /\ 1 .. Len(e) = {1}
      BY <3>1 DEF Call
    <3>3. \A p \in Below(root) : root \notin ChildSet(p)
      BY <1>0, OneParent
    <3>4. Prepared(b, e)'
      <4>1. \A p \in Below(b) : ~(e[1][2] \in ChildSet(p))
        BY <3>1, <3>2, <3>3
      <4>2. JoinedAt(b, e, 1)'
        BY <4>1 DEF JoinedAt, Below, Closed, ChildSet
      <4>3. ShownAt(e, 1)' /\ TickedAt(e, 1)' /\ ChosenFor(e[1])' /\ EquippedFor(e[1])'
        BY <3>2 DEF ShownAt, TickedAt, ChosenFor, EquippedFor, UnderWay
      <4> QED  BY <3>2, <4>2, <4>3 DEF Prepared
    <3>5. Layout(t, e)'
      <4>1. e = Call("exec", root) \/ (e = Call("reset", root) /\ t \notin Workers)
        BY <3>1
      <4> QED  BY <1>1, <4>1, BeginLaid
    <3> QED  BY <2>b, <2>e, <3>4, <3>5
  <2> QED  BY <2>1, <2>2
<1>2. AllPrepared' /\ Laid'
  BY <1>1 DEF AllPrepared, Laid, Doers, Workers, Wrapped, ChildSet
<1>3. Tables' /\ Answers'
  BY DEF StartInv, Tables, Answers, ChildSet
<1>4. Unwrapped'
  <2> SUFFICES ASSUME NEW p \in Below(root), Kind[p] \in Threaded, status[p] # "NOT_STARTED",
                      NEW c \in ChildSet(p), wrapper[c] = "absent"
               PROVE  \E u \in Doers : \E k \in 1 .. Len(agenda'[u]) : agenda'[u][k] = <<"clear", p>>
    BY DEF Unwrapped, Below, Closed, ChildSet, Doers, Workers, Wrapped
  <2> PICK u \in Doers : \E k \in 1 .. Len(agenda[u]) : agenda[u][k] = <<"clear", p>>
    BY DEF StartInv, Unwrapped
  <2>1. u # Ticker
    BY DEF Idle
  <2> QED  BY <1>a, <2>1
<1>6. Launched'
  <2>1. \A c \in Workers : agenda'[c] = agenda[c]
    BY <1>t, <1>a DEF Doers
  <2> QED  BY <2>1, LaunchedSame
<1>7. InTree'
  BY DEF StartInv, InTree, Below, Closed, ChildSet
<1> QED  BY <1>2, <1>3, <1>4, <1>6, <1>7 DEF StartInv

LEMMA StartStep ==
  ASSUME StartInv, [Next]_vars  PROVE StartInv'
<1>1. ExclusiveInv' /\ WrapperInv'
  BY ExclusiveStep, WrapperInvStep DEF StartInv
<1>2. CASE BeginTick
  BY <1>1, <1>2, StartBegins DEF BeginTick
<1>3. CASE BeginReset
  BY <1>1, <1>3, StartBegins DEF BeginReset
<1>4. CASE BeginHalt
  <2>1. \A u \in Doers : agenda'[u] = agenda[u]
    <3>1. agenda \in [Threads -> Seq(AnyCall)]
      BY DEF StartInv, ExclusiveInv, Walks
    <3> QED  BY <1>4, <3>1, ThreadNames DEF BeginHalt
  <2> QED  BY <1>1, <1>4, <2>1, StartSame DEF BeginHalt
<1>5. ASSUME NEW t \in Threads, NEW i, Step(t, i) \/ Work(t, i)  PROVE StartInv'
  <2>1. ExclusiveInv /\ Laid /\ Answers /\ Sure
    BY InvIsSure DEF StartInv
  <2>2. PICK op, calls : Moves(t, op, i, calls)
    BY <1>5, <2>1, StepMoves
  <2> QED  BY <1>1, <1>5, <2>2, MoveKeepsStart
<1>6. CASE UNCHANGED vars
  BY <1>1, <1>6, StartSame DEF vars
<1> QED  BY <1>2, <1>3, <1>4, <1>5, <1>6 DEF Next
-----------------------------------------------------------------------------
(* A procedure that was reset is as new                                      *)

LEMMA SubtreeIsBelow ==
  ASSUME NEW z \in Instructions
  PROVE  Subtree[z] \subseteq Below(z)
<1> SUFFICES ASSUME NEW y0 \in Subtree[z], y0 \notin Below(z)  PROVE FALSE
  OBVIOUS
<1> DEFINE S == {y \in Subtree[z] : y \notin Below(z)}
<1>1. Below(z) \subseteq Instructions /\ z \in Below(z) /\ \A y \in Below(z) : ChildSet(y) \subseteq Below(z)
  BY BelowClosed
<1>2. S \subseteq Instructions /\ S # {}
  BY SubtreeAssumption
<1>3. ASSUME NEW y \in S  PROVE \E p \in S : y \in ChildSet(p)
  <2>1. y # z
    BY <1>1
  <2>2. PICK p \in Subtree[z] : y \in ChildSet(p)
    BY <2>1, SubtreeAssumption
  <2>3. p \notin Below(z)
    BY <1>1, <2>2
  <2> QED  BY <2>2, <2>3
<1>4. ASSUME NEW y \in Instructions
      PROVE  /\ IsFiniteSet(Below(y)) /\ Cardinality(Below(y)) \in Nat
             /\ Cardinality(Below(y)) <= Cardinality(Instructions)
  <2>1. Below(y) \subseteq Instructions /\ IsFiniteSet(Instructions)
    BY BelowClosed, SubtreeAssumption
  <2> QED  BY <2>1, FS_Subset, FS_CardinalityType
<1>5. Cardinality(Instructions) \in Nat
  BY SubtreeAssumption, FS_CardinalityType
<1> DEFINE T == {Cardinality(Instructions) - Cardinality(Below(y)) : y \in S}
<1>6. T \in SUBSET Nat /\ T # {}
  BY <1>2, <1>4, <1>5
<1>7. \E n \in T : \A m \in T : n <= m
  <2> HIDE DEF T
  <2> QED  BY <1>6, LeastNumber
<1>8. PICK y \in S : \A x \in S : Cardinality(Below(x)) <= Cardinality(Below(y))
  <2>1. PICK n \in T : \A m \in T : n <= m
    BY <1>7
  <2>2. PICK y \in S : n = Cardinality(Instructions) - Cardinality(Below(y))
    BY <2>1
  <2>3. ASSUME NEW x \in S  PROVE Cardinality(Below(x)) <= Cardinality(Below(y))
    <3>1. n <= Cardinality(Instructions) - Cardinality(Below(x))
      BY <2>1
    <3>2. x \in Instructions /\ y \in Instructions
      BY <1>2
    <3> QED  BY <1>4, <1>5, <2>2, <3>1, <3>2
  <2> QED  BY <2>3
<1>9. PICK p \in S : y \in ChildSet(p)
  BY <1>3
<1>10. p \in Instructions /\ y \in Instructions
  BY <1>2
<1>11. Below(y) \subseteq Below(p) /\ p \in Below(p) /\ p \notin Below(y)
  <2>1. y \in StrictlyBelow(p) /\ p \notin Below(y)
    BY <1>9, <1>10, ChildBelow
  <2> QED  BY <1>10, <2>1, BelowClosed DEF StrictlyBelow
<1>12. Cardinality(Below(y)) < Cardinality(Below(p))
  <2>1. IsFiniteSet(Below(p))
    BY <1>4, <1>10
  <2>2. Below(y) # Below(p)
    BY <1>11
  <2>3. Cardinality(Below(y)) <= Cardinality(Below(p)) /\ Cardinality(Below(y)) # Cardinality(Below(p))
    BY <1>11, <2>1, <2>2, FS_Subset
  <2> QED  BY <1>4, <1>10, <2>3
<1>13. Cardinality(Below(p)) <= Cardinality(Below(y))
  BY <1>8
<1> QED  BY <1>4, <1>10, <1>12, <1>13

\* After its first k calls, agenda e resets or clears instruction x.
Recleared(e, k, x) == \E m \in k + 1 .. Len(e) : e[m][1] = "reset" /\ x \in Below(e[m][2])
Cleared(e, k, x) == Recleared(e, k, x) \/ \E m \in k + 1 .. Len(e) : e[m] = <<"clear", x>>

\* What is left of an earlier run, agenda e is going to take back.
Remains(e) ==
  \A x \in Below(root) :
    /\ status[x] # "NOT_STARTED" \/ haltReq[x] => Cleared(e, 0, x)
    /\ selected[x] # << >> => Recleared(e, 0, x)
    /\ Kind[x] \in Threaded => \A c \in ChildSet(x) : wrapper[c] # "absent" =>
         Recleared(e, 0, x) \/ \E k \in 1 .. Len(e) : e[k] = <<"join", x>>

\* Whom it halts it clears after that, and it resets the children whose threads it joins.
BackAt(e, k) ==
  /\ e[k][1] \in Backward
  /\ e[k][1] = "halt" => \A z \in Below(e[k][2]) : Cleared(e, k, z)
  /\ e[k][1] = "join" => \A z \in StrictlyBelow(e[k][2]) : Recleared(e, k, z)
WalksBack(e) == \A k \in 1 .. Len(e) : BackAt(e, k)

\* A reset of the procedure is under way until the root is cleared, which comes last.
Undoes(call) == call = <<"reset", root>> \/ call = <<"clear", root>>
Undone(e) == \E k \in 1 .. Len(e) : Undoes(e[k])
EndsReset == Undone(agenda[Ticker]) => Undoes(agenda[Ticker][Len(agenda[Ticker])])

\* A tick that is under way has started the root, or is about to.
Begins(e) == \E k \in 1 .. Len(e) : e[k] = <<"exec", root>>
Ticking == ~Idle(Ticker) /\ ~Undone(agenda[Ticker]) => status[root] # "NOT_STARTED" \/ Begins(agenda[Ticker])

Afresh == ~halted /\ (Undone(agenda[Ticker]) \/ (Idle(Ticker) /\ status[root] = "NOT_STARTED"))

ResetInv == /\ StartInv /\ EndsReset /\ Ticking
            /\ halted \/ Idle(Halter)
            /\ Afresh => Remains(agenda[Ticker]) /\ WalksBack(agenda[Ticker])

LEMMA Shifted ==
  ASSUME NEW e, NEW calls, NEW f, Spliced(e, calls, f), NEW k \in 1 .. Len(e), NEW x
  PROVE  /\ Recleared(e, k, x) => Recleared(f, Len(calls) + k - 1, x)
         /\ Cleared(e, k, x) => Cleared(f, Len(calls) + k - 1, x)
<1>n. PICK n : n = Len(calls)
  OBVIOUS
<1>1. /\ n \in Nat /\ Len(e) \in Nat /\ Len(f) = n + Len(e) - 1
      /\ \A j \in 2 .. Len(e) : n + j - 1 \in 1 .. Len(f) /\ f[n + j - 1] = e[j]
  BY <1>n DEF Spliced
<1>2. ASSUME NEW m \in k + 1 .. Len(e)
      PROVE  n + m - 1 \in (n + k - 1) + 1 .. Len(f) /\ f[n + m - 1] = e[m]
  <2>1. m \in 2 .. Len(e) /\ n + m - 1 \in (n + k - 1) + 1 .. Len(f)
    BY <1>1
  <2> QED  BY <1>1, <2>1
<1>3. Recleared(e, k, x) => Recleared(f, n + k - 1, x)
  BY <1>2 DEF Recleared
<1>4. (\E m \in k + 1 .. Len(e) : e[m] = <<"clear", x>>) => \E m \in (n + k - 1) + 1 .. Len(f) : f[m] = <<"clear", x>>
  BY <1>2
<1> QED  BY <1>n, <1>3, <1>4 DEF Cleared

LEMMA Sooner ==
  ASSUME NEW e, NEW k \in Nat, NEW j \in Nat, j <= k, NEW x
  PROVE  /\ Recleared(e, k, x) => Recleared(e, j, x)
         /\ Cleared(e, k, x) => Cleared(e, j, x)
<1>1. \A m \in k + 1 .. Len(e) : m \in j + 1 .. Len(e)
  OBVIOUS
<1>2. Recleared(e, k, x) => Recleared(e, j, x)
  BY <1>1 DEF Recleared
<1> QED  BY <1>1, <1>2 DEF Cleared

\* A reset resets or clears whatever is below the instruction.
LEMMA ResetRenews ==
  ASSUME NEW i \in Instructions, NEW e, NEW calls, NEW f, Spliced(e, calls, f), NEW a, NEW n, ResetPlaced(i, calls, a, n),
         NEW k \in 0 .. a
  PROVE  /\ \A z \in StrictlyBelow(i) : Recleared(f, k, z)
         /\ \A z \in Below(i) : Cleared(f, k, z)
<1>1. /\ a \in Nat /\ n \in Nat /\ Len(calls) = a + n + 1
      /\ a + n + 1 \in 1 .. Len(calls) /\ calls[a + n + 1] = <<"clear", i>>
      /\ \A c \in ChildSet(i) : \E m \in a + 1 .. Len(calls) : calls[m] = <<"reset", c>>
  BY DEF ResetPlaced
<1>2. Len(f) \in Nat /\ \A m \in 1 .. Len(calls) : m \in 1 .. Len(f) /\ f[m] = calls[m]
  BY DEF Spliced
<1>3. ASSUME NEW z \in StrictlyBelow(i)  PROVE Recleared(f, k, z)
  <2>1. PICK c \in ChildSet(i) : z \in Below(c)
    BY BelowChild
  <2>2. PICK m \in a + 1 .. Len(calls) : calls[m] = <<"reset", c>>
    BY <1>1
  <2>3. m \in 1 .. Len(calls) /\ m >= k + 1
    BY <1>1
  <2>4. m \in k + 1 .. Len(f) /\ f[m] = calls[m]
    BY <1>2, <2>3
  <2> QED  BY <2>1, <2>2, <2>4 DEF Recleared
<1>4. Cleared(f, k, i)
  <2>1. a + n + 1 \in k + 1 .. Len(f) /\ f[a + n + 1] = <<"clear", i>>
    BY <1>1, <1>2
  <2> QED  BY <2>1 DEF Cleared
<1> QED  BY <1>3, <1>4 DEF Cleared, StrictlyBelow
-----------------------------------------------------------------------------
(* What a reset of the procedure does                                        *)

\* What a call of the loop thread would still clear is cleared by what takes its place,
\* or by that call.
LEMMA BackKeeps ==
  ASSUME StartInv, NEW op, NEW i, NEW calls, NEW e, NEW f, Advances(Ticker, op, i, calls, e, f),
         NEW x \in Below(root)
  PROVE  /\ Recleared(e, 0, x) => Recleared(f, 0, x) \/ (op = "reset" /\ x = i)
         /\ Cleared(e, 0, x) => Cleared(f, 0, x) \/ (op = "clear" /\ x = i)
<1>t. Ticker \in Doers
  BY DEF Doers
<1>b. PICK b : b = Base(Ticker)
  OBVIOUS
<1>o. PICK y : y = Owner(<<op, i>>)
  OBVIOUS
<1>1. /\ Spliced(e, calls, f) /\ e[1] = <<op, i>> /\ i \in Instructions /\ 1 \in 1 .. Len(e)
  BY <1>t, <1>b, <1>o, Advanced
<1>2. Len(calls) \in Nat /\ Len(e) \in Nat
  BY <1>1 DEF Spliced
<1>3. /\ Recleared(e, 1, x) => Recleared(f, 0, x)
      /\ Cleared(e, 1, x) => Cleared(f, 0, x)
  <2>1. PICK l \in Nat : l = Len(calls) + 1 - 1
    BY <1>2
  <2>2. /\ Recleared(e, 1, x) => Recleared(f, l, x)
        /\ Cleared(e, 1, x) => Cleared(f, l, x)
    BY <1>1, <2>1, Shifted
  <2>3. /\ Recleared(f, l, x) => Recleared(f, 0, x)
        /\ Cleared(f, l, x) => Cleared(f, 0, x)
    <3>1. 0 \in Nat /\ 0 <= l
      OBVIOUS
    <3> QED  BY <3>1, Sooner
  <2> QED  BY <2>2, <2>3
<1>4. ASSUME op = "reset", x \in Below(i)
      PROVE  Cleared(f, 0, x) /\ (x # i => Recleared(f, 0, x))
  <2>1. calls = ResetCalls(i)
    BY <1>4 DEF Advances, Moves, MakesAlways
  <2>2. PICK a \in 0 .. 2 : ResetShape(i, calls, a)
    BY <1>1, <2>1, ResetHasShape
  <2>3. PICK n : n = Len(Children[i])
    OBVIOUS
  <2>4. ResetPlaced(i, calls, a, n)
    BY <1>1, <2>2, <2>3, ResetPlaces
  <2>5. 0 \in 0 .. a
    BY <2>2
  <2>6. /\ \A z \in StrictlyBelow(i) : Recleared(f, 0, z)
        /\ \A z \in Below(i) : Cleared(f, 0, z)
    BY <1>1, <2>4, <2>5, ResetRenews
  <2> QED  BY <1>4, <2>6 DEF StrictlyBelow
<1>5. ASSUME NEW m \in 0 + 1 .. Len(e)  PROVE m = 1 \/ m \in 1 + 1 .. Len(e)
  BY <1>2
<1>6. Recleared(e, 0, x) => Recleared(e, 1, x) \/ (op = "reset" /\ x \in Below(i))
  <2> SUFFICES ASSUME Recleared(e, 0, x)  PROVE Recleared(e, 1, x) \/ (op = "reset" /\ x \in Below(i))
    OBVIOUS
  <2>1. PICK m \in 0 + 1 .. Len(e) : e[m][1] = "reset" /\ x \in Below(e[m][2])
    BY DEF Recleared
  <2> QED  BY <1>1, <1>5, <2>1 DEF Recleared
<1>7. Cleared(e, 0, x) => Cleared(e, 1, x) \/ (op = "reset" /\ x \in Below(i)) \/ (op = "clear" /\ x = i)
  <2>1. ASSUME NEW m \in 0 + 1 .. Len(e), e[m] = <<"clear", x>>
        PROVE  Cleared(e, 1, x) \/ (op = "clear" /\ x = i)
    <3>1. CASE m = 1
      BY <1>1, <2>1, <3>1
    <3>2. CASE m \in 1 + 1 .. Len(e)
      BY <2>1, <3>2 DEF Cleared
    <3> QED  BY <1>5, <3>1, <3>2
  <2> QED  BY <1>6, <2>1 DEF Cleared
<1>8. Recleared(e, 0, x) => Recleared(f, 0, x) \/ (op = "reset" /\ x = i)
  BY <1>3, <1>4, <1>6
<1>9. Cleared(e, 0, x) => Cleared(f, 0, x) \/ (op = "clear" /\ x = i)
  BY <1>3, <1>4, <1>7
<1> QED  BY <1>8, <1>9

LEMMA RemainsBack ==
  ASSUME StartInv, NEW op, NEW i, NEW calls, NEW e, NEW f, Advances(Ticker, op, i, calls, e, f),
         Remains(e), WalksBack(e)
  PROVE  Remains(f)'
<1>t. Ticker \in Doers
  BY DEF Doers
<1>b. PICK b : b = Base(Ticker)
  OBVIOUS
<1>o. PICK y : y = Owner(<<op, i>>)
  OBVIOUS
<1>0. /\ Moves(Ticker, op, i, calls) /\ UNCHANGED root /\ Tables /\ Selections /\ ExclusiveInv /\ Effects(op, i, calls)
  BY DEF Advances, Moves, StartInv, ExclusiveInv
<1>1. /\ Spliced(e, calls, f) /\ e[1] = <<op, i>> /\ i \in Instructions /\ 1 \in 1 .. Len(e)
      /\ Below(root) \subseteq Instructions
  BY <1>t, <1>b, <1>o, Advanced
<1>2. BackAt(e, 1)
  BY <1>1 DEF WalksBack
<1>3. op \in Backward /\ op \notin UnderWay \union {"exec", "tick"}
  <2>1. op \in Backward
    BY <1>1, <1>2 DEF BackAt
  <2> QED  BY <2>1 DEF Backward, UnderWay
<1>4. ASSUME NEW x \in Below(root), status'[x] # "NOT_STARTED" \/ haltReq'[x]
      PROVE  Cleared(f, 0, x)
  <2>x. x \in Instructions
    BY <1>1
  <2>1. status'[x] # "NOT_STARTED" => status[x] # "NOT_STARTED"
    <3> SUFFICES ASSUME status'[x] # status[x]  PROVE status'[x] = "NOT_STARTED"
      OBVIOUS
    <3> QED  BY <1>0, <1>1, <1>3, <2>x, Remarked
  <2>2. ~(op = "clear" /\ x = i)
    BY <1>0, <1>4, <2>x DEF Effects, Marks, Signs, UnderWay, Tables
  <2>3. CASE status[x] # "NOT_STARTED" \/ haltReq[x]
    BY <2>2, <2>3, BackKeeps DEF Remains
  <2>4. CASE haltReq'[x] /\ ~haltReq[x]
    <3>1. op = "halt" /\ i = x
      BY <1>0, <2>4, <2>x DEF Effects, Signs, Tables
    <3>2. x \in Below(x)
      BY <2>x, BelowClosed
    <3>3. Cleared(e, 1, x)
      BY <1>1, <1>2, <3>1, <3>2 DEF BackAt
    <3>4. Cleared(e, 0, x)
      <4>1. 0 \in Nat /\ 1 \in Nat /\ 0 <= 1
        OBVIOUS
      <4> QED  BY <3>3, <4>1, Sooner
    <3> QED  BY <2>2, <3>4, BackKeeps
  <2> QED  BY <1>4, <2>1, <2>3, <2>4
<1>5. ASSUME NEW x \in Below(root), selected'[x] # << >>  PROVE Recleared(f, 0, x)
  <2>x. x \in Instructions
    BY <1>1
  <2>1. selected[x] # << >> /\ ~(op = "reset" /\ x = i)
    BY <1>0, <1>3, <1>5, <2>x DEF Effects, Selects, UnderWay, Selections
  <2> QED  BY <2>1, BackKeeps DEF Remains
<1>6. ASSUME NEW x \in Below(root), Kind[x] \in Threaded, NEW c \in ChildSet(x), wrapper'[c] # "absent"
      PROVE  Recleared(f, 0, x) \/ \E k \in 1 .. Len(f) : f[k] = <<"join", x>>
  <2>x. x \in Instructions /\ c \in Instructions
    BY <1>1, ChildrenAreInstructions
  <2>1. wrapper[c] # "absent" /\ ~(op = "join" /\ i = x)
    BY <1>0, <1>3, <1>6, <2>x DEF Effects, Wraps, Tables
  <2>2. CASE Recleared(e, 0, x)
    <3>1. CASE op = "reset" /\ x = i
      <4>1. calls = ResetCalls(i)
        BY <1>0, <3>1 DEF Moves, MakesAlways
      <4>2. PICK a \in 0 .. 2 : ResetShape(i, calls, a)
        BY <1>1, <4>1, ResetHasShape
      <4>3. PICK k \in 1 .. a : calls[k] = <<"join", i>>
        BY <1>6, <3>1, <4>2 DEF ResetShape
      <4>4. k \in 1 .. Len(calls)
        BY <4>2 DEF ResetShape
      <4>5. k \in 1 .. Len(f) /\ f[k] = calls[k]
        BY <1>1, <4>4 DEF Spliced
      <4> QED  BY <3>1, <4>3, <4>5
    <3> QED  BY <2>2, <3>1, BackKeeps
  <2>3. ASSUME NEW k \in 1 .. Len(e), e[k] = <<"join", x>>  PROVE \E m \in 1 .. Len(f) : f[m] = <<"join", x>>
    <3>1. k # 1
      BY <1>1, <2>1, <2>3
    <3>2. k \in 2 .. Len(e)
      BY <3>1
    <3> QED  BY <1>1, <2>3, <3>2 DEF Spliced
  <2> QED  BY <1>6, <2>1, <2>2, <2>3 DEF Remains
<1>7. \A x \in Below(root) :
        /\ status'[x] # "NOT_STARTED" \/ haltReq'[x] => Cleared(f, 0, x)
        /\ selected'[x] # << >> => Recleared(f, 0, x)
        /\ Kind[x] \in Threaded => \A c \in ChildSet(x) : wrapper'[c] # "absent" =>
             Recleared(f, 0, x) \/ \E k \in 1 .. Len(f) : f[k] = <<"join", x>>
  BY <1>4, <1>5, <1>6
<1> QED  BY <1>0, <1>7 DEF Remains, Cleared, Recleared, Below, Closed, ChildSet

LEMMA WalksOnBack ==
  ASSUME StartInv, NEW op, NEW i, NEW calls, NEW e, NEW f, Advances(Ticker, op, i, calls, e, f),
         WalksBack(e)
  PROVE  WalksBack(f)
<1>t. Ticker \in Doers
  BY DEF Doers
<1>b. PICK b : b = Base(Ticker)
  OBVIOUS
<1>o. PICK y : y = Owner(<<op, i>>)
  OBVIOUS
<1>0. Moves(Ticker, op, i, calls)
  BY DEF Advances
<1>1. /\ Spliced(e, calls, f) /\ e[1] = <<op, i>> /\ i \in Instructions /\ 1 \in 1 .. Len(e)
      /\ Proceeds(op, y, calls)
  BY <1>t, <1>b, <1>o, Advanced
<1>n. PICK n : n = Len(calls)
  OBVIOUS
<1>2. /\ n \in Nat /\ Len(e) \in Nat
      /\ \A k \in 1 .. Len(f) :
           \/ k \in 1 .. n /\ f[k] = calls[k] /\ NeatAt(op, y, calls, k)
           \/ \E j \in 2 .. Len(e) : k = n + j - 1 /\ f[k] = e[j]
      /\ \A k \in 1 .. n : k \in 1 .. Len(f) /\ f[k] = calls[k]
  BY <1>1, <1>n DEF Spliced, Proceeds, Neat
<1>3. BackAt(e, 1) /\ op \in Backward
  <2>1. BackAt(e, 1)
    BY <1>1 DEF WalksBack
  <2> QED  BY <1>1, <2>1 DEF BackAt
<1> SUFFICES ASSUME NEW k \in 1 .. Len(f)  PROVE BackAt(f, k)
  BY DEF WalksBack
<1>4. ASSUME NEW j \in 2 .. Len(e), k = n + j - 1, f[k] = e[j]  PROVE BackAt(f, k)
  <2>1. j \in 1 .. Len(e) /\ BackAt(e, j)
    BY <1>2 DEF WalksBack
  <2>2. \A z : /\ Recleared(e, j, z) => Recleared(f, k, z)
               /\ Cleared(e, j, z) => Cleared(f, k, z)
    BY <1>1, <1>n, <1>4, <2>1, Shifted
  <2> QED  BY <1>4, <2>1, <2>2 DEF BackAt
<1>5. ASSUME k \in 1 .. n, f[k] = calls[k], NeatAt(op, y, calls, k)  PROVE BackAt(f, k)
  <2>1. calls[k][1] \in Backward
    <3>1. Quiet(calls[k]) => calls[k][1] \in Backward
      BY DEF Quiet, Signals, Backward
    <3> QED  BY <1>3, <1>5, <3>1 DEF NeatAt
  <2>2. CASE op = "reset"
    <3>1. calls = ResetCalls(i)
      BY <1>0, <2>2 DEF Moves, MakesAlways
    <3>2. PICK a \in 0 .. 2 : ResetShape(i, calls, a)
      BY <1>1, <3>1, ResetHasShape
    <3>3. PICK l : l = Len(Children[i])
      OBVIOUS
    <3>4. ResetPlaced(i, calls, a, l)
      BY <1>1, <3>2, <3>3, ResetPlaces
    <3>5. ASSUME calls[k][1] \in {"halt", "join"}  PROVE k \in 0 .. a /\ calls[k][2] = i
      <4>1. k \in 1 .. Len(calls)
        BY <1>5, <1>n
      <4> QED  BY <3>4, <3>5, <4>1 DEF ResetPlaced
    <3>6. k \in 0 .. a => /\ \A z \in StrictlyBelow(i) : Recleared(f, k, z)
                          /\ \A z \in Below(i) : Cleared(f, k, z)
      BY <1>1, <3>4, ResetRenews
    <3> QED  BY <1>5, <2>1, <3>5, <3>6 DEF BackAt
  <2>3. CASE op = "halt"
    <3>1. calls = HaltCalls(i) /\ y = i
      BY <1>0, <1>o, <2>3 DEF Moves, MakesAlways, Owner
    <3>2. Quiet(calls[k])
      BY <1>1, <1>5, <1>n, <3>1, HaltIsQuiet
    <3>3. calls[k][2] \in {i} \union ChildSet(i)
      BY <1>5, <3>1, <3>2 DEF NeatAt
    <3>4. Below(calls[k][2]) \subseteq Below(i)
      BY <1>1, <3>3, BelowClosed
    <3>5. ASSUME NEW z \in Below(i)  PROVE Cleared(f, k, z)
      <4>1. Cleared(e, 1, z)
        BY <1>1, <1>3, <2>3, <3>5 DEF BackAt
      <4>2. PICK l \in Nat : l = n + 1 - 1
        BY <1>2
      <4>3. Cleared(f, l, z)
        BY <1>1, <1>n, <4>1, <4>2, Shifted
      <4>4. k \in Nat /\ k <= l
        BY <1>2, <1>5, <4>2
      <4> QED  BY <4>3, <4>4, Sooner
    <3>6. calls[k][1] # "join"
      BY <3>2 DEF Quiet, Signals
    <3> QED  BY <1>5, <2>1, <3>4, <3>5, <3>6 DEF BackAt
  <2>4. CASE op \notin {"reset", "halt"}
    <3>1. calls = << >>
      BY <1>0, <1>3, <2>4 DEF Moves, MakesAlways, Backward
    <3> QED  BY <1>5, <1>n, <3>1
  <2> QED  BY <2>2, <2>3, <2>4
<1> QED  BY <1>2, <1>4, <1>5
-----------------------------------------------------------------------------
(* A reset of the procedure runs to its end                                  *)

\* The call that clears the root stays the last one.
LEMMA ResetGoesOn ==
  ASSUME ResetInv, NEW op, NEW i, NEW calls, NEW e, NEW f, Advances(Ticker, op, i, calls, e, f), Undone(e)
  PROVE  f = << >> \/ (Undone(f) /\ Undoes(f[Len(f)]))
<1>t. Ticker \in Doers
  BY DEF Doers
<1>b. PICK b : b = Base(Ticker)
  OBVIOUS
<1>o. PICK y : y = Owner(<<op, i>>)
  OBVIOUS
<1>n. PICK n : n = Len(calls)
  OBVIOUS
<1>0. Moves(Ticker, op, i, calls) /\ StartInv /\ Undoes(e[Len(e)])
  BY DEF Advances, ResetInv, EndsReset
<1>1. /\ Spliced(e, calls, f) /\ e[1] = <<op, i>> /\ i \in Instructions /\ Turns(e, y, calls, f)
      /\ e \in Seq(AnyCall) /\ calls \in Seq(AnyCall)
  BY <1>0, <1>t, <1>b, <1>o, Advanced
<1>2. /\ n \in Nat /\ Len(e) \in Nat \ {0} /\ Len(f) = n + Len(e) - 1
      /\ \A k \in 1 .. n : k \in 1 .. Len(f) /\ f[k] = calls[k]
      /\ \A j \in 2 .. Len(e) : n + j - 1 \in 1 .. Len(f) /\ f[n + j - 1] = e[j]
  BY <1>1, <1>n DEF Spliced
<1>3. CASE Len(e) # 1
  <2>1. Len(e) \in 2 .. Len(e)
    <3>1. PICK l : l = Len(e)
      OBVIOUS
    <3>2. l \in Nat /\ l # 0 /\ l # 1
      BY <1>2, <1>3, <3>1
    <3>3. l \in 2 .. l
      BY <3>2
    <3> QED  BY <3>1, <3>3
  <2>2. Len(f) \in 1 .. Len(f) /\ f[Len(f)] = e[Len(e)]
    BY <1>2, <2>1
  <2> QED  BY <1>0, <2>2 DEF Undone
<1>4. CASE Len(e) = 1 /\ op = "reset"
  <2>1. calls = ResetCalls(i) /\ i = root
    BY <1>0, <1>1, <1>4 DEF Moves, MakesAlways, Undoes
  <2>2. PICK a \in 0 .. 2 : ResetShape(i, calls, a)
    BY <1>1, <2>1, ResetHasShape
  <2>3. PICK l : l = Len(Children[i])
    OBVIOUS
  <2>4. ResetPlaced(i, calls, a, l)
    BY <1>1, <2>2, <2>3, ResetPlaces
  <2>5. n = a + l + 1 /\ a + l + 1 \in 1 .. n /\ calls[a + l + 1] = <<"clear", i>>
    BY <2>4, <1>n DEF ResetPlaced
  <2>6. n \in 1 .. n /\ calls[n] = <<"clear", i>>
    BY <2>5
  <2>7. Len(f) = n /\ Len(f) \in 1 .. Len(f) /\ f[Len(f)] = <<"clear", root>>
    BY <1>2, <1>4, <2>1, <2>6
  <2> QED  BY <2>7 DEF Undone, Undoes
<1>5. CASE Len(e) = 1 /\ op # "reset"
  <2>1. op = "clear"
    BY <1>0, <1>1, <1>5 DEF Undoes
  <2>2. calls = << >>
    BY <1>0, <2>1 DEF Moves, MakesAlways
  <2>3. n = 0
    BY <1>n, <2>2
  <2>4. Len(f) = 0
    BY <1>2, <1>5, <2>3
  <2>5. f \in Seq(AnyCall)
    BY <1>1, Places DEF Turns
  <2> QED  BY <2>4, <2>5
<1> QED  BY <1>3, <1>4, <1>5

\* A tick does not come to reset the root, and leaves it started.
LEMMA TickGoesOn ==
  ASSUME ResetInv, NEW op, NEW i, NEW calls, NEW e, NEW f, Advances(Ticker, op, i, calls, e, f), ~Undone(e)
  PROVE  /\ ~Undone(f)
         /\ status'[root] # "NOT_STARTED" \/ Begins(f)
<1>t. Ticker \in Doers
  BY DEF Doers
<1>b. PICK b : b = Base(Ticker)
  OBVIOUS
<1>o. PICK y : y = Owner(<<op, i>>)
  OBVIOUS
<1>n. PICK n : n = Len(calls)
  OBVIOUS
<1>0. Moves(Ticker, op, i, calls) /\ StartInv /\ Tables /\ e = agenda[Ticker] /\ root \in Roots /\ root \in Instructions
  BY TreeAssumption DEF Advances, ResetInv, StartInv, ExclusiveInv
<1>1. /\ Spliced(e, calls, f) /\ e[1] = <<op, i>> /\ i \in Instructions /\ 1 \in 1 .. Len(e)
  BY <1>0, <1>t, <1>b, <1>o, Advanced
<1>2. /\ n \in Nat /\ Len(e) \in Nat
      /\ \A k \in 1 .. Len(f) :
           \/ k \in 1 .. n /\ f[k] = calls[k]
           \/ \E j \in 2 .. Len(e) : k = n + j - 1 /\ f[k] = e[j]
      /\ \A j \in 2 .. Len(e) : n + j - 1 \in 1 .. Len(f) /\ f[n + j - 1] = e[j]
  BY <1>1, <1>n DEF Spliced
<1>3. <<op, i>> # <<"reset", root>> /\ <<op, i>> # <<"clear", root>>
  BY <1>1 DEF Undone, Undoes
<1>4. ASSUME NEW k \in 1 .. n, Undoes(calls[k])  PROVE FALSE
  <2>1. calls[k][1] \in {"reset", "clear"} /\ calls[k][2] = root
    BY <1>4 DEF Undoes
  <2>2. ~Quiet(calls[k]) /\ Owner(calls[k]) = root
    BY <2>1 DEF Quiet, Signals, Owner
  <2>3. k \in 1 .. Len(calls)
    BY <1>n
  <2>4. NeatAt(op, y, calls, k) /\ y \in Below(root)
    BY <1>0, <1>t, <1>o, <2>2, <2>3, NewCall
  <2>5. root \in Below(root)
    BY <1>0, BelowClosed
  <2>6. calls[k][1] # "reset"
    BY <1>0, <2>1, <2>2, <2>4, <2>5, OneParent DEF NeatAt
  <2>7. op = "reset" /\ y = root
    BY <2>1, <2>2, <2>4, <2>6 DEF NeatAt
  <2> QED  BY <1>3, <1>o, <2>7 DEF Owner
<1>5. ~Undone(f)
  <2> SUFFICES ASSUME NEW k \in 1 .. Len(f), Undoes(f[k])  PROVE FALSE
    BY DEF Undone
  <2>1. CASE k \in 1 .. n /\ f[k] = calls[k]
    BY <1>4, <2>1
  <2>2. ASSUME NEW j \in 2 .. Len(e), f[k] = e[j]  PROVE FALSE
    <3>1. j \in 1 .. Len(e)
      BY <1>2
    <3> QED  BY <2>2, <3>1 DEF Undone
  <2> QED  BY <1>2, <2>1, <2>2
<1>6. CASE status[root] # "NOT_STARTED"
  <2>1. status'[root] # status[root] => status'[root] # "NOT_STARTED"
    BY <1>0, <1>1, <1>3, Remarked DEF Started
  <2> QED  BY <1>5, <1>6, <2>1
<1>7. ASSUME NEW k \in 1 .. Len(e), e[k] = <<"exec", root>>
      PROVE  status'[root] # "NOT_STARTED" \/ Begins(f)
  <2>1. CASE k = 1
    <3>1. op = "exec" /\ i = root
      BY <1>1, <1>7, <2>1
    <3> QED  BY <1>0, <3>1, ExecStarts
  <2>2. CASE k # 1
    <3>1. k \in 2 .. Len(e)
      BY <1>2, <2>2
    <3> QED  BY <1>2, <1>7, <3>1 DEF Begins
  <2> QED  BY <2>1, <2>2
<1>8. status[root] # "NOT_STARTED" \/ Begins(e)
  <2>1. ~Idle(Ticker)
    BY <1>0, <1>1 DEF Idle
  <2> QED  BY <1>0, <2>1 DEF ResetInv, Ticking
<1> QED  BY <1>5, <1>6, <1>7, <1>8 DEF Begins

LEMMA TickerResets ==
  ASSUME ResetInv, StartInv', NEW op, NEW i, NEW calls, Moves(Ticker, op, i, calls)
  PROVE  ResetInv'
<1>e. PICK e : e = agenda[Ticker]
  OBVIOUS
<1>f. PICK f : f = agenda'[Ticker]
  OBVIOUS
<1>0. /\ Advances(Ticker, op, i, calls, e, f) /\ StartInv /\ UNCHANGED <<root, halted>>
      /\ agenda'[Halter] = agenda[Halter] /\ e # << >>
  <2>1. Due(Ticker, op, i) /\ Takes(Ticker, op, i, calls) /\ UNCHANGED <<root, halted>>
    BY DEF Moves
  <2>2. agenda'[Halter] = agenda[Halter]
    BY <2>1 DEF Takes, Ticker, Halter
  <2> QED  BY <1>e, <1>f, <2>1, <2>2 DEF Advances, ResetInv, Due
<1>1. Undone(f)' <=> Undone(f)
  BY <1>0 DEF Undone, Undoes
<1>2. EndsReset'
  <2>1. Undone(f) => f # << >>
    BY DEF Undone
  <2>2. Undone(f) => Undoes(f[Len(f)])
    BY <1>0, <2>1, ResetGoesOn, TickGoesOn
  <2>3. Undone(f)' => Undoes(f[Len(f)])'
    BY <1>0, <1>1, <2>2 DEF Undoes
  <2> QED  BY <1>f, <2>3 DEF EndsReset
<1>3. Ticking'
  <2>1. f # << >> /\ ~Undone(f) => status'[root] # "NOT_STARTED" \/ Begins(f)
    <3>1. CASE Undone(e)
      BY <1>0, <3>1, ResetGoesOn
    <3>2. CASE ~Undone(e)
      BY <1>0, <3>2, TickGoesOn
    <3> QED  BY <3>1, <3>2
  <2>2. Begins(f)' <=> Begins(f)
    BY <1>0 DEF Begins
  <2> QED  BY <1>0, <1>1, <1>f, <2>1, <2>2 DEF Ticking, Idle
<1>4. (halted \/ Idle(Halter))'
  BY <1>0 DEF ResetInv, Idle
<1>5. Afresh' => Remains(f)' /\ WalksBack(f)'
  <2> SUFFICES ASSUME Afresh'  PROVE Remains(f)' /\ WalksBack(f)'
    OBVIOUS
  <2>1. ~halted /\ (Undone(f) \/ (f = << >> /\ status'[root] = "NOT_STARTED"))
    BY <1>0, <1>1, <1>f DEF Afresh, Idle
  <2>2. Undone(e)
    <3> SUFFICES ASSUME ~Undone(e)  PROVE FALSE
      OBVIOUS
    <3>1. ~Undone(f) /\ (status'[root] # "NOT_STARTED" \/ Begins(f))
      BY <1>0, TickGoesOn
    <3>2. f # << >>
      BY <2>1, <3>1 DEF Begins
    <3> QED  BY <2>1, <3>1, <3>2
  <2>3. Remains(e) /\ WalksBack(e)
    BY <1>e, <2>1, <2>2 DEF ResetInv, Afresh
  <2>4. Remains(f)' /\ WalksBack(f)
    BY <1>0, <2>3, RemainsBack, WalksOnBack
  <2>5. WalksBack(f)'
    BY <2>4 DEF WalksBack, BackAt, Cleared, Recleared, StrictlyBelow, Below, Closed, ChildSet
  <2> QED  BY <2>4, <2>5
<1>6. Afresh' => Remains(agenda[Ticker])' /\ WalksBack(agenda[Ticker])'
  BY <1>f, <1>5
<1> QED  BY <1>2, <1>3, <1>4, <1>6 DEF ResetInv

\* What a worker is about is going to be reset with the rest.
LEMMA WorkerCovered ==
  ASSUME StartInv, NEW t \in Workers, ~Idle(t), NEW e, e = agenda[Ticker], Remains(e), WalksBack(e),
         NEW z \in Below(t)
  PROVE  Recleared(e, 0, z)
<1>1. root \in Instructions /\ t \in Instructions /\ Below(root) \subseteq Instructions
  BY ThreadNames, TreeAssumption, BelowClosed DEF StartInv, ExclusiveInv
<1>2. wrapper[t] = "RUNNING"
  BY DEF StartInv, WrapperInv, WrapperKnowsThread
<1>3. PICK p \in Below(root) : Kind[p] \in Threaded /\ t \in ChildSet(p)
  BY <1>1, <1>2 DEF StartInv, InTree
<1>4. Recleared(e, 0, p) \/ \E k \in 1 .. Len(e) : e[k] = <<"join", p>>
  BY <1>2, <1>3 DEF Remains
<1>5. CASE Recleared(e, 0, p)
  <2>1. PICK m \in 0 + 1 .. Len(e) : e[m][1] = "reset" /\ p \in Below(e[m][2])
    BY <1>5 DEF Recleared
  <2>2. e[m] \in AnyCall
    <3>1. Ticker \in Doers /\ m \in 1 .. Len(agenda[Ticker])
      BY <2>1 DEF Doers
    <3>2. ExclusiveInv
      BY DEF StartInv
    <3> QED  BY <3>1, <3>2, AtCall
  <2>3. e[m][2] \in Instructions
    BY <2>2 DEF AnyCall
  <2>4. t \in Below(e[m][2])
    BY <1>3, <2>1, <2>3, BelowClosed
  <2>5. z \in Below(e[m][2])
    BY <2>3, <2>4, BelowClosed
  <2> QED  BY <2>1, <2>5 DEF Recleared
<1>6. ASSUME NEW k \in 1 .. Len(e), e[k] = <<"join", p>>  PROVE Recleared(e, 0, z)
  <2>1. p \in Instructions /\ t \in StrictlyBelow(p) /\ p \notin Below(t)
    BY <1>1, <1>3, ChildBelow
  <2>2. z \in StrictlyBelow(p)
    BY <2>1, BelowClosed DEF StrictlyBelow
  <2>3. Recleared(e, k, z)
    BY <1>6, <2>2 DEF WalksBack, BackAt
  <2>4. k \in Nat /\ 0 \in Nat /\ 0 <= k
    OBVIOUS
  <2> QED  BY <2>3, <2>4, Sooner
<1> QED  BY <1>4, <1>5, <1>6

\* It leaves nothing else behind.
LEMMA WorkerLeaves ==
  ASSUME StartInv, NEW t \in Workers, NEW op, NEW i, NEW calls, Moves(t, op, i, calls),
         NEW e, e = agenda[Ticker], Remains(e), WalksBack(e)
  PROVE  Remains(e)'
<1>0. /\ UNCHANGED root /\ Tables /\ Selections /\ ExclusiveInv /\ Effects(op, i, calls) /\ Due(t, op, i) /\ Laid
  BY DEF Moves, StartInv, ExclusiveInv
<1>1. t \in Doers /\ Base(t) = t
  BY ThreadNames DEF Doers, Base
<1>2. /\ 1 \in 1 .. Len(agenda[t]) /\ agenda[t][1] = <<op, i>> /\ i \in Instructions /\ ~Idle(t)
      /\ op \notin Signals => Owner(<<op, i>>) \in Below(t) /\ Owner(<<op, i>>) \in Below(root)
      /\ Below(root) \subseteq Instructions
  <2>1. ~Idle(t)
    BY <1>0 DEF Due, Idle
  <2>2. root \in Instructions
    BY <1>0, TreeAssumption DEF ExclusiveInv
  <2> QED  BY <1>0, <1>1, <2>1, <2>2, AtFront, BelowClosed
<1>3. \A z \in Below(t) : Recleared(e, 0, z)
  BY <1>2, WorkerCovered
<1>4. ASSUME NEW x \in Below(root), status'[x] # "NOT_STARTED" \/ haltReq'[x]
      PROVE  Cleared(e, 0, x)
  <2>x. x \in Instructions
    BY <1>2
  <2>1. CASE status[x] # "NOT_STARTED" \/ haltReq[x]
    BY <2>1 DEF Remains
  <2>2. CASE status'[x] # status[x]
    <3>1. i = x /\ op \notin Signals /\ op # "react"
      BY <1>0, <1>2, <2>x, <2>2, Remarked DEF Signals, UnderWay
    <3>2. x \in Below(t)
      BY <1>2, <3>1 DEF Owner
    <3> QED  BY <1>3, <3>2 DEF Cleared
  <2>3. CASE haltReq'[x] /\ ~haltReq[x]
    <3>1. op = "halt" /\ i = x
      BY <1>0, <2>x, <2>3 DEF Effects, Signs, Tables
    <3>2. SignalsBelow(t, agenda[t])
      BY <1>0, <1>1 DEF Laid, Layout
    <3>3. Quiet(agenda[t][1]) /\ agenda[t][1][2] = x
      BY <1>2, <3>1 DEF Quiet, Signals
    <3>4. x \in Below(t)
      BY <1>2, <3>2, <3>3 DEF SignalsBelow
    <3> QED  BY <1>3, <3>4 DEF Cleared
  <2> QED  BY <1>4, <2>1, <2>2, <2>3
<1>5. ASSUME NEW x \in Below(root), selected'[x] # << >>  PROVE Recleared(e, 0, x)
  <2>x. x \in Instructions
    BY <1>2
  <2>1. CASE selected[x] # << >>
    BY <2>1 DEF Remains
  <2>2. CASE selected'[x] # selected[x]
    <3>1. i = x /\ op \in {"reset", "choose"}
      <4>1. Moves(t, op, i, calls) /\ Selections /\ i \in Instructions /\ x \in Instructions
        BY <1>0, <1>2, <2>x
      <4>2. i = x /\ (op = "reset" \/ (op = "choose" /\ calls = << >>))
        BY <2>2, <4>1, Reselected, ZenonT(60)
      <4> QED  BY <4>2
    <3> QED  BY <1>2, <1>3, <3>1 DEF Owner, Signals
  <2> QED  BY <1>5, <2>1, <2>2
<1>6. ASSUME NEW x \in Below(root), Kind[x] \in Threaded, NEW c \in ChildSet(x), wrapper'[c] # "absent"
      PROVE  Recleared(e, 0, x) \/ \E k \in 1 .. Len(e) : e[k] = <<"join", x>>
  <2>x. x \in Instructions /\ c \in Instructions
    BY <1>2, ChildrenAreInstructions
  <2>1. CASE wrapper[c] # "absent"
    BY <1>6, <2>1 DEF Remains
  <2>2. CASE wrapper'[c] # wrapper[c] /\ wrapper[c] = "absent"
    <3>1. ~(op = "tick" /\ i = c)
      BY <1>0, <1>1, <2>2, TickEquipped
    <3>2. op = "exec" /\ c \in Wrapped(i)
      <4>1. Moves(t, op, i, calls) /\ Tables /\ i \in Instructions /\ c \in Instructions
        BY <1>0, <1>2, <2>x
      <4> QED  BY <1>6, <2>2, <3>1, <4>1, Rewrapped
    <3>3. i \in Below(t) /\ i \in Below(root) /\ c \in ChildSet(i)
      BY <1>2, <3>2 DEF Owner, Signals, Wrapped
    <3>4. i = x
      BY <1>0, <1>6, <3>3, SameParent
    <3> QED  BY <1>3, <3>3, <3>4
  <2> QED  BY <1>6, <2>1, <2>2
<1>7. \A x \in Below(root) :
        /\ status'[x] # "NOT_STARTED" \/ haltReq'[x] => Cleared(e, 0, x)
        /\ selected'[x] # << >> => Recleared(e, 0, x)
        /\ Kind[x] \in Threaded => \A c \in ChildSet(x) : wrapper'[c] # "absent" =>
             Recleared(e, 0, x) \/ \E k \in 1 .. Len(e) : e[k] = <<"join", x>>
  BY <1>4, <1>5, <1>6
<1> QED  BY <1>0, <1>7 DEF Remains, Cleared, Recleared, Below, Closed, ChildSet

\* A worker does not touch the root, nor the agenda of the loop thread.
LEMMA WorkerApart ==
  ASSUME StartInv, NEW t \in Workers, NEW op, NEW i, NEW calls, Moves(t, op, i, calls)
  PROVE  /\ UNCHANGED <<root, halted>> /\ agenda'[Ticker] = agenda[Ticker] /\ agenda'[Halter] = agenda[Halter]
         /\ status'[root] = status[root]
<1>0. /\ UNCHANGED <<root, halted>> /\ Tables /\ ExclusiveInv /\ Due(t, op, i) /\ Takes(t, op, i, calls)
  BY DEF Moves, StartInv
<1>1. t \in Doers /\ Base(t) = t /\ Ticker \in Doers \ {t} /\ t # Halter
  BY ThreadNames DEF Doers, Base
<1>2. i \in Instructions /\ (op \notin Signals => Owner(<<op, i>>) \in Below(t))
  BY <1>0, <1>1, AtFront
<1>3. agenda'[Ticker] = agenda[Ticker] /\ agenda'[Halter] = agenda[Halter]
  <2>1. Ticker # i
    BY <1>2, TreeAssumption
  <2> QED  BY <1>0, <1>1, <2>1 DEF Takes
<1>4. root \notin Below(t) /\ root \in Instructions
  <2>1. 1 \in 1 .. Len(agenda[t])
    BY <1>0, <1>1, AtFront
  <2>2. root \in Instructions /\ t \in Below(root) /\ t # root
    BY <1>0, <1>1, <2>1, AtCall
  <2> QED  BY <2>2, BelowOneWay DEF StrictlyBelow
<1>5. status'[root] = status[root]
  <2> SUFFICES ASSUME status'[root] # status[root]  PROVE FALSE
    OBVIOUS
  <2>1. i = root /\ op \notin Signals /\ op # "react"
    BY <1>0, <1>2, <1>4, Remarked DEF Signals, UnderWay
  <2> QED  BY <1>2, <1>4, <2>1 DEF Owner
<1> QED  BY <1>0, <1>3, <1>5

LEMMA WorkerResets ==
  ASSUME ResetInv, StartInv', NEW t \in Workers, NEW op, NEW i, NEW calls, Moves(t, op, i, calls)
  PROVE  ResetInv'
<1>e. PICK e : e = agenda[Ticker]
  OBVIOUS
<1>0. /\ StartInv /\ UNCHANGED <<root, halted>> /\ agenda'[Ticker] = e /\ agenda'[Halter] = agenda[Halter]
      /\ status'[root] = status[root]
  BY <1>e, WorkerApart DEF ResetInv
<1>1. Undone(e)' <=> Undone(e)
  BY <1>0 DEF Undone, Undoes
<1>2. EndsReset'
  <2>1. Undone(e) => Undoes(e[Len(e)])
    BY <1>e DEF ResetInv, EndsReset
  <2>2. Undone(e)' => Undoes(e[Len(e)])'
    BY <1>0, <1>1, <2>1 DEF Undoes
  <2> QED  BY <1>0, <2>2 DEF EndsReset
<1>3. Ticking'
  <2>1. Begins(e)' <=> Begins(e)
    BY <1>0 DEF Begins
  <2>2. e # << >> /\ ~Undone(e) => status[root] # "NOT_STARTED" \/ Begins(e)
    BY <1>e DEF ResetInv, Ticking, Idle
  <2> QED  BY <1>0, <1>1, <2>1, <2>2 DEF Ticking, Idle
<1>4. (halted \/ Idle(Halter))'
  BY <1>0 DEF ResetInv, Idle
<1>5. Afresh' => Remains(e)' /\ WalksBack(e)'
  <2> SUFFICES ASSUME Afresh'  PROVE Remains(e)' /\ WalksBack(e)'
    OBVIOUS
  <2>1. Afresh
    BY <1>0, <1>1, <1>e DEF Afresh, Idle
  <2>2. Remains(e) /\ WalksBack(e)
    BY <1>e, <2>1 DEF ResetInv
  <2>3. WalksBack(e)'
    BY <2>2 DEF WalksBack, BackAt, Cleared, Recleared, StrictlyBelow, Below, Closed, ChildSet
  <2> QED  BY <1>0, <1>e, <2>2, <2>3, WorkerLeaves
<1>6. Afresh' => Remains(agenda[Ticker])' /\ WalksBack(agenda[Ticker])'
  BY <1>0, <1>5
<1> QED  BY <1>2, <1>3, <1>4, <1>6 DEF ResetInv
-----------------------------------------------------------------------------
(* Every step keeps a reset on its way                                       *)

LEMMA MoveKeepsReset ==
  ASSUME ResetInv, StartInv', NEW t \in Threads, NEW op, NEW i, NEW calls, Moves(t, op, i, calls)
  PROVE  ResetInv'
<1>1. CASE t = Ticker
  BY <1>1, TickerResets
<1>2. CASE t \in Workers
  BY <1>2, WorkerResets
<1>3. CASE t = Halter
  <2>1. halted
    BY <1>3 DEF ResetInv, Moves, Due, Idle
  <2>2. /\ UNCHANGED <<root, halted, status>> /\ agenda'[Ticker] = agenda[Ticker]
    BY <1>3, HalterQuiet DEF ResetInv, Doers
  <2>3. EndsReset'
    BY <2>2 DEF ResetInv, EndsReset, Undone, Undoes
  <2>4. Ticking'
    BY <2>2 DEF ResetInv, Ticking, Idle, Undone, Undoes, Begins
  <2>5. halted' /\ ~Afresh'
    BY <2>1, <2>2 DEF Afresh
  <2> QED  BY <2>3, <2>4, <2>5 DEF ResetInv
<1> QED  BY <1>1, <1>2, <1>3, ThreadNames DEF Doers

LEMMA ResetInit == Init => ResetInv
<1> SUFFICES ASSUME Init  PROVE ResetInv
  OBVIOUS
<1>1. StartInv
  BY StartInit
<1>2. agenda[Ticker] = << >> /\ Idle(Halter)
  BY DEF Init, Threads, Idle
<1>3. EndsReset /\ Ticking
  BY <1>2 DEF EndsReset, Ticking, Undone, Idle
<1>4. /\ root \in Instructions /\ status = [i \in Instructions |-> "NOT_STARTED"]
      /\ haltReq = [i \in Instructions |-> FALSE] /\ wrapper = [i \in Instructions |-> "absent"]
      /\ selected = [i \in Instructions |-> << >>]
  BY TreeAssumption DEF Init
<1>5. Below(root) \subseteq Instructions /\ \A x \in Below(root) : ChildSet(x) \subseteq Instructions
  BY <1>4, BelowClosed, ChildrenAreInstructions
<1>6. Remains(agenda[Ticker])
  BY <1>4, <1>5 DEF Remains
<1>7. WalksBack(agenda[Ticker])
  BY <1>2 DEF WalksBack
<1> QED  BY <1>1, <1>2, <1>3, <1>6, <1>7 DEF ResetInv

\* When the procedure is reset, nothing else is under way.
LEMMA BeginResetKeeps ==
  ASSUME ResetInv, StartInv', BeginReset
  PROVE  ResetInv'
<1>e. PICK e : e = Call("reset", root)
  OBVIOUS
<1>1. /\ agenda'[Ticker] = e /\ agenda'[Halter] = agenda[Halter] /\ Idle(Halter)
      /\ UNCHANGED root /\ root \in Instructions
  <2>1. agenda \in [Threads -> Seq(AnyCall)] /\ root \in Instructions
    BY TreeAssumption DEF ResetInv, StartInv, ExclusiveInv, Walks
  <2> QED  BY <1>e, <2>1 DEF BeginReset, Threads, Ticker, Halter
<1>2. Len(e) = 1 /\ e[1] = <<"reset", root>> /\ 1 .. Len(e) = {1} /\ 0 + 1 .. Len(e) = {1}
  BY <1>e DEF Call
<1>3. EndsReset' /\ Ticking' /\ (halted \/ Idle(Halter))'
  BY <1>1, <1>2 DEF EndsReset, Ticking, Undone, Undoes, Idle
<1>4. \A x \in Below(root) : Recleared(e, 0, x) /\ Cleared(e, 0, x)
  BY <1>2 DEF Recleared, Cleared
<1>5. \A x \in Below(root) :
        /\ status'[x] # "NOT_STARTED" \/ haltReq'[x] => Cleared(e, 0, x)
        /\ selected'[x] # << >> => Recleared(e, 0, x)
        /\ Kind[x] \in Threaded => \A c \in ChildSet(x) : wrapper'[c] # "absent" =>
             Recleared(e, 0, x) \/ \E k \in 1 .. Len(e) : e[k] = <<"join", x>>
  BY <1>4
<1>6. Remains(e)'
  BY <1>1, <1>5 DEF Remains, Cleared, Recleared, Below, Closed, ChildSet
<1>7. BackAt(e, 1)
  BY <1>2 DEF BackAt, Backward
<1>8. WalksBack(e)
  BY <1>2, <1>7 DEF WalksBack
<1>9. WalksBack(e)'
  BY <1>8 DEF WalksBack, BackAt, Cleared, Recleared, StrictlyBelow, Below, Closed, ChildSet
<1> QED  BY <1>1, <1>3, <1>6, <1>9 DEF ResetInv

LEMMA BeginTickKeeps ==
  ASSUME ResetInv, StartInv', BeginTick
  PROVE  ResetInv'
<1>e. PICK e : e = Call("exec", root)
  OBVIOUS
<1>1. /\ agenda'[Ticker] = e /\ agenda'[Halter] = agenda[Halter] /\ UNCHANGED <<root, halted>>
  <2>1. agenda \in [Threads -> Seq(AnyCall)]
    BY DEF ResetInv, StartInv, ExclusiveInv, Walks
  <2> QED  BY <1>e, <2>1 DEF BeginTick, Threads, Ticker, Halter
<1>2. Len(e) = 1 /\ e[1] = <<"exec", root>> /\ 1 .. Len(e) = {1} /\ e # << >>
  BY <1>e DEF Call
<1>3. ~Undone(e)' /\ Begins(e)'
  BY <1>1, <1>2 DEF Undone, Undoes, Begins
<1>4. EndsReset' /\ Ticking' /\ ~Afresh'
  BY <1>1, <1>2, <1>3 DEF EndsReset, Ticking, Afresh, Idle
<1>5. (halted \/ Idle(Halter))'
  BY <1>1 DEF ResetInv, Idle
<1> QED  BY <1>4, <1>5 DEF ResetInv

LEMMA BeginHaltKeeps ==
  ASSUME ResetInv, StartInv', BeginHalt
  PROVE  ResetInv'
<1>1. agenda'[Ticker] = agenda[Ticker] /\ UNCHANGED <<root, status>> /\ halted'
  <2>1. agenda \in [Threads -> Seq(AnyCall)]
    BY DEF ResetInv, StartInv, ExclusiveInv, Walks
  <2> QED  BY <2>1 DEF BeginHalt, Threads, Ticker, Halter
<1>2. EndsReset' /\ Ticking' /\ ~Afresh'
  BY <1>1 DEF ResetInv, EndsReset, Ticking, Afresh, Idle, Undone, Undoes, Begins
<1> QED  BY <1>1, <1>2 DEF ResetInv

LEMMA StutterKeepsReset ==
  ASSUME ResetInv, StartInv', UNCHANGED vars
  PROVE  ResetInv'
<1>1. UNCHANGED <<root, status, haltReq, wrapper, selected, agenda, halted>>
  BY DEF vars
<1>2. EndsReset' /\ Ticking' /\ (halted \/ Idle(Halter))'
  BY <1>1 DEF ResetInv, EndsReset, Ticking, Idle, Undone, Undoes, Begins
<1>e. PICK e : e = agenda[Ticker]
  OBVIOUS
<1>3. Afresh' => Remains(e) /\ WalksBack(e)
  BY <1>1, <1>e DEF ResetInv, Afresh, Idle, Undone, Undoes
<1>4. Remains(e) => Remains(e)'
  BY <1>1 DEF Remains, Cleared, Recleared, Below, Closed, ChildSet
<1>5. WalksBack(e) => WalksBack(e)'
  BY DEF WalksBack, BackAt, Cleared, Recleared, StrictlyBelow, Below, Closed, ChildSet
<1>6. Afresh' => Remains(agenda[Ticker])' /\ WalksBack(agenda[Ticker])'
  BY <1>1, <1>e, <1>3, <1>4, <1>5
<1> QED  BY <1>2, <1>6 DEF ResetInv

LEMMA ResetStep ==
  ASSUME ResetInv, [Next]_vars  PROVE ResetInv'
<1>0. StartInv /\ StartInv'
  BY StartStep DEF ResetInv
<1>1. CASE BeginTick \/ BeginReset \/ BeginHalt \/ UNCHANGED vars
  BY <1>0, <1>1, BeginTickKeeps, BeginResetKeeps, BeginHaltKeeps, StutterKeepsReset
<1>2. ASSUME NEW t \in Threads, NEW i, Step(t, i) \/ Work(t, i)  PROVE ResetInv'
  <2>1. ExclusiveInv /\ Laid /\ Answers /\ Sure
    BY <1>0, InvIsSure DEF StartInv
  <2>2. PICK op, calls : Moves(t, op, i, calls)
    BY <1>2, <2>1, StepMoves
  <2> QED  BY <1>0, <1>2, <2>2, MoveKeepsReset
<1> QED  BY <1>1, <1>2 DEF Next

LEMMA InvIsNew == ResetInv => ResetTreeIsNew
<1> SUFFICES ASSUME ResetInv, status[root] = "NOT_STARTED", Idle(Ticker), ~halted,
                    NEW i \in Subtree[root]
             PROVE  /\ status[i] = "NOT_STARTED" /\ ~haltReq[i]
                    /\ wrapper[i] = "absent" /\ selected[i] = << >>
                    /\ i \in Workers => Idle(i)
  BY DEF ResetTreeIsNew
<1>e. PICK e : e = agenda[Ticker]
  OBVIOUS
<1>1. e = << >> /\ Remains(e)
  BY <1>e DEF ResetInv, Afresh, Idle
<1>2. root \in Instructions /\ StartInv
  BY TreeAssumption DEF ResetInv, StartInv, ExclusiveInv
<1>3. i \in Below(root) /\ i \in Instructions
  BY <1>2, SubtreeIsBelow, BelowClosed
<1>4. 1 .. Len(e) = {} /\ 0 + 1 .. Len(e) = {}
  BY <1>1
<1>5. \A x : ~Recleared(e, 0, x) /\ ~Cleared(e, 0, x)
  BY <1>4 DEF Recleared, Cleared
<1>6. status[i] = "NOT_STARTED" /\ ~haltReq[i] /\ selected[i] = << >>
  BY <1>1, <1>3, <1>5 DEF Remains
<1>7. wrapper[i] = "absent"
  <2> SUFFICES ASSUME wrapper[i] # "absent"  PROVE FALSE
    OBVIOUS
  <2>1. PICK p \in Below(root) : Kind[p] \in Threaded /\ i \in ChildSet(p)
    BY <1>2, <1>3 DEF StartInv, InTree
  <2> QED  BY <1>1, <1>4, <1>5, <2>1 DEF Remains
<1>8. i \in Workers => Idle(i)
  BY <1>2, <1>7 DEF StartInv, WrapperInv, WrapperKnowsThread
<1> QED  BY <1>6, <1>7, <1>8

\* Whatever the tree and however the earlier run ended: once Instruction::Reset has
\* come to the end of its walk, no halt flag, status, selection, wrapper or thread of that
\* run is left anywhere in the procedure, until it is halted or ticked again (Instruction::Reset,
\* ResetHook of the compounds).
THEOREM ResetTreeIsNewHolds == Spec => []ResetTreeIsNew
<1> QED  BY ResetInit, ResetStep, InvIsNew, PTL DEF Spec
=============================================================================
