---------------------------- MODULE NextInstructions ----------------------------
(***************************************************************************)
(* Which instructions the next tick will execute: NextInstructionsImpl of  *)
(* each type, the tree of Procedure::GetNextInstructionTree and its leaves. *)
(* The runner looks for breakpoints there before it ticks (runner.cpp), and *)
(* the client is shown the leaves.  A history variable keeps what the tick *)
(* was announced to execute, per thread that executes on its behalf.       *)
(***************************************************************************)
EXTENDS InstructionTree

VARIABLE announced   \* per thread: the instructions announced for its present tick

-----------------------------------------------------------------------------
(* NextInstructionsImpl                                                      *)

\* The compounds that go through a list: the first child that does not pass, if it
\* is ready; there is no next one after a child that fails or runs.
NextInList(s, pass) ==
  LET open == {k \in DOMAIN s : status[s[k]] # pass}
  IN IF open = {} THEN {} ELSE {c \in {s[FirstIn(open)]} : ReadyForExecute(status[c])}

NextOfSequence(i) == NextInList(Children[i], "SUCCESS")
NextOfFallback(i) == NextInList(Children[i], "FAILURE")
NextOfReactiveSequence(i) == NextInList(Children[i], "SUCCESS")
NextOfReactiveFallback(i) == NextInList(Children[i], "FAILURE")
NextOfChoice(i) == IF selected[i] = << >> THEN {} ELSE NextInList(selected[i][1], "SUCCESS")

NextOfUserChoice(i) ==
  IF selected[i] = << >> THEN {}
  ELSE {c \in {selected[i][1][1]} : ReadyForExecute(status[c])}

\* Faulty variant: only children that were not started come next.
NextOfParallelAtStart(i) ==
  IF \A c \in ChildSet(i) : wrapper[c] = "absent" THEN ChildSet(i)
  ELSE {c \in ChildSet(i) : wrapper[c] = "NOT_STARTED"}

\* All children before there are wrappers; then those whose wrapper is ready.
NextOfParallelSequence(i) ==
  IF \A c \in ChildSet(i) : wrapper[c] = "absent" THEN ChildSet(i)
  ELSE {c \in ChildSet(i) : ReadyForExecute(wrapper[c])}

NextOfDecorator(i) == {Child(i)}

NextInstructionsOf(i) ==
  CASE i \in Leaf -> {}
    [] Kind[i] = "Sequence"         -> NextOfSequence(i)
    [] Kind[i] = "Fallback"         -> NextOfFallback(i)
    [] Kind[i] = "ReactiveSequence" -> NextOfReactiveSequence(i)
    [] Kind[i] = "ReactiveFallback" -> NextOfReactiveFallback(i)
    [] Kind[i] = "Choice"           -> NextOfChoice(i)
    [] Kind[i] = "UserChoice"       -> NextOfUserChoice(i)
    [] Kind[i] = "ParallelSequence" -> NextOfParallelSequence(i)
    [] OTHER -> NextOfDecorator(i)

\* CreateNextInstructionTree, as the set of its instructions.
CreateNextInstructionTree(top) ==
  LET Within[n \in Nat] == IF n = 0 THEN {top} ELSE Within[n - 1] \union UNION {NextInstructionsOf(i) : i \in Within[n - 1]}
  IN Within[Cardinality(Subtree[top])]

\* Procedure::GetNextInstructionTree: none for a root that is finished or running.
GetNextInstructionTree ==
  IF ReadyForExecute(status[root]) THEN CreateNextInstructionTree(root) ELSE {}

\* What the observer of the job is told after a tick.
GetNextLeaves == {i \in GetNextInstructionTree : NextInstructionsOf(i) = {}}

-----------------------------------------------------------------------------
(* The history: the runner asks before each tick, a thread that is launched   *)
(* works on behalf of the thread that launches it.                            *)

AnnouncedBy(t) == CASE t = Ticker /\ Idle(Ticker) -> GetNextLeaves
                    [] t # Ticker /\ Idle(t) /\ \E u \in Threads : Due(u, "tick", t) ->
                         UNION {announced[u] : u \in {v \in Threads : Due(v, "tick", t)}}
                    [] OTHER -> announced[t]

\* What a thread has still to execute: the rest of the announcement is forgotten.
Ahead(calls) == UNION {Subtree[calls[k][2]] :
  k \in {j \in DOMAIN calls : calls[j][1] \in {"exec", "body", "work", "tick"}}}

AnnouncedInit == Init /\ announced = [t \in Threads |-> {}]

AnnouncedNext ==
  /\ Next
  /\ announced' = [t \in Threads |-> AnnouncedBy(t) \intersect Ahead(agenda'[t])]

AnnouncedSpec == AnnouncedInit /\ [][AnnouncedNext]_<<vars, announced>>

-----------------------------------------------------------------------------
(* Trees in which no instruction resets another within a tick, or waits for the
   user: a loop executes its child anew in the tick that reset it, and a reactive
   compound, a Listen and a UserChoice execute instructions that have not started
   while they report RUNNING, when there is no next instruction. *)
StepsAreAnnounced == \A i \in Subtree[root] :
  Kind[i] \notin Counting \union Reactive \union {"Listen", "UserChoice"}

(* Nothing is begun or continued by a tick that was not announced before it, also
   when other threads finish in between: so no breakpoint on it is passed unseen
   (runner.cpp:96-105), and the observer was shown it as a leaf that will be
   executed next (procedure.h:402). *)
NothingUnannounced ==
  StepsAreAnnounced =>
    \A t \in Threads : \A i \in Leaf :
      Due(t, "work", i) /\ status[i] = "NOT_FINISHED" => i \in announced[t]
=============================================================================
