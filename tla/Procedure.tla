------------------------------- MODULE Procedure -------------------------------
(***************************************************************************)
(* The set-up, reset and destruction of a procedure with its workspace,    *)
(* its store of included procedures and their workspaces                   *)
(* (procedure.cpp, procedure_store.cpp, workspace.cpp, variable.cpp), while *)
(* the threads of asynchronous instructions use those workspaces.          *)
(*                                                                         *)
(* Each of these operations is a list of calls.  A thread keeps the calls  *)
(* it still has to make in its agenda, as <<operation, argument>>, and a   *)
(* step makes the first one.  An exception leaves the rest undone.         *)
(***************************************************************************)
EXTENDS Integers, Sequences, FiniteSets

CONSTANTS
  Main,          \* the file of the procedure
  Included,      \* the files of the procedures that it includes
  Uses,          \* <<type, file>> of the instructions that include, in set-up order
  VariablesOf,   \* the variables of each workspace, in the order of m_var_map
  Identifier,    \* of the set-up and tear-down actions of a variable, or None
  None,
  Fragile,       \* files that may fail to load, variables that may fail to be set up,
                 \* identifiers whose set-up action may fail
  Workers        \* threads of asynchronous instructions

Files == {Main} \union Included
Vars(w) == {VariablesOf[w][k] : k \in DOMAIN VariablesOf[w]}
Variables == UNION {Vars(w) : w \in Files}
Identifiers(w) == {Identifier[v] : v \in Vars(w)} \ {None}

\* The workspaces in which instructions execute: Include only takes a tree.
Executing == {Main} \union {Uses[k][2] : k \in {j \in DOMAIN Uses : Uses[j][1] # "Include"}}

Job == "job"   \* the thread that constructs, executes, resets or destroys the job
Threads == {Job} \union Workers

ASSUME ProcedureAssumption ==
  /\ Main \notin Included /\ None \notin Files /\ Job \notin Workers
  /\ Fragile \subseteq Included \union Variables \union UNION {Identifiers(w) : w \in Files}
  /\ Uses \in Seq(STRING \X Files)
  /\ \A w \in Files : VariablesOf[w] \in Seq(Vars(w))
  /\ \A v, w \in Files : v # w => Vars(v) \intersect Vars(w) = {}

VARIABLES
  phase,       \* of the job
  agenda,      \* thread -> the calls it still has to make
  place,       \* worker -> the workspace in which it executes, None when it is idle
  cached,      \* m_procedure_cache
  destroyed,   \* the files whose procedure was destroyed
  done,        \* workspace -> m_setup_done
  tearDown,    \* workspace -> the identifiers of m_teardown_actions
  up,          \* variable -> m_setup_successful
  value,       \* variable -> "none", "initial" as its attributes say, or "changed"
  active,      \* history: workspace and identifier -> set-up actions run minus
               \* tear-down actions run
  skipped,     \* history: workspace -> the identifiers whose set-up action failed, or
               \* did not run as an earlier one had failed
  overlapped   \* history: a worker was at work as the last reset began

jobVars == <<phase, cached, destroyed, overlapped>>
wsVars == <<done, tearDown, active, skipped>>
varVars == <<up, value>>
vars == <<agenda, place, jobVars, wsVars, varVars>>

Phase == {"new", "setup", "ready", "running", "finished", "resetting", "failed",
          "destroying", "gone"}
-----------------------------------------------------------------------------
Init == /\ phase = "new"
        /\ agenda = [t \in Threads |-> << >>]
        /\ place = [t \in Workers |-> None]
        /\ cached = {} /\ destroyed = {} /\ overlapped = FALSE
        /\ done = [w \in Files |-> FALSE]
        /\ tearDown = [w \in Files |-> {}]
        /\ up = [v \in Variables |-> FALSE]
        /\ value = [v \in Variables |-> "none"]
        /\ active = [w \in Files |-> [i \in Identifiers(w) |-> 0]]
        /\ skipped = [w \in Files |-> {}]

Flatten(ss) == LET F[k \in 0 .. Len(ss)] == IF k = 0 THEN << >> ELSE F[k - 1] \o ss[k]
               IN F[Len(ss)]
Each(S, Calls(_)) == Flatten([k \in DOMAIN S |-> Calls(S[k])])

\* Variable::Setup and Variable::Teardown, neither of which takes m_access_mutex.
SetupCalls(v)    == << <<"SetupImpl", v>>, <<"accept", v>> >>
TeardownCalls(v) == << <<"TeardownImpl", v>>, <<"reject", v>> >>

\* Thread t makes the call op(x); calls take its place in the agenda.  With its
\* last call the job enters the phase that its operation leads to.
Calls(t, op, x) == agenda[t] # << >> /\ Head(agenda[t]) = <<op, x>>

EndOf == [setup |-> "ready", resetting |-> "ready", destroying |-> "gone"]

Make(t, calls) ==
  LET rest == calls \o Tail(agenda[t])
  IN /\ agenda' = [agenda EXCEPT ![t] = rest]
     /\ phase' = IF t = Job /\ rest = << >> THEN EndOf[phase] ELSE phase

Return(t) == Make(t, << >>)

\* The exception leaves every function up to the constructor of the job or the
\* loop of the runner; one thrown in a worker waits in its future.
Throw(t) == /\ agenda' = [agenda EXCEPT ![t] = << >>]
            /\ phase' = IF t = Job THEN "failed" ELSE phase
-----------------------------------------------------------------------------
(* The calls.                                                                *)

\* ProcedureStore::LoadProcedure
LoadProcedure(t, f) ==
  /\ Calls(t, "LoadProcedure", f)
  /\ \/ Return(t) /\ cached' = cached \union ({f} \ {Main})
     \/ f \in Fragile \ cached /\ Throw(t) /\ UNCHANGED cached
  /\ UNCHANGED <<place, destroyed, overlapped, wsVars, varVars>>

\* Workspace::Setup, up to the variables.
Setup(t, w) == /\ Calls(t, "Setup", w)
               /\ Make(t, IF done[w] THEN << >>
                          ELSE Each(VariablesOf[w], SetupCalls) \o << <<"setupActions", w>> >>)
               /\ UNCHANGED <<place, cached, destroyed, overlapped, wsVars, varVars>>

\* The identifiers that come before the k-th variable, and so do their set-up actions.
Before(w, k) == {Identifier[VariablesOf[w][j]] : j \in 1 .. k - 1} \ {None}

RunSetupActions(w, I) == active' = [active EXCEPT ![w] =
  [i \in Identifiers(w) |-> IF i \in I THEN active[w][i] + 1 ELSE active[w][i]]]

\* Workspace::Setup, from ParseSetupTeardownActions on: the tear-down actions are kept
\* before the first set-up action is run, and stay so when one of these throws.
SetupActions(t, w) ==
  /\ Calls(t, "setupActions", w)
  /\ tearDown' = [tearDown EXCEPT ![w] = Identifiers(w)]
  /\ \/ /\ Return(t)
        /\ RunSetupActions(w, Identifiers(w))
        /\ done' = [done EXCEPT ![w] = TRUE]
        /\ UNCHANGED skipped
     \/ \E k \in DOMAIN VariablesOf[w] :
          /\ Identifier[VariablesOf[w][k]] \in (Identifiers(w) \intersect Fragile) \ Before(w, k)
          /\ Throw(t)
          /\ RunSetupActions(w, Before(w, k))
          /\ skipped' = [skipped EXCEPT ![w] = Identifiers(w) \ Before(w, k)]
          /\ UNCHANGED done
  /\ UNCHANGED <<place, cached, destroyed, overlapped, varVars>>

RunAndKeepActions(W) ==   \* faulty: the list is not cleared
  /\ active' = [w \in Files |-> [i \in Identifiers(w) |->
                  IF w \in W /\ i \in tearDown[w] THEN active[w][i] - 1 ELSE active[w][i]]]
  /\ UNCHANGED tearDown

\* m_teardown_actions are run, and forgotten.
RunTeardownActions(W) ==
  /\ active' = [w \in Files |-> [i \in Identifiers(w) |->
                  IF w \in W /\ i \in tearDown[w] THEN active[w][i] - 1 ELSE active[w][i]]]
  /\ tearDown' = [w \in Files |-> IF w \in W THEN {} ELSE tearDown[w]]

Teardown(t, w) == /\ Calls(t, "Teardown", w)
                  /\ Make(t, Each(VariablesOf[w], TeardownCalls))
                  /\ done' = [done EXCEPT ![w] = FALSE]
                  /\ RunTeardownActions({w})
                  /\ UNCHANGED <<place, cached, destroyed, overlapped, skipped, varVars>>

\* Variable::Setup: attributes and SetupImpl, then m_setup_successful.
SetupImpl(t, v) ==
  /\ Calls(t, "SetupImpl", v)
  /\ \/ Return(t) /\ value' = [value EXCEPT ![v] = "initial"]
     \/ v \in Fragile /\ Throw(t) /\ UNCHANGED value
  /\ UNCHANGED <<place, cached, destroyed, overlapped, wsVars, up>>

\* Variable::Teardown
TeardownImpl(t, v) == /\ Calls(t, "TeardownImpl", v)
                      /\ Return(t) /\ value' = [value EXCEPT ![v] = "none"]
                      /\ UNCHANGED <<place, cached, destroyed, overlapped, wsVars, up>>

SetSuccessful(t, v) == /\ \/ Calls(t, "accept", v) /\ up' = [up EXCEPT ![v] = TRUE]
                          \/ Calls(t, "reject", v) /\ up' = [up EXCEPT ![v] = FALSE]
                       /\ Return(t)
                       /\ UNCHANGED <<place, cached, destroyed, overlapped, wsVars, value>>

\* ProcedureStore::TearDownProcedures destroys the included procedures; their
\* workspaces run what is left of their tear-down actions.
TearDownProcedures(t) ==
  /\ Calls(t, "TearDownProcedures", None)
  /\ Return(t)
  /\ cached' = {} /\ destroyed' = cached
  /\ RunTeardownActions(cached)
  /\ UNCHANGED <<place, overlapped, done, skipped, varVars>>

\* The reset of the root instruction waits for the threads of its descendants.
ResetRoot(t) == /\ Calls(t, "ResetRoot", None)
                /\ \A u \in Workers : place[u] = None
                /\ Return(t)
                /\ UNCHANGED <<place, cached, destroyed, overlapped, wsVars, varVars>>
-----------------------------------------------------------------------------
(* The operations on the job, each of which fills the agenda.                *)

Begin(next, calls) == /\ agenda[Job] = << >>
                      /\ agenda' = [agenda EXCEPT ![Job] = calls]
                      /\ phase' = next

SetupUseNever(use) == << <<"LoadProcedure", use[2]>> >>   \* faulty: no workspace is set up

\* Procedure::Setup by the constructor: the workspace, then the instructions.
SetupUse(use) == << <<"LoadProcedure", use[2]>> >>
                   \o IF use[1] = "Include" THEN << >> ELSE << <<"Setup", use[2]>> >>

Construct == /\ phase = "new"
             /\ Begin("setup", << <<"Setup", Main>> >> \o Each(Uses, SetupUse))
             /\ UNCHANGED <<place, cached, destroyed, overlapped, wsVars, varVars>>

Start == /\ phase = "ready" /\ phase' = "running"
         /\ UNCHANGED <<agenda, place, cached, destroyed, overlapped, wsVars, varVars>>

\* A job may finish while workers are on their way to an end.
Finish == /\ phase = "running" /\ phase' = "finished"
          /\ UNCHANGED <<agenda, place, cached, destroyed, overlapped, wsVars, varVars>>

\* Procedure::Reset.  The included workspaces come in some order, that of a map.
ResetWorkspace(f) == << <<"Teardown", f>>, <<"Setup", f>> >>

ResetCallsLate(fs) ==   \* faulty: instructions are reset last
  << <<"Teardown", Main>> >> \o Each(fs, ResetWorkspace)
     \o << <<"Setup", Main>>, <<"ResetRoot", None>> >>

ResetCalls(fs) == << <<"Teardown", Main>> >> \o Each(fs, ResetWorkspace)
                    \o << <<"ResetRoot", None>>, <<"Setup", Main>> >>

Orders(S) == {s \in [1 .. Cardinality(S) -> S] : \A i, j \in DOMAIN s : i # j => s[i] # s[j]}

Reset == /\ phase = "finished"
         /\ \E fs \in Orders(cached) : Begin("resetting", ResetCalls(fs))
         /\ overlapped' = (\E u \in Workers : place[u] # None)
         /\ UNCHANGED <<place, cached, destroyed, wsVars, varVars>>

\* Procedure::~Procedure; the job has stopped to execute instructions before.
Destroy == /\ phase \in {"ready", "running", "finished", "failed"}
           /\ Begin("destroying", << <<"Teardown", Main>>, <<"TearDownProcedures", None>>,
                                     <<"ResetRoot", None>> >>)
           /\ UNCHANGED <<place, cached, destroyed, overlapped, wsVars, varVars>>
-----------------------------------------------------------------------------
(* Asynchronous instructions.                                                *)

Launch(u) == /\ phase = "running" /\ place[u] = None
             /\ \E w \in Executing : place' = [place EXCEPT ![u] = w]
             /\ UNCHANGED <<agenda, jobVars, wsVars, varVars>>

Free(u) == place[u] # None /\ agenda[u] = << >>

\* Variable::SetValue under m_access_mutex; what a use of a destroyed workspace
\* does is not defined, and not modelled further.
SetValue(u) == /\ Free(u)
               /\ \E v \in Vars(place[u]) : /\ place[u] \notin destroyed /\ up[v]
                                            /\ value' = [value EXCEPT ![v] = "changed"]
               /\ UNCHANGED <<agenda, place, jobVars, wsVars, up>>

\* The instruction ResetVariable: Variable::ResetImpl.
ResetVariable(u) ==
  /\ Free(u) /\ place[u] \notin destroyed
  /\ \E v \in Vars(place[u]) : agenda' = [agenda EXCEPT ![u] = TeardownCalls(v) \o SetupCalls(v)]
  /\ UNCHANGED <<place, jobVars, wsVars, varVars>>

Conclude(u) == /\ Free(u) /\ place' = [place EXCEPT ![u] = None]
               /\ UNCHANGED <<agenda, jobVars, wsVars, varVars>>
-----------------------------------------------------------------------------
WorkspaceCall(t) == \E w \in Files :
  LoadProcedure(t, w) \/ Setup(t, w) \/ SetupActions(t, w) \/ Teardown(t, w)

VariableCall(t) == \E v \in Variables : SetupImpl(t, v) \/ TeardownImpl(t, v) \/ SetSuccessful(t, v)

JobStep == \/ Construct \/ Start \/ Finish \/ Reset \/ Destroy
           \/ WorkspaceCall(Job) \/ TearDownProcedures(Job) \/ ResetRoot(Job)

Next == \/ JobStep
        \/ \E t \in Threads : VariableCall(t)
        \/ \E u \in Workers : Launch(u) \/ SetValue(u) \/ ResetVariable(u) \/ Conclude(u)

Spec == Init /\ [][Next]_vars
-----------------------------------------------------------------------------
(* Properties                                                                *)

Operation == {"LoadProcedure", "Setup", "setupActions", "Teardown", "SetupImpl", "accept",
              "TeardownImpl", "reject", "TearDownProcedures", "ResetRoot"}
Call == Operation \X (Files \union Variables \union {None})

(* Types. *)
TypeOK == /\ phase \in Phase
          /\ agenda \in [Threads -> Seq(Call)]
          /\ place \in [Workers -> Executing \union {None}]
          /\ cached \subseteq Included /\ destroyed \subseteq Included
          /\ done \in [Files -> BOOLEAN]
          /\ tearDown = [w \in Files |-> tearDown[w]]
          /\ \A w \in Files : tearDown[w] \subseteq Identifiers(w)
          /\ active = [w \in Files |-> active[w]]
          /\ skipped = [w \in Files |-> skipped[w]]
          /\ up \in [Variables -> BOOLEAN]
          /\ value \in [Variables -> {"none", "initial", "changed"}]
          /\ overlapped \in BOOLEAN

Fresh(w) == \A v \in Vars(w) : up[v] /\ value[v] = "initial"

(* A job that may be started finds its own workspace as its attributes describe
   it, with no thread at work, whatever threads wrote or reset variables while the
   procedure was torn down; and also the workspaces of included procedures, unless
   a thread was at work as the reset began (procedure.h:206-211). *)
ReadyIsFresh == phase = "ready" =>
  /\ done[Main] /\ Fresh(Main)
  /\ \A u \in Workers : place[u] = None
  /\ ~overlapped => \A w \in cached : done[w] => Fresh(w)

(* Set-up and tear-down actions of an identifier alternate in every workspace, and all
   that was set up has been torn down when the job is gone: through failures half way,
   resets, variables that share an identifier, and destruction
   (setup_teardown_actions.h, variable.h:90-91).  Where an exception kept the set-up
   action of an identifier from being run, or left it, its tear-down action may run
   nevertheless, but once, and then the workspace is never taken for set up. *)
ActionsBalanced ==
  \A w \in Files : \A i \in Identifiers(w) :
    /\ active[w][i] \in IF i \in skipped[w] THEN {0, -1} ELSE {0, 1}
    /\ done[w] /\ w \notin destroyed => active[w][i] = 1
    /\ phase = "gone" /\ i \notin skipped[w] => active[w][i] = 0

(* A workspace in which an instruction executes stays set up between the
   construction of the job and its reset, so that its variables are available
   for as long as nobody resets them (include_procedure.cpp:71, copy_from_procedure.cpp:59). *)
ExecutesInSetupWorkspace ==
  phase \in {"ready", "running", "finished"} => \A w \in Executing : done[w]
=============================================================================
