-------------------------------- MODULE LocalJob --------------------------------
(***************************************************************************)
(* A job from the text of its procedure to the reports that a client gets  *)
(* of it (local_job.cpp, job_interface_adapter.cpp, application_utils.cpp): *)
(* the text is loaded and set up, the client is told of the instructions,  *)
(* and the root is executed, a value instruction or a ParallelSequence of  *)
(* them, each in a thread of its own, over the variables of the workspace. *)
(*                                                                         *)
(* The thread of an instruction is named by the path to the instruction,   *)
(* the loop thread by that of the root.  Pauses, steps and resets of the   *)
(* job are AsyncRunner's and Procedure's; user input is UserInput's.       *)
(***************************************************************************)
EXTENDS InstructionInfo

Dialog == INSTANCE UserDialog

CONSTANTS
  Texts,      \* the files a job may be made from
  Executed,   \* those that are executed: their root is as described above
  Watched,    \* those whose client sets and removes breakpoints
  Marked,     \* at these indices
  Halted,     \* those whose client may halt the job
  RunBy,      \* file -> "client", or the program that runs it: "cli", "validate", "daemon"
  Verbosity,  \* file -> the level of its messages that a program lets through
  Lines,      \* what a user may type, or a client may answer
  Expected,   \* file -> [status, values]: how a run without halt ends, for some files
  Told,       \* file -> what the user is told meanwhile, when it is anything
  OnDisk      \* file of a variable -> the value in it, Empty when it is unreadable

Client == <<0>>   \* the thread of the client, or of the program
Root   == << >>

VARIABLES
  file, stage,  \* how far the constructors are with the text of which file
  proc, tree,   \* m_proc: its text as parsed, and its root instruction after set-up
  map,          \* m_instruction_map
  ws,           \* variable -> [value, up]: its value and m_setup_successful
  disk,         \* the files of File variables
  instr,        \* path -> [status, at, got, next, halted, ask]: an instruction and its thread,
                \* with the question to the user whose reply it waits for
  wrapper,      \* child of a ParallelSequence -> the status its wrapper knows
  sending,      \* thread -> the report of an instruction's state under way, or Empty
  states,       \* m_instr_states
  armed,        \* the instructions with a breakpoint
  job,          \* the state of the job
  seen,         \* what the client was told: [count, instr, variables, info, job, told]
  crossed       \* history: the instructions two reports of which overlapped, and the
                \* variables that were reset during a write: [instr, variables]

loading == <<file, stage, proc, tree, map>>
vars == <<loading, ws, disk, instr, wrapper, sending, states, armed, job, seen, crossed>>

Finished == {"succeeded", "failed", "halted"}

InitialState == [breakpoint |-> FALSE, status |-> "NOT_STARTED"]

Program == RunBy[file]

\* JobMap: m_instruction_map is made for a root; until then there is no index.
GetInstructionIndex(p)  == IF map = Empty THEN {} ELSE FindInstructionIndex(map, p)
GetOrderedInstructions  == IF map = Empty THEN {} ELSE GetReverseMap(map)
GetNumberOfInstructions == IF map = Empty THEN 0 ELSE Cardinality(DOMAIN map)

Paths == DOMAIN instr
Children == DOMAIN wrapper
Threads == Paths \union {Client}
-----------------------------------------------------------------------------
(* Loading a text.                                                           *)

Init ==
  /\ file \in Texts /\ stage = "parse"
  /\ proc = Empty /\ tree = Empty /\ map = Empty
  /\ ws = Empty /\ disk = OnDisk
  /\ instr = Empty /\ wrapper = Empty
  /\ sending = [t \in {Client} |-> Empty]
  /\ states = << >> /\ armed = {} /\ job = "initial"
  /\ seen = [count |-> 0, instr |-> << >>, variables |-> Empty, info |-> {}, job |-> "none",
             told |-> {}]
  /\ crossed = [instr |-> {}, variables |-> {}]

idle == <<disk, wrapper, sending, states, armed, job, crossed>>

\* SafeParseProcedure: without a procedure there is no job.
SafeParseProcedure ==
  /\ stage = "parse"
  /\ \/ /\ ParseProcedureFile(file) = {}
        /\ stage' = "refused"
        /\ UNCHANGED proc
     \/ /\ proc' \in ParseProcedureFile(file)
        /\ stage' = "connect"
  /\ UNCHANGED <<file, tree, map, ws, instr, seen, idle>>

\* The adapter is made, and the constructor of the runner reports its state.
Connect ==
  /\ stage = "connect"
  /\ stage' = "setup"
  /\ seen' = [seen EXCEPT !.job = "initial"]
  /\ UNCHANGED <<file, proc, tree, map, ws, instr, idle>>

VariableNames == Names(proc.variables)
VariableOf(name) == proc.variables[SelectInSeq(VariableNames, LAMBDA n : n = name)]
FileOf(name) == ResolveRelativePath(proc, GetStringAttributeValue(VariableOf(name).attrs, "file")[2])
IsDynamicallyTyped(name) ==
  GetValue(VariableDefinitions("Local"), VariableOf(name).attrs, "dynamicType") = <<"bool", 1>>
IsFile(name) == VariableOf(name).node = "File"

Report(value) == [value |-> value, connected |-> value # Empty]

\* SetProcedure: each variable reports the value it was set up with.  A local
\* variable always reports that it is connected.
SetupReport(name, value) ==
  IF IsFile(name) THEN Report(disk[FileOf(name)]) ELSE [value |-> value, connected |-> TRUE]

SetProcedure ==
  /\ stage = "setup"
  /\ \E results \in {SetupProcedure(proc)} :
       \/ /\ results = {}
          /\ stage' = "refused"
          /\ UNCHANGED <<tree, ws, instr, seen>>
       \/ \E made \in results :
            /\ stage' = "announce"
            /\ tree' = made.root
            /\ ws' = [n \in ToSet(VariableNames) |->
                        [value |-> made.values[SelectInSeq(VariableNames, LAMBDA m : m = n)], up |-> TRUE]]
            /\ instr' = [p \in ToSet(FlattenBFS(made.root)) |->
                           [status |-> "NOT_STARTED", at |-> "idle", got |-> << >>, next |-> << >>,
                            halted |-> FALSE, ask |-> Empty]]
            /\ seen' = [seen EXCEPT !.variables =
                          [k \in DOMAIN VariableNames |-> SetupReport(VariableNames[k], made.values[k])]]
  /\ UNCHANGED <<file, proc, map, idle>>

InitializeInstructionTree ==
  /\ stage = "announce" /\ Program = "client"
  /\ stage' = "inform"
  /\ map' = InitializeMap(FlattenBFS(tree))
  /\ seen' = [seen EXCEPT !.count = GetNumberOfInstructions']
  /\ states' = [k \in 1 .. GetNumberOfInstructions' |-> InitialState]
  /\ sending' = [t \in Threads |-> Empty]
  /\ UNCHANGED <<file, proc, tree, ws, instr, disk, wrapper, armed, job, crossed>>

Inform ==
  /\ stage = "inform"
  /\ stage' = "ready"
  /\ seen' = [seen EXCEPT !.info = CreateJobInfo(proc, tree)]
  /\ UNCHANGED <<file, proc, tree, map, ws, instr, idle>>
-----------------------------------------------------------------------------
(* Reports of the state of an instruction.                                   *)

ReportFromScratch(t, p, member, v) ==   \* faulty: the other member is lost
  \E idx \in GetInstructionIndex(p) :
    /\ states' = [states EXCEPT ![idx + 1] = [InitialState EXCEPT ![member] = v]]
    /\ sending' = [sending EXCEPT ![t] = <<idx, [InitialState EXCEPT ![member] = v]>>]
    /\ crossed' = crossed

\* A member of the state is written, and the state is copied for the client.
ReportState(t, p, member, v) ==
  \E idx \in GetInstructionIndex(p) :
    /\ states' = [states EXCEPT ![idx + 1][member] = v]
    /\ sending' = [sending EXCEPT ![t] = <<idx, states'[idx + 1]>>]
    /\ crossed' = [crossed EXCEPT !.instr = @ \union
         {i \in {idx} : \E u \in Threads : sending[u] # Empty /\ sending[u][1] = i}]

\* A program only logs it.
UpdateInstructionStatus(p, status) ==
  IF Program = "client" THEN ReportState(p, p, "status", status)
  ELSE UNCHANGED <<sending, states, crossed>>

OnBreakpointChange(p, set) == ReportState(Client, p, "breakpoint", set)

InstructionStateUpdated(t) ==
  /\ sending[t] # Empty
  /\ seen' = [seen EXCEPT !.instr = (sending[t][1] :> sending[t][2]) @@ @]
  /\ sending' = [sending EXCEPT ![t] = Empty]
  /\ UNCHANGED <<loading, ws, disk, instr, wrapper, states, armed, job, crossed>>
-----------------------------------------------------------------------------
(* Variables.                                                                *)

\* A writer keeps the mutex of its variable until the client was notified.
Locked(name) == \E p \in Paths : instr[p].at = "notify" /\ instr[p].next[1] = name

GetValueImpl(name) == IF IsFile(name) THEN disk[FileOf(name)] ELSE ws[name].value

HoldsField(value, field) == value # Empty /\ value[1] = "struct" /\ field \in DOMAIN value[2]
FieldsOf(value, field) == CASE value # Empty /\ field = "" -> {value}
                            [] HoldsField(value, field)      -> {value[2][field]}
                            [] OTHER                       -> {}

IsUp(name) == name \in DOMAIN ws /\ ws[name].up
ValueIfUp(name) == IF IsUp(name) THEN GetValueImpl(name) ELSE Empty

\* Workspace::GetValue of a variable or one of its fields.
GetVariableValue(fullname) ==
  FieldsOf(ValueIfUp(SplitFieldName(fullname)[1]), SplitFieldName(fullname)[2])

IsAvailableImpl(name) == IsFile(name) => disk[FileOf(name)] # Empty
IsAvailable(name) == ws[name].up /\ IsAvailableImpl(name)

StoreUnconverted(name, value) == {value}   \* faulty: the type may change

SetValueImpl(name, value) ==
  IF IsFile(name) \/ IsDynamicallyTyped(name) THEN {value}
  ELSE {TryAssignIfEmptyOrConvert(ws[name].value, value)} \ {Empty}

\* A field is assigned in a copy of the variable that is then stored.
WithField(old, field, value) ==
  CASE field = "" -> {value}
    [] field # "" /\ HoldsField(old, field) ->
         {Struct([old[2] EXCEPT ![field] = v]) : v \in {Convert(value, TypeOf(old[2][field]))} \ {Empty}}
    [] OTHER -> {}

SetField(name, field, value) ==
  IF ~IsUp(name) THEN {}
  ELSE UNION {{<<name, stored, whole>> : stored \in SetValueImpl(name, whole)} :
                whole \in WithField(GetValueImpl(name), field, value)}

\* Workspace::SetValue: <<name, value to store, value that is notified>>.
SetVariableValue(fullname, value) ==
  SetField(SplitFieldName(fullname)[1], SplitFieldName(fullname)[2], value)

\* The client knows a variable by its index.
UpdateVariable(name, report) ==
  \E idx \in FindVariableIndex(VariableMap(VariableNames), name) :
    seen' = [seen EXCEPT !.variables[idx + 1] = report]

\* The command line prints its name, and the value if it is connected.
PrintVariable(name, report) ==
  LET shown == IF report.connected THEN report ELSE [value |-> Empty, connected |-> FALSE]
  IN seen' = [seen EXCEPT !.variables =
               [k \in DOMAIN @ |-> IF VariableNames[k] = name THEN shown ELSE @[k]]]

\* The daemon takes no notice.
VariableUpdated(name, report) ==
  CASE Program = "client" -> UpdateVariable(name, report)
    [] Program = "daemon" -> UNCHANGED seen
    [] OTHER -> PrintVariable(name, report)
-----------------------------------------------------------------------------
(* What instructions tell the user.  A client is told everything; a program  *)
(* logs what its level lets through, and the daemon has nothing but its log.  *)

\* The daemon looks a severity up among the functions of its logger.
LogMessage(severity) ==
  LET level == SelectInSeq(Severities, LAMBDA s : s = severity) - 1
  IN Program = "client" \/ (level >= 0 /\ level <= GetSeverityFromString(Verbosity[file]))

\* The command line prints a message and a value on the standard output.
TellMessage == IF Program = "daemon" THEN LogMessage("info") ELSE TRUE
PutValue == IF Program = "daemon" THEN LogMessage("info") ELSE TRUE

Reaches(told) == CASE told[1] = "message" -> TellMessage
                   [] told[1] = "value"   -> PutValue
                   [] OTHER               -> LogMessage(told[1])

Tell(told) == seen' = IF told # Empty /\ Reaches(told) THEN [seen EXCEPT !.told = @ \union {told}] ELSE seen
-----------------------------------------------------------------------------
(* An instruction that reads and writes values, in its thread.               *)

Leaf(p) == At(tree, p)
Late == {TRUE, FALSE}

VarNamesOfType(type) == SelectSeq(VariableNames, LAMBDA n : Plain(VariableOf(n).node) = type)

\* The instruction as its class describes it, for the values got so far.
Described(p, got, late, reply) ==
  LET attrs == Leaf(p).attrs
      names == VarNamesOfType(GetStringAttributeValue(attrs, "varType"))
  IN Create(Leaf(p).node, attrs, [k \in 1 .. 3 |-> IF k \in DOMAIN got THEN got[k] ELSE Empty],
            [late |-> late, halted |-> instr[p].halted],
            [names |-> names,
             available |-> [k \in DOMAIN names |-> k \in DOMAIN got /\ got[k] # Empty],
             found |-> GetStringAttributeValue(attrs, "varName")[2] \in DOMAIN ws, reply |-> reply])

\* Instruction::GetAttributeValue and its variants: no result when it fails.
AttributeValues(defs, attrs, name, info) ==
  IF info.is_varname THEN GetVariableValue(info.value[2]) ELSE {GetValue(defs, attrs, name)}
AsType(r, values) ==
  {v \in IF r.as = Anything THEN values ELSE {Convert(v, <<r.as>>) : v \in values} \ {Empty} :
     r.attr = "timeout" => TimeoutFits(v)}
ReadFrom(defs, attrs, r) ==
  AsType(r, IF ~HasStringAttribute(attrs, r.attr) THEN {r.default}
            ELSE AttributeValues(defs, attrs, r.attr, GetAttributeValueInfo(defs, attrs, r.attr)))
ReadAttribute(p, defs, r) == ReadFrom(BaseDefinitions \o defs, Leaf(p).attrs, r)

Tried(r, values) == IF r.try /\ values = {} THEN {Empty} ELSE values
Reading(p, defs, r) ==
  IF Leaf(p).node = "WaitForVariables" /\ r.try
  THEN {IF IsAvailable(r.attr) THEN <<"bool", 1>> ELSE Empty}
  ELSE Tried(r, ReadAttribute(p, defs, r))

\* The variable of a reading, which must not be locked.
VariableRead(p, defs, r) ==
  IF Leaf(p).node = "WaitForVariables" /\ r.try THEN {r.attr}
  ELSE {SplitFieldName(GetAttributeValueInfo(BaseDefinitions \o defs, Leaf(p).attrs, r.attr).value[2])[1]}

\* What the next of the readings may give, as one of the sets here when it can be done.
NextReading(p, defs, readings) ==
  {Reading(p, defs, readings[k]) :
     k \in {i \in DOMAIN readings : /\ i = Len(instr[p].got) + 1
                                   /\ \A n \in VariableRead(p, defs, readings[i]) : ~Locked(n)}}

Free(p) == p \in DOMAIN sending /\ sending[p] = Empty
others == <<loading, wrapper, armed, job>>

NextAt(p, at, got, next) == instr' = [instr EXCEPT ![p].at = at, ![p].got = got, ![p].next = next]

\* InitHook: what is needed once per run is read, which may fail.
InitHook(p) ==
  /\ Free(p) /\ instr[p].at = "init"
  /\ \E d \in {Described(p, << >>, FALSE, Empty)} : \E values \in NextReading(p, d.defs, d.init) :
       \/ \E v \in values : NextAt(p, "init", Append(instr[p].got, v), << >>)
       \/ values = {} /\ NextAt(p, "spoiled", << >>, << >>)
  /\ UNCHANGED <<others, ws, disk, sending, states, seen, crossed>>

\* IJobInfoIO, the command line and the daemon, which has nobody to ask.
RequestUserInput(request) == IF Program = "daemon" THEN {} ELSE {request}

UserInputRequest(p) ==
  IF Leaf(p).node = "Input"
  THEN Dialog!CreateUserValueRequest(IF TypeOf(instr[p].got[1]) = Empty THEN "empty" ELSE instr[p].got[1][1])
  ELSE Dialog!CreateUserChoiceRequest(2)

Begun(p) == instr[p].at = "init" /\ Len(instr[p].got) = Len(Described(p, << >>, FALSE, Empty).init)

\* CreateUserValueFuture or CreateUserChoiceFuture, at the end of InitHook.
AskUser(p) ==
  /\ Free(p) /\ Begun(p) /\ Leaf(p).node \in Dialogs /\ instr[p].ask = Empty
  /\ \/ \E request \in RequestUserInput(UserInputRequest(p)) :
          instr' = [instr EXCEPT ![p].ask = <<request>>]
     \/ /\ RequestUserInput(UserInputRequest(p)) = {}
        /\ NextAt(p, "spoiled", << >>, << >>)
  /\ UNCHANGED <<others, ws, disk, sending, states, seen, crossed>>

\* The rest of the preamble: the status after InitHook is reported.
ReportBegin(p) ==
  /\ Free(p)
  /\ \/ /\ Begun(p) /\ (Leaf(p).node \in Dialogs => instr[p].ask # Empty)
        /\ instr' = [instr EXCEPT ![p].at = "begun", ![p].got = << >>, ![p].status = "NOT_FINISHED"]
        /\ UpdateInstructionStatus(p, "NOT_FINISHED")
     \/ /\ instr[p].at = "spoiled"
        /\ instr' = [instr EXCEPT ![p].at = "done", ![p].status = "FAILURE"]
        /\ UpdateInstructionStatus(p, "FAILURE")
  /\ UNCHANGED <<others, ws, disk, seen>>

\* A halted instruction leaves its implementation alone.
Begin(p) ==
  /\ Free(p) /\ instr[p].at = "begun"
  /\ NextAt(p, IF instr[p].halted THEN "done" ELSE "read", << >>, << >>)
  /\ UNCHANGED <<others, ws, disk, sending, states, seen, crossed>>

\* The end of ExecuteSingle, which reports the status if it changed.
Postamble(p, status) ==
  /\ instr' = [instr EXCEPT ![p].at = "done", ![p].status = status]
  /\ IF status # instr[p].status THEN UpdateInstructionStatus(p, status)
     ELSE UNCHANGED <<sending, states, crossed>>

ReadNext(p) ==
  /\ Free(p) /\ instr[p].at = "read"
  /\ \E d \in {Described(p, instr[p].got, FALSE, Empty)} :
     \E values \in NextReading(p, d.defs, d.reads) :
       \/ /\ \E v \in values : NextAt(p, "read", Append(instr[p].got, v), << >>)
          /\ UNCHANGED <<sending, states, crossed>>
       \/ values = {} /\ Postamble(p, "FAILURE")
  /\ UNCHANGED <<others, ws, disk, seen>>

\* What the user may have answered by now: nothing, or what is typed at the command
\* line or sent by the client.
ReplyTo(request, line, answered) ==
  LET typed == Dialog!Value(IF request.input = "bool" THEN "bool" ELSE "int32", line)
      reply == IF Program = "cli" THEN Dialog!CLUserInput(request, line)
               ELSE Dialog!ForwardUserInput(request, answered, typed, IF answered THEN line ELSE -1)
      value == Dialog!ParseUserValueReply(reply)
      choice == Dialog!ParseUserChoiceReply(reply)
  IN IF request.request = "value"
     THEN <<{v \in {<<reply.payload.type, reply.payload.val>>} : value.ok}>>
     ELSE <<{c \in {choice.choice} : choice.ok}>>

PollInputFuture(p) ==
  IF instr[p].ask = Empty THEN {Empty}
  ELSE {Empty} \union {ReplyTo(instr[p].ask[1], line, answered) : line \in Lines, answered \in BOOLEAN}

\* Everything is read; a timeout may have passed or not, and a reply come or not.
Conclude(p, late, reply) ==
  /\ Free(p) /\ instr[p].at = "read"
  /\ \E d \in {Described(p, instr[p].got, late, reply)} : \E o \in {d.outcome} :
        /\ Len(instr[p].got) >= Len(d.reads)
        /\ \/ /\ o.target = "" /\ ~(Leaf(p).node = "ResetVariable" /\ o.status = "SUCCESS")
              /\ Postamble(p, o.status) /\ Tell(o.value)
           \/ /\ o.target = "" /\ Leaf(p).node = "ResetVariable" /\ o.status = "SUCCESS"
              /\ NextAt(p, "reset", << >>, <<GetStringAttributeValue(Leaf(p).attrs, "varName")[2], "TeardownImpl">>)
              /\ UNCHANGED <<seen, sending, states, crossed>>
           \/ /\ o.target # ""
              /\ NextAt(p, "store", <<o.value>>, <<GetStringAttributeValue(Leaf(p).attrs, o.target)[2]>>)
              /\ UNCHANGED <<seen, sending, states, crossed>>
  /\ UNCHANGED <<others, ws, disk>>

WriteValue(name, value) ==
  IF IsFile(name) THEN disk' = [disk EXCEPT ![FileOf(name)] = value] /\ UNCHANGED ws
  ELSE ws' = [ws EXCEPT ![name].value = value] /\ UNCHANGED disk

\* SetValueFromAttributeName up to the notification, with the mutex locked.
Store(p) ==
  /\ Free(p) /\ instr[p].at = "store" /\ ~Locked(SplitFieldName(instr[p].next[1])[1])
  /\ \E results \in {SetVariableValue(instr[p].next[1], instr[p].got[1])} :
       \/ /\ results = {}
          /\ Postamble(p, "FAILURE")
          /\ UNCHANGED <<ws, disk>>
       \/ \E r \in results :
            /\ NextAt(p, "notify", << >>, <<r[1], r[3]>>)
            /\ WriteValue(r[1], r[2])
            /\ UNCHANGED <<sending, states, crossed>>
  /\ UNCHANGED <<others, seen>>

Notify(p) ==
  /\ Free(p) /\ instr[p].at = "notify"
  /\ VariableUpdated(instr[p].next[1], [value |-> instr[p].next[2], connected |-> TRUE])
  /\ Postamble(p, "SUCCESS")
  /\ UNCHANGED <<others, ws, disk>>

\* Variable::Reset: TeardownImpl, the end of Teardown, SetupImpl with its
\* notification, and the end of Setup; none of them locks the mutex.
ResetVariableSteps == [TeardownImpl |-> "Teardown", Teardown |-> "SetupImpl",
                       SetupImpl |-> "Notify", Notify |-> "Setup"]

InitialValue(name) ==
  CHOOSE v \in UNION {SetupVariable(VariableOf(name), r) : r \in SetupPreamble(proc)} : TRUE

ResetStep(p) ==
  /\ Free(p) /\ instr[p].at = "reset"
  /\ LET n == instr[p].next[1]
         step == instr[p].next[2]
     IN /\ CASE step = "TeardownImpl" -> ws' = [ws EXCEPT ![n].value = IF IsFile(n) THEN @ ELSE Empty]
             [] step = "Teardown" -> ws' = [ws EXCEPT ![n].up = FALSE]
             [] step = "SetupImpl" -> ws' = [ws EXCEPT ![n].value = IF IsFile(n) THEN @ ELSE InitialValue(n)]
             [] step = "Notify" -> UNCHANGED ws
             [] step = "Setup" -> ws' = [ws EXCEPT ![n].up = TRUE]
        /\ IF step = "Notify" THEN VariableUpdated(n, SetupReport(n, ws[n].value)) ELSE UNCHANGED seen
        /\ IF step = "Setup"
           THEN Postamble(p, "SUCCESS")
           ELSE /\ NextAt(p, "reset", << >>, <<n, ResetVariableSteps[step]>>)
                /\ crossed' = [crossed EXCEPT !.variables = IF Locked(n) THEN @ \union {n} ELSE @]
                /\ UNCHANGED <<sending, states>>
  /\ UNCHANGED <<others, disk>>

\* The thread ends when its last report was delivered.
End(p) ==
  /\ Free(p) /\ instr[p].at = "done"
  /\ NextAt(p, "idle", << >>, << >>)
  /\ UNCHANGED <<others, ws, disk, sending, states, seen, crossed>>

LeafStep(p) ==
  \/ InitHook(p) \/ AskUser(p) \/ ReportBegin(p) \/ Begin(p) \/ ReadNext(p)
  \/ (\E late \in Late : \E reply \in PollInputFuture(p) : Conclude(p, late, reply))
  \/ Store(p) \/ Notify(p) \/ ResetStep(p) \/ End(p)
-----------------------------------------------------------------------------
(* The root, in the loop thread.                                             *)

IsParallel == tree.node = "ParallelSequence"
NeedsExecute(s) == s \in {"NOT_STARTED", "NOT_FINISHED", "RUNNING"}
Launched(p) == IF instr[p].status = "NOT_STARTED" THEN "init" ELSE "begun"
RootFinished == instr[Root].status \in {"SUCCESS", "FAILURE"}

CanTick == /\ job = "running" /\ Free(Root) /\ instr[Root].at = "idle"
           /\ ~RootFinished /\ ~instr[Root].halted

\* A single instruction is executed by the loop thread itself.
TickLeaf ==
  /\ CanTick /\ ~IsParallel
  /\ NextAt(Root, Launched(Root), << >>, << >>)
  /\ UNCHANGED <<others, ws, disk, sending, states, seen, crossed>>

InitWrappers ==
  /\ CanTick /\ IsParallel /\ instr[Root].status = "NOT_STARTED"
  /\ wrapper' = [c \in ToSet(ChildPaths(tree, Root)) |-> "NOT_STARTED"]
  /\ instr' = [instr EXCEPT ![Root].status = "NOT_FINISHED"]
  /\ UpdateInstructionStatus(Root, "NOT_FINISHED")
  /\ UNCHANGED <<loading, armed, job, ws, disk, seen>>

\* With the thresholds' defaults: all succeed, or one fails.
CalculateCompoundStatus(known) ==
  CASE \A c \in DOMAIN known : known[c] = "SUCCESS" -> "SUCCESS"
    [] \E c \in DOMAIN known : known[c] = "FAILURE" -> "FAILURE"
    [] OTHER -> IF \E c \in DOMAIN known : known[c] = "NOT_FINISHED" THEN "NOT_FINISHED" ELSE "RUNNING"

HaltAll(threads) == [p \in DOMAIN threads |-> [threads[p] EXCEPT !.halted = TRUE]]

\* One tick of the wrappers; a verdict halts the children that still execute.
TickParallel ==
  /\ CanTick /\ IsParallel /\ instr[Root].status # "NOT_STARTED"
  /\ LET ticked == {c \in Children : NeedsExecute(wrapper[c]) /\ instr[c].at = "idle"}
         launched == {c \in ticked : instr[c].status = wrapper[c]}
         known == [c \in Children |-> CASE c \in launched -> "RUNNING"
                                        [] c \in ticked \ launched -> instr[c].status
                                        [] OTHER -> wrapper[c]]
         status == CalculateCompoundStatus(known)
         moved == [p \in Paths |-> CASE p \in launched -> [instr[p] EXCEPT !.at = Launched(p)]
                                     [] p = Root -> [instr[p] EXCEPT !.status = status]
                                     [] OTHER -> instr[p]]
     IN /\ wrapper' = known
        /\ instr' = IF NeedsExecute(status) THEN moved ELSE HaltAll(moved)
        /\ IF status # instr[Root].status THEN UpdateInstructionStatus(Root, status)
           ELSE UNCHANGED <<sending, states, crossed>>
  /\ UNCHANGED <<loading, armed, job, ws, disk, seen>>

SetState(state) == job' = state /\ seen' = [seen EXCEPT !.job = state]
jobOnly == <<loading, ws, disk, wrapper, sending, states, armed, crossed>>

\* SwitchStateOnFinished, or else the pending halt command.
FinishJob ==
  /\ job = "running" /\ Free(Root) /\ instr[Root].at = "idle"
  /\ \/ RootFinished /\ SetState(IF instr[Root].status = "SUCCESS" THEN "succeeded" ELSE "failed")
     \/ ~RootFinished /\ instr[Root].halted /\ SetState("halted")
  /\ UNCHANGED <<jobOnly, instr>>
-----------------------------------------------------------------------------
(* The client.                                                               *)

Start ==
  /\ stage = "ready" /\ Program = "client" /\ file \in Executed /\ job = "initial"
  /\ SetState("running")
  /\ UNCHANGED <<jobOnly, instr>>

Halt ==
  /\ job = "running" /\ file \in Halted /\ ~instr[Root].halted
  /\ instr' = HaltAll(instr)
  /\ UNCHANGED <<jobOnly, job, seen>>

\* The breakpoint manager knows the instructions of the tree.
IsKnownInstruction(p) == p \in ToSet(FlattenBFS(tree))

\* SetBreakpoint or RemoveBreakpoint by index; an index that is too large is ignored.
ToggleBreakpoint(idx) ==
  /\ stage = "ready" /\ file \in Watched /\ job \in {"initial", "running"}
  /\ sending[Client] = Empty
  /\ \E order \in GetOrderedInstructions :
       /\ idx < Len(order) /\ IsKnownInstruction(order[idx + 1])
       /\ LET p == order[idx + 1]
          IN /\ armed' = IF p \in armed THEN armed \ {p} ELSE armed \union {p}
             /\ OnBreakpointChange(p, p \notin armed)
  /\ UNCHANGED <<loading, ws, disk, instr, wrapper, job, seen>>
-----------------------------------------------------------------------------
Loading == \/ SafeParseProcedure \/ Connect \/ SetProcedure \/ InitializeInstructionTree \/ Inform
Looping == \/ TickLeaf \/ InitWrappers \/ TickParallel \/ FinishJob
Clients == \/ Start \/ Halt \/ \E idx \in Marked : ToggleBreakpoint(idx)
Deliver == \E t \in Threads : t \in DOMAIN sending /\ InstructionStateUpdated(t)

Next == Loading \/ Looping \/ Clients \/ Deliver \/ \E p \in Paths : LeafStep(p)

Spec == Init /\ [][Next]_vars
-----------------------------------------------------------------------------
(* Properties.                                                               *)

AtRest == /\ stage = "ready"
          /\ \A t \in Threads : sending[t] = Empty
          /\ \A p \in Paths : instr[p].at = "idle"

\* The text that the job can give of its procedure (GetXMLString) is read as the same
\* procedure again; and after set-up no instruction that was included has a placeholder
\* left, and no literal attribute fails to give its value while the job executes
\* (instruction.cpp "Literal attributes can't fail" is relied on by InitThresholds).
TextIsWhole ==
  /\ stage = "setup" => ReadsBack(proc)
  /\ stage = "announce" => \A i \in InstructionsOf(tree) : Readable(i) /\ NoPlaceholderLeft(i)

\* An index means one instruction, the same in the map of the adapter, in the order
\* that breakpoints are set by and in the info that the client reads, also when the
\* info went to the client as a structured value; an info with an index twice is
\* refused there.
IndexMeansOneInstruction ==
  stage = "ready" /\ Program = "client" /\ job = "initial" /\ armed = {} =>
    /\ IndicesAgree(proc, tree)
    /\ seen.info # {}
    /\ \A info \in seen.info : ForgedIsRefused(info)

\* What the reports told the client of each instruction is its state whenever no
\* thread of the job is at work, unless two reports of that instruction
\* overlapped, also as a structured value; nothing is reported of an instruction before
\* the client knows how many there are; and a client that reads that the job has
\* succeeded or failed has been told the verdict of the root before.
ClientKnowsInstructions ==
  Program = "client" =>
  /\ \A idx \in DOMAIN seen.instr :
       /\ idx < seen.count
       /\ ToInstructionState(StateToAnyValue(seen.instr[idx])) = {seen.instr[idx]}
  /\ AtRest => \A p \in Paths \ {q \in Paths : map[q] \in crossed.instr} :
       [breakpoint |-> p \in armed, status |-> instr[p].status]
         = IF map[p] \in DOMAIN seen.instr THEN seen.instr[map[p]] ELSE InitialState
  /\ seen.job \in {"succeeded", "failed"} /\ map[Root] \notin crossed.instr =>
       seen.instr[map[Root]].status = instr[Root].status

\* When no thread is at work, the last value that the client was told of a variable
\* is the variable's value, after conversion to its type, and a variable that is not
\* dynamically typed has the type its attributes declare; whatever was set, failed to
\* be set or was reset meanwhile, but for a variable reset during a write.
ClientKnowsVariables ==
  AtRest /\ Program # "daemon" =>
    \A k \in DOMAIN VariableNames :
      LET n == VariableNames[k]
          told == seen.variables[k]
      IN n \notin crossed.variables =>
           /\ ws[n].up
           /\ IF IsFile(n) THEN told = Report(disk[FileOf(n)])
              ELSE /\ told.connected
                   /\ ws[n].value = IF IsDynamicallyTyped(n) THEN told.value
                                    ELSE Convert(told.value, TypeOf(ws[n].value))
                   /\ ~IsDynamicallyTyped(n) /\ InitialValue(n) # Empty =>
                        TypeOf(ws[n].value) = TypeOf(InitialValue(n))

\* A procedure that nobody halts ends as the description of its instructions says
\* (coreinstructions.rst), in one of the ways its threads allow, and has told the user
\* what it had to, if the user's program lets that through.
EndsAsDescribed ==
  file \in DOMAIN Expected /\ AtRest /\ job \in Finished =>
    /\ [status |-> instr[Root].status, values |-> [n \in DOMAIN ws |-> GetValueImpl(n)]] \in Expected[file]
    /\ seen.told = IF file \in DOMAIN Told THEN Told[file] ELSE {}
=============================================================================
