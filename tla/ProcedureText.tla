----------------------------- MODULE ProcedureText -----------------------------
(***************************************************************************)
(* From the text of a procedure to a procedure that is set up, and back    *)
(* (parser/, the registries, instruction_helper.cpp, and the set-up of     *)
(* procedure.cpp, workspace.cpp, local_variable.cpp and the instructions). *)
(*                                                                         *)
(* A text is a tree of elements.  An operation that may throw is the set of *)
(* its results: empty when it throws.                                      *)
(***************************************************************************)
EXTENDS ValueInstructions, FiniteSets

CONSTANTS
  Documents,    \* file -> the element that its text stands for, or Unreadable
  Plugins,      \* the libraries that can be loaded
  KnownTypes,   \* token -> [name, needs, zero] of the type that it describes
  KnownValues,  \* token -> the value that it describes
  NamesIn,      \* token of a path with separators -> the names in it
  FieldOf,      \* token of a field of a variable -> <<variable, field>>
  DirectoryOf,  \* a file that is named with its directory -> that directory
  FileIn,       \* <<directory, relative name>> -> the file
  Absolute,     \* the names of files that do not depend on a directory
  TypeFiles     \* file -> token of the type that it describes

Unreadable == "unreadable"

Element(node, attrs, children) == [node |-> node, attrs |-> attrs, children |-> children]

ElementNames(data) == {data.children[k].node : k \in DOMAIN data.children}

\* The results of Op on each element of a sequence, all or nothing.
EachOf(S, Op(_)) ==
  LET upTo[n \in 0 .. Len(S)] ==
        IF n = 0 THEN {<< >>} ELSE {Append(list, r) : list \in upTo[n - 1], r \in Op(S[n])}
  IN upTo[Len(S)]

SplitFieldName(name) == IF name \in DOMAIN FieldOf THEN FieldOf[name] ELSE <<name, "">>
StripPath(path) == IF path \in DOMAIN NamesIn THEN NamesIn[path] ELSE <<path>>

GetFileDirectory(file) == IF file \in DOMAIN DirectoryOf THEN DirectoryOf[file] ELSE ""
GetFullPathName(directory, name) ==
  IF name = "" \/ name \in Absolute \/ directory = "" THEN name ELSE FileIn[<<directory, name>>]
GetProcedurePath(proc) == GetFileDirectory(proc.file)
ResolveRelativePath(proc, name) == GetFullPathName(GetProcedurePath(proc), name)
-----------------------------------------------------------------------------
(* The registries.                                                           *)

Compounds  == {"Choice", "Fallback", "ParallelSequence", "ReactiveFallback", "ReactiveSequence",
               "Sequence", "UserChoice"}
Decorators == {"Async", "For", "ForceSuccess", "Include", "IncludeProcedure", "Inverter",
               "Listen", "Repeat"}
Values     == {"AddElement", "AddMember", "Condition", "CopyFromProcedure", "CopyToProcedure",
               "Copy", "Decrement", "Equals", "Fail", "GreaterThan", "GreaterThanOrEqual",
               "Increment", "LessThan", "LessThanOrEqual", "Log", "Message", "Output",
               "ResetVariable", "Succeed", "VarExists", "Wait", "WaitForVariable",
               "WaitForVariables"}
Dialogs    == {"Input", "UserConfirmation"}

RegisteredInstructionNames == Compounds \union Decorators \union Values \union Dialogs
RegisteredVariableNames    == {"Local", "File"}

GetCategory(type) == CASE type \in Compounds  -> "Compound"
                       [] type \in Decorators -> "Decorator"
                       [] OTHER               -> "Action"

\* InstructionRegistry::Create for the instructions that read and write values.
\* seen: what the workspace says about names, and the user: [names, available, found, reply].
Create(type, attrs, got, clock, seen) ==
  CASE type = "AddElement"         -> AddElement(got)
    [] type = "AddMember"          -> AddMember(GetStringAttributeValue(attrs, "memberName"), got)
    [] type = "Condition"          -> Condition(got)
    [] type = "CopyFromProcedure"  -> CopyFromProcedure(got)
    [] type = "CopyToProcedure"    -> CopyToProcedure(got)
    [] type = "Copy"               -> Copy(got)
    [] type = "Decrement"          -> Decrement(got)
    [] type = "Equals"             -> Equals(got)
    [] type = "Fail"               -> Fail
    [] type = "GreaterThan"        -> GreaterThan(got)
    [] type = "GreaterThanOrEqual" -> GreaterThanOrEqual(got)
    [] type = "Increment"          -> Increment(got)
    [] type = "LessThan"           -> LessThan(got)
    [] type = "LessThanOrEqual"    -> LessThanOrEqual(got)
    [] type = "Log"                -> Log(got)
    [] type = "Message"            -> Message(got)
    [] type = "Output"             -> Output(got)
    [] type = "ResetVariable"      -> ResetVariable(seen.found)
    [] type = "Succeed"            -> Succeed
    [] type = "VarExists"          -> VarExists
    [] type = "Wait"               -> Wait(GetValue(<<Literal("blocking", "bool")>>, attrs, "blocking")
                                             = <<"bool", 1>>, clock)
    [] type = "WaitForVariable"    -> WaitForVariable(HasStringAttribute(attrs, "equalsVar"), got, clock)
    [] type = "WaitForVariables"   -> WaitForVariables(seen.names, seen.available, clock)
    [] type = "Input"              -> Input(seen.reply)
    [] type = "UserConfirmation"   -> UserConfirmation(seen.reply)

\* What the constructors of the others define.
ChoiceAttributes == <<SetMandatory(Variable("varName"))>>
ThresholdAttributes == <<Literal("successThreshold", "uint32"), Literal("failureThreshold", "uint32")>>
ForAttributes == <<SetMandatory(Variable("arrayVar")), SetMandatory(Variable("elementVar"))>>
RepeatAttributes == <<Both("maxCount", "int32")>>
ListenAttributes == <<SetMandatory(Literal("varNames", "string")), Both("forceSuccess", "bool")>>
IncludeAttributes == <<SetMandatory(Literal("path", "string")), Literal("file", "string")>>
IncludeProcedureAttributes == <<SetMandatory(Literal("file", "string")), Literal("path", "string")>>
UserChoiceAttributes == <<Both("description", "string")>>

OtherDefinitions(type) ==
  CASE type = "Choice"           -> ChoiceAttributes
    [] type = "ParallelSequence" -> ThresholdAttributes
    [] type = "For"              -> ForAttributes
    [] type = "Repeat"           -> RepeatAttributes
    [] type = "Listen"           -> ListenAttributes
    [] type = "Include"          -> IncludeAttributes
    [] type = "IncludeProcedure" -> IncludeProcedureAttributes
    [] type = "UserChoice"       -> UserChoiceAttributes
    [] OTHER                     -> << >>

Unasked == [names |-> << >>, available |-> << >>, found |-> FALSE, reply |-> Empty]
Template(type) == Create(type, << >>, <<Empty, Empty, Empty>>, [late |-> FALSE, halted |-> FALSE], Unasked)

\* What the constructors of the base classes define.
CompoundAttributes  == <<Literal("showCollapsed", "bool")>>
DecoratorAttributes == <<Literal("showCollapsed", "bool")>>
CategoryDefinitions(type) == CASE type \in Compounds  -> CompoundAttributes
                               [] type \in Decorators -> DecoratorAttributes
                               [] OTHER               -> << >>

GetAttributeDefinitions(type) ==
  BaseDefinitions \o CategoryDefinitions(type)
  \o IF type \in Values \union Dialogs THEN Template(type).defs ELSE OtherDefinitions(type)
IsDefinedAttributeName(type, name) == HasAttributeDefinition(GetAttributeDefinitions(type), name)
Constraints(type) == IF type \in Values \union Dialogs THEN Template(type).constraints ELSE << >>

LocalAttributes == <<Literal("type", "string"), Literal("value", "string"), Literal("dynamicType", "bool")>>
FileAttributes == <<SetMandatory(Literal("file", "string")), Literal("pretty", "bool")>>
VariableDefinitions(type) ==
  <<Literal("name", "string")>> \o CASE type = "Local" -> LocalAttributes
                                     [] type = "File"  -> FileAttributes
VariableConstraints(type) ==
  IF type = "Local" THEN <<Or(Exists("type"), Not(Exists("value")))>> ELSE << >>

ProcedureDefinitions == <<Literal("tickTimeout", "float64"), Literal("timingAccuracy", "float64")>>
-----------------------------------------------------------------------------
(* Children.                                                                 *)

CompoundInsert(children, child, index) ==
  {InsertAt(children, i + 1, child) : i \in {index} \intersect 0 .. Len(children)}
\* The child of a decorator is replaced.
DecoratorInsert(children, child, index) == {<<child>> : i \in {index} \intersect {0}}

InsertInstruction(instr, child, index) ==
  {[instr EXCEPT !.children = children] :
     children \in CASE GetCategory(instr.node) = "Compound"  -> CompoundInsert(instr.children, child, index)
                    [] GetCategory(instr.node) = "Decorator" -> DecoratorInsert(instr.children, child, index)
                    [] OTHER -> {}}
AppendChildInstruction(instr, child) == InsertInstruction(instr, child, Len(instr.children))

AppendEach(instr, children) ==
  FoldLeft(LAMBDA grown, child : UNION {AppendChildInstruction(i, child) : i \in grown}, {instr}, children)
-----------------------------------------------------------------------------
(* Parsing.                                                                  *)

RECURSIVE ParseInstruction(_)
AddChildInstructions(instr, children) ==
  UNION {AppendEach(instr, parsed) : parsed \in EachOf(children, ParseInstruction)}
ParseInstruction(data) ==
  IF data.node \notin RegisteredInstructionNames THEN {}
  ELSE AddChildInstructions(Element(data.node, AddAttributes(<< >>, data.attrs), << >>), data.children)

\* VariableRegistry::Create throws for a type that is not registered.
CreateVariable(type) ==
  IF type \in RegisteredVariableNames THEN {Element(type, << >>, << >>)} ELSE {}

ParseVariable(data) ==
  {[var EXCEPT !.attrs = AddAttributes(var.attrs, data.attrs)] : var \in CreateVariable(data.node)}

RegisterTypeInformation(child) ==
  IF HasStringAttribute(child.attrs, "jsontype") = HasStringAttribute(child.attrs, "jsonfile") THEN {}
  ELSE {LET mode == IF HasStringAttribute(child.attrs, "jsontype") THEN "jsontype" ELSE "jsonfile"
        IN <<mode, GetStringAttributeValue(child.attrs, mode)[2]>>}

Preamble == {"Plugin", "RegisterType"}
Named(data, names) == SelectSeq(data.children, LAMBDA child : child.node \in names)

\* AddWorkspaceVariables for every Workspace element, in order.
WorkspaceElements(data) == FlattenSeq([k \in DOMAIN Named(data, {"Workspace"}) |->
                                         Named(data, {"Workspace"})[k].children])
GetNameAttribute(data) == GetStringAttributeValue(data.attrs, "name")[2]
AddWorkspaceVariables(elements) ==
  IF \/ \E k \in DOMAIN elements : GetNameAttribute(elements[k]) = ""
     \/ \E j, k \in DOMAIN elements :
          j # k /\ GetNameAttribute(elements[j]) = GetNameAttribute(elements[k])
  THEN {} ELSE EachOf(elements, ParseVariable)

Names(elements) == [k \in DOMAIN elements |-> GetNameAttribute(elements[k])]

Procedure(file, attrs, types, plugins, variables, instructions) ==
  [file |-> file, attrs |-> attrs, types |-> types, plugins |-> plugins,
   variables |-> variables, instructions |-> instructions]

LoadPlugin(child) == IF child.content \in Plugins THEN {child.content} ELSE {}

ParseProcedure(data, file) ==
  IF data.node # "Procedure" THEN {}
  ELSE {Procedure(file, AddAttributes(<< >>, data.attrs), types, plugins, variables, instructions) :
          plugins \in EachOf(Named(data, {"Plugin"}), LoadPlugin),
          types \in EachOf(Named(data, {"RegisterType"}), RegisterTypeInformation),
          variables \in AddWorkspaceVariables(WorkspaceElements(data)),
          instructions \in EachOf(Named(data, ElementNames(data) \ (Preamble \union {"Workspace"})),
                                  ParseInstruction)}

ParseProcedureFile(file) ==
  IF file \notin DOMAIN Documents THEN {}
  ELSE IF Documents[file].node = Unreadable THEN {} ELSE ParseProcedure(Documents[file], file)
-----------------------------------------------------------------------------
(* A procedure as a tree of elements again.                                  *)

CreateTreeData(instr, children) == Element(instr.node, instr.attrs, children)
RECURSIVE Iterate(_)
Iterate(instr) == [k \in DOMAIN instr.children |->
                     CreateTreeData(instr.children[k], Iterate(instr.children[k]))]
ToTreeDataInstruction(instr) == CreateTreeData(instr, Iterate(instr))
ToTreeDataVariable(var) == CreateTreeData(var, << >>)
ToTreeDataWorkspace(variables) ==
  Element("Workspace", << >>, [k \in DOMAIN variables |-> ToTreeDataVariable(variables[k])])

PreambleElements(proc) ==
  [k \in DOMAIN proc.types |->
     Element("RegisterType", << <<proc.types[k][1], Plain(proc.types[k][2])>> >>, << >>)]
  \o [k \in DOMAIN proc.plugins |->
     [node |-> "Plugin", attrs |-> << >>, children |-> << >>, content |-> proc.plugins[k]]]

ForgetTypes(proc) ==   \* faulty: only the plugins
  Element("Procedure", << >>,
          [k \in DOMAIN proc.plugins |->
             [node |-> "Plugin", attrs |-> << >>, children |-> << >>, content |-> proc.plugins[k]]]
          \o proc.instructions \o <<Element("Workspace", << >>, proc.variables)>>)

\* The attributes of the procedure itself are not written.
ToTreeData(proc) ==
  Element("Procedure", << >>,
          PreambleElements(proc)
          \o [k \in DOMAIN proc.instructions |-> ToTreeDataInstruction(proc.instructions[k])]
          \o <<ToTreeDataWorkspace(proc.variables)>>)
-----------------------------------------------------------------------------
(* Including instructions.                                                   *)

HasRootAttributeSet(instr) ==
  ParseAttributeString("bool", GetStringAttributeValue(instr.attrs, "isRoot")) = <<"bool", 1>>

\* The root instruction, if there is one.
RootInstruction(proc) ==
  LET marked == SelectInSeq(proc.instructions, HasRootAttributeSet)
  IN CASE Len(proc.instructions) = 1 -> {proc.instructions[1]}
       [] Len(proc.instructions) > 1 /\ marked # 0 -> {proc.instructions[marked]}
       [] OTHER -> {}

\* The first instruction of each name on the path; there is no second try.
RECURSIVE FindInstruction(_, _)
FindInstruction(instructions, names) ==
  LET k == SelectInSeq(instructions, LAMBDA i : GetNameAttribute(i) = Head(names))
  IN CASE k = 0 -> {}
       [] k # 0 /\ Len(names) = 1 -> {instructions[k]}
       [] OTHER -> FindInstruction(instructions[k].children, Tail(names))

RECURSIVE CloneInstruction(_)
CloneChildInstructions(clone, instr) ==
  UNION {AppendEach(clone, clones) : clones \in EachOf(instr.children, CloneInstruction)}
CloneInstruction(instr) ==
  IF instr.node \notin RegisteredInstructionNames THEN {}
  ELSE CloneChildInstructions(Element(instr.node, AddAttributes(<< >>, instr.attrs), << >>), instr)

GetTopInstructions(proc) == proc.instructions

CloneInstructionPath(proc, path) ==
  UNION {CloneInstruction(i) : i \in IF path = Blank THEN RootInstruction(proc)
                                     ELSE FindInstruction(GetTopInstructions(proc), StripPath(path[2]))}

\* Include and IncludeProcedure pass on the attributes that are not their own.
PassedOn(type, source) == SelectSeq(source, LAMBDA a : ~IsDefinedAttributeName(type, a[1]))

PostInitialiseVariables(instr, source) ==
  IF instr.node \notin {"Include", "IncludeProcedure"} THEN instr.attrs
  ELSE AddAttributes(instr.attrs, PassedOn(instr.node, source))

\* Every placeholder in the tree is filled in from the source, or it throws.
RECURSIVE InitialisePlaceholderAttributes(_, _)
InitialisePlaceholderAttributes(instr, source) ==
  LET filled == FillPlaceholders(instr.attrs, source)
      OnChild(child) == InitialisePlaceholderAttributes(child, source)
  IN IF ~filled.ok THEN {}
     ELSE {Element(instr.node, PostInitialiseVariables([instr EXCEPT !.attrs = filled.attrs], source),
                   children) : children \in EachOf(instr.children, OnChild)}
-----------------------------------------------------------------------------
(* Set-up.                                                                   *)

\* A type is registered under its name; another one of that name is refused.
Registered(registry, name) == name = "" \/ \E r \in registry : r[1] = name

ParseType(token, registry) ==
  {KnownTypes[t] : t \in {u \in {token} \intersect DOMAIN KnownTypes :
                              Registered(registry, KnownTypes[u].needs)}}

RegisterType(registry, type) ==
  IF Registered(registry, type.name)
  THEN {r \in {registry} : <<type.name, type.zero>> \in r}
  ELSE {registry \union {<<type.name, type.zero>>}}

ParseTypeRegistrationInfo(proc, registry, info) ==
  IF info[1] = "jsontype" THEN ParseType(info[2], registry)
  ELSE UNION {ParseType(TypeFiles[f], registry) :
                f \in {ResolveRelativePath(proc, info[2])} \intersect DOMAIN TypeFiles}

SetupPreamble(proc) ==
  FoldLeft(LAMBDA registries, info :
             UNION {UNION {RegisterType(r, type) : type \in ParseTypeRegistrationInfo(proc, r, info)} :
                      r \in registries},
           {{}}, proc.types)

ParseAnyValueAttributePair(attrs, registry) ==
  LET value == GetStringAttributeValue(attrs, "value")[2]
      Typed(type) == IF ~HasStringAttribute(attrs, "value") THEN {type.zero}
                     ELSE {Convert(KnownValues[v], TypeOf(type.zero)) :
                             v \in {value} \intersect DOMAIN KnownValues} \ {Empty}
  IN IF ~HasStringAttribute(attrs, "type") THEN {Empty}
     ELSE UNION {Typed(type) : type \in ParseType(GetStringAttributeValue(attrs, "type")[2], registry)}

\* Variable::Setup: a local variable gets its initial value, a file has its own.
SetupVariable(var, registry) ==
  IF ValidateAttributes(VariableDefinitions(var.node), VariableConstraints(var.node), var.attrs) # {}
  THEN {}
  ELSE IF var.node = "Local" THEN ParseAnyValueAttributePair(var.attrs, registry) ELSE {Empty}

SetupWorkspace(proc, registry) ==
  EachOf(proc.variables, LAMBDA var : SetupVariable(var, registry))

\* ProcedureStore::LoadProcedure, for what an include needs of a procedure.
LoadProcedure(proc, file) ==
  IF file = proc.file THEN {proc}
  ELSE {p \in ParseProcedureFile(file) : SetupPreamble(p) # {}}

\* The procedure that an instruction names: its own one, when it names no file.
NamedProcedure(proc, instr) ==
  LoadProcedure(proc, IF HasStringAttribute(instr.attrs, "file")
                      THEN ResolveRelativePath(proc, GetStringAttributeValue(instr.attrs, "file")[2])
                      ELSE proc.file)

\* The tree that an Include or IncludeProcedure puts below itself, with the
\* procedure that it comes from.
Included(proc, instr) ==
  {<<tree, source>> :
     source \in NamedProcedure(proc, instr),
     tree \in UNION {InitialisePlaceholderAttributes(clone, instr.attrs) :
                       clone \in UNION {CloneInstructionPath(p, GetStringAttributeValue(instr.attrs, "path")) :
                                          p \in NamedProcedure(proc, instr)}}}

\* CopyToProcedure and CopyFromProcedure set the other workspace up.
SetsUpWorkspace(instr) == instr.node \in {"IncludeProcedure", "CopyToProcedure", "CopyFromProcedure"}
CanSetupWorkspace(proc, instr) ==
  SetsUpWorkspace(instr) =>
    \E p \in NamedProcedure(proc, instr) :
      \E registry \in SetupPreamble(p) : SetupWorkspace(p, registry) # {}

AssertChildrenPresent(instr) == GetCategory(instr.node) = "Compound" => instr.children # << >>
AssertChildPresent(instr) == GetCategory(instr.node) = "Decorator" => instr.children # << >>

ValidInstruction(instr) ==
  ValidateAttributes(GetAttributeDefinitions(instr.node), Constraints(instr.node), instr.attrs) = {}

\* Instruction::Setup with the SetupImpl of the type: the instruction with what it
\* includes.  An include that leads to itself is never done, so no text of the model
\* has one; nor does one include from within the root tree of its own procedure.
RECURSIVE SetupInstruction(_, _)
SetupInstruction(proc, instr) ==
  LET OnChild(child) == SetupInstruction(proc, child)
      including == instr.node \in {"Include", "IncludeProcedure"}
  IN IF \/ ~ValidInstruction(instr) \/ ~CanSetupWorkspace(proc, instr)
        \/ ~including /\ (~AssertChildrenPresent(instr) \/ ~AssertChildPresent(instr))
     THEN {}
     ELSE IF including
     THEN UNION {InsertInstruction(instr, child, 0) :
                   child \in UNION {SetupInstruction(use[2], use[1]) : use \in Included(proc, instr)}}
     ELSE {Element(instr.node, instr.attrs, children) : children \in EachOf(instr.children, OnChild)}

\* Procedure::Setup: the values of the variables and the root instruction.
SetupProcedure(proc) ==
  IF ValidateAttributes(ProcedureDefinitions, << >>, proc.attrs) # {} THEN {}
  ELSE {[values |-> values, root |-> root] :
          values \in UNION {SetupWorkspace(proc, registry) : registry \in SetupPreamble(proc)},
          root \in UNION {SetupInstruction(proc, instr) : instr \in RootInstruction(proc)}}

GetProcedureName(proc) == IF HasStringAttribute(proc.attrs, "name")
                          THEN GetStringAttributeValue(proc.attrs, "name")[2] ELSE proc.file
-----------------------------------------------------------------------------
(* Properties.                                                               *)

RECURSIVE InstructionsOf(_)
InstructionsOf(instr) == {instr} \union UNION {InstructionsOf(instr.children[k]) : k \in DOMAIN instr.children}

\* The text of a procedure is read again as that procedure, less its own attributes.
ReadsBack(proc) ==
  ParseProcedure(ToTreeData(proc), proc.file) = {[proc EXCEPT !.attrs = << >>]}

IsWrittenBack(value) ==
  value # Empty /\ ParseAttributeString(value[1], CreateAttributeString(value)) = value
AttributesReadable(defs, attrs) ==
  \A k \in DOMAIN attrs : \/ GetAttributeValueInfo(defs, attrs, attrs[k][1]).is_varname
                          \/ IsWrittenBack(GetValue(defs, attrs, attrs[k][1]))
\* No placeholder is left in what an include brought in, unless it was given one;
\* and every literal attribute that passed validation can be read when the
\* instruction executes (instruction.cpp: "could not retrieve AnyValue" cannot be),
\* and written back as an attribute it is the same value.
Readable(instr) == AttributesReadable(GetAttributeDefinitions(instr.node), instr.attrs)

NoPlaceholderLeft(instr) ==
  instr.node \in {"Include", "IncludeProcedure"}
  /\ (\A k \in DOMAIN instr.attrs : instr.attrs[k][2][1] # "$")
    => \A i \in InstructionsOf(instr) : \A k \in DOMAIN i.attrs : i.attrs[k][2][1] # "$"
=============================================================================
