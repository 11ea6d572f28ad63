---------------------------- MODULE InstructionInfo ----------------------------
(***************************************************************************)
(* What a client gets to know of a job (instruction_tree.cpp, the maps of  *)
(* instructions and variables, job_info.cpp and the conversions of the info *)
(* to the structured values that are sent to a remote client, and back).   *)
(*                                                                         *)
(* An instruction is the path to it: the positions, from 1, of its         *)
(* ancestors and of itself below their parents.  As in ProcedureText, what *)
(* may throw is the set of its results.                                    *)
(***************************************************************************)
EXTENDS ProcedureText

-----------------------------------------------------------------------------
(* Trees of instructions.                                                    *)

RECURSIVE At(_, _)
At(tree, path) == IF path = << >> THEN tree ELSE At(tree.children[Head(path)], Tail(path))

ChildPaths(tree, path) == [k \in DOMAIN At(tree, path).children |-> Append(path, k)]

\* FlattenBFS: level after level.
RECURSIVE Levels(_, _)
Levels(tree, level) ==
  IF level = << >> THEN << >>
  ELSE level \o Levels(tree, FlattenSeq([k \in DOMAIN level |-> ChildPaths(tree, level[k])]))
FlattenBFS(tree) == Levels(tree, << << >> >>)

GetLeaves(tree) == SelectSeq(FlattenBFS(tree), LAMBDA path : At(tree, path).children = << >>)

-----------------------------------------------------------------------------
(* Indices, which start at 0.                                                *)

InitializeMap(list) == [path \in ToSet(list) |-> SelectInSeq(list, LAMBDA p : p = path) - 1]

FindInstructionIndex(map, path) == {map[p] : p \in {path} \intersect DOMAIN map}

CountedFromOne(map) ==   \* faulty: indices start at 1
  LET list == [k \in 1 .. Cardinality(DOMAIN map) |-> {p \in DOMAIN map : map[p] = k}]
  IN IF \E k \in DOMAIN list : list[k] = {} THEN {}
     ELSE {[k \in DOMAIN list |-> CHOOSE p \in list[k] : TRUE]}

\* GetReverseMap: the instructions in the order of their indices.
GetReverseMap(map) ==
  LET size == Cardinality(DOMAIN map)
      list == [k \in 1 .. size |-> {p \in DOMAIN map : map[p] = k - 1}]
  IN IF (\E p \in DOMAIN map : map[p] >= size) \/ (\E k \in DOMAIN list : list[k] = {}) THEN {}
     ELSE {[k \in DOMAIN list |-> CHOOSE p \in list[k] : TRUE]}

VariableMap(names) == [name \in ToSet(names) |-> SelectInSeq(names, LAMBDA n : n = name) - 1]
FindVariableIndex(map, name) == {map[n] : n \in {name} \intersect DOMAIN map}

-----------------------------------------------------------------------------
(* Infos.                                                                    *)

InstructionInfo(type, category, index, attrs, children) ==
  [type |-> type, category |-> category, index |-> index, attrs |-> attrs, children |-> children]

CreateInstructionInfoNode(instr, index) ==
  InstructionInfo(instr.node, GetCategory(instr.node), index, instr.attrs, << >>)

RECURSIVE CreateInstructionInfoTree(_, _, _)
CreateInstructionInfoTree(tree, path, map) ==
  LET paths == ChildPaths(tree, path)
  IN [CreateInstructionInfoNode(At(tree, path), map[path]) EXCEPT
        !.children = [k \in DOMAIN paths |-> CreateInstructionInfoTree(tree, paths[k], map)]]

\* Flatten: depth first, the last child first.
RECURSIVE FlattenStack(_)
FlattenStack(stack) ==
  IF stack = << >> THEN << >>
  ELSE <<Last(stack)>> \o FlattenStack(Front(stack) \o Last(stack).children)
Flatten(info) == FlattenStack(<<info>>)

Indices(info) == {Flatten(info)[k].index : k \in DOMAIN Flatten(info)}

\* ValidateInstructionInfoTree and CreateOrderedInstructionInfo throw alike.
ValidateInstructionInfoTree(info) == Indices(info) = 0 .. Len(Flatten(info)) - 1

CreateOrderedInstructionInfo(info) ==
  IF ~ValidateInstructionInfoTree(info) THEN {}
  ELSE {[k \in DOMAIN Flatten(info) |->
           Flatten(info)[CHOOSE j \in DOMAIN Flatten(info) : Flatten(info)[j].index = k - 1]]}

\* InstructionInfo::ValidateAppend
ValidateAppend(category, n) == CASE category = "Action"    -> n = 0
                                 [] category = "Decorator" -> n <= 1
                                 [] OTHER                  -> TRUE

VariableInfo(type, index, attrs) == [type |-> type, index |-> index, attrs |-> attrs]

\* WorkspaceInfo::AddVariableInfo for each of the infos.
ValidateNewVariableInfo(infos, name, info) ==
  (\A k \in DOMAIN infos : infos[k][1] # name) /\ info.index = Len(infos)
AddVariableInfo(results, pair) ==
  {Append(infos, pair) : infos \in {r \in results : ValidateNewVariableInfo(r, pair[1], pair[2])}}

CreateWorkspaceInfo(variables) ==
  FoldLeft(AddVariableInfo, {<< >>},
           [k \in DOMAIN variables |->
              <<GetNameAttribute(variables[k]),
                VariableInfo(variables[k].node, k - 1, variables[k].attrs)>>])

JobInfo(name, workspace, root) == [name |-> name, workspace |-> workspace, root |-> root]

CreateJobInfo(proc, tree) ==
  LET map == InitializeMap(FlattenBFS(tree))
  IN {JobInfo(GetProcedureName(proc), workspace, CreateInstructionInfoTree(tree, << >>, map)) :
        workspace \in CreateWorkspaceInfo(proc.variables)}
-----------------------------------------------------------------------------
(* Structured values: sequences of <<name, value>> in a tuple with its tag.   *)

Members(S) == <<"members", S>>
MemberNames(av) == [k \in DOMAIN av[2] |-> av[2][k][1]]
HasField(av, name) == av[1] = "members" /\ SelectInSeq(av[2], LAMBDA f : f[1] = name) # 0
Field(av, name) == av[2][SelectInSeq(av[2], LAMBDA f : f[1] = name)][2]

ValidateMemberType(av, name, type) == HasField(av, name) /\ Field(av, name)[1] = type

\* Attributes, as members that are strings.
AttributeMembers(attrs) == Members([k \in DOMAIN attrs |-> <<attrs[k][1], <<"string", attrs[k][2]>> >>])
ToAttributeInfos(av)    == [k \in DOMAIN av[2] |-> <<av[2][k][1], av[2][k][2][2]>>]
ValidAttributes(av) == /\ HasField(av, "attributes") /\ Field(av, "attributes")[1] = "members"
                       /\ \A k \in DOMAIN Field(av, "attributes")[2] :
                            Field(av, "attributes")[2][k][2][1] = "string"

\* The state of an instruction.
StatusNumbers == [NOT_STARTED |-> 0, NOT_FINISHED |-> 1, RUNNING |-> 2, SUCCESS |-> 3, FAILURE |-> 4]

StateToAnyValue(state) ==
  Members(<< <<"status", <<"uint16", StatusNumbers[state.status]>> >>,
             <<"breakpoint", <<"bool", state.breakpoint>> >> >>)

ToInstructionState(av) ==
  IF ~ValidateMemberType(av, "status", "uint16") \/ ~ValidateMemberType(av, "breakpoint", "bool") THEN {}
  ELSE {[breakpoint |-> Field(av, "breakpoint")[2], status |-> s] :
          s \in {t \in DOMAIN StatusNumbers : StatusNumbers[t] = Field(av, "status")[2]}}

CategoryNumbers == [Action |-> 0, Decorator |-> 1, Compound |-> 2]

ToAnyValueNode(info) ==
  Members(<< <<"type", <<"string", info.type>> >>,
             <<"category", <<"uint32", CategoryNumbers[info.category]>> >>,
             <<"index", <<"uint32", info.index>> >>,
             <<"attributes", AttributeMembers(info.attrs)>> >>)

CreateIndexedInstrChildName(k) == <<"child_", k>>

RECURSIVE ToAnyValueTree(_)
ToAnyValueTree(info) ==
  IF info.children = << >> THEN ToAnyValueNode(info)
  ELSE Members(Append(ToAnyValueNode(info)[2],
         <<"children", Members([k \in DOMAIN info.children |->
             <<CreateIndexedInstrChildName(k - 1), ToAnyValueTree(info.children[k])>>])>>))

ValidateInstructionInfoAnyValue(av) ==
  /\ ValidateMemberType(av, "type", "string")
  /\ ValidateMemberType(av, "category", "uint32")
  /\ ValidateMemberType(av, "index", "uint32")
  /\ ValidAttributes(av)
  /\ HasField(av, "children") =>
       /\ Field(av, "children")[1] = "members"
       /\ \A k \in DOMAIN Field(av, "children")[2] :
            MemberNames(Field(av, "children"))[k] = CreateIndexedInstrChildName(k - 1)

\* ToInstructionInfoNode for a node that is valid, with its children.
RECURSIVE ToInstructionInfoNodes(_)
ToInstructionInfoNodes(av) ==
  IF ~ValidateInstructionInfoAnyValue(av) THEN {}
  ELSE LET fields == IF HasField(av, "children") THEN Field(av, "children")[2] ELSE << >>
           category == CHOOSE c \in DOMAIN CategoryNumbers :
                         CategoryNumbers[c] = Field(av, "category")[2]
           OnChild(field) == ToInstructionInfoNodes(field[2])
       IN IF ~ValidateAppend(category, Len(fields)) THEN {}
          ELSE {InstructionInfo(Field(av, "type")[2], category, Field(av, "index")[2],
                                ToAttributeInfos(Field(av, "attributes")), children) :
                  children \in EachOf(fields, OnChild)}

ToInstructionInfoTree(av) == {info \in ToInstructionInfoNodes(av) : ValidateInstructionInfoTree(info)}

VariableToAnyValue(info) == Members(<< <<"type", <<"string", info.type>> >>,
                                       <<"index", <<"uint32", info.index>> >>,
                                       <<"attributes", AttributeMembers(info.attrs)>> >>)

ValidateVariableInfoAnyValue(av) ==
  /\ ValidateMemberType(av, "type", "string") /\ Field(av, "type")[2] # ""
  /\ ValidateMemberType(av, "index", "uint32")
  /\ ValidAttributes(av)

ToVariableInfo(av) == VariableInfo(Field(av, "type")[2], Field(av, "index")[2],
                                   ToAttributeInfos(Field(av, "attributes")))

WorkspaceToAnyValue(infos) == Members([k \in DOMAIN infos |-> <<infos[k][1], VariableToAnyValue(infos[k][2])>>])

ToWorkspaceInfo(av) ==
  IF \E k \in DOMAIN av[2] : ~ValidateVariableInfoAnyValue(av[2][k][2]) THEN {}
  ELSE FoldLeft(AddVariableInfo, {<< >>},
                [k \in DOMAIN av[2] |-> <<av[2][k][1], ToVariableInfo(av[2][k][2])>>])

ToAnyValue(info) == Members(<< <<"full_name", <<"string", info.name>> >>,
                               <<"ws_info", WorkspaceToAnyValue(info.workspace)>>,
                               <<"instr_tree_info", ToAnyValueTree(info.root)>> >>)

ValidateJobInfoAnyValue(av) == /\ ValidateMemberType(av, "full_name", "string")
                               /\ HasField(av, "ws_info") /\ HasField(av, "instr_tree_info")

ToJobInfo(av) ==
  IF ~ValidateJobInfoAnyValue(av) THEN {}
  ELSE {JobInfo(Field(av, "full_name")[2], workspace, root) :
          workspace \in ToWorkspaceInfo(Field(av, "ws_info")),
          root \in {r \in ToInstructionInfoTree(Field(av, "instr_tree_info")) :
                      CreateOrderedInstructionInfo(r) # {}}}
-----------------------------------------------------------------------------
(* Properties.                                                               *)

\* An index names the same instruction for everybody: in the map of the job, in
\* the order that breakpoints are set by, and in the info; a parent comes before its
\* children; a leaf is the same for all; and a remote client reads the info that was sent.
IndicesAgree(proc, tree) ==
  LET map == InitializeMap(FlattenBFS(tree))
  IN /\ \A p \in DOMAIN map : \A k \in DOMAIN At(tree, p).children : map[Append(p, k)] > map[p]
     /\ \A order \in GetReverseMap(map) :
          \A p \in DOMAIN map : FindInstructionIndex(map, p) = {map[p]} /\ order[map[p] + 1] = p
     /\ GetReverseMap(map) # {}
     /\ \E info \in CreateJobInfo(proc, tree) :
          /\ ToJobInfo(ToAnyValue(info)) = {info}
          /\ \E infos \in CreateOrderedInstructionInfo(info.root) :
               \A p \in DOMAIN map :
                 /\ infos[map[p] + 1].type = At(tree, p).node
                 /\ infos[map[p] + 1].children = << >> <=> p \in ToSet(GetLeaves(tree))

\* An info in which two instructions got one index is refused.
RECURSIVE WithIndex(_, _)
WithIndex(info, index) ==
  [info EXCEPT !.index = index,
               !.children = [k \in DOMAIN @ |-> WithIndex(@[k], index)]]
ForgedIsRefused(info) ==
  info.root.children # << >> =>
    ToJobInfo(ToAnyValue([info EXCEPT !.root = WithIndex(@, 0)])) = {}
=============================================================================
