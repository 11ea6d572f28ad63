-------------------------------- MODULE JobTexts --------------------------------
(* The texts of small procedures, each for one question to LocalJob.          *)
EXTENDS Programs

\* Attributes, and elements that are used often.
A(name, token) == <<name, Plain(token)>>
Ref(name, var) == <<name, <<"@", var>> >>
Held(name, of) == <<name, <<"$", of>> >>
Leaf0(type, attrs) == Element(type, attrs, << >>)
LocalVar(name, type, value) == Leaf0("Local", <<A("name", name), A("type", type), A("value", value)>>)
Dynamic(name, type, value) ==
  Leaf0("Local", <<A("name", name), A("type", type), A("value", value), A("dynamicType", "true")>>)
Untyped(name) == Leaf0("Local", <<A("name", name)>>)
FileVar(name, of) == Leaf0("File", <<A("name", name), A("file", of)>>)
Workspace(variables) == Element("Workspace", << >>, variables)
ProcedureOf(attrs, preamble, instructions, variables) ==
  Element("Procedure", attrs, preamble \o instructions \o <<Workspace(variables)>>)
Job(instruction, variables) == ProcedureOf(<<A("name", "job")>>, << >>, <<instruction>>, variables)
Parallel(children) == Element("ParallelSequence", << >>, children)

MCNumberOf == [zero |-> 0, one |-> 1, two |-> 2, minus |-> -1, large |-> 300]
Num(n) == <<"int32", n>>
Small(n) == <<"uint8", n>>
Pair(f, g) == Struct([f |-> Num(f), g |-> Num(g)])

MCKnownTypes ==
  [int |-> [name |-> "int32", needs |-> "", zero |-> Num(0)],
   byte |-> [name |-> "uint8", needs |-> "", zero |-> Small(0)],
   bool |-> [name |-> "bool", needs |-> "", zero |-> <<"bool", 0>>],
   pair |-> [name |-> "pair", needs |-> "", zero |-> Pair(0, 0)],
   mypair |-> [name |-> "pair", needs |-> "pair", zero |-> Pair(0, 0)],
   list |-> [name |-> "", needs |-> "", zero |-> Array("int32", <<Num(0)>>)]]

MCKnownValues ==
  [zero |-> Num(0), one |-> Num(1), two |-> Num(2), large |-> Num(300), true |-> <<"bool", 1>>,
   twelve |-> Pair(1, 2), ones |-> Array("int32", <<Num(1)>>)]

MCFieldOf == [i \in {"s.f", "s.g", "s.h", "q.f"} |->
  CASE i = "s.f" -> <<"s", "f">> [] i = "s.g" -> <<"s", "g">> [] i = "s.h" -> <<"s", "h">>
    [] i = "q.f" -> <<"q", "f">>]

\* One text is in a directory, with a library and a type next to it.
MCDirectoryOf == [d \in {"sub/main", "sub/lib"} |-> "sub"]
MCFileIn == [n \in {<<"sub", "lib">>, <<"sub", "types">>, <<"sub", "data">>} |-> "sub/" \o n[2]]
MCAbsolute == {"/lib"}
MCTypeFiles == [f \in {"sub/types"} |-> "pair"]

MCNamesIn == [i \in {"lib/tree"} |-> <<"lib", "tree">>]
MCPlugins == {"plugin"}

\* One instruction at a time, with what it reads and writes.
Store1 == <<LocalVar("x", "int", "one"), LocalVar("y", "int", "two"), LocalVar("b", "byte", "two"),
            LocalVar("big", "int", "large"), LocalVar("t", "bool", "true"), LocalVar("s", "pair", "twelve"),
            Dynamic("l", "list", "ones"), Dynamic("q", "pair", "twelve"), Untyped("e"), FileVar("f", "data")>>
Start1 == [x |-> Num(1), y |-> Num(2), b |-> Small(2), big |-> Num(300), t |-> <<"bool", 1>>,
           s |-> Pair(1, 2), l |-> Array("int32", <<Num(1)>>), q |-> Pair(1, 2), e |-> Empty,
           f |-> Empty]
Same(ok) == {[status |-> IF ok THEN "SUCCESS" ELSE "FAILURE", values |-> Start1]}
Sets(n, v) == {[status |-> "SUCCESS", values |-> [Start1 EXCEPT ![n] = v]]}
InOut(i, o) == <<A("inputVar", i), A("outputVar", o)>>
LeftRight(l, r) == <<A("leftVar", l), A("rightVar", r)>>
Of(v) == <<A("varName", v)>>

\* name, instruction, how it ends
Singles == {
  <<"succeed", Leaf0("Succeed", << >>), Same(TRUE)>>,
  <<"fail", Leaf0("Fail", << >>), Same(FALSE)>>,
  <<"copy", Leaf0("Copy", InOut("x", "b")), Sets("b", Small(1))>>,
  <<"copy too large", Leaf0("Copy", InOut("big", "b")), Same(FALSE)>>,
  <<"copy nothing", Leaf0("Copy", InOut("e", "x")), Same(FALSE)>>,
  <<"copy to nothing", Leaf0("Copy", InOut("t", "e")), Sets("e", <<"bool", 1>>)>>,
  <<"copy to field", Leaf0("Copy", InOut("b", "s.f")), Sets("s", Pair(2, 2))>>,
  <<"copy to no field", Leaf0("Copy", InOut("b", "s.h")), Same(FALSE)>>,
  <<"copy field", Leaf0("Copy", InOut("s.g", "q")), Sets("q", Num(2))>>,
  <<"copy to file", Leaf0("Copy", InOut("y", "f")), Sets("f", Num(2))>>,
  <<"copy no file", Leaf0("Copy", InOut("f", "x")), Same(FALSE)>>,
  <<"copy unknown", Leaf0("Copy", InOut("x", "z")), Same(FALSE)>>,
  <<"increment", Leaf0("Increment", Of("s.f")), Sets("s", Pair(2, 2))>>,
  <<"increment bool", Leaf0("Increment", Of("t")), Same(FALSE)>>,
  <<"decrement", Leaf0("Decrement", Of("y")), Sets("y", Num(1))>>,
  <<"equals", Leaf0("Equals", LeftRight("s", "q")), Same(TRUE)>>,
  <<"not equals", Leaf0("Equals", LeftRight("x", "y")), Same(FALSE)>>,
  <<"less", Leaf0("LessThan", LeftRight("x", "b")), Same(TRUE)>>,
  <<"not less", Leaf0("LessThan", LeftRight("s", "b")), Same(FALSE)>>,
  <<"less or equal", Leaf0("LessThanOrEqual", LeftRight("y", "b")), Same(TRUE)>>,
  <<"greater", Leaf0("GreaterThan", LeftRight("y", "b")), Same(FALSE)>>,
  <<"greater or equal", Leaf0("GreaterThanOrEqual", LeftRight("b", "y")), Same(TRUE)>>,
  <<"member", Leaf0("AddMember", InOut("t", "q") \o <<A("memberName", "h")>>),
    Sets("q", Struct([f |-> Num(1), g |-> Num(2), h |-> <<"bool", 1>>]))>>,
  <<"member of static", Leaf0("AddMember", InOut("t", "s") \o <<A("memberName", "h")>>), Same(FALSE)>>,
  <<"member again", Leaf0("AddMember", InOut("t", "q") \o <<A("memberName", "g")>>), Same(FALSE)>>,
  <<"element", Leaf0("AddElement", InOut("y", "l")), Sets("l", Array("int32", <<Num(1), Num(2)>>))>>,
  <<"element of type", Leaf0("AddElement", InOut("b", "l")), Same(FALSE)>>,
  <<"condition", Leaf0("Condition", Of("y")), Same(TRUE)>>,
  <<"condition of struct", Leaf0("Condition", Of("s")), Same(FALSE)>>,
  <<"exists", Leaf0("VarExists", Of("s.g")), Same(TRUE)>>,
  <<"exists not", Leaf0("VarExists", Of("s.h")), Same(FALSE)>>,
  <<"exists file", Leaf0("VarExists", Of("f")), Same(FALSE)>>,
  <<"output", Leaf0("Output", <<A("fromVar", "s"), A("description", "hello")>>), Same(TRUE)>>,
  <<"message", Leaf0("Message", <<A("text", "hello")>>), Same(TRUE)>>,
  <<"log", Leaf0("Log", <<A("severity", "warning"), A("inputVar", "l")>>), Same(TRUE)>>,
  <<"log text", Leaf0("Log", <<A("message", "hello")>>), Same(TRUE)>>,
  <<"log badly", Leaf0("Log", <<A("severity", "odd"), A("message", "hello")>>), Same(FALSE)>>,
  <<"reset", Leaf0("ResetVariable", Of("x")), Same(TRUE)>>,
  <<"reset file", Leaf0("ResetVariable", Of("f")), Same(TRUE)>>,
  <<"reset unknown", Leaf0("ResetVariable", Of("s.f")), Same(FALSE)>>,
  <<"wait", Leaf0("Wait", <<A("timeout", "two"), A("blocking", "true")>>), Same(TRUE)>>,
  <<"wait for variable", Leaf0("WaitForVariable", Of("x") \o <<Ref("timeout", "y")>>), Same(TRUE)>>,
  <<"wait for less", Leaf0("WaitForVariable", Of("x") \o <<A("timeout", "minus")>>), Same(FALSE)>>,
  <<"wait for file", Leaf0("WaitForVariables", <<A("timeout", "two"), A("varType", "File")>>), Same(FALSE)>>,
  <<"wait for locals", Leaf0("WaitForVariables", <<A("timeout", "two"), A("varType", "Local")>>), Same(TRUE)>>}

\* Threads that share variables.
Ending(ok, values) == [status |-> IF ok THEN "SUCCESS" ELSE "FAILURE", values |-> values]
Shared == {
  <<"two fields", Job(Parallel(<<Leaf0("Copy", InOut("x", "s.f")), Leaf0("Copy", InOut("x", "s.g"))>>),
                      <<LocalVar("x", "int", "zero"), LocalVar("s", "pair", "twelve")>>),
    {Ending(TRUE, [x |-> Num(0), s |-> Pair(0, 0)])}>>,
  <<"two increments", Job(Parallel(<<Leaf0("Increment", Of("x")), Leaf0("Increment", Of("x"))>>),
                          <<LocalVar("x", "byte", "zero")>>),
    {Ending(TRUE, [x |-> Small(1)]), Ending(TRUE, [x |-> Small(2)])}>>,
  <<"reset and copy", Job(Parallel(<<Leaf0("ResetVariable", Of("x")), Leaf0("Copy", InOut("y", "x"))>>),
                          <<LocalVar("x", "byte", "zero"), LocalVar("y", "int", "one")>>),
    {Ending(ok, [x |-> Small(n), y |-> Num(1)]) : ok \in {TRUE, FALSE}, n \in {0, 1}}>>,
  <<"file appears", Job(Parallel(<<Leaf0("WaitForVariable", <<A("varName", "f"), A("timeout", "two"),
                                                             A("equalsVar", "x")>>),
                                   Leaf0("Copy", InOut("x", "f"))>>),
                        <<LocalVar("x", "int", "one"), FileVar("f", "data")>>),
    {Ending(ok, [x |-> Num(1), f |-> Num(1)]) : ok \in {TRUE, FALSE}}
      \union {Ending(FALSE, [x |-> Num(1), f |-> Empty])}>>}

\* Texts that include, that are refused, and that the client halts or watches.
LibTree == Element("Sequence", <<A("name", "tree")>>,
                   <<Leaf0("Wait", <<Held("timeout", "delay")>>), Leaf0("Message", <<Held("text", "say")>>)>>)
Lib == ProcedureOf(<< >>, <<Leaf0("RegisterType", <<A("jsontype", "pair")>>)>>,
            <<Element("Sequence", <<A("name", "lib")>>, <<LibTree, Leaf0("Succeed", << >>)>>),
              Leaf0("Fail", <<A("isRoot", "true"), A("name", "other")>>)>>,
            <<LocalVar("v", "pair", "twelve")>>)
Including(attrs) == Element("Sequence", << >>, <<Leaf0("Succeed", << >>), Leaf0("Include", attrs), Leaf0("Fail", << >>)>>)
Plugin(name) == [node |-> "Plugin", attrs |-> << >>, children |-> << >>, content |-> name]
Given == <<A("file", "lib"), A("path", "lib/tree"), A("delay", "one"), A("say", "hello")>>

Loaded == {
  <<"include", Job(Including(Given), << >>)>>,
  <<"include procedure",
    ProcedureOf(<<A("tickTimeout", "one")>>, <<Plugin("plugin"), Leaf0("RegisterType", <<A("jsontype", "pair")>>)>>,
         <<Leaf0("Fail", << >>),
           Element("Inverter", <<A("isRoot", "yes")>>, <<Leaf0("IncludeProcedure", <<A("file", "lib")>>)>>)>>,
         <<LocalVar("s", "mypair", "twelve")>>)>>,
  <<"sub/main",
    ProcedureOf(<< >>, <<Leaf0("RegisterType", <<A("jsonfile", "types")>>)>>,
         <<Element("Sequence", <<A("showCollapsed", "true")>>,
            <<Element("IncludeProcedure", <<A("file", "lib"), A("path", "lib")>> \o SubSeq(Given, 3, 4),
                      <<Leaf0("Fail", << >>)>>),
              Leaf0("Include", SubSeq(Given, 2, 4) \o <<A("file", "/lib")>>)>>)>>,
         <<LocalVar("s", "mypair", "twelve"), FileVar("f", "data")>>)>>,
  <<"nested", Job(Element("Fallback", << >>, <<LibTree.children[2], Including(Given)>>), << >>)>>}
Refused == {
  <<"not given", Job(Including(<<A("file", "lib"), A("path", "lib/tree"), A("delay", "one")>>), << >>)>>,
  <<"given badly", Job(Including(<<A("file", "lib"), A("path", "lib/tree"), A("delay", "odd"), A("say", "x")>>), << >>)>>,
  <<"no tree", Job(Including(<<A("file", "lib"), A("path", "tree")>>), << >>)>>,
  <<"not filled in", Job(LibTree, << >>)>>,
  <<"no file", Job(Including(<<A("file", "none"), A("path", "tree")>>), << >>)>>,
  <<"no child", Job(Element("Inverter", << >>, << >>), << >>)>>,
  <<"two children", Job(Element("Inverter", << >>, <<Leaf0("Fail", << >>), Leaf0("Fail", << >>)>>), << >>)>>,
  <<"child of action", Job(Element("Fail", << >>, <<Leaf0("Fail", << >>)>>), << >>)>>,
  <<"no file name", Job(Leaf0("Fail", << >>), <<Leaf0("File", <<A("name", "f")>>)>>)>>,
  <<"no type file", ProcedureOf(<< >>, <<Leaf0("RegisterType", <<A("jsonfile", "types")>>)>>, <<Leaf0("Fail", << >>)>>, << >>)>>,
  <<"unknown", Job(Leaf0("Jump", << >>), << >>)>>,
  <<"no root", ProcedureOf(<< >>, << >>, <<Leaf0("Fail", << >>), Leaf0("Fail", << >>)>>, << >>)>>,
  <<"no name", Job(Leaf0("Fail", << >>), <<Leaf0("Local", << >>)>>)>>,
  <<"name twice", Job(Leaf0("Fail", << >>), <<Untyped("x"), FileVar("x", "data")>>)>>,
  <<"no type", Job(Leaf0("Fail", << >>), <<Leaf0("Local", <<A("name", "x"), A("value", "one")>>)>>)>>,
  <<"unknown type", Job(Leaf0("Fail", << >>), <<LocalVar("x", "mypair", "one")>>)>>,
  <<"too large", Job(Leaf0("Fail", << >>), <<LocalVar("x", "byte", "large")>>)>>,
  <<"no plugin", ProcedureOf(<< >>, <<Plugin("other")>>, <<Leaf0("Fail", << >>)>>, << >>)>>,
  <<"unreadable", [node |-> "unreadable"]>>,
  <<"no procedure", Leaf0("Sequence", << >>)>>,
  <<"no message", Job(Leaf0("Log", << >>), << >>)>>,
  <<"bad timeout", ProcedureOf(<<A("tickTimeout", "odd")>>, << >>, <<Leaf0("Fail", << >>)>>, << >>)>>}

Busy == {
  <<"halted", Job(Parallel(<<Leaf0("Wait", <<A("timeout", "two"), A("blocking", "true")>>),
                             Leaf0("Increment", Of("x"))>>), <<LocalVar("x", "int", "zero")>>)>>,
  <<"halted question", Job(Parallel(<<Leaf0("Input", <<A("outputVar", "x")>>), Leaf0("Increment", Of("x"))>>),
                          <<LocalVar("x", "int", "zero")>>)>>,
  <<"watched", Job(Parallel(<<Leaf0("Increment", Of("x")), Leaf0("Fail", << >>)>>),
                   <<LocalVar("x", "int", "zero")>>)>>,
  <<"watched leaf", Job(Leaf0("Copy", InOut("x", "y")),
                        <<LocalVar("x", "int", "one"), LocalVar("y", "byte", "zero")>>)>>}

\* Questions to the user, and files that the programs run.
Question == [n \in {"x", "s", "t"} |-> Leaf0("Input", <<A("outputVar", n), A("description", "hello")>>)]
Confirmation == Leaf0("UserConfirmation", <<A("description", "hello"), A("okText", "go")>>)
Store2 == SelectSeq(Store1, LAMBDA v : GetNameAttribute(v) \in {"x", "s", "t"})
Start2 == [n \in {"x", "s", "t"} |-> Start1[n]]
With(n, v) == Ending(TRUE, [Start2 EXCEPT ![n] = v])
MCLines == {1, 2, Dialog!Word}

\* file, text, program, how it ends
Asking == {
  <<"cli input", Job(Question["x"], Store2), "cli", {With("x", Num(1)), With("x", Num(2)), Ending(FALSE, Start2)}>>,
  <<"cli input of bool", Job(Question["t"], Store2), "cli", {Ending(FALSE, Start2)}>>,
  <<"cli input of struct", Job(Question["s"], Store2), "cli", {Ending(FALSE, Start2)}>>,
  <<"cli choice", Job(Confirmation, Store2), "cli", {Ending(ok, Start2) : ok \in BOOLEAN}>>,
  <<"client input", Job(Question["x"], Store2), "client",
    {With("x", Num(1)), With("x", Num(2)), With("x", Num(Dialog!Word)), Ending(FALSE, Start2)}>>,
  <<"client choice", Job(Confirmation, Store2), "client", {Ending(FALSE, Start2)}>>,
  <<"daemon input", Job(Question["x"], Store2), "daemon", {Ending(FALSE, Start2)}>>,
  <<"daemon choice", Job(Confirmation, Store2), "daemon", {Ending(FALSE, Start2)}>>}
OfLogs == Job(Parallel(<<Leaf0("Message", <<A("text", "hello")>>),
                         Leaf0("Log", <<A("message", "hello"), A("severity", "warning")>>)>>), << >>)
OfShared(n) == CHOOSE t \in Shared : t[1] = n
Run == {
  <<"cli race", OfShared("two increments")[2], "cli", OfShared("two increments")[3]>>,
  <<"cli wait", OfShared("file appears")[2], "cli", OfShared("file appears")[3]>>,
  <<"daemon reset", OfShared("reset and copy")[2], "daemon", OfShared("reset and copy")[3]>>,
  <<"cli failure", Job(Parallel(<<Leaf0("Fail", << >>), Leaf0("Wait", <<A("timeout", "two")>>)>>), << >>),
    "cli", {Ending(FALSE, << >>)}>>,
  <<"cli log", OfLogs, "cli", {Ending(TRUE, << >>)}>>,
  <<"cli log oddly", OfLogs, "cli", {Ending(TRUE, << >>)}>>,
  <<"daemon log", OfLogs, "daemon", {Ending(TRUE, << >>)}>>,
  <<"daemon log more", OfLogs, "daemon", {Ending(TRUE, << >>)}>>,
  <<"validate", OfShared("two fields")[2], "validate", {}>>}
RunRefused == {
  <<"cli no child", Job(Element("Inverter", << >>, << >>), << >>), "cli">>,
  <<"daemon unknown", Job(Leaf0("Jump", << >>), << >>), "daemon">>,
  <<"validate too large", Job(Leaf0("Fail", << >>), <<LocalVar("x", "byte", "large")>>), "validate">>}

NamesOf(texts) == {t[1] : t \in texts}
Simple == Shared \union Loaded \union Refused \union Busy \union Asking \union Run \union RunRefused
MCTexts == NamesOf(Singles \union Simple) \union {"missing"}
MCExecuted == NamesOf(Singles \union Shared \union Busy \union Asking)
MCWatched == {"watched", "watched leaf"}
MCHalted == {"halted", "halted question"}
MCOnDisk == [d \in {"data", "sub/data"} |-> Empty]
MCRunBy == [n \in MCTexts |-> IF n \in NamesOf(Asking \union Run \union RunRefused)
                              THEN (CHOOSE t \in Asking \union Run \union RunRefused : t[1] = n)[3]
                              ELSE "client"]

MCDocuments ==
  [f \in {"lib", "sub/lib", "/lib"} |-> Lib] @@
  [n \in MCTexts \ {"missing"} |->
     IF n \in NamesOf(Singles) THEN Job((CHOOSE t \in Singles : t[1] = n)[2], Store1)
     ELSE (CHOOSE t \in Simple : t[1] = n)[2]]

\* What the user is told of it.
Says(how, text, value) == {<<how, Text(text), value>>}
Hello == Says("message", "hello", Empty)
MCTold == [n \in {"output", "message", "log", "log text", "cli log", "cli log oddly", "daemon log",
                  "daemon log more"} |->
  CASE n = "output" -> Says("value", "hello", Pair(1, 2))
    [] n = "message" -> Hello
    [] n = "log" -> Says("warning", "", Array("int32", <<Num(1)>>))
    [] n = "log text" -> Says("info", "hello", Empty)
    [] n \in {"cli log", "cli log oddly", "daemon log more"} -> Hello \union Says("warning", "hello", Empty)
    [] n = "daemon log" -> Says("warning", "hello", Empty)]
MCVerbosity == [n \in MCTexts |-> CASE n = "cli log oddly" -> "odd" [] n = "daemon log more" -> "INFO"
                                    [] OTHER -> "WARNING"]
MCExpected ==
  [n \in NamesOf(Singles \union Shared) |-> (CHOOSE t \in Singles \union Shared : t[1] = n)[3]]
  @@ [n \in NamesOf(Asking \union Run) |-> (CHOOSE t \in Asking \union Run : t[1] = n)[4]]
=============================================================================
