--------------------------- MODULE ValueInstructions ---------------------------
(***************************************************************************)
(* The leaf instructions that read attributes and variables and write at   *)
(* most one variable (instructions/).  Each is described by the attributes *)
(* that its constructor defines, the constraints on them, what its InitHook *)
(* and its ExecuteSingleImpl read, in order, and the outcome for the values *)
(* got: a status, or the value to be stored in the variable that an         *)
(* attribute names.                                                        *)
(*                                                                         *)
(* "clock" is [late, halted]: whether the timeout has passed and whether   *)
(* the instruction is asked to halt as the outcome is decided.             *)
(***************************************************************************)
EXTENDS Attributes

-----------------------------------------------------------------------------
(* Attributes as the constructors define them.                               *)

Literal(name, type) == AttributeDefinition(name, type)
Variable(name)      == SetCategory(AttributeDefinition(name, "string"), "variable")
Both(name, type)    == SetCategory(AttributeDefinition(name, type), "both")

\* The definitions of the base class.
BaseDefinitions == <<Literal("name", "string"), Literal("isRoot", "bool")>>

-----------------------------------------------------------------------------
(* Readings: of an attribute's value; of its value as a type; of a variable  *)
(* that may be unavailable; and of the availability of a variable.           *)

Anything == "any"
Value(name)             == [attr |-> name, as |-> Anything, default |-> Empty, try |-> FALSE]
ValueAs(name, default)  == [attr |-> name, as |-> default[1], default |-> default, try |-> FALSE]
Available(name)         == [attr |-> name, as |-> Anything, default |-> Empty, try |-> TRUE]

\* Outcomes.
Ends(status) == [status |-> status, target |-> "", value |-> Empty]
Verdict(holds) == Ends(IF holds THEN "SUCCESS" ELSE "FAILURE")
Stores(attr, v) == [status |-> "SUCCESS", target |-> attr, value |-> v]
\* Success, with something for the user.
Tells(told) == [status |-> "SUCCESS", target |-> "", value |-> told]

Instruction(defs, reads, outcome) ==
  [defs |-> defs, constraints |-> << >>, init |-> << >>, reads |-> reads, outcome |-> outcome]

-----------------------------------------------------------------------------
(* Instructions that end when they are ticked.                               *)

Succeed == Instruction(<< >>, << >>, Verdict(TRUE))
Fail    == Instruction(<< >>, << >>, Verdict(FALSE))

Copy(got) == Instruction(<<SetMandatory(Variable("inputVar")), SetMandatory(Variable("outputVar"))>>,
                         <<Value("inputVar")>>, Stores("outputVar", got[1]))

\* The same between the workspaces of two procedures.
CopyToProcedure(got) ==
  [Copy(got) EXCEPT !.defs = <<SetMandatory(Literal("file", "string"))>> \o @]
CopyFromProcedure(got) ==
  [Copy(got) EXCEPT !.defs = <<SetMandatory(Literal("file", "string"))>> \o @]

\* sup::dto::Increment and Decrement, away from the limits of the type.
Stepped(v, n) == IF IsNumber(v) THEN Stores("varName", <<v[1], v[2] + n>>) ELSE Verdict(FALSE)

Increment(got) == Instruction(<<SetMandatory(Variable("varName"))>>, <<Value("varName")>>,
                              Stepped(got[1], 1))
Decrement(got) == Instruction(<<SetMandatory(Variable("varName"))>>, <<Value("varName")>>,
                              Stepped(got[1], -1))

Comparison(holds) == Instruction(
  <<SetMandatory(Variable("leftVar")), SetMandatory(Variable("rightVar"))>>,
  <<Value("leftVar"), Value("rightVar")>>, Verdict(holds))

\* sup::dto::Compare: anything but two numbers is unordered.
Ordered(got) == IsNumber(got[1]) /\ IsNumber(got[2])

Equals(got)             == Comparison(got[1] = got[2])
LessThan(got)           == Comparison(Ordered(got) /\ got[1][2] < got[2][2])
LessThanOrEqual(got)    == Comparison(Ordered(got) /\ got[1][2] <= got[2][2])
GreaterThan(got)        == Comparison(Ordered(got) /\ got[1][2] > got[2][2])
GreaterThanOrEqual(got) == Comparison(Ordered(got) /\ got[1][2] >= got[2][2])

AddMember(member, got) == Instruction(
  <<SetMandatory(Variable("inputVar")), SetMandatory(Variable("outputVar")),
    SetMandatory(Literal("memberName", "string"))>>,
  <<Value("inputVar"), Value("outputVar")>>,
  IF /\ member # Blank
     /\ got[2] # Empty /\ got[2][1] = "struct" /\ member[2] \notin DOMAIN got[2][2]
  THEN Stores("outputVar", Struct([m \in DOMAIN got[2][2] \union {member[2]} |->
                                     IF m = member[2] THEN got[1] ELSE got[2][2][m]]))
  ELSE Verdict(FALSE))

AddElement(got) == Instruction(
  <<SetMandatory(Variable("inputVar")), SetMandatory(Variable("outputVar"))>>,
  <<Value("inputVar"), Value("outputVar")>>,
  IF got[2] # Empty /\ got[2][1] = "array" /\ TypeOf(got[1]) = <<got[2][2]>>
  THEN Stores("outputVar", Array(got[2][2], Append(got[2][3], got[1]))) ELSE Verdict(FALSE))

Condition(got) == Instruction(<<SetMandatory(Variable("varName"))>>,
                              <<ValueAs("varName", <<"bool", 0>>)>>, Verdict(got[1] = <<"bool", 1>>))

VarExists == Instruction(<<SetMandatory(Variable("varName"))>>, <<Value("varName")>>, Verdict(TRUE))

Text(token) == <<"string", Plain(token)>>

\* What is told: how, the text and the value.
Output(got) == Instruction(<<SetMandatory(Variable("fromVar")), Both("description", "string")>>,
                           <<Value("fromVar"), ValueAs("description", Text(""))>>,
                           Tells(<<"value", got[2], got[1]>>))

Message(got) == Instruction(<<SetMandatory(Both("text", "string"))>>, <<ValueAs("text", Text(""))>>,
                            Tells(<<"message", got[1], Empty>>))

\* Severities are numbered from 0; a name that is unknown has the number -1 for Log,
\* and NUMBER_OF_LOG_LEVELS for a program.
Severities == <<"emergency", "alert", "critical", "error", "warning", "notice", "info", "debug", "trace">>
SeverityFromString(v) == SelectInSeq(Severities, LAMBDA s : Plain(s) = v[2]) - 1

SeverityMap ==
  <<"EMERGENCY", "ALERT", "CRITICAL", "ERROR", "WARNING", "NOTICE", "INFO", "DEBUG", "TRACE">>
GetSeverityFromString(name) ==
  LET k == SelectInSeq(SeverityMap, LAMBDA s : s = name)
  IN IF k = 0 THEN Len(Severities) ELSE k - 1

\* The severity is judged before the message and the variable are read.
Log(got) ==
  LET known == got[1] # Empty /\ SeverityFromString(got[1]) >= 0
  IN [Instruction(<<Both("message", "string"), Variable("inputVar"), Both("severity", "string")>>,
                  <<ValueAs("severity", Text("info"))>>
                    \o IF got[1] # Empty /\ ~known THEN << >>
                       ELSE <<ValueAs("message", Text("")), Value("inputVar")>>,
                  IF known THEN Tells(<<got[1][2][2], got[2], got[3]>>) ELSE Verdict(FALSE))
      EXCEPT !.constraints = <<Or(Exists("message"), Exists("inputVar"))>>]

\* The reset itself is an operation on the workspace.
ResetVariable(found) == Instruction(<<SetMandatory(Variable("varName"))>>, << >>, Verdict(found))

-----------------------------------------------------------------------------
(* Instructions that wait.                                                   *)

\* ConvertToTimeoutNanoseconds and GetVariableTimeoutAttribute: no less than zero
\* and no more than kMaxTimeoutSeconds, which no number of the model exceeds.
TimeoutFits(v) == v = Empty \/ v[2] >= 0

Waiting(timeout, done, clock) ==
  CASE clock.halted -> "FAILURE"
    [] done -> "SUCCESS"
    [] ~clock.late -> "RUNNING"
    [] OTHER -> timeout

Wait(blocking, clock) ==
  [Instruction(<<Both("timeout", "float64"), Both("blocking", "bool")>>, << >>,
               Ends(IF ~clock.halted /\ ~clock.late /\ ~blocking THEN "RUNNING"
                    ELSE Waiting("SUCCESS", FALSE, [clock EXCEPT !.late = TRUE])))
   EXCEPT !.init = <<ValueAs("blocking", <<"bool", 0>>), ValueAs("timeout", <<"float64", 0>>)>>]

SuccessCondition(compares, got) == got[1] # Empty /\ (compares => got[2] # Empty /\ got[1] = got[2])

WaitForVariable(compares, got, clock) ==
  [Instruction(<<SetMandatory(Variable("varName")), SetMandatory(Both("timeout", "float64")),
                 Variable("equalsVar")>>,
               IF clock.halted THEN << >> ELSE <<Available("varName"), Available("equalsVar")>>,
               Ends(Waiting("FAILURE", SuccessCondition(compares, got), clock)))
   EXCEPT !.init = <<ValueAs("timeout", <<"float64", 0>>)>>]

\* The variables of the type are looked up once; each is asked whether it is
\* available.  The name of the type is taken as it is written.
WaitForVariables(names, available, clock) ==
  [Instruction(<<SetMandatory(Both("timeout", "float64")), SetMandatory(Both("varType", "string"))>>,
               [k \in DOMAIN names |-> Available(names[k])],
               Ends(Waiting("FAILURE", \A k \in DOMAIN names : available[k], clock)))
   EXCEPT !.init = <<ValueAs("timeout", <<"float64", 0>>)>>]

-----------------------------------------------------------------------------
(* Instructions that ask the user.  "reply" is Empty until there is one, and *)
(* then the set with the answer, or without one.                             *)

InputAttributes == <<SetMandatory(Variable("outputVar")), Both("description", "string")>>
UserConfirmationAttributes ==
  <<SetMandatory(Both("description", "string")), Both("okText", "string"), Both("cancelText", "string")>>

AnswerIn(reply) == IF reply = Empty THEN {} ELSE reply[1]

Polled(reply, outcomes) ==
  CASE reply = Empty -> Ends("RUNNING")
    [] reply # Empty /\ outcomes = {} -> Ends("FAILURE")
    [] OTHER -> CHOOSE outcome \in outcomes : TRUE

Input(reply) ==
  [Instruction(InputAttributes, << >>, Polled(reply, {Stores("outputVar", a) : a \in AnswerIn(reply)}))
   EXCEPT !.init = <<Value("outputVar"), ValueAs("description", Text(""))>>]

\* The first of the two options confirms.
UserConfirmation(reply) ==
  [Instruction(UserConfirmationAttributes, << >>, Polled(reply, {Verdict(a = 0) : a \in AnswerIn(reply)}))
   EXCEPT !.init = <<ValueAs("description", Text("")), ValueAs("okText", Text("Ok")),
                     ValueAs("cancelText", Text("Cancel"))>>]
=============================================================================
