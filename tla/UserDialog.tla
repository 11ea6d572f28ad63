------------------------------ MODULE UserDialog ------------------------------
(***************************************************************************)
(* base/user_input_request.cpp, base/user_input_reply.cpp and their users: *)
(* how a question travels from an instruction to the user and the answer   *)
(* back.  A request and a reply are dynamically typed packets: whoever     *)
(* unpacks one checks its type, and an instruction takes a packet that     *)
(* does not fit as a failure.  A value is [type, val]; texts are one       *)
(* model value, a line that the user types is a number or a Word.          *)
(***************************************************************************)
EXTENDS Integers, Sequences

Value(t, v) == [type |-> t, val |-> v]

NoValue == Value("empty", 0)

Word  == -999   \* a line that is not a number
Truth == -998   \* a line that says true or false

ScalarTypes == {"bool", "int32", "int64", "string"}

\* The types that the command line can parse: int64 is not among them.
ParsableTypes == ScalarTypes \ {"int64"}

-----------------------------------------------------------------------------
(* Requests                                                                  *)

CreateUserValueRequest(type) ==
  [request |-> "value", input |-> type, meta |-> "text", options |-> 0]

CreateUserChoiceRequest(n) ==
  [request |-> "choice", input |-> "int32", meta |-> "options", options |-> n]

ParseUserValueRequest(r)  == r.request = "value" /\ r.meta = "text"
ParseUserChoiceRequest(r) == r.request = "choice" /\ r.meta = "options"

-----------------------------------------------------------------------------
(* Replies                                                                   *)

CreateUserValueReply(ok, v) == [request |-> "value", result |-> ok, payload |-> v]
CreateUserChoiceReply(ok, c) == [request |-> "choice", result |-> ok, payload |-> Value("int32", c)]
InvalidUserInputReply == [request |-> "none", result |-> FALSE, payload |-> NoValue]

ParseUserValueReply(r) == [ok |-> r.request = "value" /\ r.result, value |-> r.payload]

ParseUserChoiceReply(r) ==
  IF r.request = "choice" /\ r.result /\ r.payload.type = "int32"
  THEN [ok |-> TRUE, choice |-> r.payload.val]
  ELSE [ok |-> FALSE, choice |-> -1]

-----------------------------------------------------------------------------
(* A job's observer, runner/job_interface_adapter.cpp: the answer is a flag   *)
(* and a value, or an index that is negative when there is no answer.        *)

ForwardUserInput(r, answered, v, choice) ==
  IF ParseUserValueRequest(r) THEN CreateUserValueReply(answered, IF answered THEN v ELSE NoValue)
  ELSE IF ParseUserChoiceRequest(r)
  THEN CreateUserChoiceReply(choice >= 0, IF choice < 0 THEN -1 ELSE choice)
  ELSE InvalidUserInputReply

-----------------------------------------------------------------------------
(* The command line, cl_interface.cpp                                        *)

ParseStringToScalarAnyvalue(type, line) ==
  /\ type \in ParsableTypes
  /\ CASE type = "string" -> TRUE
       [] type = "bool"   -> line = Truth
       [] OTHER           -> line \notin {Word, Truth}

\* GetUserValue: whether a value was read.
CLGetUserValue(type, line) == type \in ScalarTypes /\ ParseStringToScalarAnyvalue(type, line)

\* GetUserChoice: a line that is no number is refused; the options are numbered from 1.
CLGetUserChoice(n, line) == IF line - 1 \in 0 .. n - 1 THEN line - 1 ELSE -1

CLUserInput(r, line) ==
  IF ParseUserValueRequest(r)
  THEN LET ok == CLGetUserValue(r.input, line)
       IN CreateUserValueReply(ok, IF ok THEN Value(r.input, line) ELSE NoValue)
  ELSE IF ParseUserChoiceRequest(r)
  THEN LET choice == CLGetUserChoice(r.options, line)
       IN CreateUserChoiceReply(choice >= 0, choice)
  ELSE InvalidUserInputReply

=============================================================================
