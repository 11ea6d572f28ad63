------------------------------- MODULE UserInput -------------------------------
(***************************************************************************)
(* instructions/input.cpp, user_confirmation.cpp, user_choice.cpp: the     *)
(* instructions that wait for the user, over the input exchange that the   *)
(* adapter implements, inside a job that is halted, reset and destroyed.   *)
(* Every instruction is ticked by a thread of its own, as the children of  *)
(* a ParallelSequence are.  Another thread halts them, and the job's       *)
(* destructor destroys the adapter before the instructions (LocalJobImpl). *)
(* m_future is a plain pointer: the halting thread destroys the future     *)
(* while the ticking thread may use it, so each use is two steps, reading  *)
(* the pointer and following it.  Following a null pointer or one to a     *)
(* future that is destroyed is undefined behaviour, and ends the model.    *)
(***************************************************************************)
EXTENDS UserDialog, FiniteSets

CONSTANTS
  Instruction,   \* every instruction of every procedure
  Orders,        \* the procedures: sequences of instructions, as a halt walks them
  Kind,          \* per instruction "Input", "UserConfirmation" or "UserChoice"
  ChildCount,    \* per UserChoice: its number of children
  Answers,       \* what a user may type
  MaxRequests    \* bound of the model: the number of questions asked

Request == 1 .. MaxRequests

ASSUME InputAssumption ==
  /\ MaxRequests \in Nat
  /\ Orders \subseteq Seq(Instruction)
  /\ Kind \in [Instruction -> {"Input", "UserConfirmation", "UserChoice"}]
  /\ ChildCount \in [Instruction -> Nat]

VARIABLES
  order,      \* the procedure of this job; never changes
  phase,      \* the exchange: per question "unborn", "pending", "ready", "gone"
  reply,      \* per question: the packet that answers it
  status,     \* per instruction: m_status
  haltReq,    \* per instruction: m_halt_requested
  pointer,    \* per instruction: m_future, 0 when null
  choice,     \* per instruction: m_choice
  run,        \* per instruction: how often it was reset, counted modulo 2
  askedIn,    \* per question: <<instruction, run>> it was asked in
  chosenIn,   \* per instruction: the run in which m_choice was set
  ticker,     \* per instruction: where its thread is
  seen,       \* per instruction: the pointer its thread has read
  walk,       \* the halting walk: the instructions left
  stage,      \* where the walk is in its first instruction
  dying,      \* the future that the walk is destroying
  deleted,    \* the futures that were deleted
  lost,       \* the futures whose pointer was overwritten by a race, and leaked
  job,        \* "alive", "terminating", "adapterGone"
  undefined   \* something undefined was done

exchange == <<phase, reply, askedIn>>
instruction == <<status, haltReq, choice, run, chosenIn>>
halting == <<walk, stage, dying>>
memory == <<deleted, lost>>
vars == <<order, exchange, instruction, pointer, ticker, seen, halting, memory, job, undefined>>

Exchange == INSTANCE InputExchange

Init == /\ order \in Orders
        /\ Exchange!Init
        /\ reply = [q \in Request |-> InvalidUserInputReply]
        /\ askedIn = [q \in Request |-> << >>]
        /\ status = [i \in Instruction |-> "NOT_STARTED"]
        /\ haltReq = [i \in Instruction |-> FALSE]
        /\ pointer = [i \in Instruction |-> 0]
        /\ choice = [i \in Instruction |-> -1]
        /\ run = [i \in Instruction |-> 0]
        /\ chosenIn = [i \in Instruction |-> 0]
        /\ ticker = [i \in Instruction |-> "idle"]
        /\ seen = [i \in Instruction |-> 0]
        /\ walk = << >>
        /\ stage = "flag"
        /\ dying = 0
        /\ deleted = {}
        /\ lost = {}
        /\ job = "alive"
        /\ undefined = FALSE

Defined == ~undefined

Live(q) == q # 0 /\ phase[q] \in {"pending", "ready"}

At(i, where) == Defined /\ ticker[i] = where

Goto(i, where) == ticker' = [ticker EXCEPT ![i] = where]

-----------------------------------------------------------------------------
(* A tick: Preamble and InitHook                                             *)

AskedOf(i) == IF Kind[i] = "Input" THEN CreateUserValueRequest("int32")
              ELSE IF Kind[i] = "UserConfirmation" THEN CreateUserChoiceRequest(2)
              ELSE CreateUserChoiceRequest(ChildCount[i])

\* m_future = Create...Future(...): ask, and drop what the pointer still held.
AskUser(i, q) ==
  /\ phase[q] = "unborn" /\ Exchange!Oldest(q, "unborn")
  /\ phase' = [r \in Request |-> IF r = q THEN "pending"
                                 ELSE IF r = pointer[i] /\ Live(r) THEN "gone" ELSE phase[r]]
  /\ pointer' = [pointer EXCEPT ![i] = q]
  /\ deleted' = deleted \union ({pointer[i]} \ {0})
  /\ askedIn' = [askedIn EXCEPT ![q] = <<i, run[i]>>]
  /\ status' = [status EXCEPT ![i] = "NOT_FINISHED"]
  /\ Goto(i, "preambled")
  /\ UNCHANGED <<lost, reply, haltReq, choice, run, chosenIn, seen, halting, job, undefined>>

BeginsFresh(i) == /\ At(i, "idle") /\ job # "adapterGone"
                  /\ status[i] = "NOT_STARTED"

InputAsks(i, q)        == Kind[i] = "Input" /\ BeginsFresh(i) /\ AskUser(i, q)
ConfirmationAsks(i, q) == Kind[i] = "UserConfirmation" /\ BeginsFresh(i) /\ AskUser(i, q)
ChoiceAsks(i, q)       == Kind[i] = "UserChoice" /\ BeginsFresh(i) /\ AskUser(i, q)

\* InitHook fails: an attribute cannot be read, or the user interface hands out
\* an invalid future only (UnsupportedInputFuture).
CannotAsk(i) ==
  /\ BeginsFresh(i)
  /\ status' = [status EXCEPT ![i] = "FAILURE"]
  /\ UNCHANGED <<memory, exchange, haltReq, choice, run, chosenIn, pointer, ticker, seen, halting, job, undefined>>

TickAgain(i) ==
  /\ At(i, "idle") /\ job # "adapterGone"
  /\ status[i] \in {"NOT_FINISHED", "RUNNING"}
  /\ Goto(i, "preambled")
  /\ UNCHANGED <<memory, exchange, instruction, pointer, seen, halting, job, undefined>>

-----------------------------------------------------------------------------
(* A tick: ExecuteSingleImpl.  IsHaltRequested is read by ExecuteSingle and  *)
(* once more together with m_future.                                         *)

Returns(i, s) == /\ status' = [status EXCEPT ![i] = s]
                 /\ seen' = [seen EXCEPT ![i] = 0]
                 /\ Goto(i, "idle")

SkipsHalted(i) ==
  /\ At(i, "preambled") /\ haltReq[i]
  /\ Goto(i, "idle")
  /\ UNCHANGED <<memory, exchange, instruction, pointer, seen, halting, job, undefined>>

Enters(i) ==
  /\ At(i, "preambled") /\ ~haltReq[i]
  /\ Goto(i, "entered")
  /\ UNCHANGED <<memory, exchange, instruction, pointer, seen, halting, job, undefined>>

FailsHalted(i) ==
  /\ At(i, "entered") /\ (haltReq[i] \/ pointer[i] = 0)
  /\ Returns(i, "FAILURE")
  /\ UNCHANGED <<memory, exchange, haltReq, choice, run, chosenIn, pointer, halting, job, undefined>>

\* m_future->IsReady(), m_future->GetValue(): the pointer is read ...
ReadsPointer(i, from, to) ==
  /\ At(i, from)
  /\ seen' = [seen EXCEPT ![i] = pointer[i]]
  /\ Goto(i, to)
  /\ UNCHANGED <<memory, exchange, instruction, pointer, halting, job, undefined>>

ReadsForIsReady(i) == /\ ~haltReq[i] /\ pointer[i] # 0 /\ choice[i] < 0
                      /\ ReadsPointer(i, "entered", "isReady")
ReadsForGetValue(i) == ReadsPointer(i, "answered", "getValue")

\* ... and followed, to whatever is there by now.
FollowsIntoTheVoid(i) ==
  /\ At(i, "isReady") \/ At(i, "getValue")
  /\ seen[i] \in deleted \union {0}
  /\ undefined' = TRUE
  /\ UNCHANGED <<memory, exchange, instruction, pointer, ticker, seen, halting, job>>

NotReady(i) ==
  /\ At(i, "isReady") /\ Live(seen[i]) /\ phase[seen[i]] = "pending"
  /\ Returns(i, "RUNNING")
  /\ UNCHANGED <<memory, exchange, haltReq, choice, run, chosenIn, pointer, halting, job, undefined>>

Ready(i) ==
  /\ At(i, "isReady") /\ Live(seen[i]) /\ phase[seen[i]] = "ready"
  /\ Goto(i, "answered")
  /\ UNCHANGED <<memory, exchange, instruction, pointer, seen, halting, job, undefined>>

\* What the answer makes of the instruction; writing an Input's value to the
\* workspace may fail.
InputVerdicts(i, r) ==
  IF ParseUserValueReply(r).ok THEN {"SUCCESS", "FAILURE"} ELSE {"FAILURE"}

ConfirmationVerdict(i, r) ==
  IF ParseUserChoiceReply(r).ok /\ ParseUserChoiceReply(r).choice = 0 THEN "SUCCESS" ELSE "FAILURE"

Selects(i, r) == /\ ParseUserChoiceReply(r).ok
                 /\ ParseUserChoiceReply(r).choice \in 0 .. ChildCount[i] - 1

\* What is recorded of a question that is gone is of no more use.
Forgets(q) == /\ reply' = [r \in Request |-> IF r = q THEN InvalidUserInputReply ELSE reply[r]]
              /\ askedIn' = [r \in Request |-> IF r = q THEN << >> ELSE askedIn[r]]

Takes(i) == /\ At(i, "getValue") /\ Live(seen[i])
            /\ Exchange!Collect(seen[i]) /\ Forgets(seen[i])
            /\ UNCHANGED <<memory, haltReq, run, pointer, halting, job, undefined>>

InputTakes(i) ==
  /\ Kind[i] = "Input" /\ Takes(i)
  /\ \E s \in InputVerdicts(i, reply[seen[i]]) : Returns(i, s)
  /\ UNCHANGED <<choice, chosenIn>>

ConfirmationTakes(i) ==
  /\ Kind[i] = "UserConfirmation" /\ Takes(i)
  /\ Returns(i, ConfirmationVerdict(i, reply[seen[i]]))
  /\ UNCHANGED <<choice, chosenIn>>

ChoiceTakes(i) ==
  /\ Kind[i] = "UserChoice" /\ Takes(i)
  /\ \/ /\ Selects(i, reply[seen[i]])
        /\ choice' = [choice EXCEPT ![i] = ParseUserChoiceReply(reply[seen[i]]).choice]
        /\ chosenIn' = [chosenIn EXCEPT ![i] = askedIn[seen[i]][2]]
        /\ Returns(i, "NOT_FINISHED")
     \/ /\ ~Selects(i, reply[seen[i]])
        /\ Returns(i, "FAILURE")
        /\ UNCHANGED <<choice, chosenIn>>

\* A UserChoice that was answered ticks the child that was chosen.
TicksChosen(i) ==
  /\ At(i, "entered") /\ ~haltReq[i] /\ pointer[i] # 0 /\ choice[i] >= 0
  /\ \E s \in {"NOT_FINISHED", "RUNNING", "SUCCESS", "FAILURE"} : Returns(i, s)
  /\ UNCHANGED <<memory, exchange, haltReq, choice, run, chosenIn, pointer, halting, job, undefined>>

-----------------------------------------------------------------------------
(* Reset, by the thread that owns the instruction once no tick is under way  *)

\* ~Future: the question is withdrawn, unless it was answered and collected.
Destroys(q) == /\ undefined' = (q \in deleted \/ (job = "adapterGone" /\ Live(q)))
               /\ phase' = IF Live(q) THEN [phase EXCEPT ![q] = "gone"] ELSE phase
               /\ deleted' = deleted \union ({q} \ {0})
               /\ Forgets(q)
               /\ UNCHANGED lost

\* The pointer becomes null; what it held by now, other than the future that was
\* read from it, is leaked.
Nulls(i, q) == /\ pointer' = [pointer EXCEPT ![i] = 0]
               /\ lost' = lost \union ({pointer[i]} \ {0, q})
               /\ UNCHANGED deleted

\* Faulty variant: the choice made in the earlier run is kept.
ResetKeepsChoice(i) ==
  /\ At(i, "idle") /\ job # "adapterGone"
  /\ haltReq' = [haltReq EXCEPT ![i] = TRUE]
  /\ run' = [run EXCEPT ![i] = 1 - @]
  /\ seen' = [seen EXCEPT ![i] = pointer[i]]
  /\ Goto(i, "dropping")
  /\ UNCHANGED <<memory, exchange, status, choice, chosenIn, pointer, halting, job, undefined>>

\* ResetHook: forget the choice, then Halt: set the flag and read the pointer ...
ResetBegin(i) ==
  /\ At(i, "idle") /\ job # "adapterGone"
  /\ choice' = [choice EXCEPT ![i] = -1]
  /\ chosenIn' = [chosenIn EXCEPT ![i] = 0]
  /\ haltReq' = [haltReq EXCEPT ![i] = TRUE]
  /\ run' = [run EXCEPT ![i] = 1 - @]
  /\ seen' = [seen EXCEPT ![i] = pointer[i]]
  /\ Goto(i, "dropping")
  /\ UNCHANGED <<memory, exchange, status, pointer, halting, job, undefined>>

\* ... which becomes null before its future is destroyed.
ResetNulls(i) ==
  /\ At(i, "dropping")
  /\ Nulls(i, seen[i])
  /\ Goto(i, "dropped")
  /\ UNCHANGED <<exchange, instruction, seen, halting, job, undefined>>

\* Faulty variant: the future is forgotten and not destroyed.
ResetLeaks(i) ==
  /\ At(i, "dropped")
  /\ status' = [status EXCEPT ![i] = "NOT_STARTED"]
  /\ haltReq' = [haltReq EXCEPT ![i] = FALSE]
  /\ seen' = [seen EXCEPT ![i] = 0]
  /\ Goto(i, "idle")
  /\ UNCHANGED <<memory, exchange, choice, run, chosenIn, pointer, halting, job, undefined>>

\* The future is destroyed; status and flag are those of a new instruction.
ResetEnd(i) ==
  /\ At(i, "dropped")
  /\ Destroys(seen[i])
  /\ status' = [status EXCEPT ![i] = "NOT_STARTED"]
  /\ haltReq' = [haltReq EXCEPT ![i] = FALSE]
  /\ seen' = [seen EXCEPT ![i] = 0]
  /\ Goto(i, "idle")
  /\ UNCHANGED <<choice, run, chosenIn, pointer, halting, job>>

-----------------------------------------------------------------------------
(* The user                                                                  *)

UserAnswers(q, a) ==
  /\ Defined /\ job # "adapterGone"
  /\ Exchange!Answer(q)
  /\ reply' = [reply EXCEPT ![q] =
                 ForwardUserInput(AskedOf(askedIn[q][1]), a # -1, Value("int32", a), a)]
  /\ UNCHANGED <<memory, askedIn, instruction, pointer, ticker, seen, halting, job, undefined>>

-----------------------------------------------------------------------------
(* Halt, by another thread: instruction after instruction, the flag and then  *)
(* HaltImpl                                                                   *)

Halt ==
  /\ Defined /\ job = "alive" /\ walk = << >>
  /\ walk' = order
  /\ UNCHANGED <<memory, exchange, instruction, pointer, ticker, seen, stage, dying, job, undefined>>

Terminate ==
  /\ Defined /\ job = "alive" /\ walk = << >>
  /\ job' = "terminating"
  /\ walk' = order
  /\ UNCHANGED <<memory, exchange, instruction, pointer, ticker, seen, stage, dying, undefined>>

HaltFlags ==
  /\ Defined /\ walk # << >> /\ stage = "flag"
  /\ haltReq' = [haltReq EXCEPT ![Head(walk)] = TRUE]
  /\ stage' = "read"
  /\ UNCHANGED <<memory, exchange, status, choice, run, chosenIn, pointer, ticker, seen, walk, dying, job, undefined>>

HaltReads ==
  /\ Defined /\ walk # << >> /\ stage = "read"
  /\ dying' = pointer[Head(walk)]
  /\ stage' = "null"
  /\ UNCHANGED <<memory, exchange, instruction, pointer, ticker, seen, walk, job, undefined>>

HaltNulls ==
  /\ Defined /\ walk # << >> /\ stage = "null"
  /\ Nulls(Head(walk), dying)
  /\ stage' = "destroy"
  /\ UNCHANGED <<exchange, instruction, ticker, seen, walk, dying, job, undefined>>

HaltDestroys ==
  /\ Defined /\ walk # << >> /\ stage = "destroy"
  /\ Destroys(dying)
  /\ walk' = Tail(walk)
  /\ stage' = "flag"
  /\ dying' = 0
  /\ UNCHANGED <<instruction, pointer, ticker, seen, job>>

\* ~AsyncRunner has joined the loop thread, whose tick was the last; then the
\* adapter is destroyed, and after it the procedure with the instructions.
DestroyAdapter ==
  /\ Defined /\ job = "terminating" /\ walk = << >>
  /\ \A i \in Instruction : ticker[i] = "idle"
  /\ job' = "adapterGone"
  /\ UNCHANGED <<memory, exchange, instruction, pointer, ticker, seen, halting, undefined>>

DestroyInstruction(i) ==
  /\ At(i, "idle") /\ job = "adapterGone" /\ pointer[i] # 0
  /\ pointer' = [pointer EXCEPT ![i] = 0]
  /\ Destroys(pointer[i])
  /\ UNCHANGED <<instruction, ticker, seen, halting, job>>

-----------------------------------------------------------------------------
Tick(i) == \/ \E q \in Request : InputAsks(i, q) \/ ConfirmationAsks(i, q) \/ ChoiceAsks(i, q)
           \/ CannotAsk(i) \/ TickAgain(i) \/ SkipsHalted(i) \/ Enters(i) \/ FailsHalted(i)
           \/ ReadsForIsReady(i) \/ ReadsForGetValue(i) \/ FollowsIntoTheVoid(i)
           \/ NotReady(i) \/ Ready(i)
           \/ InputTakes(i) \/ ConfirmationTakes(i) \/ ChoiceTakes(i) \/ TicksChosen(i)

Reset(i) == ResetBegin(i) \/ ResetNulls(i) \/ ResetEnd(i)

HaltWalk == HaltFlags \/ HaltReads \/ HaltNulls \/ HaltDestroys

Present == {order[k] : k \in DOMAIN order}

Next == /\ \/ \E i \in Present : Tick(i) \/ Reset(i) \/ DestroyInstruction(i)
           \/ \E q \in Request, a \in Answers : UserAnswers(q, a)
           \/ Halt \/ Terminate \/ HaltWalk \/ DestroyAdapter
        /\ UNCHANGED order

Spec == Init /\ [][Next]_vars

-----------------------------------------------------------------------------
(* Properties                                                                *)

\* An instruction acts on answers only that were given to a question of its own,
\* asked in its present run: no answer survives a reset, however the halts of
\* another thread, the answers of the user and the ticks interleave.
ActsOnOwnAnswer ==
  Defined => \A i \in Instruction :
               /\ choice[i] >= 0 => chosenIn[i] = run[i]
               /\ ticker[i] = "getValue" /\ Live(seen[i])
                    => phase[seen[i]] = "ready" /\ askedIn[seen[i]] = <<i, run[i]>>

\* A question stays with the user only as long as the instruction that asked it
\* waits for the answer: none is left over by a tick that ended, by a reset or by
\* a halt that has passed, but for the futures that a halt and a tick of the same
\* instruction leak between reading the pointer and overwriting it.
QuestionsHaveOwners ==
  Defined => \A q \in Request : Live(q) =>
    LET i == askedIn[q][1]
    IN \/ pointer[i] = q /\ status[i] \in {"NOT_FINISHED", "RUNNING"}
       \/ ticker[i] = "dropping" \/ (ticker[i] = "dropped" /\ seen[i] = q)
       \/ walk # << >> /\ i = Head(walk)
       \/ q \in lost

=============================================================================
