---------------------------- MODULE UserInputProofs ----------------------------
(***************************************************************************)
(* Proofs about UserInput, for any procedures, kinds of instructions and   *)
(* answers, and any bound on the questions.                                *)
(***************************************************************************)
EXTENDS UserInput, TLAPS

-----------------------------------------------------------------------------
(* The inductive invariant.                                                  *)

Following == {"isReady", "answered", "getValue"}
Dropping == {"dropping", "dropped"}
Waiting == {"NOT_FINISHED", "RUNNING"}
Born(q) == phase[q] # "unborn"
Halting(i, stages) == walk # << >> /\ Head(walk) = i /\ stage \in stages

Types ==
  /\ order \in Seq(Instruction) /\ walk \in Seq(Instruction)
  /\ phase \in [Request -> {"unborn", "pending", "ready", "gone"}]
  /\ askedIn = [q \in Request |-> askedIn[q]] /\ reply = [q \in Request |-> reply[q]]
  /\ status \in [Instruction -> {"NOT_STARTED", "SUCCESS", "FAILURE"} \union Waiting]
  /\ haltReq \in [Instruction -> BOOLEAN]
  /\ pointer \in [Instruction -> Request \union {0}]
  /\ seen \in [Instruction -> Request \union {0}]
  /\ dying \in Request \union {0}
  /\ choice \in [Instruction -> Int]
  /\ run \in [Instruction -> {0, 1}]
  /\ chosenIn \in [Instruction -> {0, 1}]
  /\ ticker \in [Instruction -> {"idle", "preambled", "entered"} \union Following \union Dropping]
  /\ stage \in {"flag", "read", "null", "destroy"} /\ (walk = << >> => stage = "flag")

\* Whoever holds a question that lives holds one of its own.
Owned ==
  /\ \A q \in Request : Live(q) => \E i \in Instruction : \E r \in {0, 1} : askedIn[q] = <<i, r>>
  /\ \A i \in Instruction : \A q \in {pointer[i], seen[i]} \ {0} :
       Born(q) /\ (Live(q) => askedIn[q][1] = i)
  /\ walk # << >> /\ stage \in {"null", "destroy"} /\ dying # 0 =>
       Born(dying) /\ (Live(dying) => askedIn[dying][1] = Head(walk))

\* A new instruction holds no question and remembers no choice; one whose reset is
\* under way no longer holds what it held.
Resetting ==
  \A i \in Instruction :
    /\ status[i] = "NOT_STARTED" => pointer[i] = 0 /\ choice[i] < 0
    /\ ticker[i] = "dropped" => pointer[i] = 0
    /\ ticker[i] \in Dropping => choice[i] < 0
    /\ ticker[i] \in Following \union {"dropping"} => pointer[i] \in {0, seen[i]}

\* The question that an instruction holds is one of its present run, and so is the
\* answer that it waits for, which is not given twice.
OwnRunOf(i) ==
  /\ ticker[i] # "dropping" /\ Live(pointer[i]) => askedIn[pointer[i]] = <<i, run[i]>>
  /\ ticker[i] \in Following /\ Live(seen[i]) => askedIn[seen[i]] = <<i, run[i]>>
  /\ ticker[i] \in {"answered", "getValue"} /\ Live(seen[i]) => phase[seen[i]] = "ready"
  /\ choice[i] >= 0 => chosenIn[i] = run[i] /\ ~Live(pointer[i])
  /\ ticker[i] \in Following => choice[i] < 0

OwnRun == \A i \in Instruction : OwnRunOf(i)

\* An instruction holds a question while it waits for the answer.  A tick that has
\* begun before the halt reached its instruction fails only while the walk is about to
\* take the question from it.
Awaited ==
  \A i \in Instruction : Live(pointer[i]) =>
    /\ \/ status[i] \in Waiting \/ ticker[i] = "dropping" \/ Halting(i, {"read", "null"})
    /\ ticker[i] = "entered" /\ haltReq[i] => Halting(i, {"read", "null"})

\* A question that lives is the responsibility of the instruction that asked it.
Keeps(i, q) ==
  \/ pointer[i] = q
  \/ ticker[i] \in Dropping /\ seen[i] = q
  \/ Halting(i, {"null", "destroy"}) /\ dying = q
  \/ q \in lost

Responsible == \A q \in Request : Live(q) => Keeps(askedIn[q][1], q)

IInv == Types /\ Owned /\ Resetting /\ OwnRun /\ Awaited /\ Responsible

-----------------------------------------------------------------------------
(* The steps of a tick.                                                      *)

\* A step of the thread of instruction i that leaves the exchange, the pointers and
\* the walk alone.
Moves(i, s, q, where) ==
  /\ status' = [status EXCEPT ![i] = s]
  /\ seen' = [seen EXCEPT ![i] = q]
  /\ ticker' = [ticker EXCEPT ![i] = where]
  /\ UNCHANGED <<order, exchange, haltReq, choice, run, chosenIn, pointer, halting, lost>>

LEMMA MovesKeep ==
  ASSUME IInv, NEW i \in Instruction,
         NEW s \in {"SUCCESS", "FAILURE", status[i]} \union Waiting,
         NEW q \in {0, seen[i], pointer[i]},
         NEW where \in {"idle", "preambled", "entered"} \union Following,
         Moves(i, s, q, where), ticker[i] \notin Dropping,
         where \in Following => /\ pointer[i] \in {0, q} /\ choice[i] < 0
                                /\ Live(q) => askedIn[q] = <<i, run[i]>>,
         where \in {"answered", "getValue"} /\ Live(q) => phase[q] = "ready",
         where = "entered" /\ Live(pointer[i]) => ~haltReq[i],
         Live(pointer[i]) => s \in Waiting \/ Halting(i, {"read", "null"})
  PROVE  IInv'
<1>1. /\ UNCHANGED <<order, phase, askedIn, reply, haltReq, choice, run, chosenIn, pointer, walk, stage,
                     dying, lost>>
      /\ \A r : Live(r)' = Live(r) /\ Born(r)' = Born(r)
      /\ \A j, stages : Halting(j, stages)' = Halting(j, stages)
  BY DEF Moves, exchange, halting, Live, Born, Halting
<1>2. Types'
  <2>1. pointer[i] \in Request \union {0} /\ seen[i] \in Request \union {0}
    BY DEF IInv, Types
  <2>2. q \in Request \union {0}
    BY <2>1
  <2>3. status' \in [Instruction -> {"NOT_STARTED", "SUCCESS", "FAILURE"} \union Waiting]
    BY DEF IInv, Types, Moves, Waiting
  <2>4. seen' \in [Instruction -> Request \union {0}]
    BY <2>2 DEF IInv, Types, Moves
  <2>5. ticker' \in [Instruction -> {"idle", "preambled", "entered"} \union Following \union Dropping]
    BY DEF IInv, Types, Moves
  <2> QED  BY <1>1, <2>3, <2>4, <2>5 DEF IInv, Types
<1>3. /\ status'[i] = s /\ seen'[i] = q /\ ticker'[i] = where
      /\ \A j \in Instruction \ {i} : status'[j] = status[j] /\ ticker'[j] = ticker[j] /\ seen'[j] = seen[j]
  BY DEF IInv, Types, Moves
<1>4. Owned'
  BY <1>1, <1>3 DEF IInv, Owned
<1>5. Resetting'
  BY <1>1, <1>3 DEF IInv, Resetting, Following, Dropping, Waiting
<1>6. OwnRun'
  BY <1>1, <1>3 DEF IInv, OwnRun, OwnRunOf, Following, Dropping
<1>7. Awaited'
  BY <1>1, <1>3 DEF IInv, Awaited, Dropping
<1>8. Responsible'
  <2> SUFFICES ASSUME NEW r \in Request, Live(r)  PROVE Keeps(askedIn[r][1], r)'
    BY <1>1 DEF Responsible
  <2> PICK j \in Instruction : askedIn[r][1] = j
    BY DEF IInv, Owned
  <2>1. Keeps(j, r)
    BY DEF IInv, Responsible
  <2>2. Keeps(j, r)'
    BY <1>1, <1>3, <2>1 DEF Keeps
  <2> QED  BY <1>1, <2>2
<1> QED  BY <1>2, <1>4, <1>5, <1>6, <1>7, <1>8 DEF IInv

LEMMA QuietTick ==
  ASSUME IInv, UNCHANGED order, NEW i \in Instruction,
         \/ CannotAsk(i) \/ TickAgain(i) \/ SkipsHalted(i) \/ Enters(i) \/ FailsHalted(i)
         \/ ReadsForIsReady(i) \/ ReadsForGetValue(i) \/ NotReady(i) \/ Ready(i) \/ TicksChosen(i)
  PROVE  IInv'
<1>1. /\ pointer[i] \in Request \union {0} /\ choice[i] \in Int
      /\ status = [status EXCEPT ![i] = status[i]]
      /\ seen = [seen EXCEPT ![i] = seen[i]]
      /\ ticker = [ticker EXCEPT ![i] = ticker[i]]
  BY DEF IInv, Types
<1>2. /\ pointer[i] = 0 => ~Live(pointer[i])
      /\ status[i] = "NOT_STARTED" => pointer[i] = 0
      /\ Live(pointer[i]) /\ ticker[i] # "dropping" =>
           /\ askedIn[pointer[i]] = <<i, run[i]>>
           /\ status[i] \in Waiting \/ Halting(i, {"read", "null"})
      /\ choice[i] >= 0 => ~Live(pointer[i])
  BY DEF IInv, Resetting, OwnRun, OwnRunOf, Awaited, Live
<1> USE DEF exchange, halting, instruction, memory
<1>3. CASE CannotAsk(i)
  <2>1. Moves(i, "FAILURE", seen[i], "idle") /\ ticker[i] = "idle" /\ status[i] = "NOT_STARTED"
    BY <1>1, <1>3 DEF CannotAsk, BeginsFresh, At, Moves
  <2> QED  BY <1>2, <2>1, MovesKeep DEF Following, Dropping
<1>4. CASE TickAgain(i) \/ SkipsHalted(i) \/ Enters(i)
  <2>1. PICK where \in {"idle", "preambled", "entered"} :
          /\ Moves(i, status[i], seen[i], where) /\ ticker[i] \in {"idle", "preambled"}
          /\ where = "entered" => ~haltReq[i]
    BY <1>1, <1>4 DEF TickAgain, SkipsHalted, Enters, At, Goto, Moves
  <2> QED  BY <1>2, <2>1, MovesKeep DEF Following, Dropping
<1>5. CASE FailsHalted(i)
  <2>1. Live(pointer[i]) => Halting(i, {"read", "null"})
    BY <1>2, <1>5 DEF IInv, Awaited, FailsHalted, At
  <2>2. Moves(i, "FAILURE", 0, "idle") /\ ticker[i] = "entered"
    BY <1>5 DEF FailsHalted, At, Returns, Goto, Moves
  <2> QED  BY <2>1, <2>2, MovesKeep DEF Following, Dropping
<1>6. CASE ReadsForIsReady(i)
  <2>1. Moves(i, status[i], pointer[i], "isReady") /\ ticker[i] = "entered" /\ choice[i] < 0
    BY <1>1, <1>6 DEF ReadsForIsReady, ReadsPointer, At, Goto, Moves
  <2> QED  BY <1>2, <2>1, MovesKeep DEF Following, Dropping
<1>7. CASE ReadsForGetValue(i)
  <2>1. Moves(i, status[i], pointer[i], "getValue") /\ ticker[i] = "answered"
    BY <1>1, <1>7 DEF ReadsForGetValue, ReadsPointer, At, Goto, Moves
  <2>2. Live(pointer[i]) => phase[pointer[i]] = "ready"
    BY <1>2, <2>1 DEF IInv, OwnRun, OwnRunOf, Resetting, Following
  <2>3. choice[i] < 0
    BY <2>1 DEF IInv, OwnRun, OwnRunOf, Following
  <2> QED  BY <1>2, <2>1, <2>2, <2>3, MovesKeep DEF Following, Dropping
<1>8. CASE NotReady(i)
  <2>1. Moves(i, "RUNNING", 0, "idle") /\ ticker[i] = "isReady"
    BY <1>8 DEF NotReady, At, Returns, Goto, Moves
  <2> QED  BY <2>1, MovesKeep DEF Following, Dropping, Waiting
<1>9. CASE Ready(i)
  <2>1. Moves(i, status[i], seen[i], "answered") /\ ticker[i] = "isReady" /\ phase[seen[i]] = "ready"
    BY <1>1, <1>9 DEF Ready, At, Goto, Moves
  <2>2. /\ pointer[i] \in {0, seen[i]} /\ choice[i] < 0
        /\ Live(seen[i]) => askedIn[seen[i]] = <<i, run[i]>>
    BY <2>1 DEF IInv, OwnRun, OwnRunOf, Resetting, Following
  <2> QED  BY <1>2, <2>1, <2>2, MovesKeep DEF Following, Dropping
<1>10. CASE TicksChosen(i)
  <2>1. PICK s \in {"NOT_FINISHED", "RUNNING", "SUCCESS", "FAILURE"} :
          Moves(i, s, 0, "idle") /\ ticker[i] = "entered" /\ choice[i] >= 0
    BY <1>10 DEF TicksChosen, At, Returns, Goto, Moves
  <2> QED  BY <1>2, <2>1, MovesKeep DEF Following, Dropping, Waiting
<1> QED  BY <1>3, <1>4, <1>5, <1>6, <1>7, <1>8, <1>9, <1>10

\* A question ends, and nothing else happens in the exchange.
Ends(q) ==
  /\ phase' \in [Request -> {"unborn", "pending", "ready", "gone"}]
  /\ askedIn' = [r \in Request |-> askedIn'[r]] /\ reply' = [r \in Request |-> reply'[r]]
  /\ \A r \in Request \union {0} : Live(r)' =>
       r # q /\ Live(r) /\ phase'[r] = phase[r] /\ askedIn'[r] = askedIn[r]
  /\ \A r \in Request : Born(r) => Born(r)'

LEMMA DestroyEnds ==
  ASSUME IInv, NEW q \in Request \union {0}, Destroys(q)
  PROVE  Ends(q)
<1>1. phase \in [Request -> {"unborn", "pending", "ready", "gone"}]
  BY DEF IInv, Types
<1>2. phase' = IF Live(q) THEN [phase EXCEPT ![q] = "gone"] ELSE phase
  BY DEF Destroys
<1>3. phase' \in [Request -> {"unborn", "pending", "ready", "gone"}]
  BY <1>1, <1>2
<1>4. askedIn' = [r \in Request |-> askedIn'[r]] /\ reply' = [r \in Request |-> reply'[r]]
  BY DEF Destroys, Forgets
<1>5. ASSUME NEW r \in Request
      PROVE  /\ Live(r)' => r # q /\ Live(r) /\ phase'[r] = phase[r] /\ askedIn'[r] = askedIn[r]
             /\ Born(r) => Born(r)'
  <2>1. r # q => askedIn'[r] = askedIn[r]
    BY DEF Destroys, Forgets
  <2> QED  BY <1>1, <1>2, <2>1 DEF Live, Born
<1> QED  BY <1>3, <1>4, <1>5 DEF Ends, Live

LEMMA CollectEnds ==
  ASSUME IInv, NEW q \in Request, Exchange!Collect(q), Forgets(q)
  PROVE  Ends(q)
<1>1. phase \in [Request -> {"unborn", "pending", "ready", "gone"}]
  BY DEF IInv, Types
<1>2. phase' = [phase EXCEPT ![q] = "gone"] /\ phase[q] = "ready"
  BY DEF Exchange!Collect
<1>3. askedIn' = [r \in Request |-> askedIn'[r]] /\ reply' = [r \in Request |-> reply'[r]]
  BY DEF Forgets
<1>4. ASSUME NEW r \in Request  PROVE r # q => askedIn'[r] = askedIn[r]
  BY DEF Forgets
<1> QED  BY <1>1, <1>2, <1>3, <1>4 DEF Ends, Live, Born

\* The answer that an instruction has taken is given to nobody else.
LEMMA Taken ==
  ASSUME IInv, NEW i \in Instruction, ticker[i] = "getValue", seen[i] \in Request, Ends(seen[i]),
         NEW s \in Waiting \union {"SUCCESS", "FAILURE"}, Returns(i, s),
         \/ UNCHANGED <<choice, chosenIn>>
         \/ \E c \in Int : /\ choice' = [choice EXCEPT ![i] = c]
                           /\ chosenIn' = [chosenIn EXCEPT ![i] = run[i]],
         UNCHANGED <<order, haltReq, run, pointer, halting, lost>>
  PROVE  IInv'
<1>1. /\ UNCHANGED <<order, haltReq, run, pointer, walk, stage, dying, lost>>
      /\ status'[i] = s /\ seen'[i] = 0 /\ ticker'[i] = "idle"
      /\ \A j \in Instruction \ {i} : /\ status'[j] = status[j] /\ ticker'[j] = ticker[j]
                                      /\ seen'[j] = seen[j]
                                      /\ choice'[j] = choice[j] /\ chosenIn'[j] = chosenIn[j]
      /\ \A j, stages : Halting(j, stages)' = Halting(j, stages)
      /\ run[i] \in {0, 1} /\ choice[i] \in Int
  BY DEF IInv, Types, Returns, Goto, halting, Halting
<1>2. Types'
  <2>1. status' \in [Instruction -> {"NOT_STARTED", "SUCCESS", "FAILURE"} \union Waiting]
    BY DEF IInv, Types, Returns, Waiting
  <2>2. ticker' \in [Instruction -> {"idle", "preambled", "entered"} \union Following \union Dropping]
    BY DEF IInv, Types, Returns, Goto
  <2>3. seen' \in [Instruction -> Request \union {0}]
    BY DEF IInv, Types, Returns
  <2>4. choice' \in [Instruction -> Int] /\ chosenIn' \in [Instruction -> {0, 1}]
    BY <1>1 DEF IInv, Types
  <2> QED  BY <1>1, <2>1, <2>2, <2>3, <2>4 DEF IInv, Types, Ends
<1>3. \A j \in Instruction : /\ pointer[j] \in Request \union {0} /\ seen[j] \in Request \union {0}
                             /\ seen'[j] \in {0, seen[j]}
  BY <1>1 DEF IInv, Types
<1>10. /\ \A r \in Request \union {0} : Live(r)' =>
            r # seen[i] /\ Live(r) /\ phase'[r] = phase[r] /\ askedIn'[r] = askedIn[r]
       /\ \A r \in Request : Born(r) => Born(r)'
  BY DEF Ends
<1>4. pointer[i] \in {0, seen[i]} /\ ~Live(pointer[i])'
  <2>1. pointer[i] \in {0, seen[i]}
    BY DEF IInv, Resetting, Following
  <2> QED  BY <1>1, <1>3, <1>10, <2>1 DEF Live
<1>5. Owned'
  <2>1. \A q \in Request : Live(q)' => \E j \in Instruction : \E r \in {0, 1} : askedIn'[q] = <<j, r>>
    BY <1>10 DEF IInv, Owned
  <2>2. ASSUME NEW j \in Instruction, NEW q \in {pointer'[j], seen'[j]} \ {0}
        PROVE  Born(q)' /\ (Live(q)' => askedIn'[q][1] = j)
    <3>1. q \in {pointer[j], seen[j]} \ {0} /\ q \in Request
      BY <1>1, <1>3, <2>2
    <3> QED  BY <1>10, <3>1 DEF IInv, Owned
  <2>3. walk' # << >> /\ stage' \in {"null", "destroy"} /\ dying' # 0 =>
           Born(dying)' /\ (Live(dying)' => askedIn'[dying'][1] = Head(walk'))
    <3>1. dying \in Request \union {0}
      BY DEF IInv, Types
    <3> QED  BY <1>1, <1>10, <3>1 DEF IInv, Owned
  <2> QED  BY <2>1, <2>2, <2>3 DEF Owned
<1>6. Resetting'
  BY <1>1 DEF IInv, Resetting, Following, Dropping, Waiting
<1>7. OwnRun'
  <2>1. ASSUME NEW j \in Instruction, j # i
        PROVE  OwnRunOf(j)'
    <3> DEFINE p == pointer[j]
               q == seen[j]
    <3>1. /\ ticker[j] # "dropping" /\ Live(p) => askedIn[p] = <<j, run[j]>>
          /\ ticker[j] \in Following /\ Live(q) => askedIn[q] = <<j, run[j]>>
          /\ ticker[j] \in {"answered", "getValue"} /\ Live(q) => phase[q] = "ready"
          /\ choice[j] >= 0 => chosenIn[j] = run[j] /\ ~Live(p)
          /\ ticker[j] \in Following => choice[j] < 0
      BY DEF IInv, OwnRun, OwnRunOf
    <3>2. /\ pointer'[j] = p /\ seen'[j] = q /\ ticker'[j] = ticker[j] /\ run'[j] = run[j]
          /\ choice'[j] = choice[j] /\ chosenIn'[j] = chosenIn[j]
          /\ p \in Request \union {0} /\ q \in Request \union {0}
      BY <1>1, <1>3, <2>1
    <3>3. /\ Live(pointer[j])' => Live(p) /\ askedIn'[p] = askedIn[p]
          /\ Live(seen[j])' => Live(q) /\ askedIn'[q] = askedIn[q] /\ phase'[q] = phase[q]
      BY <1>10, <3>2 DEF Live
    <3> HIDE DEF p, q
    <3> QED  BY <3>1, <3>2, <3>3 DEF OwnRunOf
  <2>2. choice'[i] >= 0 => chosenIn'[i] = run'[i]
    BY <1>1 DEF IInv, OwnRun, OwnRunOf, Types
  <2> QED  BY <1>1, <1>4, <2>1, <2>2 DEF OwnRun, OwnRunOf, Following
<1>8. Awaited'
  BY <1>1, <1>3, <1>4, <1>10 DEF IInv, Awaited
<1>9. Responsible'
  <2> SUFFICES ASSUME NEW r \in Request, Live(r)'  PROVE Keeps(askedIn[r][1], r)'
    BY DEF Responsible
  <2>1. r # seen[i] /\ Live(r) /\ askedIn'[r] = askedIn[r]
    BY DEF Ends
  <2> PICK j \in Instruction : askedIn[r][1] = j
    BY <2>1 DEF IInv, Owned
  <2>2. Keeps(j, r)
    BY <2>1 DEF IInv, Responsible
  <2>3. Keeps(j, r)'
    BY <1>1, <2>1, <2>2 DEF Keeps, Dropping
  <2> QED  BY <2>1, <2>3
<1> QED  BY <1>2, <1>5, <1>6, <1>7, <1>8, <1>9 DEF IInv

LEMMA TakeStep ==
  ASSUME IInv, UNCHANGED order, NEW i \in Instruction,
         InputTakes(i) \/ ConfirmationTakes(i) \/ ChoiceTakes(i)
  PROVE  IInv'
<1>1. Takes(i)
  BY DEF InputTakes, ConfirmationTakes, ChoiceTakes
<1>2. /\ ticker[i] = "getValue" /\ Live(seen[i])
      /\ UNCHANGED <<haltReq, run, pointer, halting, lost>>
  BY <1>1 DEF Takes, At, memory
<1>3. seen[i] \in Request
  BY <1>2 DEF IInv, Types, Live
<1>4. Ends(seen[i])
  BY <1>1, <1>3, CollectEnds DEF Takes
<1>5. CASE InputTakes(i) \/ ConfirmationTakes(i)
  <2>1. PICK s \in {"SUCCESS", "FAILURE"} : Returns(i, s)
    BY <1>5 DEF InputTakes, ConfirmationTakes, InputVerdicts, ConfirmationVerdict
  <2>2. UNCHANGED <<choice, chosenIn>>
    BY <1>5 DEF InputTakes, ConfirmationTakes
  <2> QED  BY <1>2, <1>3, <1>4, <2>1, <2>2, Taken
<1>6. CASE ChoiceTakes(i)
  <2>1. CASE Selects(i, reply[seen[i]])
    <3>1. askedIn[seen[i]] = <<i, run[i]>>
      BY <1>2 DEF IInv, OwnRun, OwnRunOf, Following
    <3> DEFINE c == ParseUserChoiceReply(reply[seen[i]]).choice
    <3>2. /\ choice' = [choice EXCEPT ![i] = c]
          /\ chosenIn' = [chosenIn EXCEPT ![i] = askedIn[seen[i]][2]]
          /\ Returns(i, "NOT_FINISHED")
          /\ c \in 0 .. ChildCount[i] - 1
      BY <1>6, <2>1 DEF ChoiceTakes, Selects
    <3> HIDE DEF c
    <3>3. c \in Int
      BY <3>2
    <3>4. chosenIn' = [chosenIn EXCEPT ![i] = run[i]]
      BY <3>1, <3>2
    <3>5. "NOT_FINISHED" \in Waiting
      BY DEF Waiting
    <3> QED  BY <1>2, <1>3, <1>4, <3>2, <3>3, <3>4, <3>5, Taken
  <2>2. CASE ~Selects(i, reply[seen[i]])
    <3>1. Returns(i, "FAILURE") /\ UNCHANGED <<choice, chosenIn>>
      BY <1>6, <2>2 DEF ChoiceTakes
    <3> QED  BY <1>2, <1>3, <1>4, <3>1, Taken
  <2> QED  BY <2>1, <2>2
<1> QED  BY <1>5, <1>6

\* The instruction asks a question that nobody has asked before; it holds no other.
LEMMA AskStep ==
  ASSUME IInv, UNCHANGED order, NEW i \in Instruction, NEW q \in Request, BeginsFresh(i), AskUser(i, q)
  PROVE  IInv'
<1>1. pointer[i] = 0 /\ choice[i] < 0 /\ ticker[i] = "idle" /\ phase[q] = "unborn"
  BY DEF IInv, Resetting, BeginsFresh, At, AskUser
<1>2. /\ phase' = [phase EXCEPT ![q] = "pending"]
      /\ askedIn' = [askedIn EXCEPT ![q] = <<i, run[i]>>]
      /\ pointer' = [pointer EXCEPT ![i] = q]
      /\ status' = [status EXCEPT ![i] = "NOT_FINISHED"]
      /\ ticker' = [ticker EXCEPT ![i] = "preambled"]
      /\ UNCHANGED <<reply, haltReq, choice, run, chosenIn, seen, walk, stage, dying, lost>>
  <2>1. phase' = [phase EXCEPT ![q] = "pending"]
    BY <1>1 DEF AskUser, Live, IInv, Types
  <2> QED  BY <2>1 DEF AskUser, Goto, halting
<1>3. Types'
  <2>1. /\ phase' \in [Request -> {"unborn", "pending", "ready", "gone"}]
        /\ pointer' \in [Instruction -> Request \union {0}]
    BY <1>2 DEF IInv, Types
  <2>2. status' \in [Instruction -> {"NOT_STARTED", "SUCCESS", "FAILURE"} \union Waiting]
    BY <1>2 DEF IInv, Types, Waiting
  <2>3. ticker' \in [Instruction -> {"idle", "preambled", "entered"} \union Following \union Dropping]
    BY <1>2 DEF IInv, Types
  <2>4. askedIn' = [r \in Request |-> askedIn'[r]]
    BY <1>2 DEF IInv, Types
  <2> QED  BY <1>2, <2>1, <2>2, <2>3, <2>4 DEF IInv, Types
<1>4. /\ phase'[q] = "pending" /\ askedIn'[q] = <<i, run[i]>> /\ run[i] \in {0, 1}
      /\ \A r \in Request \ {q} : phase'[r] = phase[r] /\ askedIn'[r] = askedIn[r]
      /\ pointer'[i] = q /\ status'[i] = "NOT_FINISHED" /\ ticker'[i] = "preambled"
      /\ \A j \in Instruction \ {i} : /\ pointer'[j] = pointer[j] /\ status'[j] = status[j]
                                      /\ ticker'[j] = ticker[j]
      /\ \A j, stages : Halting(j, stages)' = Halting(j, stages)
  BY <1>2 DEF IInv, Types, Halting
\* The question is new to whoever holds one.
<1>5. ASSUME NEW r \in Request \union {0}, r # 0 => Born(r)
      PROVE  Live(r)' = Live(r) /\ r # q /\ phase'[r] = phase[r] /\ askedIn'[r] = askedIn[r]
             /\ (r # 0 => Born(r)')
  <2>1. 0 \notin Request /\ q # 0
    BY InputAssumption DEF Request
  <2>2. r # q
    BY <1>1, <1>5, <2>1 DEF Born
  <2>3. phase' [r] = phase[r] /\ askedIn'[r] = askedIn[r]
    BY <1>2, <2>2 DEF IInv, Types
  <2> QED  BY <1>5, <2>2, <2>3 DEF Live, Born
<1>6. \A j \in Instruction : /\ pointer[j] \in Request \union {0} /\ (pointer[j] # 0 => Born(pointer[j]))
                             /\ seen[j] \in Request \union {0} /\ (seen[j] # 0 => Born(seen[j]))
                             /\ seen'[j] = seen[j]
  BY <1>2 DEF IInv, Types, Owned
<1>7. Owned'
  <2>1. ASSUME NEW r \in Request, Live(r)'
        PROVE  \E j \in Instruction : \E m \in {0, 1} : askedIn'[r] = <<j, m>>
    <3>1. CASE r = q
      BY <1>4, <3>1
    <3>2. CASE r # q
      BY <1>4, <2>1, <3>2 DEF IInv, Owned, Live
    <3> QED  BY <3>1, <3>2
  <2>2. ASSUME NEW j \in Instruction, NEW r \in {pointer'[j], seen'[j]} \ {0}
        PROVE  Born(r)' /\ (Live(r)' => askedIn'[r][1] = j)
    <3>1. CASE r = q
      <4>1. j = i
        BY <1>4, <1>5, <1>6, <2>2, <3>1
      <4> QED  BY <1>4, <3>1, <4>1 DEF Born
    <3>2. CASE r # q
      <4>1. r \in {pointer[j], seen[j]} \ {0} /\ r \in Request
        BY <1>4, <1>6, <2>2, <3>2
      <4>2. Born(r) /\ (Live(r) => askedIn[r][1] = j)
        BY <4>1 DEF IInv, Owned
      <4> QED  BY <1>5, <4>1, <4>2
    <3> QED  BY <3>1, <3>2
  <2>3. walk' # << >> /\ stage' \in {"null", "destroy"} /\ dying' # 0 =>
           Born(dying)' /\ (Live(dying)' => askedIn'[dying'][1] = Head(walk'))
    <3>1. dying \in Request \union {0}
      BY DEF IInv, Types
    <3> QED  BY <1>2, <1>5, <3>1 DEF IInv, Owned
  <2> QED  BY <2>1, <2>2, <2>3 DEF Owned
<1>8. Resetting'
  BY <1>2, <1>4 DEF IInv, Resetting, Following, Dropping
<1>9. OwnRun'
  <2>1. ASSUME NEW j \in Instruction, j # i
        PROVE  OwnRunOf(j)'
    <3> DEFINE p == pointer[j]
               s == seen[j]
    <3>1. /\ ticker[j] # "dropping" /\ Live(p) => askedIn[p] = <<j, run[j]>>
          /\ ticker[j] \in Following /\ Live(s) => askedIn[s] = <<j, run[j]>>
          /\ ticker[j] \in {"answered", "getValue"} /\ Live(s) => phase[s] = "ready"
          /\ choice[j] >= 0 => chosenIn[j] = run[j] /\ ~Live(p)
          /\ ticker[j] \in Following => choice[j] < 0
      BY DEF IInv, OwnRun, OwnRunOf
    <3>2. /\ pointer'[j] = p /\ seen'[j] = s /\ ticker'[j] = ticker[j]
          /\ p \in Request \union {0} /\ (p # 0 => Born(p))
          /\ s \in Request \union {0} /\ (s # 0 => Born(s))
      BY <1>4, <1>6, <2>1
    <3>3. /\ Live(pointer[j])' = Live(p) /\ askedIn'[p] = askedIn[p]
          /\ Live(seen[j])' = Live(s) /\ askedIn'[s] = askedIn[s] /\ phase'[s] = phase[s]
      BY <1>5, <3>2 DEF Live
    <3> HIDE DEF p, s
    <3> QED  BY <1>2, <3>1, <3>2, <3>3 DEF OwnRunOf
  <2>2. OwnRunOf(i)'
    <3>1. choice'[i] < 0 /\ choice'[i] \in Int
      BY <1>1, <1>2 DEF IInv, Types
    <3>2. ticker'[i] \notin Following /\ askedIn'[pointer'[i]] = <<i, run'[i]>>
      BY <1>2, <1>4 DEF Following
    <3>3. ~(choice'[i] >= 0)
      BY <3>1
    <3> QED  BY <3>2, <3>3 DEF OwnRunOf, Following
  <2> QED  BY <2>1, <2>2 DEF OwnRun
<1>10. Awaited'
  <2>1. ASSUME NEW j \in Instruction, j # i, Live(pointer[j])'
        PROVE  /\ \/ status'[j] \in Waiting \/ ticker'[j] = "dropping" \/ Halting(j, {"read", "null"})'
               /\ ticker'[j] = "entered" /\ haltReq'[j] => Halting(j, {"read", "null"})'
    <3>1. Live(pointer[j])
      BY <1>4, <1>5, <1>6, <2>1 DEF Live
    <3> QED  BY <1>2, <1>4, <2>1, <3>1 DEF IInv, Awaited
  <2> QED  BY <1>4, <2>1 DEF Awaited, Waiting
<1>11. Responsible'
  <2> SUFFICES ASSUME NEW r \in Request, Live(r)'  PROVE Keeps(askedIn[r][1], r)'
    BY DEF Responsible
  <2>1. CASE r = q
    BY <1>4, <2>1 DEF Keeps
  <2>2. CASE r # q
    <3>1. Live(r) /\ askedIn'[r] = askedIn[r]
      BY <1>4, <2>2 DEF Live
    <3> PICK j \in Instruction : askedIn[r][1] = j
      BY <3>1 DEF IInv, Owned
    <3>2. Keeps(j, r) /\ r # 0
      BY <3>1 DEF IInv, Responsible, Live
    <3>3. Keeps(j, r)'
      BY <1>1, <1>2, <1>4, <3>2 DEF Keeps, Dropping
    <3> QED  BY <3>1, <3>3
  <2> QED  BY <2>1, <2>2
<1> QED  BY <1>3, <1>7, <1>8, <1>9, <1>10, <1>11 DEF IInv

-----------------------------------------------------------------------------
(* The user and the reset.                                                   *)

LEMMA AnswerStep ==
  ASSUME IInv, UNCHANGED order, NEW q \in Request, NEW a, UserAnswers(q, a)
  PROVE  IInv'
<1>1. /\ phase[q] = "pending" /\ phase' = [phase EXCEPT ![q] = "ready"]
      /\ UNCHANGED <<askedIn, status, haltReq, choice, run, chosenIn, pointer, ticker, seen, walk,
                     stage, dying, lost>>
  BY DEF UserAnswers, Exchange!Answer, instruction, halting, memory
<1>2. /\ \A r \in Request \union {0} : Live(r)' = Live(r) /\ (phase[r] = "ready" => phase'[r] = "ready")
      /\ \A r \in Request : Born(r) => Born(r)'
      /\ \A j, stages : Halting(j, stages)' = Halting(j, stages)
  BY <1>1 DEF IInv, Types, Live, Born, Halting
<1>3. Types'
  <2>1. phase' \in [Request -> {"unborn", "pending", "ready", "gone"}]
    BY <1>1 DEF IInv, Types
  <2>2. reply' = [r \in Request |-> reply'[r]]
    BY DEF UserAnswers, IInv, Types
  <2> QED  BY <1>1, <2>1, <2>2 DEF IInv, Types
<1>4. /\ \A j \in Instruction : /\ pointer[j] \in Request \union {0} /\ Live(pointer[j])' = Live(pointer[j])
                                /\ seen[j] \in Request \union {0} /\ Live(seen[j])' = Live(seen[j])
      /\ dying \in Request \union {0} /\ Live(dying)' = Live(dying)
  <2>1. /\ \A j \in Instruction : pointer[j] \in Request \union {0} /\ seen[j] \in Request \union {0}
        /\ dying \in Request \union {0}
    BY DEF IInv, Types
  <2> QED  BY <1>1, <1>2, <2>1 DEF Live
<1>5. Owned'
  BY <1>1, <1>2, <1>4 DEF IInv, Owned
<1>6. Resetting' /\ Awaited'
  BY <1>1, <1>2, <1>4 DEF IInv, Resetting, Awaited
<1>7. OwnRun'
  BY <1>1, <1>2, <1>4 DEF IInv, OwnRun, OwnRunOf
<1>8. Responsible'
  BY <1>1, <1>2 DEF IInv, Responsible, Keeps
<1> QED  BY <1>3, <1>5, <1>6, <1>7, <1>8 DEF IInv

\* A reset begins: the question that the instruction holds is one of the run that ends.
LEMMA ResetBeginStep ==
  ASSUME IInv, UNCHANGED order, NEW i \in Instruction, ResetBegin(i)
  PROVE  IInv'
<1>1. /\ ticker[i] = "idle"
      /\ choice' = [choice EXCEPT ![i] = -1] /\ chosenIn' = [chosenIn EXCEPT ![i] = 0]
      /\ haltReq' = [haltReq EXCEPT ![i] = TRUE] /\ run' = [run EXCEPT ![i] = 1 - @]
      /\ seen' = [seen EXCEPT ![i] = pointer[i]] /\ ticker' = [ticker EXCEPT ![i] = "dropping"]
      /\ UNCHANGED <<phase, askedIn, reply, status, pointer, walk, stage, dying, lost>>
  BY DEF ResetBegin, At, Goto, exchange, halting, memory
<1>2. /\ choice'[i] = -1 /\ seen'[i] = pointer[i] /\ ticker'[i] = "dropping"
      /\ \A j \in Instruction \ {i} :
           /\ choice'[j] = choice[j] /\ chosenIn'[j] = chosenIn[j] /\ haltReq'[j] = haltReq[j]
           /\ run'[j] = run[j] /\ seen'[j] = seen[j] /\ ticker'[j] = ticker[j]
      /\ \A r : Live(r)' = Live(r) /\ Born(r)' = Born(r)
      /\ \A j, stages : Halting(j, stages)' = Halting(j, stages)
  BY <1>1 DEF IInv, Types, Live, Born, Halting
<1>3. Types'
  <2>1. choice' \in [Instruction -> Int] /\ chosenIn' \in [Instruction -> {0, 1}]
    BY <1>1 DEF IInv, Types
  <2>2. run' \in [Instruction -> {0, 1}]
    <3>1. run \in [Instruction -> {0, 1}]
      BY DEF IInv, Types
    <3>2. run[i] = 0 \/ run[i] = 1
      BY <3>1
    <3>3. 1 - run[i] \in {0, 1}
      BY <3>2
    <3> QED  BY <1>1, <3>1, <3>3
  <2>3. haltReq' \in [Instruction -> BOOLEAN]
    BY <1>1 DEF IInv, Types
  <2>4. seen' \in [Instruction -> Request \union {0}]
    BY <1>1 DEF IInv, Types
  <2>5. ticker' \in [Instruction -> {"idle", "preambled", "entered"} \union Following \union Dropping]
    BY <1>1 DEF IInv, Types, Dropping
  <2> QED  BY <1>1, <2>1, <2>2, <2>3, <2>4, <2>5 DEF IInv, Types
<1>4. Owned'
  BY <1>1, <1>2 DEF IInv, Owned
<1>5. Resetting'
  BY <1>1, <1>2 DEF IInv, Resetting, Following, Dropping
<1>6. OwnRun'
  <2>1. ASSUME NEW j \in Instruction, j # i  PROVE OwnRunOf(j)'
    <3>1. OwnRunOf(j) /\ UNCHANGED <<phase, askedIn, pointer[j], seen[j], ticker[j], run[j], choice[j], chosenIn[j]>>
      BY <1>1, <1>2, <2>1 DEF IInv, OwnRun
    <3> QED  BY <3>1 DEF OwnRunOf, Live
  <2>2. OwnRunOf(i)'
    <3>1. ~(choice'[i] >= 0)
      BY <1>2
    <3> QED  BY <1>2, <3>1 DEF OwnRunOf, Following
  <2> QED  BY <2>1, <2>2 DEF OwnRun
<1>7. Awaited'
  BY <1>1, <1>2 DEF IInv, Awaited
<1>8. Responsible'
  <2> SUFFICES ASSUME NEW r \in Request, Live(r)  PROVE Keeps(askedIn[r][1], r)'
    BY <1>1, <1>2 DEF Responsible
  <2> PICK j \in Instruction : askedIn[r][1] = j
    BY DEF IInv, Owned
  <2>1. Keeps(j, r)
    BY DEF IInv, Responsible
  <2>2. Keeps(j, r)'
    BY <1>1, <1>2, <2>1 DEF Keeps, Dropping
  <2> QED  BY <1>1, <2>2
<1> QED  BY <1>3, <1>4, <1>5, <1>6, <1>7, <1>8 DEF IInv

\* The reset forgets the question before it destroys its future.
LEMMA ResetNullsStep ==
  ASSUME IInv, UNCHANGED order, NEW i \in Instruction, ResetNulls(i)
  PROVE  IInv'
<1>1. /\ ticker[i] = "dropping" /\ ticker' = [ticker EXCEPT ![i] = "dropped"]
      /\ pointer' = [pointer EXCEPT ![i] = 0] /\ lost \subseteq lost'
      /\ UNCHANGED <<phase, askedIn, reply, status, haltReq, choice, run, chosenIn, seen, walk, stage, dying>>
  BY DEF ResetNulls, Nulls, At, Goto, exchange, instruction, halting
<1>2. /\ pointer'[i] = 0 /\ ~Live(pointer[i])' /\ ticker'[i] = "dropped"
      /\ \A j \in Instruction \ {i} : pointer'[j] = pointer[j] /\ ticker'[j] = ticker[j]
      /\ \A r : Live(r)' = Live(r) /\ Born(r)' = Born(r)
      /\ \A j, stages : Halting(j, stages)' = Halting(j, stages)
      /\ pointer[i] \in {0, seen[i]}
  BY <1>1 DEF IInv, Types, Resetting, Live, Born, Halting
<1>3. Types'
  <2>1. pointer' \in [Instruction -> Request \union {0}]
    BY <1>1 DEF IInv, Types
  <2>2. ticker' \in [Instruction -> {"idle", "preambled", "entered"} \union Following \union Dropping]
    BY <1>1 DEF IInv, Types, Dropping
  <2> QED  BY <1>1, <2>1, <2>2 DEF IInv, Types
<1>4. Owned'
  BY <1>1, <1>2 DEF IInv, Owned
<1>5. Resetting'
  BY <1>1, <1>2 DEF IInv, Resetting, Following, Dropping
<1>6. OwnRun'
  BY <1>1, <1>2 DEF IInv, OwnRun, OwnRunOf, Following
<1>7. Awaited'
  BY <1>1, <1>2 DEF IInv, Awaited
<1>8. Responsible'
  <2> SUFFICES ASSUME NEW r \in Request, Live(r)  PROVE Keeps(askedIn[r][1], r)'
    BY <1>1, <1>2 DEF Responsible
  <2> PICK j \in Instruction : askedIn[r][1] = j
    BY DEF IInv, Owned
  <2>1. Keeps(j, r) /\ r # 0
    BY DEF IInv, Responsible, Live
  <2>2. Keeps(j, r)'
    BY <1>1, <1>2, <2>1 DEF Keeps, Dropping
  <2> QED  BY <1>1, <2>2
<1> QED  BY <1>3, <1>4, <1>5, <1>6, <1>7, <1>8 DEF IInv

\* What the end of a question leaves alone.
LEMMA EndKeeps ==
  ASSUME IInv, NEW q \in Request \union {0}, Ends(q),
         \A j \in Instruction : pointer'[j] \in {0, pointer[j]} /\ seen'[j] \in {0, seen[j]},
         UNCHANGED <<walk, stage, dying>> \/ stage' = "flag"
  PROVE  /\ Owned'
         /\ \A j \in Instruction : Live(pointer[j])' => Live(pointer[j])
         /\ \A j \in Instruction : UNCHANGED <<pointer[j], seen[j], ticker[j], run[j], choice[j], chosenIn[j]>>
                                     => OwnRunOf(j)'
<1>1. \A j \in Instruction : pointer[j] \in Request \union {0} /\ seen[j] \in Request \union {0}
  BY DEF IInv, Types
<1>2. /\ \A r \in Request \union {0} : Live(r)' =>
           r # q /\ Live(r) /\ phase'[r] = phase[r] /\ askedIn'[r] = askedIn[r]
      /\ \A r \in Request : Born(r) => Born(r)'
  BY DEF Ends
<1>3. Owned'
  <2>1. \A r \in Request : Live(r)' => \E j \in Instruction : \E m \in {0, 1} : askedIn'[r] = <<j, m>>
    BY <1>2 DEF IInv, Owned
  <2>2. ASSUME NEW j \in Instruction, NEW r \in {pointer'[j], seen'[j]} \ {0}
        PROVE  Born(r)' /\ (Live(r)' => askedIn'[r][1] = j)
    <3>1. r \in {pointer[j], seen[j]} \ {0} /\ r \in Request
      BY <1>1, <2>2
    <3> QED  BY <1>2, <3>1 DEF IInv, Owned
  <2>3. walk' # << >> /\ stage' \in {"null", "destroy"} /\ dying' # 0 =>
           Born(dying)' /\ (Live(dying)' => askedIn'[dying'][1] = Head(walk'))
    <3>1. dying \in Request \union {0}
      BY DEF IInv, Types
    <3> QED  BY <1>2, <3>1 DEF IInv, Owned
  <2> QED  BY <2>1, <2>2, <2>3 DEF Owned
<1>4. ASSUME NEW j \in Instruction  PROVE Live(pointer[j])' => Live(pointer[j])
  <2>1. CASE pointer'[j] = 0
    BY <2>1 DEF Live
  <2>2. CASE pointer'[j] = pointer[j]
    BY <1>1, <1>2, <2>2 DEF Live
  <2> QED  BY <2>1, <2>2
<1>5. ASSUME NEW j \in Instruction,
             UNCHANGED <<pointer[j], seen[j], ticker[j], run[j], choice[j], chosenIn[j]>>
      PROVE  OwnRunOf(j)'
  <2> DEFINE p == pointer[j]
             s == seen[j]
  <2>1. /\ ticker[j] # "dropping" /\ Live(p) => askedIn[p] = <<j, run[j]>>
        /\ ticker[j] \in Following /\ Live(s) => askedIn[s] = <<j, run[j]>>
        /\ ticker[j] \in {"answered", "getValue"} /\ Live(s) => phase[s] = "ready"
        /\ choice[j] >= 0 => chosenIn[j] = run[j] /\ ~Live(p)
        /\ ticker[j] \in Following => choice[j] < 0
    BY DEF IInv, OwnRun, OwnRunOf
  <2>2. pointer'[j] = p /\ seen'[j] = s /\ p \in Request \union {0} /\ s \in Request \union {0}
    BY <1>1, <1>5
  <2>3. /\ Live(pointer[j])' => Live(p) /\ askedIn'[p] = askedIn[p]
        /\ Live(seen[j])' => Live(s) /\ askedIn'[s] = askedIn[s] /\ phase'[s] = phase[s]
    BY <1>2, <2>2 DEF Live
  <2> HIDE DEF p, s
  <2> QED  BY <1>5, <2>1, <2>2, <2>3 DEF OwnRunOf
<1> QED  BY <1>3, <1>4, <1>5

\* The reset ends: the future that it took is destroyed, and the instruction is new.
LEMMA ResetEndStep ==
  ASSUME IInv, UNCHANGED order, NEW i \in Instruction, ResetEnd(i)
  PROVE  IInv'
<1>1. /\ ticker[i] = "dropped" /\ Destroys(seen[i]) /\ seen[i] \in Request \union {0}
      /\ status' = [status EXCEPT ![i] = "NOT_STARTED"] /\ haltReq' = [haltReq EXCEPT ![i] = FALSE]
      /\ seen' = [seen EXCEPT ![i] = 0] /\ ticker' = [ticker EXCEPT ![i] = "idle"]
      /\ UNCHANGED <<pointer, choice, run, chosenIn, walk, stage, dying, lost>>
  BY DEF ResetEnd, Destroys, At, Goto, halting, IInv, Types
<1>2. Ends(seen[i])
  BY <1>1, DestroyEnds
<1>3. /\ status'[i] = "NOT_STARTED" /\ seen'[i] = 0 /\ ticker'[i] = "idle"
      /\ \A j \in Instruction \ {i} : /\ status'[j] = status[j] /\ haltReq'[j] = haltReq[j]
                                      /\ seen'[j] = seen[j] /\ ticker'[j] = ticker[j]
      /\ \A j, stages : Halting(j, stages)' = Halting(j, stages)
      /\ pointer[i] = 0 /\ choice[i] < 0 /\ choice[i] \in Int
  BY <1>1 DEF IInv, Types, Halting, Resetting, Dropping
<1>4. Types'
  <2>1. status' \in [Instruction -> {"NOT_STARTED", "SUCCESS", "FAILURE"} \union Waiting]
    BY <1>1 DEF IInv, Types
  <2>2. haltReq' \in [Instruction -> BOOLEAN]
    BY <1>1 DEF IInv, Types
  <2>3. seen' \in [Instruction -> Request \union {0}]
    BY <1>1 DEF IInv, Types
  <2>4. ticker' \in [Instruction -> {"idle", "preambled", "entered"} \union Following \union Dropping]
    BY <1>1 DEF IInv, Types
  <2> QED  BY <1>1, <1>2, <2>1, <2>2, <2>3, <2>4 DEF IInv, Types, Ends
<1>5. /\ Owned'
      /\ \A j \in Instruction : Live(pointer[j])' => Live(pointer[j])
      /\ \A j \in Instruction \ {i} : OwnRunOf(j)'
  BY <1>1, <1>2, <1>3, EndKeeps
<1>6. Resetting'
  BY <1>1, <1>3 DEF IInv, Resetting, Following, Dropping
<1>7. OwnRun'
  <2>1. ~Live(pointer[i])' /\ ~(choice'[i] >= 0)
    BY <1>1, <1>3 DEF Live
  <2>2. OwnRunOf(i)'
    BY <1>3, <2>1 DEF OwnRunOf, Following
  <2> QED  BY <1>5, <2>2 DEF OwnRun
<1>8. Awaited'
  <2>1. ~Live(pointer[i])'
    BY <1>1, <1>3 DEF Live
  <2> QED  BY <1>1, <1>3, <1>5, <2>1 DEF IInv, Awaited
<1>9. Responsible'
  <2> SUFFICES ASSUME NEW r \in Request, Live(r)'  PROVE Keeps(askedIn[r][1], r)'
    BY DEF Responsible
  <2>1. r # seen[i] /\ Live(r) /\ askedIn'[r] = askedIn[r] /\ r # 0
    BY <1>2 DEF Ends, Live
  <2> PICK j \in Instruction : askedIn[r][1] = j
    BY <2>1 DEF IInv, Owned
  <2>2. Keeps(j, r)
    BY <2>1 DEF IInv, Responsible
  <2>3. Keeps(j, r)'
    BY <1>1, <1>3, <2>1, <2>2 DEF Keeps
  <2> QED  BY <2>1, <2>3
<1> QED  BY <1>4, <1>5, <1>6, <1>7, <1>8, <1>9 DEF IInv

\* The last instructions are destroyed with what they still hold.
LEMMA DestroyInstructionStep ==
  ASSUME IInv, UNCHANGED order, NEW i \in Instruction, DestroyInstruction(i)
  PROVE  IInv'
<1>1. /\ ticker[i] = "idle" /\ Destroys(pointer[i]) /\ pointer[i] \in Request \union {0}
      /\ pointer' = [pointer EXCEPT ![i] = 0]
      /\ UNCHANGED <<status, haltReq, seen, ticker, choice, run, chosenIn, walk, stage, dying, lost>>
  BY DEF DestroyInstruction, Destroys, At, halting, instruction, IInv, Types
<1>2. Ends(pointer[i])
  BY <1>1, DestroyEnds
<1>3. /\ pointer'[i] = 0 /\ ~Live(pointer[i])'
      /\ \A j \in Instruction \ {i} : pointer'[j] = pointer[j]
      /\ \A j, stages : Halting(j, stages)' = Halting(j, stages)
  BY <1>1 DEF IInv, Types, Halting, Live
<1>4. Types'
  <2>1. pointer' \in [Instruction -> Request \union {0}]
    BY <1>1 DEF IInv, Types
  <2> QED  BY <1>1, <1>2, <2>1 DEF IInv, Types, Ends
<1>5. /\ Owned'
      /\ \A j \in Instruction : Live(pointer[j])' => Live(pointer[j])
      /\ \A j \in Instruction \ {i} : OwnRunOf(j)'
  BY <1>1, <1>2, <1>3, EndKeeps
<1>6. Resetting'
  BY <1>1, <1>3 DEF IInv, Resetting, Following
<1>7. OwnRun'
  <2>1. choice[i] >= 0 => chosenIn[i] = run[i]
    BY DEF IInv, OwnRun, OwnRunOf
  <2>2. OwnRunOf(i)'
    BY <1>1, <1>3, <2>1 DEF OwnRunOf, Following
  <2> QED  BY <1>5, <2>2 DEF OwnRun
<1>8. Awaited'
  BY <1>1, <1>3, <1>5 DEF IInv, Awaited
<1>9. Responsible'
  <2> SUFFICES ASSUME NEW r \in Request, Live(r)'  PROVE Keeps(askedIn[r][1], r)'
    BY DEF Responsible
  <2>1. r # pointer[i] /\ Live(r) /\ askedIn'[r] = askedIn[r]
    BY <1>2 DEF Ends
  <2> PICK j \in Instruction : askedIn[r][1] = j
    BY <2>1 DEF IInv, Owned
  <2>2. Keeps(j, r)
    BY <2>1 DEF IInv, Responsible
  <2>3. Keeps(j, r)'
    BY <1>1, <1>3, <2>1, <2>2 DEF Keeps
  <2> QED  BY <2>1, <2>3
<1> QED  BY <1>4, <1>5, <1>6, <1>7, <1>8, <1>9 DEF IInv
-----------------------------------------------------------------------------
(* The halt.                                                                 *)

\* Steps that leave the exchange, the pointers and the ticks alone, and no instruction
\* that the walk is about to take the question from.
LEMMA WalkKeeps ==
  ASSUME IInv, Types', UNCHANGED <<order, exchange, pointer, status, ticker, seen, choice, run, chosenIn, lost>>,
         walk = << >> \/ (walk' = walk /\ stage \in {"flag", "read"}),
         walk' # << >> /\ stage' \in {"null", "destroy"} => dying' = pointer[Head(walk')],
         \A i \in Instruction : haltReq'[i] = haltReq[i] \/ Halting(i, {"read"})',
         \A i \in Instruction : Halting(i, {"read"}) => Halting(i, {"read", "null"})'
  PROVE  IInv'
<1>1. /\ UNCHANGED <<phase, askedIn>>
      /\ \A r : Live(r)' = Live(r) /\ Born(r)' = Born(r)
      /\ \A j : ~Halting(j, {"null", "destroy"})
  BY DEF exchange, Live, Born, Halting
<1>2. \A j \in Instruction : Halting(j, {"read", "null"}) => Halting(j, {"read", "null"})'
  BY DEF Halting
<1>3. Owned'
  <2>1. ASSUME walk' # << >>, stage' \in {"null", "destroy"}, dying' # 0
        PROVE  Born(dying)' /\ (Live(dying)' => askedIn'[dying'][1] = Head(walk'))
    <3>1. Head(walk') \in Instruction /\ dying' = pointer[Head(walk')]
      BY <2>1 DEF Types
    <3> QED  BY <1>1, <2>1, <3>1 DEF IInv, Owned, Live, Born
  <2> QED  BY <1>1, <2>1 DEF IInv, Owned
<1>4. Resetting' /\ OwnRun'
  BY <1>1 DEF IInv, Resetting, OwnRun, OwnRunOf
<1>5. Awaited'
  <2> SUFFICES ASSUME NEW j \in Instruction, Live(pointer[j])
               PROVE  /\ \/ status[j] \in Waiting \/ ticker[j] = "dropping" \/ Halting(j, {"read", "null"})'
                      /\ ticker[j] = "entered" /\ haltReq'[j] => Halting(j, {"read", "null"})'
    BY <1>1 DEF Awaited
  <2>1. Halting(j, {"read"})' => Halting(j, {"read", "null"})'
    BY DEF Halting
  <2> QED  BY <1>2, <2>1 DEF IInv, Awaited
<1>6. Responsible'
  BY <1>1 DEF IInv, Responsible, Keeps
<1> QED  BY <1>3, <1>4, <1>5, <1>6 DEF IInv

LEMMA WalkStep ==
  ASSUME IInv, UNCHANGED order, Halt \/ Terminate \/ HaltFlags \/ HaltReads
  PROVE  IInv'
<1>1. walk # << >> => Head(walk) \in Instruction
  BY DEF IInv, Types
<1> USE DEF exchange, instruction, memory
<1>2. CASE Halt \/ Terminate
  <2>1. Types'
    BY <1>2 DEF Halt, Terminate, IInv, Types
  <2>2. walk = << >> /\ stage = "flag" /\ stage' = stage
    BY <1>2 DEF Halt, Terminate, IInv, Types
  <2> QED  BY <1>2, <2>1, <2>2, WalkKeeps DEF Halt, Terminate, Halting
<1>3. CASE HaltFlags
  <2>1. haltReq' \in [Instruction -> BOOLEAN] /\ \A i \in Instruction \ {Head(walk)} : haltReq'[i] = haltReq[i]
    BY <1>1, <1>3 DEF HaltFlags, IInv, Types
  <2>2. Types'
    BY <1>3, <2>1 DEF HaltFlags, IInv, Types
  <2> QED  BY <1>1, <1>3, <2>1, <2>2, WalkKeeps DEF HaltFlags, Halting
<1>4. CASE HaltReads
  <2>1. dying' \in Request \union {0}
    BY <1>1, <1>4 DEF HaltReads, IInv, Types
  <2>2. Types'
    BY <1>4, <2>1 DEF HaltReads, IInv, Types
  <2> QED  BY <1>1, <1>4, <2>2, WalkKeeps DEF HaltReads, Halting
<1> QED  BY <1>2, <1>3, <1>4

\* The walk forgets the question before it destroys its future; one that took the
\* place of it since the walk has read the pointer is lost.
LEMMA HaltNullsStep ==
  ASSUME IInv, UNCHANGED order, HaltNulls
  PROVE  IInv'
<1>0. PICK i \in Instruction : i = Head(walk)
  BY DEF HaltNulls, IInv, Types
<1>1. /\ walk # << >> /\ stage = "null" /\ stage' = "destroy"
      /\ pointer' = [pointer EXCEPT ![i] = 0] /\ lost' = lost \union ({pointer[i]} \ {0, dying})
      /\ UNCHANGED <<phase, askedIn, reply, status, haltReq, choice, run, chosenIn, ticker, seen, walk, dying>>
  BY <1>0 DEF HaltNulls, Nulls, exchange, instruction, IInv, Types
<1>2. /\ pointer'[i] = 0 /\ ~Live(pointer[i])'
      /\ \A j \in Instruction \ {i} : pointer'[j] = pointer[j]
      /\ \A r : Live(r)' = Live(r) /\ Born(r)' = Born(r)
  BY <1>1 DEF IInv, Types, Live, Born
<1>3. Types'
  <2>1. pointer' \in [Instruction -> Request \union {0}]
    BY <1>1 DEF IInv, Types
  <2> QED  BY <1>1, <2>1 DEF IInv, Types
<1>4. Owned'
  BY <1>1, <1>2 DEF IInv, Owned
<1>5. Resetting'
  BY <1>1, <1>2 DEF IInv, Resetting
<1>6. OwnRun'
  <2>1. ASSUME NEW j \in Instruction, j # i  PROVE OwnRunOf(j)'
    <3>1. OwnRunOf(j) /\ UNCHANGED <<phase, askedIn, pointer[j], seen[j], ticker[j], run[j], choice[j], chosenIn[j]>>
      BY <1>1, <1>2, <2>1 DEF IInv, OwnRun
    <3> QED  BY <3>1 DEF OwnRunOf, Live
  <2>2. OwnRunOf(i)'
    <3>1. OwnRunOf(i) /\ UNCHANGED <<phase, askedIn, seen, ticker, run, choice, chosenIn>>
      BY <1>1 DEF IInv, OwnRun
    <3> QED  BY <1>2, <3>1 DEF OwnRunOf, Live
  <2> QED  BY <2>1, <2>2 DEF OwnRun
<1>7. Awaited'
  BY <1>0, <1>1, <1>2 DEF IInv, Awaited, Halting
<1>8. Responsible'
  <2> SUFFICES ASSUME NEW r \in Request, Live(r)  PROVE Keeps(askedIn[r][1], r)'
    BY <1>1, <1>2 DEF Responsible
  <2> PICK j \in Instruction : askedIn[r][1] = j
    BY DEF IInv, Owned
  <2>1. Keeps(j, r) /\ r # 0
    BY DEF IInv, Responsible, Live
  <2>2. CASE pointer[j] = r /\ j = i
    BY <1>0, <1>1, <2>1, <2>2 DEF Keeps, Halting
  <2>3. CASE ~(pointer[j] = r /\ j = i)
    BY <1>0, <1>1, <1>2, <2>1, <2>3 DEF Keeps, Halting
  <2> QED  BY <1>1, <2>2, <2>3
<1> QED  BY <1>3, <1>4, <1>5, <1>6, <1>7, <1>8 DEF IInv

LEMMA HaltDestroysStep ==
  ASSUME IInv, UNCHANGED order, HaltDestroys
  PROVE  IInv'
<1>1. /\ walk # << >> /\ stage = "destroy" /\ stage' = "flag" /\ dying' = 0
      /\ Destroys(dying) /\ walk' = Tail(walk) /\ dying \in Request \union {0}
      /\ UNCHANGED <<status, haltReq, choice, run, chosenIn, pointer, ticker, seen, lost>>
  BY DEF HaltDestroys, Destroys, instruction, IInv, Types
<1>2. Ends(dying)
  BY <1>1, DestroyEnds
<1>3. Types'
  <2>1. walk' \in Seq(Instruction)
    BY <1>1 DEF IInv, Types
  <2> QED  BY <1>1, <1>2, <2>1 DEF IInv, Types, Ends
<1>4. /\ Owned'
      /\ \A j \in Instruction : Live(pointer[j])' => Live(pointer[j])
      /\ \A j \in Instruction : OwnRunOf(j)'
  BY <1>1, <1>2, EndKeeps
<1>5. Resetting' /\ OwnRun'
  BY <1>1, <1>4 DEF IInv, Resetting, OwnRun
<1>6. Awaited'
  BY <1>1, <1>4 DEF IInv, Awaited, Halting
<1>7. Responsible'
  <2> SUFFICES ASSUME NEW r \in Request, Live(r)'  PROVE Keeps(askedIn[r][1], r)'
    BY DEF Responsible
  <2>1. r # dying /\ Live(r) /\ askedIn'[r] = askedIn[r]
    BY <1>2 DEF Ends
  <2>2. Keeps(askedIn[r][1], r)
    BY <2>1 DEF IInv, Responsible
  <2> QED  BY <1>1, <2>1, <2>2 DEF Keeps
<1> QED  BY <1>3, <1>4, <1>5, <1>6, <1>7 DEF IInv
-----------------------------------------------------------------------------
(* The specification.                                                        *)

LEMMA InitInvariant == Init => IInv
<1> SUFFICES ASSUME Init  PROVE IInv
  OBVIOUS
<1>1. /\ phase = [q \in Request |-> "unborn"]
      /\ pointer = [i \in Instruction |-> 0] /\ seen = [i \in Instruction |-> 0]
      /\ walk = << >> /\ dying = 0 /\ stage = "flag"
  BY DEF Init, Exchange!Init, Exchange!Request, Request
<1>2. \A q : ~Live(q) \/ q \notin Request
  BY <1>1 DEF Live
<1>3. \A i \in Instruction : ~Live(pointer[i]) /\ ~Live(seen[i])
  BY <1>1 DEF Live
<1>4. Types
  <2>1. order \in Seq(Instruction)
    BY InputAssumption DEF Init
  <2> QED  BY <1>1, <2>1 DEF Init, Types
<1>5. Owned /\ Responsible
  BY <1>1, <1>2 DEF Owned, Responsible
<1>6. Resetting /\ OwnRun /\ Awaited
  BY <1>3 DEF Init, Resetting, OwnRun, OwnRunOf, Awaited, Following, Dropping
<1> QED  BY <1>4, <1>5, <1>6 DEF IInv

LEMMA StutterInvariant ==
  ASSUME IInv, UNCHANGED <<order, exchange, instruction, pointer, ticker, seen, halting, memory>>
  PROVE  IInv'
<1> USE DEF exchange, instruction, halting, memory
<1>1. /\ \A q : Live(q)' = Live(q) /\ Born(q)' = Born(q)
      /\ \A i, stages : Halting(i, stages)' = Halting(i, stages)
  BY DEF Live, Born, Halting
<1>2. Types' /\ Owned' /\ Resetting'
  BY <1>1 DEF IInv, Types, Owned, Resetting
<1>3. OwnRun' /\ Awaited' /\ Responsible'
  BY <1>1 DEF IInv, OwnRun, OwnRunOf, Awaited, Responsible, Keeps
<1> QED  BY <1>2, <1>3 DEF IInv

LEMMA NextInvariant ==
  ASSUME IInv, Next
  PROVE  IInv'
<1>1. UNCHANGED order /\ Present \subseteq Instruction
  BY DEF Next, Present, IInv, Types
<1>2. ASSUME NEW i \in Instruction, Tick(i)  PROVE IInv'
  <2>1. ASSUME NEW q \in Request, InputAsks(i, q) \/ ConfirmationAsks(i, q) \/ ChoiceAsks(i, q)
        PROVE  IInv'
    BY <1>1, <2>1, AskStep DEF InputAsks, ConfirmationAsks, ChoiceAsks
  <2>2. CASE \/ CannotAsk(i) \/ TickAgain(i) \/ SkipsHalted(i) \/ Enters(i) \/ FailsHalted(i)
             \/ ReadsForIsReady(i) \/ ReadsForGetValue(i) \/ NotReady(i) \/ Ready(i) \/ TicksChosen(i)
    BY <1>1, <2>2, QuietTick
  <2>3. CASE FollowsIntoTheVoid(i)
    BY <1>1, <2>3, StutterInvariant DEF FollowsIntoTheVoid
  <2>4. CASE InputTakes(i) \/ ConfirmationTakes(i) \/ ChoiceTakes(i)
    BY <1>1, <2>4, TakeStep
  <2> QED  BY <1>2, <2>1, <2>2, <2>3, <2>4 DEF Tick
<1>3. ASSUME NEW i \in Instruction, Reset(i) \/ DestroyInstruction(i)  PROVE IInv'
  BY <1>1, <1>3, ResetBeginStep, ResetNullsStep, ResetEndStep, DestroyInstructionStep DEF Reset
<1>4. ASSUME NEW q \in Request, NEW a, UserAnswers(q, a)  PROVE IInv'
  BY <1>1, <1>4, AnswerStep
<1>5. CASE Halt \/ Terminate \/ HaltWalk
  BY <1>1, <1>5, WalkStep, HaltNullsStep, HaltDestroysStep DEF HaltWalk
<1>6. CASE DestroyAdapter
  BY <1>1, <1>6, StutterInvariant DEF DestroyAdapter
<1> QED  BY <1>1, <1>2, <1>3, <1>4, <1>5, <1>6 DEF Next

LEMMA Invariance == Spec => []IInv
<1>1. ASSUME IInv, [Next]_vars  PROVE IInv'
  BY <1>1, NextInvariant, StutterInvariant DEF vars
<1> QED  BY <1>1, InitInvariant, PTL DEF Spec
-----------------------------------------------------------------------------
(* The theorems.                                                             *)

(* An instruction acts on answers only that were given to a question of its own,
   asked in its present run (input.cpp, user_confirmation.cpp, user_choice.cpp):
   whatever its procedure, and in whatever order ticks, halts, resets and answers
   come. *)
THEOREM OwnAnswers == Spec => []ActsOnOwnAnswer
<1>1. IInv => ActsOnOwnAnswer
  BY DEF IInv, OwnRun, OwnRunOf, Following, ActsOnOwnAnswer
<1> QED  BY <1>1, Invariance, PTL

(* A question stays with the user only as long as somebody is about to collect or
   withdraw it, but for those that a halt loses by its race with a tick. *)
THEOREM OwnedQuestions == Spec => []QuestionsHaveOwners
<1>1. ASSUME IInv, NEW q \in Request, Live(q)
      PROVE  LET i == askedIn[q][1]
             IN \/ pointer[i] = q /\ status[i] \in {"NOT_FINISHED", "RUNNING"}
                \/ ticker[i] = "dropping" \/ (ticker[i] = "dropped" /\ seen[i] = q)
                \/ walk # << >> /\ i = Head(walk)
                \/ q \in lost
  <2> PICK i \in Instruction : askedIn[q][1] = i
    BY <1>1 DEF IInv, Owned
  <2>1. Keeps(i, q)
    BY <1>1 DEF IInv, Responsible
  <2>2. pointer[i] = q =>
          status[i] \in Waiting \/ ticker[i] = "dropping" \/ Halting(i, {"read", "null"})
    BY <1>1 DEF IInv, Awaited
  <2> QED  BY <2>1, <2>2 DEF Keeps, Halting, Waiting, Dropping
<1>2. IInv => QuestionsHaveOwners
  BY <1>1 DEF QuestionsHaveOwners
<1> QED  BY <1>2, Invariance, PTL

LEMMA DestroyWithdraws ==
  ASSUME IInv, NEW q \in Request \union {0}, Destroys(q)
  PROVE  Exchange!Next \/ UNCHANGED phase
<1>1. CASE Live(q)
  <2>1. q \in Request /\ Exchange!Withdraw(q)
    BY <1>1 DEF Destroys, Live, Exchange!Withdraw
  <2> QED  BY <2>1 DEF Exchange!Next, Exchange!Request, Request
<1>2. CASE ~Live(q)
  BY <1>2 DEF Destroys
<1> QED  BY <1>1, <1>2

LEMMA NextExchanges ==
  ASSUME IInv, Next
  PROVE  Exchange!Next \/ UNCHANGED phase
<1>1. Present \subseteq Instruction
  BY DEF Next, Present, IInv, Types
<1>2. ASSUME NEW i \in Instruction, NEW q \in Request,
             InputAsks(i, q) \/ ConfirmationAsks(i, q) \/ ChoiceAsks(i, q)
      PROVE  Exchange!Next
  <2>1. BeginsFresh(i) /\ AskUser(i, q)
    BY <1>2 DEF InputAsks, ConfirmationAsks, ChoiceAsks
  <2>2. ~Live(pointer[i])
    BY <2>1 DEF BeginsFresh, IInv, Resetting, Live
  <2>3. \A r \in Request : r = pointer[i] => ~Live(r)
    BY <2>2
  <2>4. phase' = [phase EXCEPT ![q] = "pending"]
    BY <2>1, <2>3 DEF AskUser, IInv, Types
  <2>5. Exchange!Ask(q)
    BY <2>1, <2>4 DEF AskUser, Exchange!Ask
  <2> QED  BY <2>5 DEF Exchange!Next, Exchange!Request, Request
<1>3. ASSUME NEW i \in Instruction, InputTakes(i) \/ ConfirmationTakes(i) \/ ChoiceTakes(i)
      PROVE  Exchange!Next
  <2>1. Live(seen[i]) /\ Exchange!Collect(seen[i])
    BY <1>3 DEF InputTakes, ConfirmationTakes, ChoiceTakes, Takes
  <2>2. seen[i] \in Request
    BY <2>1 DEF IInv, Types, Live
  <2> QED  BY <2>1, <2>2 DEF Exchange!Next, Exchange!Request, Request
<1>4. ASSUME NEW i \in Instruction, Tick(i)  PROVE Exchange!Next \/ UNCHANGED phase
  <2>1. CASE \/ CannotAsk(i) \/ TickAgain(i) \/ SkipsHalted(i) \/ Enters(i) \/ FailsHalted(i)
             \/ ReadsForIsReady(i) \/ ReadsForGetValue(i) \/ FollowsIntoTheVoid(i)
             \/ NotReady(i) \/ Ready(i) \/ TicksChosen(i)
    BY <2>1 DEF CannotAsk, TickAgain, SkipsHalted, Enters, FailsHalted, ReadsForIsReady, ReadsForGetValue,
       ReadsPointer, FollowsIntoTheVoid, NotReady, Ready, TicksChosen, exchange
  <2> QED  BY <1>2, <1>3, <1>4, <2>1 DEF Tick
<1>5. ASSUME NEW i \in Instruction, Reset(i) \/ DestroyInstruction(i)
      PROVE  Exchange!Next \/ UNCHANGED phase
  <2>1. seen[i] \in Request \union {0} /\ pointer[i] \in Request \union {0}
    BY DEF IInv, Types
  <2>2. CASE ResetBegin(i) \/ ResetNulls(i)
    BY <2>2 DEF ResetBegin, ResetNulls, exchange
  <2>3. CASE ResetEnd(i) \/ DestroyInstruction(i)
    BY <2>1, <2>3, DestroyWithdraws DEF ResetEnd, DestroyInstruction
  <2> QED  BY <1>5, <2>2, <2>3 DEF Reset
<1>6. ASSUME NEW q \in Request, NEW a, UserAnswers(q, a)  PROVE Exchange!Next
  BY <1>6 DEF UserAnswers, Exchange!Next, Exchange!Request, Request
<1>7. CASE Halt \/ Terminate \/ HaltWalk \/ DestroyAdapter
  <2>1. dying \in Request \union {0}
    BY DEF IInv, Types
  <2>2. CASE HaltDestroys
    BY <2>1, <2>2, DestroyWithdraws DEF HaltDestroys
  <2>3. CASE Halt \/ Terminate \/ HaltFlags \/ HaltReads \/ HaltNulls \/ DestroyAdapter
    BY <2>3 DEF Halt, Terminate, HaltFlags, HaltReads, HaltNulls, DestroyAdapter, exchange
  <2> QED  BY <1>7, <2>2, <2>3 DEF HaltWalk
<1> QED  BY <1>1, <1>4, <1>5, <1>6, <1>7 DEF Next

(* To the user, the instructions use the exchange as it was made to be used: each
   question is put once, and is answered, collected or withdrawn once, in the order in
   which they were asked (async_input_adapter.cpp, i_user_input_future.h). *)
THEOREM UsesExchange == Spec => Exchange!Spec
<1>1. Init => Exchange!Init
  BY DEF Init
<1>2. ASSUME IInv, [Next]_vars  PROVE [Exchange!Next]_phase
  BY <1>2, NextExchanges DEF vars, exchange
<1> QED  BY <1>1, <1>2, Invariance, PTL DEF Spec, Exchange!Spec

=============================================================================
