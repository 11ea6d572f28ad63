----------------------------- MODULE MonitorProofs -----------------------------
(***************************************************************************)
(* Proofs about the two objects that are used from any number of threads   *)
(* under a mutex and a condition variable: the command queue of the runner *)
(* (JobCommandQueue) and the callbacks of a workspace with those who wait  *)
(* for its variables (NamedCallbacks).  The queue keeps its urgent         *)
(* commands in front, loses no wake-up and implements the mailbox; no      *)
(* callback is made for a listener that is gone, for any variables,        *)
(* writers and waiters and any number of writes and waits.                 *)
(***************************************************************************)
EXTENDS JobCommandQueue, NamedCallbacks, SequenceLemmas

-----------------------------------------------------------------------------
(* The alarms and the line of an ordered queue.                              *)

\* An ordered queue is its alarms, Terminate before Halt, and then the line.
LEMMA OrderedShape ==
  ASSUME NEW q \in Seq(JobCommand), Ordered(q)
  PROVE  /\ Alarms(q) \in 0 .. Len(q)
         /\ Queued(q, "Terminate") => q[1] = "Terminate"
         /\ Queued(q, "Halt") => q[Alarms(q)] = "Halt"
         /\ \A i \in DOMAIN q : i > Alarms(q) => q[i] \in NormalCommand
<1>1. \A j \in DOMAIN q : /\ q[j] = "Terminate" => j = 1
                          /\ q[j] = "Halt" /\ j # 1 => j = 2 /\ q[1] = "Terminate"
  BY AlarmPlaces
<1>2. \A j \in DOMAIN q : /\ q[j] \in NormalCommand \union {"Halt", "Terminate"}
                          /\ j \in Nat /\ 1 <= j /\ j <= Len(q)
  BY DEF JobCommand, PriorityCommand
<1>3. Len(q) \in Nat
  OBVIOUS
<1>4. CASE Queued(q, "Terminate") /\ Queued(q, "Halt")
  <2>1. q[1] = "Terminate" /\ 1 \in DOMAIN q
    BY <1>1, <1>4 DEF Queued
  <2>2. q[2] = "Halt" /\ 2 \in DOMAIN q
    BY <1>1, <1>4, <2>1 DEF Queued
  <2>3. Alarms(q) = 2
    BY <1>4 DEF Alarms
  <2> QED
    BY <1>1, <1>2, <1>3, <2>1, <2>2, <2>3
<1>5. CASE Queued(q, "Terminate") /\ ~Queued(q, "Halt")
  <2>1. q[1] = "Terminate" /\ 1 \in DOMAIN q
    BY <1>1, <1>5 DEF Queued
  <2>2. \A j \in DOMAIN q : q[j] # "Halt"
    BY <1>5 DEF Queued
  <2>3. Alarms(q) = 1
    BY <1>5 DEF Alarms
  <2> QED
    BY <1>1, <1>2, <1>3, <1>5, <2>1, <2>2, <2>3
<1>6. CASE ~Queued(q, "Terminate") /\ Queued(q, "Halt")
  <2>1. q[1] = "Halt" /\ 1 \in DOMAIN q
    <3>1. PICK j \in DOMAIN q : q[j] = "Halt"
      BY <1>6 DEF Queued
    <3>2. 1 \in DOMAIN q /\ q[1] # "Terminate"
      BY <1>2, <1>6, <3>1 DEF Queued
    <3> QED
      BY <1>1, <3>1, <3>2
  <2>2. \A j \in DOMAIN q : q[j] # "Terminate"
    BY <1>6 DEF Queued
  <2>3. Alarms(q) = 1
    BY <1>6 DEF Alarms
  <2> QED
    BY <1>1, <1>2, <1>3, <1>6, <2>1, <2>2, <2>3
<1>7. CASE ~Queued(q, "Terminate") /\ ~Queued(q, "Halt")
  <2>1. \A j \in DOMAIN q : q[j] # "Halt" /\ q[j] # "Terminate"
    BY <1>7 DEF Queued
  <2>2. Alarms(q) = 0
    BY <1>7 DEF Alarms
  <2> QED
    BY <1>2, <1>3, <1>7, <2>1, <2>2
<1> QED
  BY <1>4, <1>5, <1>6, <1>7

\* The line is a sequence: the elements behind the alarms.
LEMMA LineElements ==
  ASSUME NEW q \in Seq(JobCommand), Alarms(q) \in 0 .. Len(q)
  PROVE  /\ Line(q) \in Seq(JobCommand)
         /\ Len(Line(q)) = Len(q) - Alarms(q)
         /\ \A i \in 1 .. Len(q) - Alarms(q) : Line(q)[i] = q[i + Alarms(q)]
<1> DEFINE n == Len(q) - Alarms(q)
<1>1. n \in Nat
  OBVIOUS
<1>2. \A i \in 1 .. n : i + Alarms(q) \in DOMAIN q
  OBVIOUS
<1>3. /\ DOMAIN Line(q) = 1 .. n
      /\ \A i \in 1 .. n : Line(q)[i] = q[i + Alarms(q)]
  BY DEF Line
<1>4. Line(q) \in [1 .. n -> JobCommand]
  BY <1>2 DEF Line
<1> HIDE DEF n
<1>5. Line(q) \in Seq(JobCommand) /\ Len(Line(q)) = n
  BY <1>1, <1>4
<1> QED
  BY <1>3, <1>5 DEF n

\* push_back of an ordinary command appends to the line.
LEMMA PushBackLine ==
  ASSUME NEW q \in Seq(JobCommand), Ordered(q), NEW c \in NormalCommand
  PROVE  /\ Queued(PushBack(q, c), "Terminate") <=> Queued(q, "Terminate")
         /\ Queued(PushBack(q, c), "Halt") <=> Queued(q, "Halt")
         /\ Line(PushBack(q, c)) = Append(Line(q), c)
<1> DEFINE r == PushBack(q, c)
<1>1. c \in JobCommand /\ c # "Terminate" /\ c # "Halt"
  BY CommandKinds DEF PriorityCommand
<1>2. /\ r \in Seq(JobCommand)
      /\ DOMAIN r = 1 .. Len(q) + 1
      /\ \A i \in DOMAIN q : r[i] = q[i]
      /\ r[Len(q) + 1] = c
  BY <1>1, PushBackElements
<1> HIDE DEF r
<1>3. Len(r) = Len(q) + 1 /\ Len(q) \in Nat
  BY <1>2
<1>4. \A k \in {"Terminate", "Halt"} : Queued(r, k) <=> Queued(q, k)
  BY <1>1, <1>2 DEF Queued
<1>5. Alarms(r) = Alarms(q) /\ Alarms(q) \in 0 .. Len(q)
  BY <1>4, OrderedShape DEF Alarms
<1>6. Line(r) = Append(Line(q), c)
  <2>1. /\ Line(q) \in Seq(JobCommand) /\ Len(Line(q)) = Len(q) - Alarms(q)
        /\ \A i \in 1 .. Len(q) - Alarms(q) : Line(q)[i] = q[i + Alarms(q)]
    BY <1>5, LineElements
  <2>2. /\ Line(r) \in Seq(JobCommand) /\ Len(Line(r)) = Len(q) + 1 - Alarms(q)
        /\ \A i \in 1 .. Len(q) + 1 - Alarms(q) : Line(r)[i] = r[i + Alarms(q)]
    BY <1>2, <1>3, <1>5, LineElements
  <2>4. /\ Append(Line(q), c) \in Seq(JobCommand)
        /\ Len(Append(Line(q), c)) = Len(q) - Alarms(q) + 1
        /\ Append(Line(q), c)[Len(q) - Alarms(q) + 1] = c
        /\ \A i \in 1 .. Len(q) - Alarms(q) : Append(Line(q), c)[i] = Line(q)[i]
    BY <1>1, <2>1
  <2>5. \A i \in 1 .. Len(q) + 1 - Alarms(q) : Line(r)[i] = Append(Line(q), c)[i]
    <3> SUFFICES ASSUME NEW i \in 1 .. Len(q) + 1 - Alarms(q)
                 PROVE  Line(r)[i] = Append(Line(q), c)[i]
      OBVIOUS
    <3>1. CASE i = Len(q) - Alarms(q) + 1
      <4>1. i + Alarms(q) = Len(q) + 1
        BY <1>3, <1>5, <3>1
      <4> QED
        BY <1>2, <2>2, <2>4, <3>1, <4>1
    <3>2. CASE i # Len(q) - Alarms(q) + 1
      <4>1. i \in 1 .. Len(q) - Alarms(q) /\ i + Alarms(q) \in DOMAIN q
        BY <1>3, <1>5, <3>2
      <4> QED
        BY <1>2, <2>1, <2>2, <2>4, <4>1
    <3> QED
      BY <3>1, <3>2
  <2> QED
    BY <1>3, <1>5, <2>2, <2>4, <2>5
<1> QED
  BY <1>4, <1>6 DEF r

\* push_front of a priority command that overtakes the front raises its alarm,
\* which was down, and leaves the line alone.
LEMMA PushFrontLine ==
  ASSUME NEW q \in Seq(JobCommand), Ordered(q),
         NEW c \in PriorityCommand, Overtakes(q, c)
  PROVE  /\ ~Queued(q, c) /\ Queued(PushFront(q, c), c)
         /\ c = "Halt" => ~Queued(q, "Terminate")
         /\ \A k \in PriorityCommand \ {c} : Queued(PushFront(q, c), k) <=> Queued(q, k)
         /\ Line(PushFront(q, c)) = Line(q)
<1> DEFINE r == PushFront(q, c)
<1>1. c \in JobCommand
  BY CommandKinds
<1>2. /\ r \in Seq(JobCommand)
      /\ DOMAIN r = 1 .. Len(q) + 1
      /\ r[1] = c
      /\ \A i \in DOMAIN q : r[i + 1] = q[i]
  BY <1>1, PushFrontElements
<1> HIDE DEF r
<1>3. Len(r) = Len(q) + 1 /\ Len(q) \in Nat
  BY <1>2
<1>4. \A i \in DOMAIN q : q[i] # c /\ (c = "Halt" => q[i] # "Terminate")
  <2>1. \A k \in PriorityCommand : NotMoreUrgent(k, k) /\ NotMoreUrgent("Halt", k)
    BY SMT DEF NotMoreUrgent, Urgency, JobCommand, NormalCommand, PriorityCommand
  <2> SUFFICES ASSUME NEW i \in DOMAIN q, q[i] = c \/ (c = "Halt" /\ q[i] = "Terminate")
               PROVE  FALSE
    OBVIOUS
  <2>2. 1 \in DOMAIN q /\ q # << >> /\ Head(q) = q[1] /\ q[1] \in JobCommand
    OBVIOUS
  <2>3. ~NotMoreUrgent(c, q[1])
    BY <2>2 DEF Overtakes
  <2>4. i = 1 \/ (q[i] = "Halt" /\ q[1] = "Terminate")
    BY AlarmPlaces DEF PriorityCommand
  <2> QED
    BY <2>1, <2>3, <2>4 DEF PriorityCommand
<1>5. /\ ~Queued(q, c) /\ Queued(r, c)
      /\ c = "Halt" => ~Queued(q, "Terminate")
  BY <1>2, <1>3, <1>4 DEF Queued
<1>6. \A k \in PriorityCommand \ {c} : Queued(r, k) <=> Queued(q, k)
  <2> SUFFICES ASSUME NEW k \in PriorityCommand \ {c}
               PROVE  Queued(r, k) <=> Queued(q, k)
    OBVIOUS
  <2>1. ASSUME NEW i \in DOMAIN r, r[i] = k PROVE Queued(q, k)
    <3>1. i - 1 \in DOMAIN q /\ q[i - 1] = k
      BY <1>2, <1>3, <2>1
    <3> QED
      BY <3>1 DEF Queued
  <2>2. ASSUME NEW i \in DOMAIN q, q[i] = k PROVE Queued(r, k)
    <3>1. i + 1 \in DOMAIN r /\ r[i + 1] = k
      BY <1>2, <1>3, <2>2
    <3> QED
      BY <3>1 DEF Queued
  <2> QED
    BY <2>1, <2>2 DEF Queued
<1>7. Alarms(r) = Alarms(q) + 1 /\ Alarms(q) \in 0 .. Len(q)
  BY <1>5, <1>6, OrderedShape DEF Alarms, PriorityCommand
<1>8. Line(r) = Line(q)
  <2>1. Len(r) - Alarms(r) = Len(q) - Alarms(q)
    BY <1>3, <1>7
  <2>2. ASSUME NEW i \in 1 .. Len(q) - Alarms(q)
        PROVE  r[i + Alarms(r)] = q[i + Alarms(q)]
    <3>1. i + Alarms(q) \in DOMAIN q /\ i + Alarms(r) = (i + Alarms(q)) + 1
      BY <1>3, <1>7
    <3> QED
      BY <1>2, <3>1
  <2> QED
    BY <2>1, <2>2 DEF Line
<1> QED
  BY <1>5, <1>6, <1>8 DEF r

\* pop_front takes the most urgent alarm, or else the oldest of the line.
LEMMA PopFrontLine ==
  ASSUME NEW q \in Seq(JobCommand), Ordered(q), q # << >>
  PROVE  \/ /\ Queued(q, "Terminate") /\ Head(q) = "Terminate"
            /\ ~Queued(Tail(q), "Terminate")
            /\ Queued(Tail(q), "Halt") <=> Queued(q, "Halt")
            /\ Line(Tail(q)) = Line(q)
         \/ /\ ~Queued(q, "Terminate") /\ Queued(q, "Halt") /\ Head(q) = "Halt"
            /\ ~Queued(Tail(q), "Terminate") /\ ~Queued(Tail(q), "Halt")
            /\ Line(Tail(q)) = Line(q)
         \/ /\ ~Queued(q, "Terminate") /\ ~Queued(q, "Halt")
            /\ ~Queued(Tail(q), "Terminate") /\ ~Queued(Tail(q), "Halt")
            /\ Line(q) # << >> /\ Head(q) = Head(Line(q))
            /\ Line(Tail(q)) = Tail(Line(q))
<1> DEFINE r == Tail(q)
<1>1. /\ Head(q) = q[1] /\ 1 \in DOMAIN q
      /\ r \in Seq(JobCommand)
      /\ DOMAIN r = 1 .. Len(q) - 1
      /\ \A i \in DOMAIN r : i + 1 \in DOMAIN q /\ r[i] = q[i + 1]
  BY PopFrontElements
<1> HIDE DEF r
<1>2. Len(q) \in Nat /\ Len(q) >= 1 /\ Len(r) = Len(q) - 1
  BY <1>1
<1>3. ~Queued(r, "Terminate")
  BY <1>1, <1>2, AlarmPlaces DEF Queued
<1>4. Queued(r, "Halt") <=> (Queued(q, "Halt") /\ q[1] # "Halt")
  <2>1. ASSUME NEW i \in DOMAIN r, r[i] = "Halt" PROVE Queued(q, "Halt") /\ q[1] # "Halt"
    <3>1. i + 1 \in DOMAIN q /\ q[i + 1] = "Halt" /\ i + 1 # 1
      BY <1>1, <1>2, <2>1
    <3>2. q[1] = "Terminate"
      BY <3>1, AlarmPlaces
    <3> QED
      BY <3>1, <3>2 DEF Queued
  <2>2. ASSUME NEW i \in DOMAIN q, q[i] = "Halt", q[1] # "Halt" PROVE Queued(r, "Halt")
    <3>1. i - 1 \in DOMAIN r /\ (i - 1) + 1 = i
      BY <1>1, <1>2, <2>2
    <3> QED
      BY <1>1, <2>2, <3>1 DEF Queued
  <2> QED
    BY <2>1, <2>2 DEF Queued
<1>5. /\ Alarms(q) \in 0 .. Len(q)
      /\ Queued(q, "Terminate") => q[1] = "Terminate"
      /\ Queued(q, "Halt") => q[Alarms(q)] = "Halt"
  BY OrderedShape
<1>6. CASE Queued(q, "Terminate")
  <2>1. q[1] = "Terminate" /\ (Queued(r, "Halt") <=> Queued(q, "Halt"))
    BY <1>4, <1>5, <1>6
  <2>2. Alarms(q) = Alarms(r) + 1
    BY <1>3, <1>6, <2>1 DEF Alarms
  <2>3. Line(r) = Line(q)
    <3>0. Alarms(r) \in Nat
      BY DEF Alarms
    <3>1. /\ Alarms(r) \in Nat /\ Len(q) \in Nat /\ Alarms(q) \in Nat
          /\ Len(r) - Alarms(r) = Len(q) - Alarms(q)
          /\ DOMAIN r = 1 .. Len(q) - 1
      BY <1>1, <1>2, <1>5, <2>2, <3>0
    <3>2. ASSUME NEW i \in 1 .. Len(q) - Alarms(q)
          PROVE  r[i + Alarms(r)] = q[i + Alarms(q)]
      <4>1. i + Alarms(r) \in DOMAIN r /\ i + Alarms(q) = (i + Alarms(r)) + 1
        BY <2>2, <3>1
      <4> QED
        BY <1>1, <4>1
    <3> QED
      BY <3>1, <3>2 DEF Line
  <2> QED
    BY <1>1, <1>3, <1>6, <2>1, <2>3 DEF r
<1>7. CASE ~Queued(q, "Terminate") /\ Queued(q, "Halt")
  <2>1. q[1] = "Halt"
    BY <1>5, <1>7 DEF Alarms
  <2>2. ~Queued(r, "Halt") /\ Alarms(q) = 1 /\ Alarms(r) = 0
    BY <1>3, <1>4, <1>7, <2>1 DEF Alarms
  <2>3. Line(r) = Line(q)
    BY <1>1, <1>2, <2>2 DEF Line
  <2> QED
    BY <1>1, <1>3, <1>7, <2>1, <2>2, <2>3 DEF r
<1>8. CASE ~Queued(q, "Terminate") /\ ~Queued(q, "Halt")
  <2>1. ~Queued(r, "Halt") /\ Alarms(q) = 0 /\ Alarms(r) = 0
    BY <1>3, <1>4, <1>8 DEF Alarms
  <2>2. Line(q) = q /\ Line(r) = r
    BY <1>1, <1>2, <2>1 DEF Line
  <2> QED
    BY <1>3, <1>8, <2>1, <2>2 DEF r
<1> QED
  BY <1>6, <1>7, <1>8

-----------------------------------------------------------------------------
(* The inductive invariant: the three invariants, and that the command whose *)
(* function runs under the mutex still overtakes the front.                  *)

PendingOvertakes == mtx # NoClient => Overtakes(queue, client[mtx])

IInv == TypeOK /\ PriorityOrder /\ NoLostWakeup /\ PendingOvertakes

\* Base case of the induction: an empty queue that nobody holds.
LEMMA InitIInv == Init => IInv
<1> SUFFICES ASSUME Init PROVE IInv
  OBVIOUS
<1> USE NoClientAssumption, CommandKinds DEF Init
<1>1. TypeOK
  BY DEF TypeOK, ClientPhase
<1>2. PriorityOrder
  BY DEF PriorityOrder
<1>3. NoLostWakeup /\ PendingOvertakes
  BY DEF NoLostWakeup, PendingOvertakes
<1> QED
  BY <1>1, <1>2, <1>3 DEF IInv

\* Its step, action by action.
LEMMA NextIInv == IInv /\ [Next]_vars => IInv'
<1> SUFFICES ASSUME IInv, [Next]_vars PROVE IInv'
  OBVIOUS
<1> USE NoClientAssumption, CommandKinds
<1>a. TypeOK /\ Ordered(queue) /\ NoLostWakeup /\ PendingOvertakes
  BY DEF IInv, PriorityOrder, Ordered
<1>b. SUFFICES TypeOK' /\ Ordered(queue)' /\ NoLostWakeup' /\ PendingOvertakes'
  BY DEF IInv, PriorityOrder, Ordered
<1>1. ASSUME NEW c \in Clients, NEW k \in NormalCommand, Push(c, k)
      PROVE  TypeOK' /\ Ordered(queue)' /\ NoLostWakeup' /\ PendingOvertakes'
  <2>1. queue' \in Seq(JobCommand) /\ Ordered(queue')
    BY <1>1, <1>a, PushBackElements, PushBackOrdered DEF Push, TypeOK
  <2>2. TypeOK'
    BY <1>1, <1>a, <2>1 DEF Push, TypeOK, ClientPhase
  <2>3. NoLostWakeup'
    BY <1>1, <1>a DEF Push, NoLostWakeup, TypeOK
  <2>4. PendingOvertakes'
    BY <1>1, <1>a DEF Push, PendingOvertakes
  <2> QED
    BY <2>1, <2>2, <2>3, <2>4 DEF Ordered
<1>2. ASSUME NEW c \in Clients, NEW k \in PriorityCommand, PriorityPushBegin(c, k)
      PROVE  TypeOK' /\ Ordered(queue)' /\ NoLostWakeup' /\ PendingOvertakes'
  <2>1. TypeOK'
    BY <1>2, <1>a DEF PriorityPushBegin, TypeOK, ClientPhase
  <2>2. Ordered(queue)'
    BY <1>2, <1>a DEF PriorityPushBegin, Ordered
  <2>3. NoLostWakeup'
    BY <1>2, <1>a DEF PriorityPushBegin, NoLostWakeup, TypeOK
  <2>4. PendingOvertakes'
    BY <1>2, <1>a DEF PriorityPushBegin, PendingOvertakes, TypeOK, Overtakes
  <2> QED
    BY <2>1, <2>2, <2>3, <2>4
<1>3. ASSUME NEW c \in Clients, PriorityPushEnd(c)
      PROVE  TypeOK' /\ Ordered(queue)' /\ NoLostWakeup' /\ PendingOvertakes'
  <2>0. client[c] \in PriorityCommand /\ Overtakes(queue, client[c])
    BY <1>3, <1>a DEF PriorityPushEnd, TypeOK, PendingOvertakes
  <2>1. queue' \in Seq(JobCommand) /\ Ordered(queue')
    BY <1>3, <1>a, <2>0, PushFrontElements, PushFrontOrdered DEF PriorityPushEnd, TypeOK
  <2>2. TypeOK'
    BY <1>3, <1>a, <2>1 DEF PriorityPushEnd, TypeOK, ClientPhase
  <2>3. NoLostWakeup'
    BY <1>3, <1>a DEF PriorityPushEnd, NoLostWakeup, TypeOK
  <2>4. PendingOvertakes'
    BY <1>3 DEF PriorityPushEnd, PendingOvertakes
  <2> QED
    BY <2>1, <2>2, <2>3, <2>4 DEF Ordered
<1>4. ASSUME NEW c \in Clients, NotifyOne(c)
      PROVE  TypeOK' /\ Ordered(queue)' /\ NoLostWakeup' /\ PendingOvertakes'
  <2>1. TypeOK'
    BY <1>4, <1>a DEF NotifyOne, TypeOK, ClientPhase
  <2>2. Ordered(queue)'
    BY <1>4, <1>a DEF NotifyOne, Ordered
  <2>3. NoLostWakeup'
    BY <1>4, <1>a DEF NotifyOne, NoLostWakeup
  <2>4. PendingOvertakes'
    BY <1>4, <1>a DEF NotifyOne, PendingOvertakes, TypeOK, Overtakes
  <2> QED
    BY <2>1, <2>2, <2>3, <2>4
<1>5. ASSUME PopFront, mtx = NoClient, UNCHANGED <<mtx, client>>
      PROVE  TypeOK' /\ Ordered(queue)' /\ NoLostWakeup' /\ PendingOvertakes'
  <2>1. queue' \in Seq(JobCommand) /\ popped' \in JobCommand /\ Ordered(queue')
    BY <1>5, <1>a, PopFrontElements, PopFrontOrdered DEF PopFront, TypeOK
  <2>2. TypeOK' /\ NoLostWakeup' /\ PendingOvertakes'
    BY <1>5, <1>a, <2>1 DEF PopFront, TypeOK, NoLostWakeup, PendingOvertakes
  <2> QED
    BY <2>1, <2>2 DEF Ordered
<1>6. ASSUME WaitForNextCommand
      PROVE  TypeOK' /\ Ordered(queue)' /\ NoLostWakeup' /\ PendingOvertakes'
  <2>1. CASE PopFront
    BY <1>5, <1>6, <2>1 DEF WaitForNextCommand
  <2>2. CASE queue = << >> /\ consumer' = "asleep" /\ popped' = NoCommand /\ UNCHANGED queue
    BY <1>6, <1>a, <2>2
    DEF WaitForNextCommand, TypeOK, Ordered, NoLostWakeup, PendingOvertakes
  <2> QED
    BY <1>6, <2>1, <2>2 DEF WaitForNextCommand
<1>7. ASSUME TryPop
      PROVE  TypeOK' /\ Ordered(queue)' /\ NoLostWakeup' /\ PendingOvertakes'
  <2>1. CASE PopFront
    BY <1>5, <1>7, <2>1 DEF TryPop
  <2>2. CASE popped' = NoCommand /\ UNCHANGED <<queue, consumer>>
    BY <1>7, <1>a, <2>2 DEF TryPop, TypeOK, Ordered, NoLostWakeup, PendingOvertakes
  <2> QED
    BY <1>7, <2>1, <2>2 DEF TryPop
<1>8. ASSUME SpuriousWakeup
      PROVE  TypeOK' /\ Ordered(queue)' /\ NoLostWakeup' /\ PendingOvertakes'
  BY <1>8, <1>a DEF SpuriousWakeup, TypeOK, Ordered, NoLostWakeup, PendingOvertakes, Overtakes
<1>9. ASSUME UNCHANGED vars
      PROVE  TypeOK' /\ Ordered(queue)' /\ NoLostWakeup' /\ PendingOvertakes'
  BY <1>9, <1>a DEF vars, TypeOK, Ordered, NoLostWakeup, PendingOvertakes, Overtakes
<1> QED
  BY <1>1, <1>2, <1>3, <1>4, <1>6, <1>7, <1>8, <1>9 DEF Next, ClientStep

-----------------------------------------------------------------------------
(* Every step of the queue is a step of the mailbox, or none.                *)

\* An empty queue is a mailbox with no alarm raised and an empty line.
LEMMA InitMailbox == Init => Mailbox!Init
<1> SUFFICES ASSUME Init PROVE Mailbox!Init
  OBVIOUS
<1>1. ~Queued(queue, "Terminate") /\ ~Queued(queue, "Halt")
  BY DEF Init, Queued
<1>2. Alarms(queue) = 0 /\ Len(queue) = 0
  BY <1>1 DEF Alarms, Init
<1>3. Line(queue) \in Seq(JobCommand) /\ Len(Line(queue)) = 0
  <2>1. queue \in Seq(JobCommand) /\ Alarms(queue) \in 0 .. Len(queue)
    BY <1>2 DEF Init
  <2>2. Line(queue) \in Seq(JobCommand) /\ Len(Line(queue)) = Len(queue) - Alarms(queue)
    BY <2>1, LineElements
  <2> QED
    BY <1>2, <2>2
<1>4. Line(queue) = << >>
  BY <1>3
<1> QED
  BY <1>1, <1>4 DEF Init, Mailbox!Init, NoCommand, Mailbox!None

\* The mailbox depends on nothing but the commands and the last one handed out.
LEMMA MailboxStutters ==
  ASSUME UNCHANGED <<queue, popped>>
  PROVE  UNCHANGED Mailbox!mailbox
BY DEF Mailbox!mailbox

\* The simulation: a push posts or raises an alarm, a pop takes or finds nothing,
\* everything else stutters.
LEMMA NextMailbox == IInv /\ [Next]_vars => [Mailbox!Next]_(Mailbox!mailbox)
<1> SUFFICES ASSUME IInv, [Next]_vars PROVE [Mailbox!Next]_(Mailbox!mailbox)
  OBVIOUS
<1> USE NoClientAssumption, CommandKinds
<1>a. TypeOK /\ Ordered(queue) /\ PendingOvertakes
  BY DEF IInv, PriorityOrder, Ordered
<1>b. queue \in Seq(JobCommand)
  BY <1>a DEF TypeOK
<1>c. \A k \in PriorityCommand : /\ Queued(queue, k) \in BOOLEAN
                                 /\ Queued(queue, k)' \in BOOLEAN
  BY DEF Queued
<1>d. "Halt" \in PriorityCommand /\ "Terminate" \in PriorityCommand
  BY DEF PriorityCommand
<1>1. ASSUME NEW c \in Clients, NEW k \in NormalCommand, Push(c, k)
      PROVE  Mailbox!Next
  <2>1. queue' = PushBack(queue, k) /\ popped' = popped
    BY <1>1 DEF Push
  <2>2. /\ Queued(queue, "Terminate")' = Queued(queue, "Terminate")
        /\ Queued(queue, "Halt")' = Queued(queue, "Halt")
        /\ Line(queue)' = Append(Line(queue), k)
    BY <1>a, <1>b, <1>c, <1>d, <2>1, PushBackLine
  <2>3. Mailbox!Post(k)
    BY <2>1, <2>2 DEF Mailbox!Post, Mailbox!NormalCommand, NormalCommand
  <2> QED
    BY <2>3 DEF Mailbox!Next, Mailbox!NormalCommand, NormalCommand
<1>2. ASSUME NEW c \in Clients, PriorityPushEnd(c)
      PROVE  Mailbox!Next
  <2>0. PICK k \in PriorityCommand : k = client[c] /\ Overtakes(queue, k)
    BY <1>2, <1>a DEF PriorityPushEnd, TypeOK, PendingOvertakes
  <2>1. queue' = PushFront(queue, k) /\ popped' = popped
    BY <1>2, <2>0 DEF PriorityPushEnd
  <2>2. /\ ~Queued(queue, k) /\ Queued(queue, k)'
        /\ k = "Halt" => ~Queued(queue, "Terminate")
        /\ \A l \in PriorityCommand \ {k} : Queued(queue, l)' <=> Queued(queue, l)
        /\ Line(queue)' = Line(queue)
    BY <1>a, <1>b, <2>0, <2>1, PushFrontLine
  <2>3. CASE k = "Halt"
    <3>1. Queued(queue, "Terminate")' = Queued(queue, "Terminate")
      BY <1>c, <1>d, <2>2, <2>3
    <3> QED
      BY <1>c, <1>d, <2>1, <2>2, <2>3, <3>1 DEF Mailbox!Next, Mailbox!RaiseHalt
  <2>4. CASE k = "Terminate"
    <3>1. Queued(queue, "Halt")' = Queued(queue, "Halt")
      BY <1>c, <1>d, <2>2, <2>4
    <3> QED
      BY <1>c, <1>d, <2>1, <2>2, <2>4, <3>1 DEF Mailbox!Next, Mailbox!RaiseTerminate
  <2> QED
    BY <2>0, <2>3, <2>4 DEF PriorityCommand
<1>3. ASSUME PopFront
      PROVE  Mailbox!Next
  <2>1. queue # << >> /\ popped' = Head(queue) /\ queue' = Tail(queue)
    BY <1>3 DEF PopFront
  <2>2. CASE /\ Queued(queue, "Terminate") /\ Head(queue) = "Terminate"
             /\ ~Queued(queue, "Terminate")'
             /\ Queued(queue, "Halt")' = Queued(queue, "Halt")
             /\ Line(queue)' = Line(queue)
    BY <1>c, <1>d, <2>1, <2>2 DEF Mailbox!Next, Mailbox!TakeTerminate
  <2>3. CASE /\ ~Queued(queue, "Terminate") /\ Queued(queue, "Halt") /\ Head(queue) = "Halt"
             /\ ~Queued(queue, "Terminate")' /\ ~Queued(queue, "Halt")'
             /\ Line(queue)' = Line(queue)
    BY <1>c, <1>d, <2>1, <2>3 DEF Mailbox!Next, Mailbox!TakeHalt
  <2>4. CASE /\ ~Queued(queue, "Terminate") /\ ~Queued(queue, "Halt")
             /\ ~Queued(queue, "Terminate")' /\ ~Queued(queue, "Halt")'
             /\ Line(queue) # << >> /\ Head(queue) = Head(Line(queue))
             /\ Line(queue)' = Tail(Line(queue))
    BY <1>c, <1>d, <2>1, <2>4 DEF Mailbox!Next, Mailbox!TakeOldest
  <2> QED
    BY <1>a, <1>b, <1>c, <1>d, <2>1, <2>2, <2>3, <2>4, PopFrontLine
<1>4. ASSUME popped' = NoCommand, UNCHANGED queue
      PROVE  Mailbox!Next
  BY <1>4 DEF Mailbox!Next, Mailbox!Ask, Mailbox!None, NoCommand
<1>5. ASSUME WaitForNextCommand \/ TryPop
      PROVE  Mailbox!Next
  BY <1>3, <1>4, <1>5 DEF WaitForNextCommand, TryPop
<1>6. ASSUME \/ \E c \in Clients : \/ \E k \in PriorityCommand : PriorityPushBegin(c, k)
                                  \/ NotifyOne(c)
             \/ SpuriousWakeup
             \/ UNCHANGED vars
      PROVE  UNCHANGED Mailbox!mailbox
  <2>1. UNCHANGED <<queue, popped>>
    BY <1>6 DEF PriorityPushBegin, NotifyOne, SpuriousWakeup, vars
  <2> QED
    BY <2>1, MailboxStutters
<1> QED
  BY <1>1, <1>2, <1>5, <1>6 DEF Next, ClientStep

-----------------------------------------------------------------------------
(* Theorems                                                                  *)

\* Every reachable state is well typed, and the mutex is held by exactly the
\* client that runs a function under it.
THEOREM QueueTypeCorrect == Spec => []TypeOK
<1>1. IInv => TypeOK
  BY DEF IInv
<1> QED
  BY <1>1, InitIInv, NextIInv, PTL DEF Spec

\* Halt and Terminate stand in front of all ordinary commands and at most once
\* each, however the pushes of the clients interleave.
THEOREM PriorityOrderHolds == Spec => []PriorityOrder
<1>1. IInv => PriorityOrder
  BY DEF IInv
<1> QED
  BY <1>1, InitIInv, NextIInv, PTL DEF Spec

\* Notifying after the mutex was released loses no wake-up.
THEOREM NoLostWakeupHolds == Spec => []NoLostWakeup
<1>1. IInv => NoLostWakeup
  BY DEF IInv
<1> QED
  BY <1>1, InitIInv, NextIInv, PTL DEF Spec

\* The queue, its mutex and its condition variable implement the mailbox of two
\* latched alarms over a first-in-first-out line.
THEOREM QueueImplementsMailbox == Spec => ImplementsMailbox
BY InitIInv, NextIInv, InitMailbox, NextMailbox, PTL DEF Spec, ImplementsMailbox, Mailbox!Spec

-----------------------------------------------------------------------------
(* The inductive invariant of the callbacks.                                 *)

Place == {"idle", "setup", "notify", "update", "call", "look", "drowsy",
          "asleep", "result", "unregister"}
Entry == (Waiters \union {Runner}) \X (Variables \union {None})

CallbackTypeOK == /\ pc \in [Threads -> Place]
                  /\ on \in [Threads -> Variables \union {None}]
                  /\ calling \in [Writers -> Seq(Entry)]
                  /\ entries \in Seq(Entry)
                  /\ generic \in {<< >>, << <<Runner, None>> >>}

Alive == {l \in Waiters \union {Runner} :
            IF l = Runner THEN generic # << >> ELSE pc[l] # "idle"}

\* Who goes through the listeners has the mutex of the manager.
CallsUnderMutex == \A t \in Writers : /\ calling[t] # << >> => pc[t] = "call"
                                      /\ pc[t] = "call" => managerMtx = t

CalledExist == \A t \in Writers : \A k \in DOMAIN calling[t] : calling[t][k][1] \in Alive

\* An entry is that of a wait that has not returned, which has no other.
EntriesAreWaits ==
  /\ \A k \in DOMAIN entries : entries[k][1] \in Waiters /\ pc[entries[k][1]] # "idle"
  /\ \A j, k \in DOMAIN entries : j # k => entries[j][1] # entries[k][1]

CallbackInv == CallbackTypeOK /\ CallsUnderMutex /\ CalledExist /\ EntriesAreWaits

-----------------------------------------------------------------------------
(* It is inductive.                                                          *)

LEMMA InitCallbackInv == CallbackInit => CallbackInv
<1> SUFFICES ASSUME CallbackInit PROVE CallbackInv
  OBVIOUS
<1>1. << >> \in Seq(Entry)
  OBVIOUS
<1>2. CallbackTypeOK
  BY <1>1 DEF CallbackInit, CallbackTypeOK, Place
<1>3. CallsUnderMutex /\ CalledExist /\ EntriesAreWaits
  BY DEF CallbackInit, CallsUnderMutex, CalledExist, EntriesAreWaits, Threads
<1> QED
  BY <1>2, <1>3 DEF CallbackInv

\* While the mutex is free, nobody is called.
LEMMA NobodyCalled ==
  ASSUME CallbackInv, managerMtx = Free
  PROVE  \A t \in Writers : calling[t] = << >> /\ pc[t] # "call"
  BY CallbackAssumption DEF CallbackInv, CallsUnderMutex, Free

\* A step that moves one thread between places other than "idle" and "call".
LEMMA Moved ==
  ASSUME CallbackInv, NEW t \in Threads, NEW p \in Place,
         pc' = [pc EXCEPT ![t] = p],
         p = "idle" => t \in Writers,
         p # "call", pc[t] # "call",
         on' \in [Threads -> Variables \union {None}],
         UNCHANGED <<managerMtx, generic, entries, calling>>
  PROVE  CallbackInv'
<1> USE DEF CallbackInv
<1>1. CallbackTypeOK'
  BY DEF CallbackTypeOK
<1>2. \A w \in Waiters : pc[w] # "idle" => pc'[w] # "idle"
  BY CallbackAssumption DEF CallbackTypeOK, Threads
<1>3. \A u \in Writers : (pc[u] = "call" <=> pc'[u] = "call")
  BY DEF CallbackTypeOK, Threads
<1>4. CallsUnderMutex'
  BY <1>3 DEF CallsUnderMutex
<1>5. CalledExist'
  BY <1>2 DEF CalledExist, Alive
<1>6. EntriesAreWaits'
  BY <1>2 DEF EntriesAreWaits
<1> QED
  BY <1>1, <1>4, <1>5, <1>6

LEMMA NextCallbackInv == CallbackInv /\ [CallbackNext]_callbackVars => CallbackInv'
<1> SUFFICES ASSUME CallbackInv, [CallbackNext]_callbackVars
             PROVE  CallbackInv'
  OBVIOUS
<1> USE CallbackAssumption DEF variableState, locks, listeners, Threads, Go, Leave
<1>0. /\ pc \in [Threads -> Place] /\ on \in [Threads -> Variables \union {None}]
      /\ calling \in [Writers -> Seq(Entry)] /\ entries \in Seq(Entry)
  BY DEF CallbackInv, CallbackTypeOK
<1>1. ASSUME NEW t \in Writers, NEW v \in Variables, SetValue(t, v) \/ Teardown(t, v)
      PROVE  CallbackInv'
  <2>1. pc' = [pc EXCEPT ![t] = "notify"]
    BY <1>1 DEF SetValue, Teardown, Enter
  <2>2. /\ pc[t] = "idle" /\ on' = [on EXCEPT ![t] = v]
        /\ UNCHANGED <<managerMtx, generic, entries, calling>>
    BY <1>1 DEF SetValue, Teardown, Enter
  <2> QED
    BY <1>0, <2>1, <2>2, Moved DEF Place
<1>2. ASSUME NEW t \in Writers, Setup(t) \/ Notify(t)
      PROVE  CallbackInv'
  <2>1. \E p \in {"idle", "update"} : pc' = [pc EXCEPT ![t] = p]
    BY <1>2 DEF Setup, Notify
  <2>2. /\ pc[t] # "call" /\ (on' = on \/ on' = [on EXCEPT ![t] = None])
        /\ UNCHANGED <<managerMtx, generic, entries, calling>>
    BY <1>2 DEF Setup, Notify
  <2> QED
    BY <1>0, <2>1, <2>2, Moved DEF Place
<1>3. ASSUME NEW w \in Waiters,
             \/ Look(w) \/ FallAsleep(w) \/ Timeout(w) \/ WakeUnnotified(w) \/ Result(w)
      PROVE  CallbackInv'
  <2>1. \E p \in {"result", "drowsy", "asleep", "look", "unregister"} :
          pc' = [pc EXCEPT ![w] = p]
    BY <1>3 DEF Look, FallAsleep, Timeout, WakeUnnotified, Result
  <2>2. /\ pc[w] # "call" /\ on' = on
        /\ UNCHANGED <<managerMtx, generic, entries, calling>>
    BY <1>3 DEF Look, FallAsleep, Timeout, WakeUnnotified, Result
  <2> QED
    BY <1>0, <2>1, <2>2, Moved DEF Place
<1>4. ASSUME NEW t \in Writers, ExecuteCallbacks(t)
      PROVE  CallbackInv'
  <2>1. /\ managerMtx = Free /\ managerMtx' = t /\ pc' = [pc EXCEPT ![t] = "call"]
        /\ calling' = [calling EXCEPT ![t] = generic \o entries]
        /\ UNCHANGED <<generic, entries, on>>
    BY <1>4 DEF ExecuteCallbacks, AllEntries
  <2>2. generic \in Seq(Entry) /\ Len(generic) \in Nat /\ Len(entries) \in Nat
    <3>1. <<Runner, None>> \in Entry
      BY DEF Entry
    <3>2. << >> \in Seq(Entry) /\ << <<Runner, None>> >> \in Seq(Entry)
      BY <3>1
    <3>3. generic \in Seq(Entry)
      BY <3>2 DEF CallbackInv, CallbackTypeOK
    <3> QED
      BY <1>0, <3>3
  <2>3. /\ generic \o entries \in Seq(Entry)
        /\ Len(generic \o entries) = Len(generic) + Len(entries)
        /\ \A k \in 1 .. Len(generic) + Len(entries) :
             (generic \o entries)[k] = IF k <= Len(generic) THEN generic[k]
                                       ELSE entries[k - Len(generic)]
    BY <1>0, <2>2, ConcatProperties
  <2>4. CallbackTypeOK'
    BY <1>0, <2>1, <2>3 DEF CallbackInv, CallbackTypeOK, Place
  <2>5. CallsUnderMutex'
    BY <1>0, <2>1, NobodyCalled DEF CallsUnderMutex
  <2>6. Alive \subseteq Alive'
    BY <1>0, <2>1 DEF Alive
  <2>7. ASSUME NEW k \in 1 .. Len(generic) + Len(entries)
        PROVE  (generic \o entries)[k][1] \in Alive
    <3>1. CASE k <= Len(generic)
      <4>1. generic[k] = <<Runner, None>> /\ generic # << >>
        BY <2>7, <3>1 DEF CallbackInv, CallbackTypeOK
      <4> QED
        BY <2>3, <3>1, <4>1 DEF Alive
    <3>2. CASE ~(k <= Len(generic))
      <4>1. k - Len(generic) \in DOMAIN entries
        BY <1>0, <2>2, <3>2
      <4>2. entries[k - Len(generic)][1] \in Alive
        BY <4>1 DEF CallbackInv, EntriesAreWaits, Alive
      <4> QED
        BY <2>3, <3>2, <4>2
    <3> QED
      BY <3>1, <3>2
  <2>8. CalledExist'
    <3> SUFFICES ASSUME NEW u \in Writers, NEW k \in DOMAIN calling'[u]
                 PROVE  calling'[u][k][1] \in Alive'
      BY DEF CalledExist
    <3>1. u = t
      BY <1>0, <2>1, NobodyCalled
    <3>2. calling'[u] = generic \o entries /\ k \in 1 .. Len(generic) + Len(entries)
      BY <1>0, <2>1, <2>3, <3>1
    <3> QED
      BY <2>6, <2>7, <3>2
  <2>9. EntriesAreWaits'
    BY <1>0, <2>1 DEF CallbackInv, EntriesAreWaits
  <2> QED
    BY <2>4, <2>5, <2>8, <2>9 DEF CallbackInv
<1>5. ASSUME NEW t \in Writers, Callback(t)
      PROVE  CallbackInv'
  <2> DEFINE w == Head(calling[t])[1]
  <2>1. /\ pc[t] = "call" /\ calling[t] # << >>
        /\ pc' = pc \/ (w # Runner /\ pc' = [pc EXCEPT ![w] = "look"])
        /\ calling' = [calling EXCEPT ![t] = Tail(calling[t])]
        /\ UNCHANGED <<managerMtx, generic, entries, on>>
    BY <1>5 DEF Callback
  <2>2. w \in Alive
    <3>1. Head(calling[t]) = calling[t][1] /\ 1 \in DOMAIN calling[t]
      BY <1>0, <2>1
    <3> QED
      BY <3>1 DEF CallbackInv, CalledExist
  <2>3. w # Runner => w \in Waiters
    BY <2>2 DEF Alive
  <2> HIDE DEF w
  <2>4. /\ pc' \in [Threads -> Place]
        /\ \A u \in Writers : pc'[u] = pc[u]
        /\ \A u \in Waiters : pc[u] # "idle" => pc'[u] # "idle"
    BY <1>0, <2>1, <2>3 DEF Place
  <2>5. /\ Tail(calling[t]) \in Seq(Entry)
        /\ \A k \in DOMAIN Tail(calling[t]) : /\ k + 1 \in DOMAIN calling[t]
                                              /\ Tail(calling[t])[k] = calling[t][k + 1]
    BY <1>0, <2>1
  <2>6. CallbackTypeOK'
    BY <1>0, <2>1, <2>4, <2>5 DEF CallbackInv, CallbackTypeOK
  <2>7. CallsUnderMutex'
    BY <1>0, <2>1, <2>4 DEF CallbackInv, CallsUnderMutex
  <2>8. Alive \subseteq Alive'
    BY <2>1, <2>4 DEF Alive
  <2>9. CalledExist'
    <3> SUFFICES ASSUME NEW u \in Writers, NEW k \in DOMAIN calling'[u]
                 PROVE  calling'[u][k][1] \in Alive'
      BY DEF CalledExist
    <3>1. \E m \in DOMAIN calling[u] : calling'[u][k] = calling[u][m]
      BY <1>0, <2>1, <2>5
    <3> QED
      BY <2>8, <3>1 DEF CallbackInv, CalledExist
  <2>10. EntriesAreWaits'
    BY <2>1, <2>4 DEF CallbackInv, EntriesAreWaits
  <2> QED
    BY <2>6, <2>7, <2>9, <2>10 DEF CallbackInv
<1>6. ASSUME NEW t \in Writers, EndNotify(t)
      PROVE  CallbackInv'
  <2>1. /\ pc[t] = "call" /\ calling[t] = << >>
        /\ \E p \in {"idle", "setup"} : pc' = [pc EXCEPT ![t] = p]
        /\ on' = on \/ on' = [on EXCEPT ![t] = None]
        /\ UNCHANGED <<generic, entries, calling>>
    BY <1>6 DEF EndNotify
  <2>2. \A u \in Writers : /\ u # t => pc[u] # "call" /\ pc'[u] # "call"
                           /\ pc'[t] # "call"
                           /\ calling[u] = << >>
    BY <1>0, <2>1 DEF CallbackInv, CallsUnderMutex
  <2>3. \A u \in Waiters : pc'[u] = pc[u]
    BY <1>0, <2>1
  <2>4. CallbackTypeOK'
    BY <1>0, <2>1 DEF CallbackInv, CallbackTypeOK, Place
  <2>5. CallsUnderMutex' /\ CalledExist'
    BY <2>1, <2>2 DEF CallsUnderMutex, CalledExist
  <2>6. EntriesAreWaits'
    BY <2>1, <2>3 DEF CallbackInv, EntriesAreWaits
  <2> QED
    BY <2>4, <2>5, <2>6 DEF CallbackInv
<1>7. ASSUME NEW w \in Waiters, NEW v \in Variables, RegisterCallback(w, v)
      PROVE  CallbackInv'
  <2>1. /\ managerMtx = Free /\ managerMtx' = managerMtx /\ pc[w] = "idle" /\ pc' = [pc EXCEPT ![w] = "look"]
        /\ on' = [on EXCEPT ![w] = v]
        /\ entries' = Append(entries, <<w, v>>)
        /\ UNCHANGED <<generic, calling>>
    BY <1>7 DEF RegisterCallback, Enter
  <2>2. <<w, v>> \in Entry
    BY DEF Entry
  <2>3. /\ entries' \in Seq(Entry)
        /\ Len(entries) \in Nat /\ DOMAIN entries = 1 .. Len(entries)
        /\ DOMAIN entries' = 1 .. Len(entries) + 1
        /\ entries'[Len(entries) + 1] = <<w, v>>
        /\ \A k \in 1 .. Len(entries) : entries'[k] = entries[k]
    BY <1>0, <2>1, <2>2
  <2>4. \A u \in Threads : u # w => pc'[u] = pc[u]
    BY <1>0, <2>1
  <2>5. pc'[w] = "look"
    BY <1>0, <2>1
  <2>6. CallbackTypeOK'
    BY <1>0, <2>1, <2>3 DEF CallbackInv, CallbackTypeOK, Place
  <2>7. CallsUnderMutex' /\ CalledExist'
    BY <2>1, <2>4, NobodyCalled DEF CallsUnderMutex, CalledExist
  <2>8. \A k \in 1 .. Len(entries) : entries[k][1] \in Waiters /\ pc[entries[k][1]] # "idle"
    BY <2>3 DEF CallbackInv, EntriesAreWaits
  <2>9. EntriesAreWaits'
    <3>1. \A k \in 1 .. Len(entries) + 1 : /\ entries'[k][1] \in Waiters
                                           /\ pc'[entries'[k][1]] # "idle"
      <4> TAKE k \in 1 .. Len(entries) + 1
      <4>1. CASE k = Len(entries) + 1
        <5>1. entries'[k][1] = w
          BY <2>3, <4>1
        <5> QED
          BY <2>5, <5>1
      <4>2. CASE k \in 1 .. Len(entries)
        <5>1. entries'[k] = entries[k] /\ entries[k][1] # w
          BY <2>1, <2>3, <2>8, <4>2
        <5> QED
          BY <2>4, <2>8, <4>2, <5>1
      <4> QED
        BY <2>3, <4>1, <4>2
    <3>2. \A k \in 1 .. Len(entries) : entries'[k][1] # w
      BY <2>1, <2>3, <2>8
    <3>3. ASSUME NEW j \in 1 .. Len(entries) + 1, NEW k \in 1 .. Len(entries) + 1, j # k
          PROVE  entries'[j][1] # entries'[k][1]
      <4>1. CASE j \in 1 .. Len(entries) /\ k \in 1 .. Len(entries)
        <5>1. entries[j][1] # entries[k][1]
          BY <2>3, <3>3, <4>1 DEF CallbackInv, EntriesAreWaits
        <5> QED
          BY <2>3, <4>1, <5>1
      <4>2. CASE j = Len(entries) + 1 /\ k \in 1 .. Len(entries)
        BY <2>3, <3>2, <4>2
      <4>3. CASE j \in 1 .. Len(entries) /\ k = Len(entries) + 1
        BY <2>3, <3>2, <4>3
      <4> QED
        BY <2>3, <3>3, <4>1, <4>2, <4>3
    <3> QED
      BY <2>3, <3>1, <3>3 DEF EntriesAreWaits
  <2> QED
    BY <2>6, <2>7, <2>9 DEF CallbackInv
<1>8. ASSUME NEW w \in Waiters, Unregister(w)
      PROVE  CallbackInv'
  <2> DEFINE n == Len(entries)
  <2>1. PICK k \in DOMAIN entries : entries[k][1] = w /\ entries' = RemoveAt(entries, k)
    BY <1>8 DEF Unregister
  <2>2. /\ managerMtx = Free /\ managerMtx' = managerMtx /\ pc' = [pc EXCEPT ![w] = "idle"]
        /\ on' = [on EXCEPT ![w] = None]
        /\ UNCHANGED <<generic, calling>>
    BY <1>8 DEF Unregister
  <2>3. n \in Nat /\ DOMAIN entries = 1 .. n /\ k \in 1 .. n
    BY <1>0, <2>1
  <2>4. /\ entries' \in Seq(Entry) /\ Len(entries') = n - 1
        /\ \A j \in 1 .. k - 1 : entries'[j] = entries[j]
        /\ \A j \in k .. n - 1 : entries'[j] = entries[j + 1]
    <3>1. RemoveAt(entries, k) \in Seq(Entry) /\ Len(RemoveAt(entries, k)) = n - 1
      BY <1>0, <2>3, ErasedAt
    <3>2. \A j \in 1 .. k - 1 : RemoveAt(entries, k)[j] = entries[j]
      BY <1>0, <2>3, ErasedAt
    <3>3. \A j \in k .. n - 1 : RemoveAt(entries, k)[j] = entries[j + 1]
      BY <1>0, <2>3, ErasedAt
    <3> QED
      BY <2>1, <3>1, <3>2, <3>3
  <2>5. DOMAIN entries' = 1 .. n - 1
    BY <2>4
  <2> DEFINE was == [j \in 1 .. n - 1 |-> IF j < k THEN j ELSE j + 1]
  <2>6. ASSUME NEW j \in 1 .. n - 1
        PROVE  was[j] \in 1 .. n /\ was[j] # k /\ entries'[j] = entries[was[j]]
    <3>1. CASE j < k
      <4>1. j \in 1 .. k - 1 /\ was[j] = j
        BY <2>3, <3>1
      <4> QED
        BY <2>3, <2>4, <4>1
    <3>2. CASE ~(j < k)
      <4>1. j \in k .. n - 1 /\ was[j] = j + 1
        BY <2>3, <3>2
      <4> QED
        BY <2>3, <2>4, <4>1
    <3> QED
      BY <3>1, <3>2
  <2>7. \A i, j \in 1 .. n - 1 : i # j => was[i] # was[j]
    BY <2>3
  <2> HIDE DEF was
  <2>8. \A u \in Threads : u # w => pc'[u] = pc[u]
    BY <1>0, <2>2
  <2>9. /\ \A j \in 1 .. n : entries[j][1] \in Waiters /\ pc[entries[j][1]] # "idle"
        /\ \A i, j \in 1 .. n : i # j => entries[i][1] # entries[j][1]
    BY <2>3 DEF CallbackInv, EntriesAreWaits
  <2>10. EntriesAreWaits'
    <3>1. ASSUME NEW j \in 1 .. n - 1
          PROVE  entries'[j][1] \in Waiters /\ pc'[entries'[j][1]] # "idle"
      <4>1. entries'[j][1] # w
        BY <2>1, <2>3, <2>6, <2>9
      <4> QED
        <5>1. was[j] \in 1 .. n /\ entries'[j] = entries[was[j]]
          BY <2>6
        <5>2. entries[was[j]][1] \in Waiters /\ pc[entries[was[j]][1]] # "idle"
          BY <2>9, <5>1
        <5> QED
          BY <2>8, <4>1, <5>1, <5>2
    <3>2. ASSUME NEW i \in 1 .. n - 1, NEW j \in 1 .. n - 1, i # j
          PROVE  entries'[i][1] # entries'[j][1]
      <4>1. /\ was[i] \in 1 .. n /\ was[j] \in 1 .. n /\ was[i] # was[j]
            /\ entries'[i] = entries[was[i]] /\ entries'[j] = entries[was[j]]
        BY <2>6, <2>7, <3>2
      <4> QED
        BY <2>9, <4>1
    <3> QED
      BY <2>5, <3>1, <3>2 DEF EntriesAreWaits
  <2>11. CallbackTypeOK'
    BY <1>0, <2>2, <2>4 DEF CallbackInv, CallbackTypeOK, Place
  <2>12. CallsUnderMutex' /\ CalledExist'
    BY <2>2, <2>8, NobodyCalled DEF CallsUnderMutex, CalledExist
  <2> QED
    BY <2>10, <2>11, <2>12 DEF CallbackInv
<1>9. CASE UnregisterRunner
  <2>1. managerMtx = Free /\ generic' = << >> /\ UNCHANGED <<managerMtx, entries, pc, on, calling>>
    BY <1>9 DEF UnregisterRunner
  <2>2. CallbackTypeOK'
    BY <2>1 DEF CallbackInv, CallbackTypeOK
  <2>3. CallsUnderMutex' /\ CalledExist'
    BY <2>1, NobodyCalled DEF CallsUnderMutex, CalledExist
  <2>4. EntriesAreWaits'
    BY <2>1 DEF CallbackInv, EntriesAreWaits
  <2> QED
    BY <2>2, <2>3, <2>4 DEF CallbackInv
<1>10. CASE UNCHANGED callbackVars
  BY <1>10 DEF callbackVars, CallbackInv, CallbackTypeOK, CallsUnderMutex, CalledExist, EntriesAreWaits, Alive
<1> QED
  BY <1>1, <1>2, <1>3, <1>4, <1>5, <1>6, <1>7, <1>8, <1>9, <1>10 DEF CallbackNext, Proceed

-----------------------------------------------------------------------------
(* The theorem.                                                              *)

\* Whoever registers, waits, times out or is destroyed while others write: a callback
\* finds its listener alive.
THEOREM ListenersAreAliveHolds == CallbackSpec => []ListenersAreAlive
<1>1. CallbackInv => ListenersAreAlive
  BY DEF CallbackInv, CalledExist, Alive, ListenersAreAlive
<1>2. CallbackSpec => []CallbackInv
  BY InitCallbackInv, NextCallbackInv, PTL DEF CallbackSpec
<1> QED
  BY <1>1, <1>2, PTL

=============================================================================
