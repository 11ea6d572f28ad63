---------------------------- MODULE SequenceLemmas ----------------------------
(***************************************************************************)
(* Lemmas about the sequences of the model, for the proofs about several   *)
(* components: induction over their length, what erasing an element        *)
(* leaves, and the order that the urgency of job commands keeps in a       *)
(* command queue.                                                          *)
(***************************************************************************)
EXTENDS JobTypes, SequencesExt, SequenceTheorems, WellFoundedInduction, TLAPS

-----------------------------------------------------------------------------
(* Induction                                                                 *)

\* A set of natural numbers that has any has a least one.
LEMMA LeastNumber ==
  ASSUME NEW T \in SUBSET Nat, T # {}
  PROVE  \E n \in T : \A m \in T : n <= m
<1> DEFINE Less == OpToRel(<, Nat)
<1>1. IsWellFoundedOn(Less, Nat)
  BY NatLessThanWellFounded, Zenon
<1>2. \A x, y \in Nat : x < y => <<x, y>> \in Less
  BY DEF OpToRel
<1> HIDE DEF Less
<1>3. PICK x \in T : \A y \in T : <<y, x>> \notin Less
  BY <1>1, WFMin
<1>4. ASSUME NEW m \in T  PROVE x <= m
  <2>1. ~(m < x)
    BY <1>2, <1>3
  <2> QED  BY <2>1
<1> QED  BY <1>4

\* Induction over the natural numbers, for a set of them: the least number outside
\* of the set would have its predecessor in it.
LEMMA Induction ==
  ASSUME NEW T \in SUBSET Nat, 0 \in T, \A n \in T : n + 1 \in T
  PROVE  T = Nat
<1> DEFINE Rest == Nat \ T
<1> SUFFICES ASSUME Rest # {}
             PROVE  FALSE
  OBVIOUS
<1>1. PICK x \in Rest : \A y \in Rest : x <= y
  <2> HIDE DEF Rest
  <2>1. Rest \in SUBSET Nat
    BY DEF Rest
  <2> QED  BY <2>1, LeastNumber
<1>2. x # 0 /\ x - 1 \in Nat
  OBVIOUS
<1>3. x - 1 \in Rest
  BY <1>2
<1> QED
  BY <1>1, <1>2, <1>3

-----------------------------------------------------------------------------
(* Concatenation of a sequence of one element.                               *)

LEMMA OneConcat ==
  ASSUME NEW x, NEW y
  PROVE  <<x>> \o << >> = <<x>> /\ <<x>> \o <<y>> = <<x, y>>
<1> DEFINE S == {x, y}
<1>1. <<x>> \in Seq(S) /\ y \in S
  OBVIOUS
<1>2. <<x>> \o << >> = <<x>>
  BY <1>1, ConcatEmptySeq
<1>3. /\ <<x>> \o <<y>> \in Seq(S)
      /\ Len(<<x>> \o <<y>>) = 2
      /\ \A i \in 1 .. 2 : (<<x>> \o <<y>>)[i] = <<x, y>>[i]
  <2>1. /\ <<x>> \in Seq(S) /\ Len(<<x>>) = 1 /\ <<x>>[1] = x
        /\ <<y>> \in Seq(S) /\ Len(<<y>>) = 1 /\ <<y>>[1] = y
    OBVIOUS
  <2> DEFINE a == <<x>>
             b == <<y>>
  <2> HIDE DEF a, b
  <2>2. /\ a \o b \in Seq(S)
        /\ Len(a \o b) = 1 + 1
        /\ \A i \in 1 .. 1 + 1 : (a \o b)[i] = IF i <= 1 THEN a[i] ELSE b[i - 1]
    BY <2>1, ConcatProperties DEF a, b
  <2> QED  BY <2>1, <2>2 DEF a, b
<1>4. <<x, y>> \in Seq(S) /\ Len(<<x, y>>) = 2
  OBVIOUS
<1>5. <<x>> \o <<y>> = <<x, y>>
  BY <1>3, <1>4, SeqEqual
<1> QED  BY <1>2, <1>5

-----------------------------------------------------------------------------
(* Replacing the first element by others: how an agenda of calls goes on.    *)

LEMMA FirstReplaced ==
  ASSUME NEW S, NEW q \in Seq(S), q # << >>, NEW calls \in Seq(S),
         NEW r, r = calls \o Tail(q)
  PROVE  /\ r \in Seq(S)
         /\ Len(r) = Len(calls) + Len(q) - 1
         /\ \A k \in 1 .. Len(calls) : r[k] = calls[k]
         /\ \A k \in 2 .. Len(q) : r[Len(calls) + k - 1] = q[k]
<1>1. /\ Tail(q) \in Seq(S) /\ Len(Tail(q)) = Len(q) - 1
      /\ \A k \in 1 .. Len(q) - 1 : Tail(q)[k] = q[k + 1]
  OBVIOUS
<1> DEFINE rest == Tail(q)
<1> HIDE DEF rest
<1>2. /\ calls \o rest \in Seq(S)
      /\ Len(calls \o rest) = Len(calls) + Len(rest)
      /\ \A k \in 1 .. Len(calls) + Len(rest) :
           (calls \o rest)[k] = IF k <= Len(calls) THEN calls[k] ELSE rest[k - Len(calls)]
  BY <1>1, ConcatProperties DEF rest
<1>3. Len(calls) \in Nat /\ Len(q) \in Nat /\ r = calls \o rest
  BY DEF rest
<1>4. ASSUME NEW k \in 1 .. Len(calls)  PROVE r[k] = calls[k]
  BY <1>1, <1>2, <1>3 DEF rest
<1>5. ASSUME NEW k \in 2 .. Len(q)  PROVE r[Len(calls) + k - 1] = q[k]
  <2> DEFINE p == Len(calls) + k - 1
  <2>1. /\ p \in 1 .. Len(calls) + Len(rest) /\ ~(p <= Len(calls))
        /\ p - Len(calls) = k - 1 /\ k - 1 \in 1 .. Len(q) - 1 /\ (k - 1) + 1 = k
    BY <1>1, <1>3 DEF rest
  <2> HIDE DEF p
  <2>2. r[p] = rest[k - 1]
    BY <1>2, <1>3, <2>1
  <2> QED  BY <1>1, <2>1, <2>2 DEF rest, p
<1> QED  BY <1>1, <1>2, <1>3, <1>4, <1>5 DEF rest

-----------------------------------------------------------------------------
(* Erasing: the erase calls on the queue of AsyncInputAdapter and on the     *)
(* entries of NamedCallbackManager.                                          *)

\* Erasing the k-th element moves those behind it one place forward.
LEMMA ErasedAt ==
  ASSUME NEW S, NEW q \in Seq(S), NEW k \in 1 .. Len(q)
  PROVE  /\ RemoveAt(q, k) \in Seq(S)
         /\ Len(RemoveAt(q, k)) = Len(q) - 1
         /\ \A j \in 1 .. k - 1 : RemoveAt(q, k)[j] = q[j]
         /\ \A j \in k .. Len(q) - 1 : RemoveAt(q, k)[j] = q[j + 1]
<1> DEFINE front == SubSeq(q, 1, k - 1)
           back  == SubSeq(q, k + 1, Len(q))
<1>1. k \in 1 .. Len(q) /\ Len(q) \in Nat
  OBVIOUS
<1>2. /\ front \in Seq(S)
      /\ Len(front) = k - 1
      /\ \A j \in 1 .. k - 1 : front[j] = q[j]
  BY <1>1
<1>3. /\ back \in Seq(S)
      /\ Len(back) = Len(q) - k
      /\ \A j \in 1 .. Len(q) - k : back[j] = q[k + j]
  BY <1>1
<1>4. RemoveAt(q, k) = front \o back
  BY DEF RemoveAt
<1> DEFINE joined == front \o back
<1> HIDE DEF front, back
<1>5. /\ joined \in Seq(S)
      /\ Len(joined) = Len(front) + Len(back)
      /\ \A j \in 1 .. Len(front) + Len(back) :
           joined[j] = IF j <= Len(front) THEN front[j] ELSE back[j - Len(front)]
  BY <1>2, <1>3, ConcatProperties
<1> HIDE DEF joined
<1>6. ASSUME NEW j \in 1 .. k - 1
      PROVE  joined[j] = q[j]
  <2>1. j \in 1 .. k - 1 /\ j <= k - 1 /\ j \in 1 .. (k - 1) + (Len(q) - k)
    BY <1>1, <1>6
  <2> QED
    BY <1>2, <1>3, <1>5, <2>1
<1>7. ASSUME NEW j \in k .. Len(q) - 1
      PROVE  joined[j] = q[j + 1]
  <2>1. /\ j - (k - 1) \in 1 .. Len(q) - k
        /\ k + (j - (k - 1)) = j + 1
        /\ ~(j <= k - 1)
        /\ j \in 1 .. (k - 1) + (Len(q) - k)
    BY <1>1, <1>7
  <2>2. joined[j] = back[j - (k - 1)]
    BY <1>1, <1>2, <1>3, <1>5, <2>1
  <2> QED
    BY <1>3, <2>1, <2>2
<1>8. Len(joined) = Len(q) - 1
  BY <1>1, <1>2, <1>3, <1>5
<1>9. RemoveAt(q, k) = joined
  BY <1>4 DEF joined
<1> QED
  BY <1>5, <1>6, <1>7, <1>8, <1>9

\* The others are still there, in the order they were, and only they.
LEMMA ErasedKeeps ==
  ASSUME NEW S, NEW q \in Seq(S), NEW k \in 1 .. Len(q)
  PROVE  \A j \in 1 .. Len(q) - 1 :
           \E m \in 1 .. Len(q) : m # k /\ RemoveAt(q, k)[j] = q[m]
<1>1. Len(q) \in Nat
  OBVIOUS
<1> TAKE j \in 1 .. Len(q) - 1
<1>2. CASE j < k
  <2>1. j \in 1 .. k - 1 /\ j \in 1 .. Len(q) /\ j # k
    BY <1>1, <1>2
  <2> QED
    BY <2>1, ErasedAt
<1>3. CASE ~(j < k)
  <2>1. j \in k .. Len(q) - 1 /\ j + 1 \in 1 .. Len(q) /\ j + 1 # k
    BY <1>1, <1>3
  <2>2. RemoveAt(q, k)[j] = q[j + 1]
    BY <2>1, ErasedAt
  <2> QED
    BY <2>1, <2>2
<1> QED
  BY <1>2, <1>3

-----------------------------------------------------------------------------
(* What the container operations do to the elements of a queue.              *)

\* push_back keeps every command at its place and adds one behind them.
LEMMA PushBackElements ==
  ASSUME NEW q \in Seq(JobCommand), NEW c \in JobCommand
  PROVE  /\ PushBack(q, c) \in Seq(JobCommand)
         /\ PushBack(q, c) # << >>
         /\ DOMAIN PushBack(q, c) = 1 .. Len(q) + 1
         /\ \A i \in DOMAIN q : PushBack(q, c)[i] = q[i]
         /\ PushBack(q, c)[Len(q) + 1] = c
BY DEF PushBack

\* push_front puts one in front and moves every other command up by one place.
LEMMA PushFrontElements ==
  ASSUME NEW q \in Seq(JobCommand), NEW c \in JobCommand
  PROVE  /\ PushFront(q, c) \in Seq(JobCommand)
         /\ PushFront(q, c) # << >>
         /\ DOMAIN PushFront(q, c) = 1 .. Len(q) + 1
         /\ PushFront(q, c)[1] = c
         /\ \A i \in DOMAIN q : PushFront(q, c)[i + 1] = q[i]
BY DEF PushFront

\* pop_front moves every command down by one place.
LEMMA PopFrontElements ==
  ASSUME NEW q \in Seq(JobCommand), q # << >>
  PROVE  /\ Head(q) \in JobCommand
         /\ Head(q) = q[1]
         /\ 1 \in DOMAIN q
         /\ Tail(q) \in Seq(JobCommand)
         /\ DOMAIN Tail(q) = 1 .. Len(q) - 1
         /\ \A i \in DOMAIN Tail(q) : i + 1 \in DOMAIN q /\ Tail(q)[i] = q[i + 1]
OBVIOUS

-----------------------------------------------------------------------------
(* Urgency is a total order on the commands that puts the priority commands  *)
(* on top.                                                                   *)

\* NotMoreUrgent is the complement of a strict order on the commands in which every
\* priority command is above every ordinary one.
LEMMA UrgencyOrder ==
  /\ \A c \in JobCommand : Urgency[c] \in Nat
  /\ \A c \in PriorityCommand, k \in NormalCommand : ~NotMoreUrgent(c, k)
  /\ \A a, b, c \in JobCommand :
       ~NotMoreUrgent(a, b) /\ ~NotMoreUrgent(b, c) => ~NotMoreUrgent(a, c)
  /\ \A a, b, c \in JobCommand :
       ~NotMoreUrgent(a, b) /\ NotMoreUrgent(c, b) => ~NotMoreUrgent(a, c)
<1>1. \A c \in JobCommand : Urgency[c] \in Nat
  BY SMT DEF Urgency, JobCommand, NormalCommand, PriorityCommand
<1>2. \A c \in PriorityCommand, k \in NormalCommand : Urgency[c] > Urgency[k]
  BY SMT DEF Urgency, JobCommand, NormalCommand, PriorityCommand
<1> QED
  BY <1>1, <1>2, SMT DEF NotMoreUrgent, JobCommand

\* A command is either ordinary or a priority command.
LEMMA CommandKinds == /\ NormalCommand \subseteq JobCommand
                      /\ PriorityCommand \subseteq JobCommand
                      /\ NormalCommand \intersect PriorityCommand = {}
                      /\ "idle" \notin PriorityCommand
                      /\ "notify" \notin PriorityCommand
BY DEF JobCommand, NormalCommand, PriorityCommand

\* The property of a queue that PriorityOrder states of the current one.
Ordered(q) == \A i, j \in DOMAIN q :
                i < j /\ q[j] \in PriorityCommand => ~NotMoreUrgent(q[i], q[j])

\* An ordinary command at the end disturbs nothing.
LEMMA PushBackOrdered ==
  ASSUME NEW q \in Seq(JobCommand), Ordered(q), NEW c \in NormalCommand
  PROVE  Ordered(PushBack(q, c))
<1> DEFINE r == PushBack(q, c)
<1>1. c \in JobCommand /\ c \notin PriorityCommand
  BY CommandKinds
<1>2. /\ DOMAIN r = 1 .. Len(q) + 1
      /\ \A i \in DOMAIN q : r[i] = q[i]
      /\ r[Len(q) + 1] = c
  BY <1>1, PushBackElements
<1> HIDE DEF r
<1> SUFFICES ASSUME NEW i \in DOMAIN r, NEW j \in DOMAIN r,
                    i < j, r[j] \in PriorityCommand
             PROVE  ~NotMoreUrgent(r[i], r[j])
  BY DEF Ordered, r
<1>3. i \in DOMAIN q /\ j \in DOMAIN q
  BY <1>1, <1>2
<1> QED
  BY <1>2, <1>3 DEF Ordered

\* A command that overtakes the front overtakes every priority command.
LEMMA PushFrontOrdered ==
  ASSUME NEW q \in Seq(JobCommand), Ordered(q),
         NEW c \in PriorityCommand, Overtakes(q, c)
  PROVE  Ordered(PushFront(q, c))
<1> DEFINE r == PushFront(q, c)
<1>1. c \in JobCommand
  BY CommandKinds
<1>2. /\ DOMAIN r = 1 .. Len(q) + 1
      /\ r[1] = c
      /\ \A i \in DOMAIN q : r[i + 1] = q[i]
  BY <1>1, PushFrontElements
<1> HIDE DEF r
<1> SUFFICES ASSUME NEW i \in DOMAIN r, NEW j \in DOMAIN r,
                    i < j, r[j] \in PriorityCommand
             PROVE  ~NotMoreUrgent(r[i], r[j])
  BY DEF Ordered, r
<1>3. i \in Int /\ j \in Int /\ j - 1 \in DOMAIN q /\ r[j] = q[j - 1]
  BY <1>2
<1>4. q[j - 1] \in JobCommand /\ 1 \in DOMAIN q /\ q # << >> /\ Head(q) = q[1] /\ q[1] \in JobCommand
  BY <1>3
<1>5. CASE i = 1
  <2>1. ~NotMoreUrgent(c, q[1])
    BY <1>4 DEF Overtakes
  <2>2. CASE j - 1 = 1
    BY <1>2, <1>3, <1>5, <2>1, <2>2
  <2>3. CASE j - 1 # 1
    <3>1. ~NotMoreUrgent(q[1], q[j - 1])
      BY <1>3, <1>4, <2>3 DEF Ordered
    <3> QED
      BY <1>1, <1>2, <1>3, <1>4, <1>5, <2>1, <3>1, UrgencyOrder
  <2> QED
    BY <2>2, <2>3
<1>6. CASE i # 1
  <2>1. i - 1 \in DOMAIN q /\ r[i] = q[i - 1] /\ i - 1 < j - 1
    BY <1>2, <1>3, <1>6
  <2> QED
    BY <1>3, <2>1 DEF Ordered
<1> QED
  BY <1>5, <1>6

\* Taking the front leaves the rest ordered.
LEMMA PopFrontOrdered ==
  ASSUME NEW q \in Seq(JobCommand), Ordered(q), q # << >>
  PROVE  Ordered(Tail(q))
BY PopFrontElements DEF Ordered

\* A priority command is at the front.
Alarmed(q) == q # << >> /\ Head(q) \in PriorityCommand

\* In an ordered queue a priority command anywhere means one at the front.
LEMMA AlarmInFront ==
  ASSUME NEW q \in Seq(JobCommand), Ordered(q), NEW k \in PriorityCommand, Queued(q, k)
  PROVE  Alarmed(q)
<1>1. PICK i \in DOMAIN q : q[i] = k
  BY DEF Queued
<1>2. /\ i \in Nat /\ 1 <= i
      /\ 1 \in DOMAIN q /\ q # << >> /\ Head(q) = q[1]
      /\ q[1] \in JobCommand
  OBVIOUS
<1>3. ASSUME i # 1 PROVE q[1] \in PriorityCommand
  <2>1. ~NotMoreUrgent(q[1], k)
    BY <1>1, <1>2, <1>3 DEF Ordered
  <2>2. \A n \in NormalCommand : NotMoreUrgent(n, k)
    BY SMT DEF NotMoreUrgent, Urgency, JobCommand, NormalCommand, PriorityCommand
  <2> QED
    BY <1>2, <2>1, <2>2 DEF JobCommand
<1> QED
  BY <1>1, <1>2, <1>3 DEF Alarmed

\* push_back of an ordinary command raises no alarm.
LEMMA PushBackAlarmed ==
  ASSUME NEW q \in Seq(JobCommand), NEW c \in NormalCommand
  PROVE  Alarmed(PushBack(q, c)) <=> Alarmed(q)
<1>1. c \in JobCommand /\ c \notin PriorityCommand
  BY CommandKinds
<1>2. CASE q = << >>
  BY <1>1, <1>2 DEF Alarmed, PushBack
<1>3. CASE q # << >>
  BY <1>1, <1>3 DEF Alarmed, PushBack
<1> QED
  BY <1>2, <1>3

\* push_front of a priority command puts a priority command in front.
LEMMA PushFrontAlarmed ==
  ASSUME NEW q \in Seq(JobCommand), NEW c \in PriorityCommand
  PROVE  Alarmed(PushFront(q, c))
<1>1. c \in JobCommand
  BY CommandKinds
<1> QED
  BY <1>1 DEF Alarmed, PushFront

\* An alarm is left behind the front only by a Terminate.
LEMMA PopFrontAlarmed ==
  ASSUME NEW q \in Seq(JobCommand), Ordered(q), q # << >>, Alarmed(Tail(q))
  PROVE  Head(q) = "Terminate"
<1>1. /\ Head(q) = q[1] /\ 1 \in DOMAIN q /\ q[1] \in JobCommand
      /\ 2 \in DOMAIN q /\ q[2] \in PriorityCommand
  BY PopFrontElements DEF Alarmed
<1>2. ~NotMoreUrgent(q[1], q[2])
  BY <1>1 DEF Ordered
<1>3. \A k \in PriorityCommand, c \in JobCommand : ~NotMoreUrgent(c, k) => c = "Terminate"
  BY SMT DEF NotMoreUrgent, Urgency, JobCommand, NormalCommand, PriorityCommand
<1> QED
  BY <1>1, <1>2, <1>3

\* Only the front can be a Terminate, and a Halt that is not the front comes
\* directly behind one.
LEMMA AlarmPlaces ==
  ASSUME NEW q \in Seq(JobCommand), Ordered(q), NEW j \in DOMAIN q
  PROVE  /\ q[j] = "Terminate" => j = 1
         /\ q[j] = "Halt" /\ j # 1 => j = 2 /\ q[1] = "Terminate"
<1>1. \A k \in JobCommand : /\ ~NotMoreUrgent(k, "Halt") => k = "Terminate"
                            /\ NotMoreUrgent(k, "Terminate")
  BY SMT DEF NotMoreUrgent, Urgency, JobCommand, NormalCommand, PriorityCommand
<1>2. \A i \in DOMAIN q : i < j /\ q[j] \in PriorityCommand
        => ~NotMoreUrgent(q[i], q[j]) /\ q[i] \in JobCommand
  BY DEF Ordered
<1>3. "Terminate" \in PriorityCommand /\ "Halt" \in PriorityCommand
  BY DEF PriorityCommand
<1>4. j \in Nat /\ j >= 1 /\ (j # 1 => 1 \in DOMAIN q /\ 1 < j)
  OBVIOUS
<1>5. q[j] = "Terminate" => j = 1
  BY <1>1, <1>2, <1>3, <1>4
<1>6. ASSUME q[j] = "Halt", j # 1
      PROVE  j = 2 /\ q[1] = "Terminate"
  <2>1. \A i \in DOMAIN q : i < j => q[i] = "Terminate"
    BY <1>1, <1>2, <1>3, <1>6
  <2>2. ASSUME j # 2 PROVE FALSE
    <3>1. 2 \in DOMAIN q /\ 2 < j /\ 1 \in DOMAIN q /\ 1 < 2
      BY <1>4, <1>6, <2>2
    <3>2. q[2] = "Terminate"
      BY <2>1, <3>1
    <3>3. ~NotMoreUrgent(q[1], "Terminate") /\ q[1] \in JobCommand
      BY <1>3, <3>1, <3>2 DEF Ordered
    <3> QED
      BY <1>1, <3>3
  <2> QED
    BY <1>4, <1>6, <2>1, <2>2
<1> QED
  BY <1>5, <1>6

=============================================================================
