------------------------ MODULE AsyncInputAdapterProofs ------------------------
(***************************************************************************)
(* Proofs about AsyncInputAdapter, for any number of questions.            *)
(***************************************************************************)
EXTENDS AsyncInputAdapter, SequenceLemmas

-----------------------------------------------------------------------------
(* The inductive invariant.                                                  *)

Live == {i \in Request : future[i] \notin {"unborn", "gone"}}

\* Ids are given in the order of the questions; the queue is in that order and
\* beyond the id that the handler took last, the answers are not.
InOrder ==
  /\ \A i \in Request : future[i] = "unborn" <=> i > last
  /\ \A k \in DOMAIN queue : queue[k] > asked /\ queue[k] <= last /\ queue[k] \in Live
  /\ \A j, k \in DOMAIN queue : j < k => queue[j] < queue[k]
  /\ \A i \in replies : i <= asked
  /\ asked <= last

\* A live question is queued, put to the user, or answered.
NoneIsLost ==
  \A i \in Request : i \in Live => \/ i \in replies
                                \/ i = current
                                \/ \E k \in DOMAIN queue : queue[k] = i

\* What the handler asks is a question, which has no answer yet.
AsksOne == /\ handler \in AtInput => asked # 0
           /\ current # 0 => current \notin replies

HaltIsFinal == halt <=> dtor # "alive"

IInv == /\ TypeOK
        /\ InOrder
        /\ NoneIsLost
        /\ AsksOne
        /\ HaltIsFinal
        /\ CurrentIsAtInput
        /\ RepliesHaveHolders
        /\ HandlerIsCalled

-----------------------------------------------------------------------------
(* Lemmas.                                                                   *)

LEMMA InitIInv == Init => IInv
<1> SUFFICES ASSUME Init PROVE IInv
  OBVIOUS
<1>1. TypeOK
  <2>1. << >> \in Seq(Request)
    OBVIOUS
  <2>2. 0 \in 0 .. MaxRequests
    BY RequestsAssumption
  <2> QED
    BY <2>1, <2>2 DEF Init, TypeOK, Stage
<1>2. InOrder /\ NoneIsLost /\ AsksOne
  BY RequestsAssumption DEF Init, InOrder, NoneIsLost, AsksOne, Live, Request, AtInput
<1>3. HaltIsFinal /\ CurrentIsAtInput /\ RepliesHaveHolders /\ HandlerIsCalled
  BY DEF Init, HaltIsFinal, CurrentIsAtInput, RepliesHaveHolders, HandlerIsCalled
<1> QED
  BY <1>1, <1>2, <1>3 DEF IInv

-----------------------------------------------------------------------------
(* The invariant is inductive.                                               *)

\* A question that leaves the queue was the only one with its id, and had no answer.
LEMMA WithdrawQueued ==
  ASSUME IInv, NEW i \in Request, NEW k \in DOMAIN queue,
         queue[k] = i, queue' = RemoveAt(queue, k),
         future[i] = "held", future' = [future EXCEPT ![i] = "gone"],
         UNCHANGED <<replies, current, last, halt, handler, asked, interrupted, dtor>>
  PROVE  IInv'
<1> DEFINE n == Len(queue)
<1>1. /\ queue \in Seq(Request) /\ n \in Nat /\ DOMAIN queue = 1 .. n
      /\ asked \in Nat /\ last \in Nat /\ current \in Nat
      /\ future \in [Request -> {"unborn", "notify", "held", "asleep", "woken", "gone"}]
      /\ \A m \in 1 .. n : queue[m] \in Request /\ queue[m] \in Nat
  BY RequestsAssumption DEF IInv, TypeOK, Request
<1>2. /\ queue' \in Seq(Request)
      /\ Len(queue') = n - 1
      /\ \A j \in 1 .. n - 1 : /\ j < k => queue'[j] = queue[j]
                               /\ ~(j < k) => queue'[j] = queue[j + 1]
  <2>1. queue \in Seq(Request) /\ k \in 1 .. Len(queue)
    BY <1>1
  <2>2. RemoveAt(queue, k) \in Seq(Request) /\ Len(RemoveAt(queue, k)) = Len(queue) - 1
    BY <2>1, ErasedAt
  <2>3. \A j \in 1 .. k - 1 : RemoveAt(queue, k)[j] = queue[j]
    BY <2>1, ErasedAt
  <2>4. \A j \in k .. Len(queue) - 1 : RemoveAt(queue, k)[j] = queue[j + 1]
    BY <2>1, ErasedAt
  <2>5. \A j \in 1 .. n - 1 : /\ j < k => j \in 1 .. k - 1
                              /\ ~(j < k) => j \in k .. n - 1
    BY <1>1, <2>1
  <2> QED
    BY <2>2, <2>3, <2>4, <2>5
<1>3. DOMAIN queue' = 1 .. n - 1
  BY <1>2
<1>4. \A j \in 1 .. n - 1 : \E m \in 1 .. n : queue'[j] = queue[m] /\ m # k
  <2> TAKE j \in 1 .. n - 1
  <2>1. CASE j < k
    <3>1. queue'[j] = queue[j] /\ j \in 1 .. n /\ j # k
      BY <1>1, <1>2, <2>1
    <3> QED
      BY <3>1
  <2>2. CASE ~(j < k)
    <3>1. queue'[j] = queue[j + 1] /\ j + 1 \in 1 .. n /\ j + 1 # k
      BY <1>1, <1>2, <2>2
    <3> QED
      BY <3>1
  <2> QED
    BY <2>1, <2>2
<1>5. \A m \in 1 .. n : m # k => \E j \in 1 .. n - 1 : queue'[j] = queue[m]
  <2> SUFFICES ASSUME NEW m \in 1 .. n, m # k
               PROVE  \E j \in 1 .. n - 1 : queue'[j] = queue[m]
    OBVIOUS
  <2>1. CASE m < k
    <3>1. queue'[m] = queue[m] /\ m \in 1 .. n - 1
      BY <1>1, <1>2, <2>1
    <3> QED
      BY <3>1
  <2>2. CASE m > k
    <3>1. m - 1 \in 1 .. n - 1 /\ (m - 1) + 1 = m /\ ~(m - 1 < k)
      BY <1>1, <2>2
    <3>2. queue'[m - 1] = queue[m]
      BY <1>2, <3>1
    <3> QED
      BY <3>1, <3>2
  <2> QED
    BY <1>1, <2>1, <2>2
<1>6. /\ \A m \in 1 .. n : queue[m] > asked /\ queue[m] <= last /\ queue[m] \in Live
      /\ \A j, m \in 1 .. n : j < m => queue[j] < queue[m]
  BY <1>1 DEF IInv, InOrder
<1>7. \A m \in 1 .. n : m # k => queue[m] # i
  BY <1>1, <1>6
<1>8. /\ Live' = Live \ {i}
      /\ \A j \in Request : future'[j] = "unborn" <=> future[j] = "unborn"
  BY <1>1 DEF Live
<1>9. TypeOK'
  <2>1. future' \in [Request -> {"unborn", "notify", "held", "asleep", "woken", "gone"}]
    BY <1>1
  <2> QED
    BY <1>2, <2>1 DEF IInv, TypeOK
<1>10. \A j \in 1 .. n - 1 : queue'[j] > asked /\ queue'[j] <= last /\ queue'[j] \in Live'
  <2> TAKE j \in 1 .. n - 1
  <2>1. PICK m \in 1 .. n : queue'[j] = queue[m] /\ m # k
    BY <1>4
  <2>2. queue[m] \in Live \ {i}
    BY <1>6, <1>7, <2>1
  <2> QED
    BY <1>6, <1>8, <2>1, <2>2
<1>11. \A j, m \in 1 .. n - 1 : j < m => queue'[j] < queue'[m]
  <2> SUFFICES ASSUME NEW j \in 1 .. n - 1, NEW m \in 1 .. n - 1, j < m
               PROVE  queue'[j] < queue'[m]
    OBVIOUS
  <2>1. j \in 1 .. n /\ m \in 1 .. n /\ j + 1 \in 1 .. n /\ m + 1 \in 1 .. n
    BY <1>1
  <2>2. CASE m < k
    BY <1>2, <1>6, <2>1, <2>2
  <2>3. CASE ~(m < k) /\ j < k
    BY <1>2, <1>6, <2>1, <2>3
  <2>4. CASE ~(j < k)
    <3>1. queue'[j] = queue[j + 1] /\ queue'[m] = queue[m + 1] /\ j + 1 < m + 1
      BY <1>1, <1>2, <2>4
    <3> QED
      BY <1>6, <2>1, <3>1
  <2> QED
    BY <1>1, <2>1, <2>2, <2>3, <2>4
<1>12. InOrder'
  <2>1. \A j \in Request : future'[j] = "unborn" <=> j > last
    BY <1>8 DEF IInv, InOrder
  <2>2. (\A j \in replies : j <= asked) /\ asked <= last
    BY DEF IInv, InOrder
  <2> QED
    BY <1>3, <1>10, <1>11, <2>1, <2>2 DEF InOrder
<1>13. NoneIsLost'
  <2> SUFFICES ASSUME NEW j \in Request, j \in Live'
               PROVE  j \in replies \/ j = current \/ \E m \in 1 .. n - 1 : queue'[m] = j
    BY <1>3 DEF NoneIsLost
  <2>1. j # i /\ j \in Live
    BY <1>8
  <2>2. j \in replies \/ j = current \/ \E m \in 1 .. n : queue[m] = j
    BY <1>1, <2>1 DEF IInv, NoneIsLost
  <2> QED
    BY <1>5, <2>1, <2>2
<1>14. i \notin replies /\ (current # 0 => current # i)
  <2>1. i > asked /\ i \in Nat
    BY <1>1, <1>6
  <2>2. \A j \in replies : j <= asked
    BY DEF IInv, InOrder
  <2>3. current # 0 => current = asked
    BY DEF IInv, CurrentIsAtInput
  <2> QED
    BY <1>1, <2>1, <2>2, <2>3
<1>15. RepliesHaveHolders' /\ CurrentIsAtInput'
  BY <1>1, <1>9, <1>14 DEF IInv, TypeOK, RepliesHaveHolders, CurrentIsAtInput
<1>16. AsksOne' /\ HaltIsFinal'
  BY DEF IInv, AsksOne, HaltIsFinal
<1>17. HandlerIsCalled'
  <2>1. queue # << >>
    BY <1>1
  <2> QED
    BY <1>1, <2>1 DEF IInv, HandlerIsCalled
<1> QED
  BY <1>9, <1>12, <1>13, <1>15, <1>16, <1>17 DEF IInv

\* An answer is collected, or dropped, with its future.
LEMMA DropReply ==
  ASSUME IInv, NEW i \in Request, i \in replies, replies' = replies \ {i},
         future[i] = "held", future' = [future EXCEPT ![i] = "gone"],
         UNCHANGED <<queue, current, last, halt, handler, asked, interrupted, dtor>>
  PROVE  IInv'
<1> USE DEF IInv
<1>1. /\ Live' = Live \ {i} /\ i <= asked /\ i # current
      /\ \A j \in Request : /\ future'[j] = "unborn" <=> future[j] = "unborn"
                            /\ future'[j] = "notify" <=> future[j] = "notify"
      /\ \A j \in Request : j \in Nat
      /\ asked \in Nat
  BY RequestsAssumption DEF TypeOK, InOrder, AsksOne, Live, Request
<1>2. TypeOK' /\ AsksOne' /\ HaltIsFinal'
  BY DEF TypeOK, AsksOne, HaltIsFinal
<1>3. InOrder'
  <2>1. \A k \in DOMAIN queue : queue[k] # i /\ queue[k] \in Request
    BY <1>1 DEF InOrder, TypeOK
  <2>2. \A k \in DOMAIN queue : queue[k] > asked /\ queue[k] <= last /\ queue[k] \in Live'
    BY <1>1, <2>1 DEF InOrder
  <2> QED
    BY <1>1, <2>2 DEF InOrder
<1>4. NoneIsLost'
  BY <1>1 DEF NoneIsLost
<1>5. CurrentIsAtInput' /\ RepliesHaveHolders'
  BY <1>1 DEF TypeOK, CurrentIsAtInput, RepliesHaveHolders
<1>6. HandlerIsCalled'
  BY <1>1 DEF HandlerIsCalled
<1> QED
  BY <1>2, <1>3, <1>4, <1>5, <1>6

\* The question that the user is asked is withdrawn.
LEMMA Disown ==
  ASSUME IInv, NEW i \in Request, current = i, current' = 0,
         interrupted' = interrupted \union {i},
         future[i] = "held", future' = [future EXCEPT ![i] = "gone"],
         UNCHANGED <<queue, replies, last, halt, handler, asked, dtor>>
  PROVE  IInv'
<1> USE DEF IInv
<1>1. /\ Live' = Live \ {i} /\ i \notin replies /\ asked = i
      /\ \A j \in Request : /\ future'[j] = "unborn" <=> future[j] = "unborn"
                            /\ future'[j] = "notify" <=> future[j] = "notify"
      /\ \A j \in Request : j \in Nat /\ j # 0
      /\ 0 \in 0 .. MaxRequests
  BY RequestsAssumption DEF TypeOK, CurrentIsAtInput, AsksOne, Live, Request
<1>2. TypeOK' /\ AsksOne' /\ HaltIsFinal' /\ CurrentIsAtInput'
  BY <1>1 DEF TypeOK, AsksOne, HaltIsFinal, CurrentIsAtInput
<1>3. InOrder'
  <2>1. \A k \in DOMAIN queue : queue[k] # i /\ queue[k] \in Request
    BY <1>1 DEF InOrder, TypeOK
  <2>2. \A k \in DOMAIN queue : queue[k] > asked /\ queue[k] <= last /\ queue[k] \in Live'
    BY <1>1, <2>1 DEF InOrder
  <2> QED
    BY <1>1, <2>2 DEF InOrder
<1>4. NoneIsLost'
  BY <1>1 DEF NoneIsLost
<1>5. RepliesHaveHolders'
  BY <1>1 DEF TypeOK, RepliesHaveHolders
<1>6. HandlerIsCalled'
  BY <1>1 DEF HandlerIsCalled
<1> QED
  BY <1>2, <1>3, <1>4, <1>5, <1>6

LEMMA NextIInv == IInv /\ [Next]_vars => IInv'
<1> SUFFICES ASSUME IInv, [Next]_vars
             PROVE  IInv'
  OBVIOUS
<1> USE RequestsAssumption DEF IInv, Request, AtInput
<1>1. ASSUME NEW i \in Request, AddUserInputRequest(i)
      PROVE  IInv'
  <2>1. TypeOK'
    BY <1>1 DEF TypeOK, AddUserInputRequest
  <2>2. InOrder'
    <3>1. /\ queue \in Seq(Request) /\ queue' = Append(queue, i)
          /\ last' = i /\ i = last + 1 /\ last \in Nat
          /\ asked' = asked /\ replies' = replies /\ asked \in Nat
          /\ future' = [future EXCEPT ![i] = "notify"]
          /\ future \in [Request -> {"unborn", "notify", "held", "asleep", "woken", "gone"}]
      BY <1>1 DEF TypeOK, AddUserInputRequest
    <3>2. /\ Len(queue') = Len(queue) + 1 /\ Len(queue) \in Nat
          /\ queue'[Len(queue) + 1] = i
          /\ \A k \in 1 .. Len(queue) : queue'[k] = queue[k]
          /\ DOMAIN queue = 1 .. Len(queue) /\ DOMAIN queue' = 1 .. Len(queue) + 1
      BY <3>1
    <3>3. \A k \in DOMAIN queue : queue[k] > asked /\ queue[k] <= last /\ queue[k] \in Live
                                   /\ queue[k] \in Request
      BY <3>1 DEF InOrder
    <3>4. \A k \in DOMAIN queue' : queue'[k] > asked /\ queue'[k] <= i /\ queue'[k] \in Live'
      BY <3>1, <3>2, <3>3 DEF Live, InOrder
    <3>5. \A j, k \in DOMAIN queue' : j < k => queue'[j] < queue'[k]
      BY <3>1, <3>2, <3>3 DEF InOrder
    <3>6. \A j \in Request : future'[j] = "unborn" <=> j > i
      BY <3>1 DEF InOrder
    <3> QED
      BY <3>1, <3>4, <3>5, <3>6 DEF InOrder
  <2>3. /\ future[i] = "unborn"
        /\ future \in [Request -> {"unborn", "notify", "held", "asleep", "woken", "gone"}]
        /\ future' = [future EXCEPT ![i] = "notify"]
        /\ UNCHANGED <<replies, current, handler, asked>>
        /\ Live' = Live \union {i}
    BY <1>1 DEF TypeOK, InOrder, AddUserInputRequest, Live
  <2>5. NoneIsLost'
    <3>1. /\ queue \in Seq(Request) /\ queue' = Append(queue, i)
          /\ Len(queue') = Len(queue) + 1 /\ Len(queue) \in Nat
      BY <1>1 DEF TypeOK, AddUserInputRequest
    <3>2. /\ queue'[Len(queue) + 1] = i /\ Len(queue) + 1 \in DOMAIN queue'
          /\ \A k \in DOMAIN queue : k \in DOMAIN queue' /\ queue'[k] = queue[k]
      BY <3>1
    <3> QED
      BY <2>3, <3>2 DEF NoneIsLost
  <2>6. RepliesHaveHolders' /\ CurrentIsAtInput'
    BY <2>3 DEF TypeOK, RepliesHaveHolders, CurrentIsAtInput
  <2>4. AsksOne' /\ HaltIsFinal' /\ HandlerIsCalled'
    BY <1>1 DEF TypeOK, AsksOne, HaltIsFinal, HandlerIsCalled, AddUserInputRequest
  <2> QED
    BY <2>1, <2>2, <2>4, <2>5, <2>6
<1>2. ASSUME NEW i \in Request, GetReply(i)
      PROVE  IInv'
  BY <1>2, DropReply DEF GetReply, UserInputRequestReady
<1>3. ASSUME NEW i \in Request,
             NotifyHandler(i) \/ WaitForRequestReady(i) \/ Timeout(i) \/ GiveUp(i)
      PROVE  IInv'
  <2>1. /\ UNCHANGED <<queue, replies, current, last, halt, asked, interrupted, dtor>>
        /\ handler' = handler \/ (handler = "asleep" /\ handler' = "woken")
        /\ \E h \in {"held", "asleep", "woken"} : future' = [future EXCEPT ![i] = h]
        /\ i \in Live
    BY <1>3 DEF TypeOK, NotifyHandler, WaitForRequestReady, Timeout, GiveUp, Woken, Live
  <2>2. TypeOK'
    BY <2>1 DEF TypeOK
  <2>3. Live' = Live /\ \A j \in Request : (future'[j] = "unborn" <=> future[j] = "unborn")
    BY <2>1 DEF TypeOK, Live
  <2>4. InOrder' /\ NoneIsLost'
    BY <2>1, <2>3 DEF TypeOK, InOrder, NoneIsLost
  <2>5. AsksOne' /\ HaltIsFinal' /\ RepliesHaveHolders' /\ CurrentIsAtInput'
    BY <2>1, <2>3 DEF TypeOK, AsksOne, HaltIsFinal, RepliesHaveHolders, CurrentIsAtInput, Live
  <2>6. HandlerIsCalled'
    BY <1>3 DEF TypeOK, HandlerIsCalled, NotifyHandler, WaitForRequestReady, Timeout, GiveUp, Woken
  <2> QED
    BY <2>2, <2>4, <2>5, <2>6
<1>4. ASSUME NEW i \in Request, CancelInputRequest(i)
      PROVE  IInv'
  <2>1. /\ i \in Live /\ future[i] = "held"
        /\ future' = [future EXCEPT ![i] = "gone"]
        /\ UNCHANGED <<last, halt, handler, asked, dtor>>
    BY <1>4 DEF CancelInputRequest, Live
  <2>2. ASSUME NEW k \in DOMAIN queue, queue[k] = i, queue' = RemoveAt(queue, k),
               UNCHANGED <<replies, current, interrupted>>
        PROVE  IInv'
    BY <2>1, <2>2, WithdrawQueued
  <2>3. CASE /\ i \in replies /\ replies' = replies \ {i}
             /\ UNCHANGED <<queue, current, interrupted>>
    BY <2>1, <2>3, DropReply
  <2>4. CASE /\ current = i /\ current' = 0
             /\ interrupted' = interrupted \union {i}
             /\ UNCHANGED <<queue, replies>>
    BY <2>1, <2>4, Disown
  <2> QED
    BY <1>4, <2>2, <2>3, <2>4 DEF CancelInputRequest, Places
<1>5. CASE TakeRequest
  <2>1. CASE handler' # "calling"
    BY <1>5, <2>1 DEF TypeOK, InOrder, NoneIsLost, RepliesHaveHolders, CurrentIsAtInput, AsksOne,
       HaltIsFinal, HandlerIsCalled, Live, TakeRequest
  <2>2. CASE handler' = "calling"
    <3>1. /\ queue # << >> /\ queue' = Tail(queue)
          /\ current' = queue[1] /\ asked' = queue[1]
          /\ handler \notin AtInput \union {"undefined"}
          /\ UNCHANGED <<replies, last, halt, interrupted, future, dtor>>
      BY <1>5, <2>2 DEF TakeRequest
    <3>2. /\ queue' \in Seq(Request)
          /\ Len(queue') = Len(queue) - 1 /\ Len(queue) \in Nat /\ Len(queue) > 0
          /\ \A k \in 1 .. Len(queue) - 1 : queue'[k] = queue[k + 1]
          /\ DOMAIN queue = 1 .. Len(queue) /\ DOMAIN queue' = 1 .. Len(queue) - 1
          /\ queue[1] \in Request
      BY <3>1 DEF TypeOK
    <3>3. TypeOK'
      BY <2>2, <3>1, <3>2 DEF TypeOK
    <3>4. /\ queue[1] > asked /\ queue[1] <= last /\ queue[1] \in Live
          /\ queue[1] \notin replies
      BY <3>2 DEF TypeOK, InOrder
    <3>5. \A k \in DOMAIN queue' : queue'[k] > queue[1] /\ queue'[k] <= last /\ queue'[k] \in Live
      <4> TAKE k \in DOMAIN queue'
      <4>1. /\ k + 1 \in DOMAIN queue /\ 1 \in DOMAIN queue /\ 1 < k + 1
            /\ queue'[k] = queue[k + 1]
        BY <3>2
      <4> QED
        BY <4>1 DEF InOrder
    <3>6. \A i \in replies : i <= queue[1]
      BY <3>2, <3>4 DEF TypeOK, InOrder
    <3>7. \A j, k \in DOMAIN queue' : j < k => queue'[j] < queue'[k]
      <4> SUFFICES ASSUME NEW j \in DOMAIN queue', NEW k \in DOMAIN queue', j < k
                   PROVE  queue'[j] < queue'[k]
        OBVIOUS
      <4>1. /\ j + 1 \in DOMAIN queue /\ k + 1 \in DOMAIN queue /\ j + 1 < k + 1
            /\ queue'[j] = queue[j + 1] /\ queue'[k] = queue[k + 1]
        BY <3>2
      <4> QED
        BY <4>1 DEF InOrder
    <3>8. InOrder'
      BY <3>1, <3>4, <3>5, <3>6, <3>7 DEF InOrder, Live
    <3>9. current = 0
      BY <3>1 DEF CurrentIsAtInput
    <3>10. \A k \in DOMAIN queue : k = 1 \/ (k - 1 \in DOMAIN queue' /\ queue'[k - 1] = queue[k])
      BY <3>2
    <3>11. NoneIsLost'
      <4> SUFFICES ASSUME NEW i \in Request, i \in Live'
                   PROVE  i \in replies \/ i = current' \/ \E k \in DOMAIN queue' : queue'[k] = i
        BY <3>1 DEF NoneIsLost
      <4>1. i \in replies \/ i = current \/ \E k \in DOMAIN queue : queue[k] = i
        BY <3>1 DEF NoneIsLost, Live
      <4>2. i # current
        BY <3>9
      <4> QED
        BY <3>1, <3>10, <4>1, <4>2
    <3>12. AsksOne' /\ HaltIsFinal' /\ RepliesHaveHolders' /\ CurrentIsAtInput' /\ HandlerIsCalled'
      BY <2>2, <3>1, <3>2, <3>4 DEF AsksOne, HaltIsFinal, RepliesHaveHolders, CurrentIsAtInput,
         HandlerIsCalled, Live
    <3> QED
      BY <3>3, <3>8, <3>11, <3>12
  <2> QED
    BY <2>1, <2>2
<1>6. CASE PublishReply
  <2>1. /\ handler = "back" /\ handler' = "ready" /\ current' = 0
        /\ UNCHANGED <<queue, last, halt, asked, interrupted, dtor>>
        /\ asked \in Request
    BY <1>6 DEF PublishReply, TypeOK, AsksOne
  <2>2. /\ future' \in [Request -> {"unborn", "notify", "held", "asleep", "woken", "gone"}]
        /\ Live' = Live
        /\ \A j \in Request : /\ future'[j] = "unborn" <=> future[j] = "unborn"
                              /\ future'[j] = "notify" <=> future[j] = "notify"
    BY <1>6 DEF PublishReply, Sleeping, TypeOK, Live
  <2>3. \/ current = asked /\ replies' = replies \union {asked} /\ asked \in Live
        \/ current # asked /\ replies' = replies /\ current = 0
    BY <1>6, <2>1 DEF PublishReply, CurrentIsAtInput, Live
  <2>4. TypeOK'
    <3>1. current' \in 0 .. MaxRequests
      BY <2>1
    <3>2. replies' \subseteq replies \union {asked} /\ replies \subseteq 1 .. MaxRequests
      BY <2>3 DEF TypeOK
    <3>3. replies' \subseteq Request
      BY <2>1, <3>2
    <3> QED
      BY <2>1, <2>2, <3>1, <3>3 DEF TypeOK
  <2>5. InOrder'
    <3>1. \A i \in replies' : i <= asked
      BY <2>1, <2>3 DEF InOrder
    <3> QED
      BY <2>1, <2>2, <3>1 DEF InOrder
  <2>6. NoneIsLost'
    BY <2>1, <2>2, <2>3 DEF NoneIsLost
  <2>7. RepliesHaveHolders'
    BY <2>1, <2>2, <2>3 DEF TypeOK, RepliesHaveHolders, Live
  <2>8. AsksOne' /\ HaltIsFinal' /\ CurrentIsAtInput' /\ HandlerIsCalled'
    BY <2>1 DEF AsksOne, HaltIsFinal, CurrentIsAtInput, HandlerIsCalled
  <2> QED
    BY <2>4, <2>5, <2>6, <2>7, <2>8
<1>7. CASE \/ SpuriousWakeup \/ EnterInput \/ UserResponds \/ ObeyInterrupt \/ UseDestroyed
           \/ NotifyClose \/ DestroyMembers \/ Join
  <2>1. /\ UNCHANGED <<queue, replies, current, last, halt, asked, interrupted, future>>
        /\ handler \in AtInput \union {"undefined"} => handler' \in AtInput \union {"undefined"}
        /\ handler' \in AtInput => handler \in AtInput
        /\ handler' = "asleep" => handler = "asleep"
        /\ handler' \in {"ready", "asleep", "woken", "exited", "undefined"} \union AtInput
        /\ dtor' \in Stage
        /\ dtor' = "alive" <=> dtor = "alive"
    BY <1>7 DEF TypeOK, SpuriousWakeup, EnterInput, UserResponds, ObeyInterrupt, UseDestroyed,
       NotifyClose, DestroyMembers, Join, Woken, Stage
  <2>2. TypeOK'
    BY <2>1 DEF TypeOK
  <2>3. InOrder' /\ NoneIsLost' /\ RepliesHaveHolders' /\ CurrentIsAtInput' /\ AsksOne' /\ HaltIsFinal'
    BY <2>1 DEF InOrder, NoneIsLost, RepliesHaveHolders, CurrentIsAtInput, AsksOne, HaltIsFinal, Live
  <2>4. HandlerIsCalled'
    BY <1>7 DEF HandlerIsCalled, SpuriousWakeup, EnterInput, UserResponds, ObeyInterrupt,
       UseDestroyed, NotifyClose, DestroyMembers, Join, Woken
  <2> QED
    BY <2>2, <2>3, <2>4
<1>8. CASE Destroy
  BY <1>8 DEF TypeOK, InOrder, NoneIsLost, RepliesHaveHolders, CurrentIsAtInput, AsksOne,
              HaltIsFinal, HandlerIsCalled, Live, Destroy, Stage
<1>9. CASE UNCHANGED vars
  BY <1>9 DEF vars, TypeOK, InOrder, NoneIsLost, RepliesHaveHolders, CurrentIsAtInput, AsksOne,
              HaltIsFinal, HandlerIsCalled, Live
<1> QED
  BY <1>1, <1>2, <1>3, <1>4, <1>5, <1>6, <1>7, <1>8, <1>9
  DEF Next, HolderStep, HandlerStep, Destruction

LEMMA SpecIInv == Spec => []IInv
  BY InitIInv, NextIInv, PTL DEF Spec

-----------------------------------------------------------------------------
(* The theorems.                                                             *)

\* Nobody cancels or collects in vain: an answer is kept for a future that exists.
THEOREM RepliesHaveHoldersHolds == Spec => []RepliesHaveHolders
<1>1. IInv => RepliesHaveHolders
  BY DEF IInv
<1> QED
  BY <1>1, SpecIInv, PTL

\* The handler thread never sleeps through a question or the end of the adapter.
THEOREM HandlerIsCalledHolds == Spec => []HandlerIsCalled
<1>1. IInv => HandlerIsCalled
  BY DEF IInv
<1> QED
  BY <1>1, SpecIInv, PTL

\* Whatever is withdrawn, interrupted and destroyed meanwhile, the user is asked in
\* order, and each question that was not withdrawn is answered once.
THEOREM AdapterImplementsExchange == Spec => ImplementsExchange
<1>1. Init => Exchange!Init
  BY DEF Init, Exchange!Init, Phase, Exchange!Request, Request
<1>2. IInv /\ IInv' /\ [Next]_vars => [Exchange!Next]_Phase
  <2> SUFFICES ASSUME IInv, IInv', [Next]_vars
               PROVE  Exchange!Next \/ Phase' = Phase
    OBVIOUS
  <2>1. /\ Exchange!Request = Request
        /\ future \in [Request -> {"unborn", "notify", "held", "asleep", "woken", "gone"}]
        /\ replies \subseteq Request
        /\ last \in Nat /\ asked \in Nat /\ \A i \in Request : i \in Nat
    BY RequestsAssumption DEF IInv, TypeOK, Exchange!Request, Request
  <2>2. \A i \in Request : /\ i \notin Live => Phase[i] = future[i]
                           /\ i \in replies => Phase[i] = "ready" /\ i \in Live
                           /\ i \in Live /\ i \notin replies => Phase[i] = "pending"
    BY DEF IInv, RepliesHaveHolders, Phase, Live
  <2>3. \A i \in Request : /\ i \notin Live' => Phase'[i] = future'[i]
                           /\ i \in replies' => Phase'[i] = "ready" /\ i \in Live'
                           /\ i \in Live' /\ i \notin replies' => Phase'[i] = "pending"
    BY DEF IInv, RepliesHaveHolders, Phase, Live
  <2>4. ASSUME NEW i \in Request, \A j \in Request : j # i => Phase'[j] = Phase[j]
        PROVE  Phase' = [Phase EXCEPT ![i] = Phase'[i]]
    BY <2>4 DEF Phase
  <2>5. ASSUME \A j \in Request : Phase'[j] = Phase[j]
        PROVE  Phase' = Phase
    BY <2>5 DEF Phase
  <2>6. ASSUME NEW i \in Request, AddUserInputRequest(i)
        PROVE  Exchange!Next
    <3>1. /\ i = last + 1 /\ future[i] = "unborn" /\ i \notin replies /\ i \notin replies'
          /\ \A j \in Request : j < i => future[j] # "unborn"
          /\ future' = [future EXCEPT ![i] = "notify"] /\ replies' = replies
      BY <2>1, <2>6 DEF AddUserInputRequest, IInv, InOrder, RepliesHaveHolders
    <3>2. Live' = Live \union {i} /\ i \notin Live
      BY <2>1, <3>1 DEF Live
    <3>3. Phase[i] = "unborn" /\ Phase'[i] = "pending"
      BY <2>2, <2>3, <3>1, <3>2
    <3>4. \A j \in Request : j # i => Phase'[j] = Phase[j]
      BY <2>1, <2>2, <2>3, <3>1, <3>2
    <3>5. \A j \in Request : j < i => Phase[j] # "unborn"
      BY <2>1, <2>2, <3>1 DEF Live
    <3> QED
      BY <2>1, <2>4, <3>3, <3>4, <3>5 DEF Exchange!Next, Exchange!Ask, Exchange!Oldest
  <2>7. ASSUME NEW i \in Request, GetReply(i) \/ CancelInputRequest(i)
        PROVE  Exchange!Next
    <3>1. /\ future[i] = "held" /\ future' = [future EXCEPT ![i] = "gone"]
          /\ replies' \in {replies, replies \ {i}}
          /\ GetReply(i) => i \in replies
      BY <2>7 DEF GetReply, CancelInputRequest, UserInputRequestReady
    <3>2. Live' = Live \ {i} /\ i \in Live
      BY <2>1, <3>1 DEF Live
    <3>3. Phase[i] \in {"pending", "ready"} /\ Phase'[i] = "gone"
      BY <2>1, <2>2, <2>3, <3>1, <3>2
    <3>4. \A j \in Request : j # i => Phase'[j] = Phase[j]
      BY <2>1, <2>2, <2>3, <3>1, <3>2
    <3> QED
      BY <2>1, <2>4, <3>3, <3>4 DEF Exchange!Next, Exchange!Withdraw
  <2>8. CASE PublishReply /\ current = asked
    <3>1. /\ asked \in Request /\ asked \notin replies /\ asked \in Live
          /\ current # 0
      BY <2>1, <2>8 DEF PublishReply, IInv, AsksOne, TypeOK, Request, CurrentIsAtInput, Live, AtInput
    <3>2. /\ replies' = replies \union {asked} /\ queue' = queue
          /\ \A j \in Request : j \notin Live => future'[j] = future[j]
          /\ Live' = Live
      BY <2>1, <2>8 DEF PublishReply, Sleeping, Live
    <3>3. Phase[asked] = "pending" /\ Phase'[asked] = "ready"
      BY <2>2, <2>3, <3>1, <3>2
    <3>4. \A j \in Request : j # asked => Phase'[j] = Phase[j]
      BY <2>2, <2>3, <3>1, <3>2
    <3>5. ASSUME NEW j \in Request, j < asked
          PROVE  Phase[j] # "pending"
      <4>1. j # current /\ \A k \in DOMAIN queue : queue[k] # j
        BY <2>1, <2>8, <3>5 DEF IInv, InOrder
      <4>2. j \in Live => j \in replies
        BY <4>1 DEF IInv, NoneIsLost
      <4> QED
        BY <2>1, <2>2, <4>2
    <3> QED
      BY <2>1, <2>4, <3>1, <3>3, <3>4, <3>5 DEF Exchange!Next, Exchange!Answer, Exchange!Oldest
  <2>9. ASSUME NEW i \in Request,
               NotifyHandler(i) \/ WaitForRequestReady(i) \/ Timeout(i) \/ GiveUp(i)
        PROVE  Phase' = Phase
    <3>1. /\ replies' = replies
          /\ \E h \in {"held", "asleep", "woken"} : future' = [future EXCEPT ![i] = h]
          /\ i \in Live
      BY <2>9 DEF NotifyHandler, WaitForRequestReady, Timeout, GiveUp, Live
    <3>2. Live' = Live /\ \A j \in Request : j \notin Live => future'[j] = future[j]
      BY <2>1, <3>1 DEF Live
    <3> QED
      BY <2>2, <2>3, <2>5, <3>1, <3>2
  <2>10. CASE \/ TakeRequest \/ EnterInput \/ ObeyInterrupt \/ UseDestroyed
              \/ SpuriousWakeup \/ UserResponds
              \/ Destruction \/ UNCHANGED vars
              \/ (PublishReply /\ current # asked)
    <3>1. UNCHANGED <<replies, future>>
      BY <2>10 DEF TakeRequest, EnterInput, ObeyInterrupt, SpuriousWakeup, UserResponds,
         UseDestroyed, Destruction, Destroy, NotifyClose, DestroyMembers, Join, PublishReply, vars
    <3> QED
      BY <3>1 DEF Phase
  <2>11. ASSUME NEW i \in Request, HolderStep(i)
         PROVE  Exchange!Next \/ Phase' = Phase
    BY <2>6, <2>7, <2>9, <2>11 DEF HolderStep
  <2>12. CASE PublishReply
    <3>1. current = asked \/ current # asked
      OBVIOUS
    <3>2. CASE current # asked
      BY <2>10, <2>12, <3>2
    <3> QED
      BY <2>8, <2>12, <3>1, <3>2
  <2> QED
    BY <2>10, <2>11, <2>12 DEF Next, HandlerStep
<1> QED
  BY <1>1, <1>2, SpecIInv, PTL DEF Spec, ImplementsExchange, Exchange!Spec

=============================================================================
