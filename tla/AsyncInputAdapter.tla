--------------------------- MODULE AsyncInputAdapter ---------------------------
(***************************************************************************)
(* base/async_input_adapter.cpp: questions to the user are queued by any   *)
(* number of threads and put to the user one by one by a handler thread,   *)
(* which calls a blocking input function.  Who asks holds a future: it is  *)
(* polled or waited for, its answer is collected once, and its destruction *)
(* cancels the question, interrupting the input function if need be.  One  *)
(* mutex guards the adapter; a critical section is one step, and what is   *)
(* done after unlocking (notifying, calling the input function) another.   *)
(* The input function and Interrupt are external, i_job_info_io.h: an      *)
(* interrupt may come before the call it is meant for, and must be obeyed. *)
(*                                                                         *)
(* The destructor destroys the mutex, the condition variables and m_halt   *)
(* before the future that waits for the handler thread.  What that thread  *)
(* does with them afterwards is undefined: the handler is "undefined" and  *)
(* its behaviour ends there.                                               *)
(***************************************************************************)
EXTENDS Integers, SequencesExt

CONSTANT MaxRequests   \* bound of the model: the number of questions asked

ASSUME RequestsAssumption == MaxRequests \in Nat

Request == 1 .. MaxRequests

VARIABLES
  queue,        \* m_request_queue, the ids only
  replies,      \* the ids for which m_replies has an entry
  current,      \* m_current_id
  last,         \* m_last_request_id
  halt,         \* m_halt
  handler,      \* where the handler thread is
  asked,        \* the handler's local id
  interrupted,  \* the ids for which the interrupt function was called
  future,       \* per id: what its holder is doing
  dtor          \* the adapter's destructor, see Stage

vars == <<queue, replies, current, last, halt, handler, asked, interrupted, future, dtor>>

AtInput == {"calling", "inside", "back"}

Stage == {"alive",    \* not called
          "notify",   \* m_halt is set, the handler not notified yet
          "closing",  \* the body has ended, all members are alive
          "joining",  \* m_halt, m_reply_cv, m_cv and m_mtx are destroyed
          "done"}     \* the handler's future, and so the adapter

Init == /\ queue = << >>
        /\ replies = {}
        /\ current = 0
        /\ last = 0
        /\ halt = FALSE
        /\ handler = "ready"
        /\ asked = 0
        /\ interrupted = {}
        /\ future = [i \in Request |-> "unborn"]
        /\ dtor = "alive"

-----------------------------------------------------------------------------
(* Those who ask                                                             *)

\* AddUserInputRequest: queue the question under the mutex; the notification of
\* the handler follows outside of it.
AddUserInputRequest(i) ==
  /\ dtor = "alive"
  /\ i = last + 1
  /\ last' = i
  /\ queue' = Append(queue, i)
  /\ future' = [future EXCEPT ![i] = "notify"]
  /\ UNCHANGED <<replies, current, halt, handler, asked, interrupted, dtor>>

Woken(h) == IF h = "asleep" THEN "woken" ELSE h

\* Faulty variant: the handler is not notified of a new question.
ForgetHandler(i) == /\ future[i] = "notify"
                    /\ future' = [future EXCEPT ![i] = "held"]
                    /\ UNCHANGED <<queue, replies, current, last, halt, handler, asked, interrupted, dtor>>

NotifyHandler(i) ==
  /\ future[i] = "notify"
  /\ future' = [future EXCEPT ![i] = "held"]
  /\ handler' = Woken(handler)
  /\ UNCHANGED <<queue, replies, current, last, halt, asked, interrupted, dtor>>

UserInputRequestReady(i) == i \in replies

\* GetValue of a future that is ready: collect the answer, forget the id.
GetReply(i) ==
  /\ dtor = "alive"
  /\ future[i] = "held" /\ UserInputRequestReady(i)
  /\ replies' = replies \ {i}
  /\ future' = [future EXCEPT ![i] = "gone"]
  /\ UNCHANGED <<queue, current, last, halt, handler, asked, interrupted, dtor>>

\* WaitFor: the predicate is evaluated on entry and after each wake-up; the
\* blocking helpers of the user interface wait again when a wait was in vain.
WaitForRequestReady(i) ==
  /\ dtor = "alive"
  /\ \/ future[i] = "held" /\ i \notin replies
     \/ future[i] = "woken"
  /\ future' = [future EXCEPT ![i] = IF i \in replies THEN "held" ELSE "asleep"]
  /\ UNCHANGED <<queue, replies, current, last, halt, handler, asked, interrupted, dtor>>

\* Faulty variant: a wait without a timeout.
NeverTimeout(i) == FALSE /\ UNCHANGED vars

Timeout(i) ==
  /\ future[i] = "asleep"
  /\ future' = [future EXCEPT ![i] = "woken"]
  /\ UNCHANGED <<queue, replies, current, last, halt, handler, asked, interrupted, dtor>>

\* GetInterruptableUserChoice gives up after a wait in vain when it is halted.
GiveUp(i) ==
  /\ future[i] = "woken" /\ i \notin replies
  /\ future' = [future EXCEPT ![i] = "held"]
  /\ UNCHANGED <<queue, replies, current, last, halt, handler, asked, interrupted, dtor>>

\* find_if: the place of a question in the queue, if it is there.
Places(i) == {k \in DOMAIN queue : queue[k] = i /\ \A j \in 1 .. k - 1 : queue[j] # i}

\* Faulty variant: the answer is left behind.
CancelKeepsReply(i) ==
  /\ dtor = "alive" /\ future[i] = "held"
  /\ future' = [future EXCEPT ![i] = "gone"]
  /\ queue' = IF Places(i) = {} THEN queue ELSE RemoveAt(queue, CHOOSE k \in Places(i) : TRUE)
  /\ interrupted' = IF current = i THEN interrupted \union {i} ELSE interrupted
  /\ current' = IF current = i THEN 0 ELSE current
  /\ UNCHANGED <<replies, last, halt, handler, asked, dtor>>

\* ~Future of a valid future, CancelInputRequest: the question leaves the queue,
\* or its answer is dropped, or the handler is interrupted and its answer disowned.
CancelInputRequest(i) ==
  /\ dtor = "alive"
  /\ future[i] = "held"
  /\ future' = [future EXCEPT ![i] = "gone"]
  /\ \/ /\ \E k \in Places(i) : queue' = RemoveAt(queue, k)
        /\ UNCHANGED <<replies, current, interrupted>>
     \/ /\ Places(i) = {} /\ i \in replies
        /\ replies' = replies \ {i}
        /\ UNCHANGED <<queue, current, interrupted>>
     \/ /\ Places(i) = {} /\ i \notin replies /\ current = i
        /\ interrupted' = interrupted \union {i}
        /\ current' = 0
        /\ UNCHANGED <<queue, replies>>
  /\ UNCHANGED <<last, halt, handler, asked, dtor>>

-----------------------------------------------------------------------------
(* The handler thread                                                        *)

MembersAlive == dtor \notin {"joining", "done"}

\* HandleRequestQueue up to the call of the input function: the predicate is
\* evaluated under the mutex, which m_cv.wait releases only by going to sleep.
TakeRequest ==
  /\ MembersAlive
  /\ handler \in {"ready", "woken"}
  /\ \/ /\ halt
        /\ handler' = "exited"
        /\ UNCHANGED <<queue, current, asked>>
     \/ /\ ~halt /\ queue = << >>
        /\ handler' = "asleep"
        /\ UNCHANGED <<queue, current, asked>>
     \/ /\ ~halt /\ queue # << >>
        /\ queue' = Tail(queue)
        /\ current' = Head(queue)
        /\ asked' = Head(queue)
        /\ handler' = "calling"
  /\ UNCHANGED <<replies, last, halt, interrupted, future, dtor>>

SpuriousWakeup ==
  /\ handler = "asleep"
  /\ handler' = "woken"
  /\ UNCHANGED <<queue, replies, current, last, halt, asked, interrupted, future, dtor>>

\* The input function: the user may take any time, an interrupted call returns.
EnterInput ==
  /\ handler = "calling"
  /\ handler' = "inside"
  /\ UNCHANGED <<queue, replies, current, last, halt, asked, interrupted, future, dtor>>

UserResponds ==
  /\ handler = "inside"
  /\ handler' = "back"
  /\ UNCHANGED <<queue, replies, current, last, halt, asked, interrupted, future, dtor>>

ObeyInterrupt ==
  /\ handler = "inside" /\ asked \in interrupted
  /\ handler' = "back"
  /\ UNCHANGED <<queue, replies, current, last, halt, asked, interrupted, future, dtor>>

Sleeping == {i \in Request : future[i] = "asleep"}

\* Faulty variant: the answer is published although the question was withdrawn.
PublishAnyway ==
  /\ MembersAlive
  /\ handler = "back"
  /\ handler' = "ready"
  /\ current' = 0
  /\ replies' = replies \union {asked}
  /\ UNCHANGED <<queue, last, halt, asked, interrupted, future, dtor>>

\* The input function has returned: the answer is published unless somebody has
\* reset the current id, and one waiter is notified, whichever it is.
PublishReply ==
  /\ MembersAlive
  /\ handler = "back"
  /\ handler' = "ready"
  /\ current' = 0
  /\ \/ /\ current = asked
        /\ replies' = replies \union {asked}
        /\ \/ Sleeping = {} /\ UNCHANGED future
           \/ \E w \in Sleeping : future' = [future EXCEPT ![w] = "woken"]
     \/ /\ current # asked
        /\ UNCHANGED <<replies, future>>
  /\ UNCHANGED <<queue, last, halt, asked, interrupted, dtor>>

\* The handler locks the mutex, on its way to, out of or back to m_cv.wait, when it
\* and its neighbours are destroyed.
UseDestroyed ==
  /\ ~MembersAlive
  /\ handler \in {"ready", "woken", "back"}
  /\ handler' = "undefined"
  /\ UNCHANGED <<queue, replies, current, last, halt, asked, interrupted, future, dtor>>

-----------------------------------------------------------------------------
(* The destructor.  No thread may still be inside a call, futures that       *)
(* nobody uses any more may be left.                                         *)

\* Faulty variant: the current question is not interrupted.
DestroyQuietly == /\ dtor = "alive"
                  /\ \A i \in Request : future[i] \in {"unborn", "held", "gone"}
                  /\ halt' = TRUE
                  /\ dtor' = "notify"
                  /\ UNCHANGED <<queue, replies, current, last, handler, asked, interrupted, future>>

Destroy ==
  /\ dtor = "alive"
  /\ \A i \in Request : future[i] \in {"unborn", "held", "gone"}
  /\ interrupted' = interrupted \union ({current} \ {0})
  /\ halt' = TRUE
  /\ dtor' = "notify"
  /\ UNCHANGED <<queue, replies, current, last, handler, asked, future>>

NotifyClose ==
  /\ dtor = "notify"
  /\ dtor' = "closing"
  /\ handler' = Woken(handler)
  /\ UNCHANGED <<queue, replies, current, last, halt, asked, interrupted, future>>

\* The members that are declared after m_handler_future are destroyed before it.
DestroyMembers ==
  /\ dtor = "closing"
  /\ dtor' = "joining"
  /\ UNCHANGED <<queue, replies, current, last, halt, handler, asked, interrupted, future>>

\* ~future waits for the handler thread.
Join ==
  /\ dtor = "joining" /\ handler = "exited"
  /\ dtor' = "done"
  /\ UNCHANGED <<queue, replies, current, last, halt, handler, asked, interrupted, future>>

-----------------------------------------------------------------------------
HolderStep(i) == \/ AddUserInputRequest(i)
                 \/ NotifyHandler(i)
                 \/ GetReply(i)
                 \/ WaitForRequestReady(i)
                 \/ Timeout(i)
                 \/ GiveUp(i)
                 \/ CancelInputRequest(i)

HandlerStep == TakeRequest \/ EnterInput \/ ObeyInterrupt \/ PublishReply \/ UseDestroyed

Destruction == Destroy \/ NotifyClose \/ DestroyMembers \/ Join

Next == \/ \E i \in Request : HolderStep(i)
        \/ HandlerStep
        \/ SpuriousWakeup
        \/ UserResponds
        \/ Destruction

Spec == Init /\ [][Next]_vars

\* Threads inside a call run on, and a wait ends by its timeout.  No user is
\* obliged to answer, no holder to collect; a thread in one of the blocking
\* helpers collects what it waited for.
WaitsOn(i) == \/ NotifyHandler(i)
              \/ Timeout(i)
              \/ future[i] = "woken" /\ WaitForRequestReady(i)

Fairness == /\ WF_vars(HandlerStep)
            /\ WF_vars(NotifyClose) /\ WF_vars(DestroyMembers) /\ WF_vars(Join)
            /\ \A i \in Request : WF_vars(WaitsOn(i))

FairSpec == Spec /\ Fairness

-----------------------------------------------------------------------------
(* Properties                                                                *)

TypeOK == /\ queue \in Seq(Request)
          /\ replies \subseteq Request
          /\ current \in 0 .. MaxRequests
          /\ last \in 0 .. MaxRequests
          /\ halt \in BOOLEAN
          /\ handler \in {"ready", "asleep", "woken", "exited", "undefined"} \union AtInput
          /\ asked \in 0 .. MaxRequests
          /\ interrupted \subseteq Request
          /\ future \in [Request -> {"unborn", "notify", "held", "asleep", "woken", "gone"}]
          /\ dtor \in Stage

\* The comment in HandleRequestQueue: whoever sees a current id under the mutex
\* knows that the handler thread is on its way to, inside or on its way back from
\* the input function, with that very id, and that the id's future is live.
\* Cancelling and destroying rely on it when they interrupt.
CurrentIsAtInput == current # 0 => /\ handler \in AtInput \union {"undefined"}
                                   /\ asked = current
                                   /\ future[current] \notin {"unborn", "gone"}

\* An answer waits for a future that can still collect it: neither a cancellation
\* nor an answer that comes after it leaves an entry in m_replies for good.
RepliesHaveHolders == \A i \in replies : future[i] \notin {"unborn", "gone"}

\* The handler thread never sleeps while a question is queued or the adapter is
\* closing, unless a notification is still on its way.
HandlerIsCalled ==
  /\ handler = "asleep" /\ queue # << >> => \E i \in Request : future[i] = "notify"
  /\ handler = "asleep" /\ halt => dtor = "notify"

\* The adapter keeps the promises of InputExchange: whatever the holders cancel
\* at whatever moment, answers come in order, to live futures only, once.
Phase == [i \in Request |-> CASE future[i] \in {"unborn", "gone"} /\ i \notin replies -> future[i]
                              [] i \in replies -> "ready"
                              [] OTHER -> "pending"]
Exchange == INSTANCE InputExchange WITH phase <- Phase
ImplementsExchange == Exchange!Spec

\* Destruction does not hang although no user answers: whatever the handler was
\* doing, it has been woken or interrupted and either ends in time for the join, or
\* goes on to use what was destroyed under it.
DestructionEnds == dtor = "notify" ~> dtor = "done" \/ handler = "undefined"

\* A thread that blocks in WaitFor gets to see its answer although the
\* notification for it may have gone to another waiter.
AnswerReachesWaiter ==
  \A i \in Request : (future[i] = "asleep" /\ i \in replies) ~> future[i] = "held"

=============================================================================
