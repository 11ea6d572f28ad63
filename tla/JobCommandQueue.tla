---------------------------- MODULE JobCommandQueue ----------------------------
(***************************************************************************)
(* runner/job_command_queue.cpp: the queue through which any number of     *)
(* client threads command the one thread that executes a job.  A client    *)
(* pushes under the mutex and notifies the condition variable after        *)
(* releasing it; a priority push runs a client function while it holds the *)
(* mutex.  The consumer either polls (TryPop) or sleeps on the condition   *)
(* variable (WaitForNextCommand), which may also wake it spuriously.       *)
(***************************************************************************)
EXTENDS JobTypes

CONSTANTS Clients,    \* the threads that push commands
          MaxQueue    \* bound of the model: ordinary pushes stop at this length

ASSUME QueueAssumption == MaxQueue \in Nat

NoClient == "no client"
NoCommand == "none"

ASSUME NoClientAssumption == NoClient \notin Clients

VARIABLES
  queue,      \* m_command_queue
  mtx,        \* the client inside a priority push's function, or NoClient
  client,     \* per client: "idle", "notify", or the command whose function runs
  consumer,   \* "ready", "asleep" in m_cv.wait, or "woken" and not yet relocked
  popped      \* what the consumer's last finished call handed out

vars == <<queue, mtx, client, consumer, popped>>

ClientPhase == {"idle", "notify"} \union PriorityCommand

Init == /\ queue = << >>
        /\ mtx = NoClient
        /\ client = [c \in Clients |-> "idle"]
        /\ consumer = "ready"
        /\ popped = NoCommand

-----------------------------------------------------------------------------
(* Clients                                                                   *)

\* Faulty variant: the push does not notify.
PushSilently(c, k) == /\ client[c] = "idle"
                      /\ mtx = NoClient
                      /\ Len(queue) < MaxQueue
                      /\ queue' = PushBack(queue, k)
                      /\ UNCHANGED <<mtx, client, consumer, popped>>

\* Push: append under the mutex; the notification follows outside of it.
Push(c, k) == /\ client[c] = "idle"
              /\ mtx = NoClient
              /\ Len(queue) < MaxQueue
              /\ queue' = PushBack(queue, k)
              /\ client' = [client EXCEPT ![c] = "notify"]
              /\ UNCHANGED <<mtx, consumer, popped>>

\* PriorityPush up to the call of func: the mutex stays locked.  A push that
\* does not overtake the front returns false and changes nothing.
PriorityPushBegin(c, k) == /\ client[c] = "idle"
                           /\ mtx = NoClient
                           /\ Overtakes(queue, k)
                           /\ mtx' = c
                           /\ client' = [client EXCEPT ![c] = k]
                           /\ UNCHANGED <<queue, consumer, popped>>

\* Faulty variant: nobody is notified.
PriorityPushSilently(c) == /\ mtx = c
                           /\ queue' = PushFront(queue, client[c])
                           /\ mtx' = NoClient
                           /\ client' = [client EXCEPT ![c] = "idle"]
                           /\ UNCHANGED <<consumer, popped>>

\* func has returned: push_front, unlock.
PriorityPushEnd(c) == /\ mtx = c
                      /\ queue' = PushFront(queue, client[c])
                      /\ mtx' = NoClient
                      /\ client' = [client EXCEPT ![c] = "notify"]
                      /\ UNCHANGED <<consumer, popped>>

\* m_cv.notify_one(): the loop thread is the only one that ever waits.
NotifyOne(c) == /\ client[c] = "notify"
                /\ client' = [client EXCEPT ![c] = "idle"]
                /\ consumer' = IF consumer = "asleep" THEN "woken" ELSE consumer
                /\ UNCHANGED <<queue, mtx, popped>>

-----------------------------------------------------------------------------
(* Consumer                                                                  *)

PopFront == /\ queue # << >>
            /\ popped' = Head(queue)
            /\ queue' = Tail(queue)
            /\ consumer' = "ready"

\* WaitForNextCommand, on entry or after a wake-up: the predicate is evaluated
\* under the mutex, which m_cv.wait releases only by going to sleep.
WaitForNextCommand == /\ consumer \in {"ready", "woken"}
                      /\ mtx = NoClient
                      /\ \/ PopFront
                         \/ /\ queue = << >>
                            /\ consumer' = "asleep"
                            /\ popped' = NoCommand
                            /\ UNCHANGED queue
                      /\ UNCHANGED <<mtx, client>>

TryPop == /\ consumer = "ready"
          /\ mtx = NoClient
          /\ \/ PopFront
             \/ /\ queue = << >>
                /\ popped' = NoCommand
                /\ UNCHANGED <<queue, consumer>>
          /\ UNCHANGED <<mtx, client>>

SpuriousWakeup == /\ consumer = "asleep"
                  /\ consumer' = "woken"
                  /\ UNCHANGED <<queue, mtx, client, popped>>

-----------------------------------------------------------------------------
ClientStep(c) == \/ \E k \in NormalCommand : Push(c, k)
                 \/ \E k \in PriorityCommand : PriorityPushBegin(c, k)
                 \/ PriorityPushEnd(c)
                 \/ NotifyOne(c)

Next == \/ \E c \in Clients : ClientStep(c)
        \/ WaitForNextCommand
        \/ TryPop
        \/ SpuriousWakeup

Spec == Init /\ [][Next]_vars

\* Threads inside a call run on; nobody is forced to start one, except that the
\* consumer keeps asking.  Waking up spuriously is never relied upon.
Fairness == /\ WF_vars(WaitForNextCommand)
            /\ \A c \in Clients : WF_vars(PriorityPushEnd(c)) /\ WF_vars(NotifyOne(c))

FairSpec == Spec /\ Fairness

-----------------------------------------------------------------------------
(* Properties                                                                *)

\* Types, and the discipline of the mutex: exactly the client inside the function
\* of a priority push holds it.
TypeOK == /\ queue \in Seq(JobCommand)
          /\ mtx \in Clients \union {NoClient}
          /\ client \in [Clients -> ClientPhase]
          /\ \A c \in Clients : client[c] \in PriorityCommand <=> mtx = c
          /\ consumer \in {"ready", "asleep", "woken"}
          /\ popped \in JobCommand \union {NoCommand}

\* A priority command is preceded in the queue only by strictly more urgent
\* ones: Halt and Terminate are queued at most once each, in front of every
\* ordinary command, however the pushes of the clients interleave
\* (PriorityPush's comparison with the front).
PriorityOrder == \A i, j \in DOMAIN queue :
                   i < j /\ queue[j] \in PriorityCommand
                     => ~NotMoreUrgent(queue[i], queue[j])

\* The consumer never sleeps on a non-empty queue without a notification on its
\* way: the unlock-then-notify of the pushes loses no wake-up.
NoLostWakeup == consumer = "asleep" /\ queue # << >>
                  => \E c \in Clients : client[c] = "notify"

\* A pending Terminate reaches the consumer, whatever the clients keep pushing.
TerminateDelivered == Queued(queue, "Terminate") ~> popped = "Terminate"

\* The alarms are in front, so the line is what comes after as many elements.
Alarms(q) == (IF Queued(q, "Terminate") THEN 1 ELSE 0) + (IF Queued(q, "Halt") THEN 1 ELSE 0)
Line(q) == [i \in 1 .. Len(q) - Alarms(q) |-> q[i + Alarms(q)]]

\* The queue, its mutex and its condition variable implement the mailbox of two
\* latched alarms over a first-in-first-out line.
Mailbox == INSTANCE PriorityMailbox
             WITH terminate <- Queued(queue, "Terminate"),
                  halt      <- Queued(queue, "Halt"),
                  line      <- Line(queue),
                  taken     <- popped
ImplementsMailbox == Mailbox!Spec

=============================================================================
