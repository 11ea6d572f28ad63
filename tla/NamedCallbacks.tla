----------------------------- MODULE NamedCallbacks -----------------------------
(***************************************************************************)
(* The callbacks of a workspace (named_callback_manager.h) and those who   *)
(* live on them: threads that write or reset variables and notify, threads *)
(* that wait for a variable to become available or unavailable             *)
(* (Workspace::WaitForVariable), and the runner, whose generic callback    *)
(* informs the user interface and goes away with it.                       *)
(*                                                                         *)
(* Three mutexes are taken one inside the other: m_access_mutex of the     *)
(* variable, m_notify_mutex of the variable, and that of the manager.      *)
(***************************************************************************)
EXTENDS Naturals, Sequences, SequencesExt

CONSTANTS
  Variables,     \* the variables of the workspace
  FileVariables, \* those of type File; the others are Local
  Writers,     \* threads that write and reset variables
  Waiters,     \* threads that wait for variables
  At,          \* thread -> the variables that it writes and resets, or waits for
  Wants,       \* waiter -> whether it waits for one to be available, or not
  MaxWrites, MaxWaits,   \* how often writers write or reset, and waiters wait
  None

Runner == "runner"
Free == None

ASSUME CallbackAssumption == /\ Writers \intersect Waiters = {}
                             /\ FileVariables \subseteq Variables
                             /\ None \notin Writers \union Waiters \union Variables
                             /\ Runner \notin Waiters /\ {MaxWrites, MaxWaits} \subseteq Nat
                             /\ Wants \in [Waiters -> BOOLEAN]
                             /\ At \in [Writers \union Waiters -> SUBSET Variables]

VARIABLES
  up,        \* variable -> m_setup_successful
  readable,  \* the file variables whose file holds a value
  access,    \* variable -> who holds m_access_mutex
  notify,    \* variable -> who holds m_notify_mutex
  managerMtx, \* who holds the mutex of the manager
  generic,   \* generic_cb_entries: <<listener, None>>
  entries,   \* cb_entries: <<listener, name>>
  pc, on,    \* thread -> where it is, and the variable it is at
  calling,   \* writer -> the entries that ExecuteCallbacks has still to go through
  missed,    \* waiter -> it was notified since it last looked, before it slept;
             \* or what it waits for changes with no notification
  calls      \* the calls that are left to the writers and to the waiters

callbackVars == <<up, readable, access, notify, managerMtx, generic, entries, pc, on, calling, missed, calls>>
variableState == <<up, readable>>
locks == <<access, notify, managerMtx>>
listeners == <<generic, entries>>

Threads == Writers \union Waiters

CallbackInit == /\ up = [v \in Variables |-> TRUE]
                /\ readable \in SUBSET FileVariables
                /\ access = [v \in Variables |-> Free] /\ notify = [v \in Variables |-> Free]
                /\ managerMtx = Free
                /\ generic = << <<Runner, None>> >> /\ entries = << >>
                /\ pc = [t \in Threads |-> "idle"]
                /\ on = [t \in Threads |-> None]
                /\ calling = [t \in Writers |-> << >>]
                /\ missed = [t \in Waiters |-> FALSE]
                /\ calls = [writers |-> MaxWrites, waiters |-> MaxWaits]

\* Variable::IsAvailable: a Local variable has nothing to add to its set-up.
Available(v) == up[v] /\ (v \in FileVariables => v \in readable)

\* Thread t goes on to place p.
Go(t, p) == pc' = [pc EXCEPT ![t] = p]

Enter(t, v, p, side) == /\ pc[t] = "idle" /\ calls[side] > 0 /\ v \in At[t]
                        /\ calls' = [calls EXCEPT ![side] = @ - 1]
                        /\ on' = [on EXCEPT ![t] = v]
                        /\ Go(t, p)

Leave(t) == Go(t, "idle") /\ on' = [on EXCEPT ![t] = None]
-----------------------------------------------------------------------------
(* Variable::SetValue, which keeps m_access_mutex until all listeners have   *)
(* been called, and Variable::Reset, which does not take it.                 *)

\* A value that is not accepted, or cannot be written, changes nothing and is not
\* notified.
SetValue(t, v) ==
  /\ access[v] = Free
  /\ Enter(t, v, "notify", "writers")
  /\ up[v]
  /\ access' = [access EXCEPT ![v] = t]
  /\ readable' = readable \union ({v} \intersect FileVariables)
  /\ UNCHANGED <<up, notify, managerMtx, listeners, calling, missed>>

\* Those who wait for it to be available or not see it change with no
\* notification as m_setup_successful changes.
MissChange(v) == missed' = [w \in Waiters |-> missed[w] \/ on[w] = v]

\* Variable::Teardown, which leaves files alone; then SetupImpl notifies the value
\* that it has set or read, if any, before the variable is set up.
Teardown(t, v) ==
  /\ Enter(t, v, "notify", "writers")
  /\ up' = [up EXCEPT ![v] = FALSE]
  /\ MissChange(v)
  /\ UNCHANGED <<readable, locks, listeners, calling>>

Setup(t) == /\ pc[t] = "setup" /\ Leave(t)
            /\ up' = [up EXCEPT ![on[t]] = TRUE]
            /\ MissChange(on[t])
            /\ UNCHANGED <<readable, locks, listeners, calling, calls>>

\* Variable::Notify, to Workspace::VariableUpdated.
Notify(t) == /\ pc[t] = "notify" /\ notify[on[t]] = Free
             /\ notify' = [notify EXCEPT ![on[t]] = t]
             /\ Go(t, "update")
             /\ UNCHANGED <<variableState, access, managerMtx, listeners, on, calling, missed, calls>>

\* faulty: the search ends with the first entry.
FirstOnly == IF entries = << >> THEN generic ELSE Append(generic, entries[1])

\* ExecuteCallbacks goes through the generic listeners and then the others.
AllEntries == generic \o entries

\* faulty: the mutex of the manager is released while the listeners are called.
ExecuteUnlocked(t) ==
  /\ pc[t] = "update" /\ managerMtx = Free
  /\ calling' = [calling EXCEPT ![t] = AllEntries]
  /\ Go(t, "call")
  /\ UNCHANGED <<variableState, locks, listeners, on, missed, calls>>

ExecuteCallbacks(t) ==
  /\ pc[t] = "update" /\ managerMtx = Free
  /\ managerMtx' = t
  /\ calling' = [calling EXCEPT ![t] = AllEntries]
  /\ Go(t, "call")
  /\ UNCHANGED <<variableState, access, notify, listeners, on, missed, calls>>

\* One that waits for this variable is woken if it sleeps, others are passed over;
\* the runner passes the value on.
Callback(t) ==
  /\ pc[t] = "call" /\ calling[t] # << >>
  /\ LET w == Head(calling[t])[1]
         named == Head(calling[t])[2] = on[t]
     IN IF w = Runner \/ ~named \/ pc[w] # "asleep"
        THEN /\ missed' = [u \in Waiters |-> missed[u] \/ (u = w /\ named /\ pc[u] = "drowsy")]
             /\ UNCHANGED pc
        ELSE Go(w, "look") /\ UNCHANGED missed
  /\ calling' = [calling EXCEPT ![t] = Tail(@)]
  /\ UNCHANGED <<variableState, locks, listeners, on, calls>>

\* faulty: the mutex of the manager is left locked.
EndNotifyLocked(t) ==
  /\ pc[t] = "call" /\ calling[t] = << >>
  /\ notify' = [notify EXCEPT ![on[t]] = Free]
  /\ access' = [access EXCEPT ![on[t]] = IF @ = t THEN Free ELSE @]
  /\ IF access[on[t]] = t THEN Leave(t) ELSE Go(t, "setup") /\ UNCHANGED on
  /\ UNCHANGED <<variableState, managerMtx, listeners, calling, missed, calls>>

\* The mutexes are released; a reset goes on with Variable::Setup.
EndNotify(t) ==
  /\ pc[t] = "call" /\ calling[t] = << >>
  /\ managerMtx' = Free
  /\ notify' = [notify EXCEPT ![on[t]] = Free]
  /\ access' = [access EXCEPT ![on[t]] = IF @ = t THEN Free ELSE @]
  /\ IF access[on[t]] = t THEN Leave(t) ELSE Go(t, "setup") /\ UNCHANGED on
  /\ UNCHANGED <<variableState, listeners, calling, missed, calls>>
-----------------------------------------------------------------------------
(* Workspace::WaitForVariable                                                *)

RegisterCallback(w, v) ==
  /\ managerMtx = Free
  /\ Enter(w, v, "look", "waiters")
  /\ entries' = Append(entries, <<w, v>>)
  /\ missed' = [missed EXCEPT ![w] = FALSE]
  /\ UNCHANGED <<variableState, locks, generic, calling>>

Look(w) ==
  /\ pc[w] = "look" /\ access[on[w]] = Free
  /\ Go(w, IF Available(on[w]) = Wants[w] THEN "result" ELSE "drowsy")
  /\ missed' = [missed EXCEPT ![w] = FALSE]
  /\ UNCHANGED <<variableState, locks, listeners, on, calling, calls>>

FallAsleep(w) == /\ pc[w] = "drowsy" /\ Go(w, "asleep")
                 /\ UNCHANGED <<variableState, locks, listeners, on, calling, missed, calls>>

\* With the timeout the availability is looked at for the last time.
Timeout(w) == /\ pc[w] \in {"drowsy", "asleep"} /\ Go(w, "result")
              /\ UNCHANGED <<variableState, locks, listeners, on, calling, missed, calls>>

WakeUnnotified(w) == /\ pc[w] = "asleep" /\ Go(w, "look")
                     /\ UNCHANGED <<variableState, locks, listeners, on, calling, missed, calls>>

Result(w) == /\ pc[w] = "result" /\ access[on[w]] = Free /\ Go(w, "unregister")
             /\ UNCHANGED <<variableState, locks, listeners, on, calling, missed, calls>>

\* UnregisterListener by the guard, then the condition variable is destroyed.  A
\* listener has one entry.
Unregister(w) ==
  /\ pc[w] = "unregister" /\ managerMtx = Free
  /\ \E k \in DOMAIN entries : entries[k][1] = w /\ entries' = RemoveAt(entries, k)
  /\ Leave(w)
  /\ UNCHANGED <<variableState, locks, generic, calling, missed, calls>>

\* The guard of the runner, when the job is destroyed.
UnregisterRunner ==
  /\ managerMtx = Free /\ generic # << >>
  /\ generic' = << >>
  /\ UNCHANGED <<variableState, locks, entries, pc, on, calling, missed, calls>>
-----------------------------------------------------------------------------
Proceed(t) == \/ t \in Writers /\ (\/ Setup(t) \/ Notify(t)
                                   \/ ExecuteCallbacks(t) \/ Callback(t) \/ EndNotify(t))
              \/ t \in Waiters /\ (Look(t) \/ FallAsleep(t) \/ Result(t) \/ Unregister(t))

CallbackNext == \/ \E t \in Writers, v \in Variables : SetValue(t, v) \/ Teardown(t, v)
                \/ \E w \in Waiters, v \in Variables : RegisterCallback(w, v)
                \/ \E t \in Threads : Proceed(t)
                \/ \E w \in Waiters : Timeout(w) \/ WakeUnnotified(w)
                \/ UnregisterRunner

CallbackSpec == CallbackInit /\ [][CallbackNext]_callbackVars

\* Threads run on; that a timeout passes, or that a sleeper wakes up by itself, is
\* not assumed.
CallbackFairSpec == CallbackSpec /\ \A t \in Threads : WF_callbackVars(Proceed(t))
-----------------------------------------------------------------------------
(* Properties                                                                *)

(* No callback is made for a listener that is gone: the condition variable of a
   wait that has returned (workspace.cpp:168-177), or the runner that was destroyed
   with its user interface (runner.cpp:61). *)
ListenersAreAlive ==
  \A t \in Writers : \A k \in DOMAIN calling[t] :
    LET l == calling[t][k][1] IN IF l = Runner THEN generic # << >> ELSE pc[l] # "idle"

(* A waiter that sleeps while a thread makes what it waits for come true, as one that
   writes the file of a File variable does, is woken by it and need not wait for its
   timeout; but for a notification that comes after it has looked and before it sleeps,
   as no mutex is shared, and for the changes of m_setup_successful, those of a reset,
   which nobody is notified of (workspace.cpp:170-176, variable.cpp:86,
   file_variable.cpp:99-109). *)
SleeperIsWoken ==
  \A w \in Waiters :
    (pc[w] = "asleep" /\ ~missed[w] /\ Available(on[w]) = Wants[w]) ~> (pc[w] # "asleep")

(* Writes and resets end, and so do waits that need not sleep: nobody holds a mutex
   for ever, as long as the listeners do no more than to pass the value on or notify a
   condition variable, which is all that these do (named_callback_manager.h:128,
   variable.h:297-299). *)
CallsReturn ==
  \A t \in Threads : (pc[t] \notin {"idle", "asleep"}) ~> (pc[t] \in {"idle", "asleep"})
=============================================================================
