----------------------------- MODULE JobLifecycle -----------------------------
(***************************************************************************)
(* What a job promises to those who watch it: the job states and the only  *)
(* changes between them, and that the procedure's instructions execute     *)
(* only in a running or stepping job whose state then stands still.  A     *)
(* finished job starts over only through a reset.                          *)
(***************************************************************************)
EXTENDS JobTypes

VARIABLES state,       \* the state reported last
          executing    \* the instruction tree is being executed

lifecycle == <<state, executing>>

Init == state = "Initial" /\ executing = FALSE

Move(from, to) == /\ ~executing
                  /\ state \in from
                  /\ state' \in to
                  /\ UNCHANGED executing

Startable == {"Initial", "Paused"}

Start == Move(Startable, {"Running"})
Step  == Move(Startable, {"Stepping"})
Pause == Move({"Running", "Stepping"}, {"Paused"})
Halt  == Move(Startable \union {"Running"}, {"Halted"})
Reset == Move(FinishedJobState, {"Initial"})

\* The procedure succeeded or failed.
Finish == Move({"Running", "Stepping"}, {"Succeeded", "Failed"})

BeginTick == /\ ~executing
             /\ state \in {"Running", "Stepping"}
             /\ executing' = TRUE
             /\ UNCHANGED state

EndTick == /\ executing
           /\ executing' = FALSE
           /\ UNCHANGED state

Next == Start \/ Step \/ Pause \/ Halt \/ Reset \/ Finish \/ BeginTick \/ EndTick

Spec == Init /\ [][Next]_lifecycle

=============================================================================
