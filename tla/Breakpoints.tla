------------------------------ MODULE Breakpoints ------------------------------
(***************************************************************************)
(* runner/breakpoint_manager.cpp: the list of breakpoints as a function    *)
(* from the instructions of the procedure to the status of the breakpoint  *)
(* on them, if there is one.  Every operation runs under the manager's     *)
(* mutex, so each is one atomic step of its caller.                        *)
(***************************************************************************)

BreakpointStatus == {"absent", "set", "released"}

\* SetBreakpoint: a second breakpoint on an instruction is refused.
CanSetBreakpoint(bps, i) == bps[i] = "absent"
WithBreakpoint(bps, i)   == [bps EXCEPT ![i] = "set"]

\* RemoveBreakpoint, whatever the breakpoint's status.
CanRemoveBreakpoint(bps, i) == bps[i] # "absent"
WithoutBreakpoint(bps, i)   == [bps EXCEPT ![i] = "absent"]

\* HandleBreakpoints: the instructions about to execute that carry an armed
\* breakpoint, and the list after those breakpoints were released.
HitBreakpoints(bps, next) == {i \in next : bps[i] = "set"}
ReleaseBreakpoints(bps, next) ==
  [i \in DOMAIN bps |-> IF i \in HitBreakpoints(bps, next) THEN "released" ELSE bps[i]]

\* ResetBreakpoints: rearm after a tick.
RearmBreakpoints(bps) ==
  [i \in DOMAIN bps |-> IF bps[i] = "released" THEN "set" ELSE bps[i]]

=============================================================================
