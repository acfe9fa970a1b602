----------------------------- MODULE Supervisor -----------------------------
(***************************************************************************)
(* The state of the daemon's supervisor: crates/daemon/src/supervisor.rs,  *)
(* SupervisorState.  A supervisor is a record of the owner's phase, the    *)
(* phase of each background surface and the reason of the shutdown; its    *)
(* operations are operators on it.  Times and texts are left out.          *)
(***************************************************************************)
CONSTANT Surfaces

NoReason == <<"none", "none">>

\* SupervisorState::new.
New ==
    [phase   |-> IF Surfaces = {} THEN "Running" ELSE "Starting",
     surface |-> [x \in Surfaces |-> "Starting"],
     reason  |-> NoReason]

\* mark_surface_running for every surface, as the supervisor starts them:
\* nothing can happen to it in between.
Launched(s) ==
    [s EXCEPT !.surface = [x \in Surfaces |-> "Running"], !.phase = "Running"]

AllTerminal(surface) == \A x \in Surfaces : surface[x] \in {"Stopped", "Failed"}

WoundDown(surface) ==
    [x \in Surfaces |-> IF surface[x] \in {"Starting", "Running"} THEN "Stopping"
                        ELSE surface[x]]

\* request_shutdown: the first reason is kept.
RequestShutdown(s, why) ==
    IF s.reason # NoReason THEN s
    ELSE [phase |-> "Stopping", surface |-> WoundDown(s.surface),
          reason |-> <<"requested", why>>]

\* record_surface_failure: a failure replaces a requested shutdown as the
\* reason, but not an earlier failure.
RecordSurfaceFailure(s, x) ==
    IF s.surface[x] \in {"Stopped", "Failed"} THEN s
    ELSE [phase   |-> "Failed",
          surface |-> [WoundDown(s.surface) EXCEPT ![x] = "Failed"],
          reason  |-> IF s.reason[1] = "failed" THEN s.reason ELSE <<"failed", x>>]

\* Mutant: the last surface to stop decides.
MarkStoppedAfresh(s, x) ==
    LET surface == [s.surface EXCEPT ![x] = "Stopped"]
    IN  [s EXCEPT !.surface = surface, !.phase = IF AllTerminal(surface) THEN "Stopped" ELSE @]

\* mark_surface_stopped: a surface that stops unasked has failed.
MarkSurfaceStopped(s, x) ==
    IF s.surface[x] = "Failed" THEN s
    ELSE IF s.reason = NoReason THEN RecordSurfaceFailure(s, x)
    ELSE LET surface == [s.surface EXCEPT ![x] = "Stopped"]
         IN  [s EXCEPT !.surface = surface,
                       !.phase = IF AllTerminal(surface) /\ @ # "Failed" THEN "Stopped" ELSE @]

\* forward_root_shutdown, as far as the supervisor's own state goes.
ForwardRootShutdown(s) ==
    [s EXCEPT !.phase = IF @ \in {"Stopping", "Failed", "Stopped"} THEN @ ELSE "Stopping"]

FinalizeAfterRuntimeExit(s) ==
    IF s.phase \notin {"Failed", "Stopped"} /\ s.reason # NoReason /\ AllTerminal(s.surface)
    THEN [s EXCEPT !.phase = "Stopped"]
    ELSE s
=============================================================================
