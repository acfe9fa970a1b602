----------------------------- MODULE GatewayRun -----------------------------
(***************************************************************************)
(* A gateway from start to end: crates/daemon/src/gateway/service.rs and   *)
(* run_supervisor_with_loaded_config_for_test of supervisor.rs, over the   *)
(* owner files of GatewayOwner and the supervisor's state of Supervisor.   *)
(*                                                                         *)
(* The main task waits in one select! for the background surfaces, the     *)
(* shutdown signal (which polls the stop request) and, in attached mode,   *)
(* the CLI host.  The production CLI host joins a thread where it is       *)
(* polled, so from its first poll the main task does nothing else until    *)
(* that thread has ended.                                                  *)
(***************************************************************************)
EXTENDS GatewayOwner, Supervisor

CONSTANT Modes   \* of the gateways: "headless", "attached"

VARIABLES
    run,         \* gateway -> its supervisor and what the loop waits for
    failed       \* history: gateways of which a surface, the CLI host or the run failed

owner == <<slot, inode, status, stopfile, wanted, history>>
vars == <<owner, own, heartbeat, run, failed>>

\* up: the surfaces whose tasks are not joined.  cli: "none", "idle" before its
\* first poll, "up", "failed".  told: forward_root_shutdown was called, and the
\* signal is not awaited.
NotRunning ==
    [mode |-> None, sup |-> New, up |-> {}, cli |-> "none", told |-> FALSE]

Init ==
    /\ OwnerInit
    /\ run = [t \in Tokens |-> NotRunning]
    /\ failed = {}

\* An error on the way, which leads to finalize_with_error.
Leave(t) ==
    /\ own' = [own EXCEPT ![t] = At("halt")]
    /\ failed' = failed \cup {t}
    /\ run' = [run EXCEPT ![t] = NotRunning]

-----------------------------------------------------------------------------
\* The ACP manager and the control surface start, and the binding and the new
\* supervisor are written (the same twice), or they do not.
SetUp(t) ==
    /\ pc(t) = "setup"
    /\ \/ Sync(t, "launch") /\ UNCHANGED <<run, failed>>
       \/ Leave(t)
    /\ UNCHANGED <<owner, heartbeat>>

\* Every surface is spawned and the state observed; a surface without a runner
\* ends the run.
Launch(t) ==
    /\ pc(t) = "launch"
    /\ \/ /\ \E m \in Modes :
                run' = [run EXCEPT ![t] =
                           [mode |-> m, sup |-> Launched(@.sup),
                            up |-> Surfaces,
                            cli |-> IF m = "attached" THEN "idle" ELSE "none",
                            told |-> FALSE]]
          /\ Sync(t, "loop")
          /\ UNCHANGED failed
       \/ Leave(t)
    /\ UNCHANGED <<owner, heartbeat>>

-----------------------------------------------------------------------------
(* The loop.                                                                *)

\* Mutant: the shutdown is recorded and not forwarded.
HandledUntold(t, r) ==
    /\ run' = [run EXCEPT ![t] = r]
    /\ Sync(t, "loop")

\* A branch of the select! ends and leaves r, with a new state of the
\* supervisor.  A shutdown is forwarded, and the state observed.
Handled(t, r) ==
    LET stop == r.sup.reason # NoReason
    IN  /\ run' = [run EXCEPT ![t] =
                      [r EXCEPT !.sup = IF stop THEN ForwardRootShutdown(@) ELSE @,
                                !.told = @ \/ stop]]
        /\ Sync(t, "loop")

Requested(t, why) == [run[t] EXCEPT !.sup = RequestShutdown(@, why)]

Waiting(t) == pc(t) = "loop" /\ ~run[t].told

\* Mutant: any stop request stops any gateway.
SeeAnyStop(t) ==
    /\ Waiting(t) /\ stopfile # NoFile
    /\ Handled(t, Requested(t, "stop"))
    /\ UNCHANGED <<owner, heartbeat, failed>>

\* wait_for_gateway_stop_request.
SeeStop(t) ==
    /\ Waiting(t) /\ stopfile = t
    /\ Handled(t, Requested(t, "stop"))
    /\ UNCHANGED <<owner, heartbeat, failed>>

\* The original signal.
Interrupt(t) ==
    /\ Waiting(t)
    /\ Handled(t, Requested(t, "signal"))
    /\ UNCHANGED <<owner, heartbeat, failed>>

\* The control surface exits, which ends the wait with an error: the run is
\* over, and the surfaces' tasks are aborted with the join set.
LoseControl(t) ==
    /\ Waiting(t)
    /\ Leave(t)
    /\ UNCHANGED <<owner, heartbeat>>

\* A surface's task ends, by itself or because it was asked to, and is joined:
\* join_next_with_id.
Join(t, x) ==
    LET r == run[t]
    IN  /\ pc(t) = "loop" /\ x \in r.up
        /\ \E ok \in BOOLEAN :
              /\ failed' = IF ok /\ r.told THEN failed ELSE failed \cup {t}
              /\ Handled(t, [r EXCEPT !.up = @ \ {x},
                                      !.sup = IF ok THEN MarkSurfaceStopped(@, x)
                                              ELSE RecordSurfaceFailure(@, x)])
        /\ UNCHANGED <<owner, heartbeat>>

\* The first poll of the CLI host, which does not return before the host does.
PollCli(t) ==
    /\ pc(t) = "loop" /\ run[t].cli = "idle"
    /\ run' = [run EXCEPT ![t].cli = "up"]
    /\ own' = [own EXCEPT ![t] = At("joining")]
    /\ UNCHANGED <<owner, heartbeat, failed>>

\* The CLI host ends, well or not: its user leaves, or it was told.
CliEnds(t) ==
    /\ pc(t) = "joining"
    /\ \E end \in {"none", "failed"} :
          /\ failed' = IF end = "failed" THEN failed \cup {t} ELSE failed
          /\ Handled(t, [Requested(t, "cli") EXCEPT !.cli = end])
    /\ UNCHANGED <<owner, heartbeat>>

\* Nothing is left to wait for.
LeaveLoop(t) ==
    /\ pc(t) = "loop" /\ run[t].told /\ run[t].cli \in {"none", "failed"} /\ run[t].up = {}
    /\ run' = [run EXCEPT ![t].sup = FinalizeAfterRuntimeExit(@)]
    /\ Sync(t, "halt")
    /\ UNCHANGED <<owner, heartbeat, failed>>

\* The control surface is shut down and the tracker finalized: as the
\* supervisor says, or with an error when the CLI host, the run or the
\* shutdown failed.
Halt(t) ==
    /\ \/ /\ run[t].mode # None /\ run[t].cli # "failed"
          /\ HaltBeat(t, run[t].sup.phase)
          /\ UNCHANGED failed
       \/ /\ HaltBeat(t, "Failed")
          /\ failed' = failed \cup {t}
    /\ run' = [run EXCEPT ![t] = NotRunning]

-----------------------------------------------------------------------------
Acquire(t) == CreateAgain(t) \/ Look(t) \/ Remove(t) \/ Fill(t) \/ Publish(t)
Tracked(t) == Truncate(t) \/ Write(t)
Finalized(t) == LastStatus(t) \/ ClearStop(t) \/ CheckOwned(t) \/ Erase(t)

\* What a gateway does by itself, other than waiting for its CLI host.
Proceed(t) ==
    \/ (Acquire(t) \/ Tracked(t) \/ Finalized(t)) /\ UNCHANGED <<run, failed>>
    \/ SetUp(t) \/ Launch(t)
    \/ SeeStop(t) \/ PollCli(t) \/ LeaveLoop(t) \/ Halt(t)

\* A write fails and with it the run, or the process dies.
Broken(t) ==
    /\ \/ SyncFails(t) /\ failed' = failed \cup {t}
       \/ Die(t) /\ UNCHANGED failed
    /\ run' = [run EXCEPT ![t] = NotRunning]

Elsewhere(t) ==
    \/ FillFails(t) \/ PublishFails(t) \/ LastStatusFails(t)
    \/ BeatTruncates(t) \/ Beats(t) \/ BeatFails(t) \/ Lapse(t)

Next ==
    \/ \E t \in Tokens :
          \/ Start(t) /\ UNCHANGED <<run, failed>>
          \/ Proceed(t) \/ Interrupt(t) \/ LoseControl(t) \/ CliEnds(t)
          \/ \E x \in Surfaces : Join(t, x)
          \/ Broken(t)
          \/ Elsewhere(t) /\ UNCHANGED <<run, failed>>
    \/ Ask /\ UNCHANGED <<run, failed>>

\* Tasks are polled and file operations end; the heartbeat, which sleeps for
\* seconds between its writes, does not keep the owner file's mutex from the
\* main task for ever.  A surface ends when it is told to, and so does a CLI
\* host; a user need not leave.
Fairness ==
    \A t \in Tokens :
        /\ WF_vars(Proceed(t))
        /\ SF_vars(Truncate(t) /\ UNCHANGED <<run, failed>>)
        /\ WF_vars(Beats(t) /\ UNCHANGED <<run, failed>>)
        /\ WF_vars(run[t].told /\ (CliEnds(t) \/ \E x \in Surfaces : Join(t, x)))

Spec == Init /\ [][Next]_vars /\ Fairness

-----------------------------------------------------------------------------
Owns(t) == pc(t) \notin Dead \cup {"create", "look", "remove", "fill"}

\* It has stopped serving, and its file says so.
Finished(t) == pc(t) \in {"last", "clear", "check", "erase"} /\ copy[t] # "Active"

(* Only one gateway owns the slot at a time, also after crashes and failed  *)
(* writes, unless a file was removed that is not the one looked at, or the  *)
(* file of a gateway that is alive became stale; a successor may be there   *)
(* already while a gateway that has stopped serving puts its files away.    *)
SlotExclusive ==
    \A t, u \in Tokens :
        Owns(t) /\ Owns(u) /\ t # u => raced \/ lapsed \/ Finished(t) \/ Finished(u)

(* A gateway stops on request only when it was the owner that was read when *)
(* the stop was requested: a request that outlives its gateway does not     *)
(* stop the next one.                                                       *)
StopHitsTarget ==
    \A t \in Tokens : run[t].sup.reason = <<"requested", "stop">> => t \in wanted

(* The last snapshot tells how the run went: "Stopped" is said of a run     *)
(* that ended without a failure, whichever surface ended last and whatever  *)
(* asked for the shutdown, and "Failed" of every other.                     *)
LastPhaseTrue ==
    status # None /\ status.phase # "Active" =>
        status.phase = IF status.token \in failed THEN "Failed" ELSE "Stopped"

\* Its stop request is replaced or removed before it has seen it.
Missed(t) == stopfile # t /\ ~run[t].told

(* "gateway stop" ends a headless gateway, its surfaces included, unless    *)
(* another one has taken its place, or the request was lost: to the request *)
(* of a process that had read an earlier owner, or to the end of one.       *)
StopHonoured ==
    \A t \in Tokens :
        stopfile = t /\ run[t].mode = "headless" ~>
            pc(t) \in Dead \/ raced \/ lapsed \/ Missed(t)
=============================================================================
