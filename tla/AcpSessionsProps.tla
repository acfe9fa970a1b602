-------------------------- MODULE AcpSessionsProps --------------------------
(***************************************************************************)
(* What the ACP session manager promises.                                  *)
(***************************************************************************)
EXTENDS AcpSessions

Steps == {"idle", "wait", "list", "sweep", "evict", "resolve", "by_route",
          "by_conversation", "limit", "count", "touch", "create", "start", "register",
          "subscribe", "run", "finish_ok", "finish_err", "look", "mark", "preempt", "read",
          "call"}

TypeOK ==
    /\ traffic \in Traffics
    /\ store \in [Sessions -> Metadata \cup {None}]
    /\ \A s \in Sessions : store[s] # None => store[s].session = s
    /\ active \in [ActorKeys -> Callers \cup {None}]
    /\ aborted \in [Callers -> SUBSET Sessions]
    /\ actors \in [Sessions -> SUBSET ActorKeys]
    /\ forgotten \subseteq Callers
    /\ pc \in [Callers -> Steps]
    /\ kind \in [Callers -> traffic.kinds \cup {None}]
    /\ req \in [Callers -> Bootstraps \cup {None}]
    /\ meta \in [Callers -> Metadata \cup {None}]
    /\ lock \in [Callers -> ActorKeys \cup {None}]
    /\ todo \in [Callers -> SUBSET [session : Sessions, key : ActorKeys]]
    /\ victim \in [Callers -> Sessions \cup {None}]
    /\ back \in [Callers -> {"idle", "ensure", "resolve", "read", "done"}]

InTurn(p) == pc[p] \in {"register", "subscribe", "run", "finish_ok", "finish_err"}
Running(p) == pc[p] \in {"subscribe", "run"}

\* Whoever names the same session or conversation names the same actor.  A
\* caller that always sends the same scope with a session sees to that, as
\* the channels do; nothing in the manager does, because the session key comes
\* from the session id alone and the binding from the optional channel scope
\* (derive_acp_conversation_route_for_address).
Coherent(bootstraps) ==
    \A a, b \in bootstraps :
        \/ a.session = b.session
        \/ a.conversation = b.conversation /\ a.conversation # None
        => ActorKey(a) = ActorKey(b)

\* Operations have taken up the session under two actor locks, which exclude
\* nobody.
Split(s) == \E j, k \in actors[s] : j # k

(* run_turn_with_sink: two turns on one session are in the backend together *)
(* only if the session has been used under two actor keys; with coherent    *)
(* requests it never is, also when it is reached through its conversation   *)
(* under another session key, evicted or closed and created again, or left  *)
(* by an earlier process.                                                   *)
TurnsSerial ==
    /\ \A p, q \in Callers :
          InTurn(p) /\ InTurn(q) /\ meta[p].session = meta[q].session =>
             p = q \/ Split(meta[p].session)
    /\ Coherent(traffic.bootstraps) => \A s \in Sessions : ~Split(s)

(* active_turns names a turn exactly while the turn runs: cancel never      *)
(* aborts the wrong turn and no entry outlives its turn to keep the session *)
(* from being evicted.  A running turn's entry can only be lost to a close  *)
(* that clears another actor's entry than the one it has locked, which      *)
(* never happens when the requests are coherent.                            *)
ActiveTracked ==
    /\ \A k \in ActorKeys, p \in Callers :
          active[k] = p <=> Running(p) /\ lock[p] = k /\ p \notin forgotten
    /\ Coherent(traffic.bootstraps) => forgotten = {}

(* A session does not stay Busy when nothing works on it any more: a stale  *)
(* copy never brings Busy back.  A Busy session is skipped by every sweep.  *)
(* Two things can leave one behind: the state was last written by an        *)
(* earlier process or by a separate ensure_session, or the session has been *)
(* used under two actor keys.                                               *)
NoStuckBusy ==
    \A s \in Sessions :
        store[s] # None /\ store[s].state = "Busy" =>
            \/ \E p \in Callers : kind[p] = "turn" /\ meta[p] # None /\ meta[p].session = s
            \/ store[s].outside
            \/ Split(s)

(* While a turn drains that was aborted through its session, the stored     *)
(* state says so: Cancelling (or Error when the backend's cancel failed),   *)
(* unless the canceller is just about to write it or the session was        *)
(* removed.  Only a separate ensure_session, or an operation under another  *)
(* actor key of the session, can write something else over it.              *)
DrainingVisible ==
    \A p \in Callers : pc[p] = "run" /\ meta[p].session \in aborted[p] =>
        LET s == meta[p].session
        IN  \/ store[s] = None
            \/ store[s].state \in {"Cancelling", "Error"}
            \/ \E q \in Callers : pc[q] = "mark" /\ meta[q].session = s
            \/ store[s].outside
            \/ Split(s)

-----------------------------------------------------------------------------
(* Callers are tasks of a runtime and backend calls end (they have          *)
(* timeouts), so every step but Call is weakly fair; the actor mutex is     *)
(* first-come first-served, hence strong fairness of Acquire.               *)
Fairness ==
    \A p \in Callers : WF_vars(Proceed(p)) /\ SF_vars(Acquire(p))

FairSpec == Spec /\ Fairness

(* close returns, also when it preempted a turn and others queue for the    *)
(* same actor: it never waits for a lock that nobody gives back.            *)
CloseReturns ==
    \A p \in Callers : kind[p] = "close" ~> kind[p] # "close"
=============================================================================
