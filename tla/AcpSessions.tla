----------------------------- MODULE AcpSessions -----------------------------
(***************************************************************************)
(* The ACP session manager: crates/app/src/acp/manager.rs and              *)
(* manager_sessions.rs.                                                    *)
(*                                                                         *)
(* A fixed set of callers run the manager's operations concurrently.  The  *)
(* store, the active-turn registry and the actor locks have a lock each,   *)
(* and backend calls are awaited in the middle of an operation, so an      *)
(* operation is a sequence of steps over a metadata copy it took earlier.  *)
(* A backend call ends in the step that handles its answer.                *)
(*                                                                         *)
(* Kept of a session's metadata: the fields that decide its actor key, its *)
(* state, and whether it has been idle for longer than the TTL.  One ACP   *)
(* backend is configured, so the backend-mismatch error cannot occur.  The *)
(* store is the SQLite file of runtime.rs: it starts with what an earlier  *)
(* process left there.                                                     *)
(*                                                                         *)
(* Three pieces of history, which no step reads, say how a state came      *)
(* about: the field outside of a record, and the variables actors and      *)
(* forgotten.                                                              *)
(*                                                                         *)
(* The actor lock is used here at the level AcpActor establishes: one      *)
(* holder per key (ActorExclusive), counts that are exact (CountsExact).   *)
(***************************************************************************)
EXTENDS Naturals, FiniteSets

CONSTANTS
    Callers,        \* concurrent callers of the manager
    Traffics,       \* what callers may send: [bootstraps, kinds, width, left],
                    \* where a bootstrap is a [session, conversation, binding],
                    \* width bounds the operations in flight, and left are the
                    \* states an earlier process can have left in the store
    StatusStates,   \* what the backend reports of a session with no turn
    MaxSessions,    \* config.acp.max_concurrent_sessions()
    BindingsEnabled,\* config.acp.bindings_enabled
    None            \* no conversation, no binding, no metadata, no turn

AllKinds == {"turn", "ensure", "cancel", "close", "status", "control", "snapshot"}
States == {"Initializing", "Ready", "Busy", "Cancelling", "Error", "Closed"}

ASSUME TrafficAssumption ==
    \A t \in Traffics :
        t.kinds \subseteq AllKinds /\ t.width \in Nat /\ t.left \subseteq States
ASSUME StatusAssumption == StatusStates \subseteq States
ASSUME LimitAssumption == MaxSessions \in Nat \ {0} /\ BindingsEnabled \in BOOLEAN
Bootstraps == UNION {t.bootstraps : t \in Traffics}

Sessions == {b.session : b \in Bootstraps}
Conversations == {b.conversation : b \in Bootstraps} \cup {None}
Bindings == {b.binding : b \in Bootstraps} \cup {None}

\* outside: the state was last written by an earlier process or by an
\* ensure_session that is not part of a turn, which has no actor lock.
Metadata == [session : Sessions, conversation : Conversations, binding : Bindings,
             state : States, idle : BOOLEAN, outside : BOOLEAN]

\* into_metadata: the record of a session made for the bootstrap b.
Made(b, state, outside) ==
    [session |-> b.session, conversation |-> b.conversation, binding |-> b.binding,
     state |-> state, idle |-> FALSE, outside |-> outside]

\* session_actor_key, of a bootstrap or of metadata.
ActorKey(r) ==
    IF r.binding # None THEN <<"route", r.binding>>
    ELSE IF r.conversation # None THEN <<"conversation", r.conversation>>
    ELSE <<"session", r.session>>

ActorKeys == {"route"} \X Bindings \cup {"conversation"} \X Conversations
             \cup {"session"} \X Sessions

ASSUME NoneAssumption == None \notin Callers \cup ActorKeys \cup Metadata \cup AllKinds

VARIABLES
    traffic,  \* the traffic of this history, one of Traffics
    store,    \* session key -> metadata or None
    active,   \* active_turns: actor key -> the caller whose turn it is, or None
    aborted,  \* the sessions through which each caller's turn was aborted: its
              \* abort flag is set when there is one
    actors,   \* session -> the actor keys under whose lock an operation has
              \* taken it up (history)
    forgotten,\* callers whose turn a close with another actor's lock has
              \* removed from active_turns (history)
    pc,       \* where each caller is
    kind,     \* the operation it runs, or None
    req,      \* its bootstrap (of a session operation, the session), or None
    meta,     \* its copy of the metadata, or None
    lock,     \* the actor key it queues for or holds, or None
    todo,     \* idle sessions its sweep has yet to look at, with actor keys
    victim,   \* the session its sweep is closing, or None
    back      \* where it goes after the sweep

vars == <<traffic, store, active, aborted, actors, forgotten, pc, kind, req, meta, lock,
          todo, victim, back>>
local == <<kind, req, lock>>
turns == <<active, aborted, forgotten>>

-----------------------------------------------------------------------------
\* The actor lock, its reference count and its pending-turn count.
Holds(p, k) == lock[p] = k /\ pc[p] # "wait"
ActorRefCount(k) == Cardinality({p \in Callers : lock[p] = k})
PendingTurns(k) == Cardinality({p \in Callers : lock[p] = k /\ kind[p] = "turn"})

\* Mutant: a state the enum does not have.
TouchedUnknown(m, state) ==
    [m EXCEPT !.state = "Aborting", !.idle = FALSE, !.outside = FALSE]

\* The state assignment, touch and clear_error or set_error before an upsert.
Touched(m, state) == [m EXCEPT !.state = state, !.idle = FALSE, !.outside = FALSE]

Upsert(m) == store' = [store EXCEPT ![m.session] = m]

\* p takes up the session s; a separate ensure_session has no lock.
TakesUp(p, s) == actors' = [actors EXCEPT ![s] = @ \cup ({lock[p]} \ {None})]

Goto(p, from, to) == pc[p] = from /\ pc' = [pc EXCEPT ![p] = to]

\* The operation returns; its guard, if it has one, is dropped.
Return(p) ==
    /\ pc' = [pc EXCEPT ![p] = "idle"]
    /\ meta' = [meta EXCEPT ![p] = None]
    /\ lock' = [lock EXCEPT ![p] = None]
    /\ kind' = [kind EXCEPT ![p] = None]
    /\ req' = [req EXCEPT ![p] = None]
    /\ back' = [back EXCEPT ![p] = "idle"]

\* cleanup_idle_sessions is called, and then the caller continues at dest.
Sweep(p, dest) ==
    /\ pc' = [pc EXCEPT ![p] = "list"]
    /\ back' = [back EXCEPT ![p] = dest]

\* The store holds some sessions of an earlier process, which may have ended
\* in the middle of a turn (Age makes any of them idle).
Init ==
    /\ traffic \in Traffics
    /\ store \in [Sessions -> {None} \cup
                      UNION {{Made(b, state, TRUE) : state \in traffic.left} :
                                b \in traffic.bootstraps}]
    /\ \A s \in Sessions : store[s] # None => store[s].session = s
    /\ active = [k \in ActorKeys |-> None]
    /\ aborted = [p \in Callers |-> {}]
    /\ actors = [s \in Sessions |-> {}]
    /\ forgotten = {}
    /\ pc = [p \in Callers |-> "idle"]
    /\ kind = [p \in Callers |-> None]
    /\ req = [p \in Callers |-> None]
    /\ meta = [p \in Callers |-> None]
    /\ lock = [p \in Callers |-> None]
    /\ todo = [p \in Callers |-> {}]
    /\ victim = [p \in Callers |-> None]
    /\ back = [p \in Callers |-> "idle"]

\* Time passes: the session's last activity is now longer ago than the TTL.
Age(s) ==
    /\ store[s] # None
    /\ store' = [store EXCEPT ![s].idle = TRUE]
    /\ UNCHANGED <<traffic, actors, turns, pc, meta, todo, victim, back, local>>

-----------------------------------------------------------------------------
(* Entry points.                                                            *)

\* run_turn_with_sink: queue for the bootstrap's actor.
CallTurn(p, b) ==
    /\ kind' = [kind EXCEPT ![p] = "turn"]
    /\ lock' = [lock EXCEPT ![p] = ActorKey(b)]
    /\ Goto(p, "idle", "wait")
    /\ UNCHANGED <<meta, back>>

\* ensure_session and observability_snapshot sweep without an actor lock.
CallUnlocked(p, k, dest) ==
    /\ kind' = [kind EXCEPT ![p] = k]
    /\ pc[p] = "idle"
    /\ Sweep(p, dest)
    /\ UNCHANGED <<meta, lock>>

\* cancel and close: read the registered metadata, then look for a turn.
CallInterrupt(p, k, s) ==
    /\ kind' = [kind EXCEPT ![p] = k]
    /\ store[s] # None
    /\ meta' = [meta EXCEPT ![p] = store[s]]
    /\ Goto(p, "idle", "look")
    /\ UNCHANGED <<lock, back>>

\* set_mode and set_config_option queue for the registered metadata's actor;
\* get_status does so unless a turn is active or pending, when it answers
\* from the metadata and changes nothing.
CallControl(p, k, s) ==
    /\ kind' = [kind EXCEPT ![p] = k]
    /\ store[s] # None
    /\ k = "status" => /\ active[ActorKey(store[s])] = None
                       /\ PendingTurns(ActorKey(store[s])) = 0
    /\ lock' = [lock EXCEPT ![p] = ActorKey(store[s])]
    /\ Goto(p, "idle", "wait")
    /\ UNCHANGED <<meta, back>>

Call(p) ==
    /\ Cardinality({q \in Callers : pc[q] # "idle"}) < traffic.width
    /\ \E b \in traffic.bootstraps, k \in traffic.kinds :
          /\ req' = [req EXCEPT ![p] = b]
          /\ CASE k = "turn" -> CallTurn(p, b)
               [] k = "ensure" -> CallUnlocked(p, k, "resolve")
               [] k = "snapshot" -> CallUnlocked(p, k, "done")
               [] k \in {"cancel", "close"} -> CallInterrupt(p, k, b.session)
               [] k \in {"status", "control"} -> CallControl(p, k, b.session)
    /\ UNCHANGED <<traffic, store, actors, turns, todo, victim>>

\* Mutant: the queue guard is granted at once.
AcquireAtOnce(p) ==
    /\ pc[p] = "wait"
    /\ Sweep(p, IF kind[p] = "turn" THEN "ensure" ELSE "read")
    /\ UNCHANGED <<traffic, store, actors, turns, meta, todo, victim, local>>

\* acquire_turn_queue_guard, acquire_session_actor_guard; every operation
\* sweeps next.
Acquire(p) ==
    /\ pc[p] = "wait"
    /\ \A q \in Callers : ~Holds(q, lock[p])
    /\ Sweep(p, IF kind[p] = "turn" THEN "ensure" ELSE "read")
    /\ UNCHANGED <<traffic, store, actors, turns, meta, todo, victim, local>>

-----------------------------------------------------------------------------
(* cleanup_idle_sessions.                                                   *)

\* store.list: the snapshot decides state and idleness for the whole sweep.
List(p) ==
    /\ Goto(p, "list", "sweep")
    /\ todo' = [todo EXCEPT ![p] =
          {[session |-> s, key |-> ActorKey(store[s])] :
             s \in {s \in Sessions :
                      /\ store[s] # None
                      /\ store[s].state \notin {"Busy", "Cancelling", "Initializing"}
                      /\ store[s].idle}}]
    /\ UNCHANGED <<traffic, store, actors, turns, meta, victim, back, local>>

\* The counts and the active turn are read one after the other; a turn is in
\* actor_ref_counts while it is in either of the others, so one look is the
\* same.  A spared session is passed over, any other is closed at the backend.
Pick(p) ==
    \E v \in todo[p] :
        /\ todo' = [todo EXCEPT ![p] = @ \ {v}]
        /\ IF ActorRefCount(v.key) = 0 /\ active[v.key] = None
           THEN Goto(p, "sweep", "evict") /\ victim' = [victim EXCEPT ![p] = v.session]
           ELSE Goto(p, "sweep", "sweep") /\ UNCHANGED victim
        /\ UNCHANGED <<traffic, store, actors, turns, meta, back, local>>

\* backend.close answers: on success the session is removed, whatever has
\* happened to it since.
Evict(p) ==
    /\ Goto(p, "evict", "sweep")
    /\ \/ store' = [store EXCEPT ![victim[p]] = None]
       \/ UNCHANGED store
    /\ victim' = [victim EXCEPT ![p] = None]
    /\ UNCHANGED <<traffic, actors, turns, meta, todo, back, local>>

\* The sweep is over.  ensure_session, called by a turn, sweeps again.
Swept(p) ==
    /\ pc[p] = "sweep" /\ todo[p] = {}
    /\ CASE back[p] = "ensure" -> Sweep(p, "resolve") /\ UNCHANGED <<meta, local>>
         [] back[p] = "done" -> Return(p)
         [] OTHER -> Goto(p, "sweep", back[p]) /\ UNCHANGED <<meta, back, local>>
    /\ UNCHANGED <<traffic, store, actors, turns, todo, victim>>

-----------------------------------------------------------------------------
(* ensure_session after its sweep, for a turn or on its own.                *)

\* resolve_existing_session looks for a session by its key, then by the route,
\* then by the conversation: what the store says to the lookup p is at.
Existing(p) ==
    LET b == req[p]
        tracked == {s \in Sessions : store[s] # None}
    IN  CASE pc[p] = "resolve" -> {b.session} \cap tracked
          [] pc[p] = "by_route" -> {s \in tracked : store[s].binding = b.binding}
          [] pc[p] = "by_conversation" ->
                {s \in tracked : store[s].conversation = b.conversation}

\* The next lookup that applies, or the check of the limit.
NextLookup(p) ==
    IF pc[p] = "resolve" /\ BindingsEnabled /\ req[p].binding # None THEN "by_route"
    ELSE IF /\ pc[p] \in {"resolve", "by_route"}
            /\ BindingsEnabled /\ req[p].conversation # None THEN "by_conversation"
    ELSE "limit"

\* validate_and_touch_existing_session: the copy to be written, or None when
\* the session is bound to another route.
Validated(m, b, outside) ==
    LET binding == IF m.binding = None THEN b.binding ELSE m.binding
    IN  IF b.binding # None /\ binding # b.binding THEN None
        ELSE [m EXCEPT !.binding = binding,
                       !.idle = FALSE,
                       !.outside = outside,
                       !.conversation =
                          IF b.conversation = None \/ (binding # None /\ @ # None)
                          THEN @ ELSE b.conversation]

Lookup(p) ==
    /\ pc[p] \in {"resolve", "by_route", "by_conversation"}
    /\ \/ \E s \in Existing(p) :
             LET m == Validated(store[s], req[p], kind[p] # "turn")
             IN  IF m = None THEN Return(p) /\ UNCHANGED actors
                 ELSE /\ pc' = [pc EXCEPT ![p] = "touch"]
                      /\ meta' = [meta EXCEPT ![p] = m]
                      /\ TakesUp(p, s)
                      /\ UNCHANGED <<back, local>>
       \/ /\ Existing(p) = {}
          /\ pc' = [pc EXCEPT ![p] = NextLookup(p)]
          /\ UNCHANGED <<actors, meta, back, local>>
    /\ UNCHANGED <<traffic, store, turns, todo, victim>>

\* enforce_max_concurrent_sessions: a session that is there by now may be
\* written again; otherwise the sessions are counted.
Limit(p) ==
    /\ Goto(p, "limit", IF store[req[p].session] # None THEN "create" ELSE "count")
    /\ UNCHANGED <<traffic, store, actors, turns, meta, todo, victim, back, local>>

UnderLimit == Cardinality({s \in Sessions : store[s] # None}) < MaxSessions

Count(p) ==
    /\ pc[p] = "count"
    /\ IF UnderLimit THEN Goto(p, "count", "create") /\ UNCHANGED <<meta, back, local>>
       ELSE Return(p)
    /\ UNCHANGED <<traffic, store, actors, turns, todo, victim>>

Ensured(p, m) ==
    IF kind[p] = "turn"
    THEN /\ pc' = [pc EXCEPT ![p] = "start"]
         /\ meta' = [meta EXCEPT ![p] = m]
         /\ UNCHANGED <<back, local>>
    ELSE Return(p)

\* The upsert at the end of validate_and_touch_existing_session.
Touch(p) ==
    /\ pc[p] = "touch"
    /\ Upsert(meta[p])
    /\ Ensured(p, meta[p])
    /\ UNCHANGED <<traffic, actors, turns, todo, victim>>

\* backend.ensure_session answers.
Create(p) ==
    LET m == Made(req[p], "Ready", kind[p] # "turn")
    IN  /\ pc[p] = "create"
        /\ \/ Upsert(m) /\ TakesUp(p, m.session) /\ Ensured(p, m)
           \/ UNCHANGED <<store, actors>> /\ Return(p)
        /\ UNCHANGED <<traffic, turns, todo, victim>>

-----------------------------------------------------------------------------
(* The turn itself.                                                         *)

Start(p) ==
    /\ Goto(p, "start", "register")
    /\ meta' = [meta EXCEPT ![p] = Touched(@, "Busy")]
    /\ Upsert(meta'[p])
    /\ UNCHANGED <<traffic, actors, turns, todo, victim, back, local>>

\* register_active_turn, with a new AcpAbortController.
Register(p) ==
    /\ Goto(p, "register", "subscribe")
    /\ active' = [active EXCEPT ![lock[p]] = p]
    /\ UNCHANGED <<traffic, store, aborted, actors, forgotten, meta, todo, victim, back,
                   local>>

\* abort_controller.signal(), and the backend runs the turn.
Subscribe(p) ==
    /\ Goto(p, "subscribe", "run")
    /\ UNCHANGED <<traffic, store, actors, turns, meta, todo, victim, back, local>>

\* Mutant: a failed turn leaves its entry behind.
TurnEndsUncleared(p) ==
    /\ pc[p] = "run"
    /\ \E answer \in {"finish_ok", "finish_err"} :
          /\ pc' = [pc EXCEPT ![p] = answer]
          /\ active' = IF answer = "finish_ok" THEN [active EXCEPT ![lock[p]] = None]
                       ELSE active
    /\ UNCHANGED <<traffic, store, aborted, actors, forgotten, meta, todo, victim, back,
                   local>>

\* The backend answers; clear_active_turn comes first.
TurnEnds(p) ==
    /\ pc[p] = "run"
    /\ \E answer \in {"finish_ok", "finish_err"} : pc' = [pc EXCEPT ![p] = answer]
    /\ active' = [active EXCEPT ![lock[p]] = None]
    /\ aborted' = [aborted EXCEPT ![p] = {}]
    /\ forgotten' = forgotten \ {p}
    /\ UNCHANGED <<traffic, store, actors, meta, todo, victim, back, local>>

\* Mutant: a failed turn returns before it records its state.
FinishOnlyOk(p) ==
    /\ pc[p] \in {"finish_ok", "finish_err"}
    /\ IF pc[p] = "finish_ok" THEN Upsert(Touched(meta[p], "Ready")) ELSE UNCHANGED store
    /\ Return(p)
    /\ UNCHANGED <<traffic, actors, turns, todo, victim>>

\* Mutant: the guard outlives the turn.
FinishKeepsLock(p) ==
    /\ pc[p] \in {"finish_ok", "finish_err"}
    /\ Upsert(Touched(meta[p], IF pc[p] = "finish_ok" THEN "Ready" ELSE "Error"))
    /\ pc' = [pc EXCEPT ![p] = "leaked"]
    /\ UNCHANGED <<traffic, actors, turns, meta, todo, victim, back, local>>

\* The final upsert: the result's state, which is Ready for the acpx backend,
\* or Error.
Finish(p) ==
    /\ pc[p] \in {"finish_ok", "finish_err"}
    /\ Upsert(Touched(meta[p], IF pc[p] = "finish_ok" THEN "Ready" ELSE "Error"))
    /\ Return(p)
    /\ UNCHANGED <<traffic, actors, turns, todo, victim>>

-----------------------------------------------------------------------------
(* cancel and close of a session with an active turn.                       *)

\* With an active turn, abort() its controller: a watch channel with no
\* receiver drops the value, so the flag is set only once the turn has
\* subscribed and not yet ended.  Without one, queue for the actor.
Look(p) ==
    LET turn == active[ActorKey(meta[p])]
    IN  /\ pc[p] = "look"
        /\ IF turn # None
           THEN /\ Goto(p, "look", "mark")
                /\ IF pc[turn] = "run"
                   THEN aborted' = [aborted EXCEPT ![turn] = @ \cup {meta[p].session}]
                   ELSE UNCHANGED aborted
                /\ UNCHANGED <<meta, lock>>
           ELSE /\ Goto(p, "look", "wait")
                /\ lock' = [lock EXCEPT ![p] = ActorKey(meta[p])]
                /\ meta' = [meta EXCEPT ![p] = None]
                /\ UNCHANGED aborted
        /\ UNCHANGED <<traffic, store, active, actors, forgotten, todo, victim, back, kind,
                       req>>

\* Mutant: the session is left as it is until the backend answers.
MarkLater(p) ==
    /\ Goto(p, "mark", "preempt")
    /\ meta' = [meta EXCEPT ![p] = Touched(@, "Cancelling")]
    /\ UNCHANGED <<traffic, store, actors, turns, todo, victim, back, local>>

Mark(p) ==
    /\ Goto(p, "mark", "preempt")
    /\ meta' = [meta EXCEPT ![p] = Touched(@, "Cancelling")]
    /\ Upsert(meta'[p])
    /\ UNCHANGED <<traffic, actors, turns, todo, victim, back, local>>

\* backend.cancel answers.  close goes on to queue for the actor.
Preempt(p) ==
    /\ pc[p] = "preempt"
    /\ \/ Upsert(Touched(meta[p], "Error")) /\ Return(p)
       \/ /\ UNCHANGED store
          /\ IF kind[p] = "close"
             THEN /\ Goto(p, "preempt", "wait")
                  /\ lock' = [lock EXCEPT ![p] = ActorKey(meta[p])]
                  /\ meta' = [meta EXCEPT ![p] = None]
                  /\ UNCHANGED <<back, kind, req>>
             ELSE Return(p)
    /\ UNCHANGED <<traffic, actors, turns, todo, victim>>

-----------------------------------------------------------------------------
(* The operations that hold the actor lock and call the backend once.       *)

\* The second store.get, after the sweep; get_status looks for turns again.
Read(p) ==
    LET m == store[req[p].session]
    IN  /\ pc[p] = "read"
        /\ IF \/ m = None
              \/ /\ kind[p] = "status"
                 /\ active[ActorKey(m)] # None \/ PendingTurns(ActorKey(m)) > 0
           THEN Return(p) /\ UNCHANGED actors
           ELSE /\ Goto(p, "read", "call")
                /\ meta' = [meta EXCEPT ![p] = m]
                /\ TakesUp(p, m.session)
                /\ UNCHANGED <<back, local>>
        /\ UNCHANGED <<traffic, store, turns, todo, victim>>

\* The backend answers.  It may have nothing to say of a session's status.
AnswerStatus(p) ==
    /\ kind[p] = "status"
    /\ \/ \E state \in StatusStates \cup {"Error"} : Upsert(Touched(meta[p], state))
       \/ UNCHANGED store
    /\ UNCHANGED <<active, forgotten>>

\* set_mode and set_config_option keep the state the session had.
AnswerControl(p) ==
    /\ kind[p] = "control"
    /\ Upsert([meta[p] EXCEPT !.idle = FALSE]) \/ Upsert(Touched(meta[p], "Error"))
    /\ UNCHANGED <<active, forgotten>>

AnswerCancel(p) ==
    /\ kind[p] = "cancel"
    /\ \E state \in {"Cancelling", "Error"} : Upsert(Touched(meta[p], state))
    /\ UNCHANGED <<active, forgotten>>

\* A failed close changes nothing.  The entry that is cleared is that of the
\* metadata read last, which may have another actor key than the lock.
AnswerClose(p) ==
    LET k == ActorKey(meta[p])
    IN  /\ kind[p] = "close"
        /\ \/ /\ store' = [store EXCEPT ![req[p].session] = None]
              /\ active' = [active EXCEPT ![k] = None]
              /\ forgotten' = IF lock[p] = k THEN forgotten
                              ELSE forgotten \cup ({active[k]} \ {None})
           \/ UNCHANGED <<store, active, forgotten>>

Answer(p) ==
    /\ pc[p] = "call"
    /\ AnswerStatus(p) \/ AnswerControl(p) \/ AnswerCancel(p) \/ AnswerClose(p)
    /\ Return(p)
    /\ UNCHANGED <<traffic, aborted, actors, todo, victim>>

-----------------------------------------------------------------------------
\* What an operation does by itself once it is called, other than waiting for
\* the actor lock.
Proceed(p) ==
    \/ List(p) \/ Pick(p) \/ Evict(p) \/ Swept(p)
    \/ Lookup(p) \/ Limit(p) \/ Count(p) \/ Touch(p) \/ Create(p)
    \/ Start(p) \/ Register(p) \/ Subscribe(p) \/ TurnEnds(p) \/ Finish(p)
    \/ Look(p) \/ Mark(p) \/ Preempt(p)
    \/ Read(p) \/ Answer(p)

Next ==
    \/ \E p \in Callers : Call(p) \/ Acquire(p) \/ Proceed(p)
    \/ \E s \in Sessions : Age(s)

Spec == Init /\ [][Next]_vars
=============================================================================
