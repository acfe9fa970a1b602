------------------------------ MODULE AcpActor ------------------------------
(***************************************************************************)
(* The per-actor lock registry of the ACP session manager:                 *)
(* crates/app/src/acp/manager_actor.rs.                                    *)
(*                                                                         *)
(* A session operation or a turn serialises on an actor key.  It counts    *)
(* itself in actor_ref_counts (a turn also in pending_turns), fetches or   *)
(* inserts the key's mutex, waits for it, works, and its guard's Drop      *)
(* undoes all of it, removing the mutex from the registry when nobody      *)
(* refers to the key any more.  Each of those maps has its own RwLock and  *)
(* the tasks run on a multi-threaded runtime, so every access to a map is  *)
(* a step of its own.  A task may be dropped while it waits; it then runs  *)
(* the Drop of PendingSessionActorRegistration, which leaves the registry  *)
(* entry in place.                                                         *)
(*                                                                         *)
(* tokio's mutex is external: a lock with a holder and waiters.            *)
(***************************************************************************)
EXTENDS Naturals, FiniteSets

CONSTANTS
    Tasks,       \* concurrent operations
    Keys,        \* actor keys
    TurnTasks,   \* the tasks that run a turn (count_pending_turn)
    Mutexes,     \* the heap's mutexes; enough when one per key and task
    None         \* no mutex, no holder

ASSUME TasksAssumption == IsFiniteSet(Tasks) /\ TurnTasks \subseteq Tasks
ASSUME NoneAssumption == None \notin Mutexes /\ None \notin Tasks

VARIABLES
    pc,                  \* where each task is
    key,                 \* the actor key it serialises on
    mutex,               \* the Arc<AsyncMutex> it cloned, or None
    session_actor_locks, \* registry: key -> mutex or None
    holder,              \* external: the task inside each mutex, or None
    actor_ref_counts,    \* key -> count; 0 stands for an absent entry
    pending_turns        \* likewise

vars == <<pc, key, mutex, session_actor_locks, holder,
          actor_ref_counts, pending_turns>>

Idle == "idle"

\* increment_registry_entry and decrement_registry_entry: an entry whose
\* count would fall to zero is removed, an absent one is left alone.
Increment(registry, k) == [registry EXCEPT ![k] = @ + 1]

\* Mutant: the entry is removed when two are left.
DecrementTooFar(registry, k) == [registry EXCEPT ![k] = IF @ <= 2 THEN 0 ELSE @ - 1]

Decrement(registry, k) == [registry EXCEPT ![k] = IF @ <= 1 THEN 0 ELSE @ - 1]

\* No Arc points to it: a new mutex may take its place.
Unreferenced(m) ==
    /\ \A t \in Tasks : mutex[t] # m
    /\ \A k \in Keys : session_actor_locks[k] # m

Goto(t, from, to) == pc[t] = from /\ pc' = [pc EXCEPT ![t] = to]

-----------------------------------------------------------------------------
Init ==
    /\ pc = [t \in Tasks |-> Idle]
    /\ key \in [Tasks -> Keys]
    /\ mutex = [t \in Tasks |-> None]
    /\ session_actor_locks = [k \in Keys |-> None]
    /\ holder = [m \in Mutexes |-> None]
    /\ actor_ref_counts = [k \in Keys |-> 0]
    /\ pending_turns = [k \in Keys |-> 0]

\* PendingSessionActorRegistration::new, first half.
RegisterRef(t) ==
    /\ \E k \in Keys :
          /\ key' = [key EXCEPT ![t] = k]
          /\ actor_ref_counts' = Increment(actor_ref_counts, k)
    /\ Goto(t, Idle, IF t \in TurnTasks THEN "register_pending" ELSE "get_lock")
    /\ UNCHANGED <<mutex, session_actor_locks, holder, pending_turns>>

\* ... second half, for a turn.
RegisterPending(t) ==
    /\ Goto(t, "register_pending", "get_lock")
    /\ pending_turns' = Increment(pending_turns, key[t])
    /\ UNCHANGED <<key, mutex, session_actor_locks, holder,
                   actor_ref_counts>>

\* get_or_insert_session_actor, under the registry's write lock.
GetOrInsert(t) ==
    LET k == key[t]
    IN  /\ Goto(t, "get_lock", "wait")
        /\ IF session_actor_locks[k] # None
           THEN /\ mutex' = [mutex EXCEPT ![t] = session_actor_locks[k]]
                /\ UNCHANGED session_actor_locks
           ELSE \E m \in Mutexes :
                /\ Unreferenced(m)
                /\ mutex' = [mutex EXCEPT ![t] = m]
                /\ session_actor_locks' = [session_actor_locks EXCEPT ![k] = m]
        /\ UNCHANGED <<key, holder, actor_ref_counts, pending_turns>>

\* lock_owned().await completes; disarm.
Lock(t) ==
    /\ Goto(t, "wait", "hold")
    /\ holder[mutex[t]] = None
    /\ holder' = [holder EXCEPT ![mutex[t]] = t]
    /\ UNCHANGED <<key, mutex, session_actor_locks,
                   actor_ref_counts, pending_turns>>

\* The waiting task is dropped: its registration is still armed.
DropWaiter(t) ==
    /\ Goto(t, "wait", IF t \in TurnTasks THEN "unregister_pending" ELSE "unregister_ref")
    /\ mutex' = [mutex EXCEPT ![t] = None]
    /\ UNCHANGED <<key, session_actor_locks, holder,
                   actor_ref_counts, pending_turns>>

\* Drop for PendingSessionActorRegistration.
UnregisterPending(t) ==
    /\ Goto(t, "unregister_pending", "unregister_ref")
    /\ pending_turns' = Decrement(pending_turns, key[t])
    /\ UNCHANGED <<key, mutex, session_actor_locks, holder,
                   actor_ref_counts>>

UnregisterRef(t) ==
    /\ Goto(t, "unregister_ref", Idle)
    /\ actor_ref_counts' = Decrement(actor_ref_counts, key[t])
    /\ UNCHANGED <<key, mutex, session_actor_locks, holder,
                   pending_turns>>

\* Mutant: the guard is dropped but the mutex stays taken.
UnlockForgotten(t) ==
    /\ Goto(t, "hold", IF t \in TurnTasks THEN "drop_pending" ELSE "drop_ref")
    /\ mutex' = [mutex EXCEPT ![t] = None]
    /\ UNCHANGED <<key, session_actor_locks, holder, actor_ref_counts,
                   pending_turns>>

\* Drop for SessionActorGuard, at the end of the work or when the task is
\* dropped in the middle of it: the mutex first ...
Unlock(t) ==
    /\ Goto(t, "hold", IF t \in TurnTasks THEN "drop_pending" ELSE "drop_ref")
    /\ holder' = [holder EXCEPT ![mutex[t]] = None]
    /\ mutex' = [mutex EXCEPT ![t] = None]
    /\ UNCHANGED <<key, session_actor_locks, actor_ref_counts,
                   pending_turns>>

DropPending(t) ==
    /\ Goto(t, "drop_pending", "drop_ref")
    /\ pending_turns' = Decrement(pending_turns, key[t])
    /\ UNCHANGED <<key, mutex, session_actor_locks, holder,
                   actor_ref_counts>>

\* Mutant: the wrong registry, without the floor at zero.
DropRefFromPending(t) ==
    /\ Goto(t, "drop_ref", "drop_lock")
    /\ pending_turns' = [pending_turns EXCEPT ![key[t]] = @ - 1]
    /\ UNCHANGED <<key, mutex, session_actor_locks, holder, actor_ref_counts>>

DropRef(t) ==
    /\ Goto(t, "drop_ref", "drop_lock")
    /\ actor_ref_counts' = Decrement(actor_ref_counts, key[t])
    /\ UNCHANGED <<key, mutex, session_actor_locks, holder,
                   pending_turns>>

\* Mutant: the entry is removed without looking at the reference count again.
DropLockBlindly(t) ==
    /\ Goto(t, "drop_lock", Idle)
    /\ session_actor_locks' = [session_actor_locks EXCEPT ![key[t]] = None]
    /\ UNCHANGED <<key, mutex, holder, actor_ref_counts, pending_turns>>

\* ... and last, under the registry's write lock, the emptiness check and the
\* removal in one step.
DropLock(t) ==
    /\ Goto(t, "drop_lock", Idle)
    /\ session_actor_locks' = [session_actor_locks EXCEPT ![key[t]] =
                                  IF actor_ref_counts[key[t]] = 0 THEN None ELSE @]
    /\ UNCHANGED <<key, mutex, holder, actor_ref_counts, pending_turns>>

Step(t) ==
    \/ RegisterRef(t)
    \/ RegisterPending(t)
    \/ GetOrInsert(t)
    \/ Lock(t)
    \/ DropWaiter(t)
    \/ UnregisterPending(t)
    \/ UnregisterRef(t)
    \/ Unlock(t)
    \/ DropPending(t)
    \/ DropRef(t)
    \/ DropLock(t)

Next == \E t \in Tasks : Step(t)

Spec == Init /\ [][Next]_vars

-----------------------------------------------------------------------------
(* Tasks that are counted in the two registries.                            *)
Counted == {"register_pending", "get_lock", "wait", "hold",
            "unregister_pending", "unregister_ref", "drop_pending", "drop_ref"}
PendingCounted == {"get_lock", "wait", "hold", "unregister_pending", "drop_pending"}

RefHolders(k) == {t \in Tasks : pc[t] \in Counted /\ key[t] = k}
PendingHolders(k) == {t \in TurnTasks : pc[t] \in PendingCounted /\ key[t] = k}

TypeOK ==
    /\ pc \in [Tasks -> Counted \cup {Idle, "drop_lock"}]
    /\ key \in [Tasks -> Keys]
    /\ mutex \in [Tasks -> Mutexes \cup {None}]
    /\ session_actor_locks \in [Keys -> Mutexes \cup {None}]
    /\ holder \in [Mutexes -> Tasks \cup {None}]
    /\ actor_ref_counts \in [Keys -> Nat]
    /\ pending_turns \in [Keys -> Nat]

(* Turns and session operations on one actor key never overlap, although    *)
(* the key's mutex may be removed from the registry and created anew        *)
(* between them.                                                            *)
ActorExclusive ==
    \A s, t \in Tasks :
        pc[s] = "hold" /\ pc[t] = "hold" /\ key[s] = key[t] => s = t

(* The registry never splits a lock: the mutex a task waits for or holds is *)
(* the one the next task on the same key will be given.  This is the case   *)
(* the comment in Drop for SessionActorGuard is about: "a new waiter cannot *)
(* clone the old mutex from a stale snapshot".                              *)
RegistryCurrent ==
    \A t \in Tasks :
        pc[t] \in {"wait", "hold"} =>
            mutex[t] # None /\ session_actor_locks[key[t]] = mutex[t]

(* The counts that get_status and the idle eviction rely on are exact: no   *)
(* order of completions, cancelled waits and new arrivals loses one.        *)
CountsExact ==
    \A k \in Keys :
        /\ actor_ref_counts[k] = Cardinality(RefHolders(k))
        /\ pending_turns[k] = Cardinality(PendingHolders(k))

-----------------------------------------------------------------------------
(* Every task runs (weak fairness of each step other than being started or  *)
(* dropped); tokio's mutex is first-come first-served, so a waiter that     *)
(* keeps finding the lock free gets it (strong fairness of Lock); a backend *)
(* call inside the lock ends.                                               *)
Fairness ==
    \A t \in Tasks :
        /\ WF_vars(RegisterPending(t) \/ GetOrInsert(t) \/ UnregisterPending(t)
                   \/ UnregisterRef(t) \/ Unlock(t) \/ DropPending(t)
                   \/ DropRef(t) \/ DropLock(t))
        /\ SF_vars(Lock(t))

FairSpec == Spec /\ Fairness

(* A queued operation is not forgotten when locks are handed over, removed  *)
(* and recreated: it gets the lock unless it is dropped.                    *)
WaiterServed ==
    \A t \in Tasks : pc[t] = "wait" ~> pc[t] # "wait"
=============================================================================
