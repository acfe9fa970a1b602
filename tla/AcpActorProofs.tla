--------------------------- MODULE AcpActorProofs ---------------------------
(***************************************************************************)
(* Proofs about the ACP actor-lock registry, for any number of tasks, keys *)
(* and mutexes.  Exclusion is not inductive by itself: it needs that the   *)
(* mutex of every waiter and holder is the registered one, which needs the *)
(* reference counts to be exact, because the registry entry is removed     *)
(* when a count is zero.                                                   *)
(***************************************************************************)
EXTENDS AcpActor, TLAPS, FiniteSetTheorems

\* A task inside the critical section is the holder of the mutex it cloned.
HolderInside == \A t \in Tasks : pc[t] = "hold" => holder[mutex[t]] = t

\* Only a turn goes through the pending-turn steps.
TurnsOnly ==
    \A t \in Tasks :
        pc[t] \in {"register_pending", "unregister_pending", "drop_pending"} =>
            t \in TurnTasks

IInv == TypeOK /\ TurnsOnly /\ CountsExact /\ RegistryCurrent /\ HolderInside

-----------------------------------------------------------------------------
\* Every step keeps the variables in their types.
LEMMA TypeStep == TypeOK /\ [Next]_vars => TypeOK'
  <1> SUFFICES ASSUME TypeOK, [Next]_vars PROVE TypeOK'
    OBVIOUS
  <1> USE DEF TypeOK, Goto, Idle, Counted
  <1>1. ASSUME NEW t \in Tasks, RegisterRef(t) PROVE TypeOK'
    BY <1>1 DEF RegisterRef, Increment
  <1>2. ASSUME NEW t \in Tasks, RegisterPending(t) PROVE TypeOK'
    BY <1>2 DEF RegisterPending, Increment
  <1>3. ASSUME NEW t \in Tasks, GetOrInsert(t) PROVE TypeOK'
    BY <1>3 DEF GetOrInsert
  <1>4. ASSUME NEW t \in Tasks, Lock(t) PROVE TypeOK'
    BY <1>4 DEF Lock
  <1>5. ASSUME NEW t \in Tasks, DropWaiter(t) PROVE TypeOK'
    BY <1>5 DEF DropWaiter
  <1>6. ASSUME NEW t \in Tasks, UnregisterPending(t) \/ UnregisterRef(t) PROVE TypeOK'
    BY <1>6 DEF UnregisterPending, UnregisterRef, Decrement
  <1>7. ASSUME NEW t \in Tasks, Unlock(t) PROVE TypeOK'
    BY <1>7 DEF Unlock
  <1>8. ASSUME NEW t \in Tasks, DropPending(t) \/ DropRef(t) PROVE TypeOK'
    BY <1>8 DEF DropPending, DropRef, Decrement
  <1>9. ASSUME NEW t \in Tasks, DropLock(t) PROVE TypeOK'
    BY <1>9 DEF DropLock
  <1>10. CASE UNCHANGED vars
    BY <1>10 DEF vars
  <1> QED BY <1>1, <1>2, <1>3, <1>4, <1>5, <1>6, <1>7, <1>8, <1>9, <1>10
          DEF Next, Step

-----------------------------------------------------------------------------
\* Counting.

\* The sets the counts are compared with are finite, so that they have a size.
LEMMA HoldersFinite ==
    \A k \in Keys : /\ IsFiniteSet(RefHolders(k))
                    /\ IsFiniteSet(PendingHolders(k))
  BY TasksAssumption, FS_Subset DEF RefHolders, PendingHolders

\* A registry whose count for k is the size of a set follows the set when a
\* new member comes ...
LEMMA CountUp ==
    ASSUME NEW reg \in [Keys -> Nat], NEW k \in Keys, NEW S, NEW t,
           IsFiniteSet(S), t \notin S, reg[k] = Cardinality(S)
    PROVE  Increment(reg, k)[k] = Cardinality(S \cup {t})
  BY FS_AddElement DEF Increment

\* ... and when a member goes.
LEMMA CountDown ==
    ASSUME NEW reg \in [Keys -> Nat], NEW k \in Keys, NEW S, NEW t,
           IsFiniteSet(S), t \in S, reg[k] = Cardinality(S)
    PROVE  Decrement(reg, k)[k] = Cardinality(S \ {t})
  <1>1. Cardinality(S \ {t}) = Cardinality(S) - 1
    BY FS_RemoveElement
  <1>2. IsFiniteSet(S \ {t})
    BY FS_RemoveElement
  <1>3. Cardinality(S \ {t}) \in Nat
    BY <1>2, FS_CardinalityType
  <1> QED BY <1>1, <1>3 DEF Decrement

\* The two halves of CountsExact.
RefsExact == \A k \in Keys : actor_ref_counts[k] = Cardinality(RefHolders(k))
PendingExact == \A k \in Keys : pending_turns[k] = Cardinality(PendingHolders(k))

\* A reference count goes up and down with the tasks it counts.
LEMMA RefsStep == TypeOK /\ RefsExact /\ [Next]_vars => RefsExact'
  <1> SUFFICES ASSUME TypeOK, RefsExact, [Next]_vars PROVE RefsExact'
    OBVIOUS
  <1> USE DEF TypeOK, Goto, Idle
  <1>1. ASSUME NEW t \in Tasks, RegisterRef(t) PROVE RefsExact'
    <2> SUFFICES ASSUME NEW k \in Keys
                 PROVE  actor_ref_counts'[k] = Cardinality(RefHolders(k)')
      BY DEF RefsExact
    <2>1. PICK j \in Keys : /\ key' = [key EXCEPT ![t] = j]
                            /\ actor_ref_counts' = Increment(actor_ref_counts, j)
      BY <1>1 DEF RegisterRef
    <2>2. t \notin RefHolders(k)
      BY <1>1 DEF RegisterRef, RefHolders, Counted
    <2>3. CASE k = j
      <3>1. RefHolders(k)' = RefHolders(k) \cup {t}
        BY <1>1, <2>1, <2>3 DEF RegisterRef, RefHolders, Counted
      <3> QED BY <2>1, <2>2, <2>3, <3>1, CountUp, HoldersFinite DEF RefsExact
    <2>4. CASE k # j
      <3>1. RefHolders(k)' = RefHolders(k)
        BY <1>1, <2>1, <2>4 DEF RegisterRef, RefHolders, Counted
      <3> QED BY <2>1, <2>4, <3>1 DEF RefsExact, Increment
    <2> QED BY <2>3, <2>4
  <1>2. ASSUME NEW t \in Tasks, UnregisterRef(t) \/ DropRef(t) PROVE RefsExact'
    <2> SUFFICES ASSUME NEW k \in Keys
                 PROVE  actor_ref_counts'[k] = Cardinality(RefHolders(k)')
      BY DEF RefsExact
    <2>1. /\ actor_ref_counts' = Decrement(actor_ref_counts, key[t])
          /\ key' = key
          /\ key[t] \in Keys
      BY <1>2 DEF UnregisterRef, DropRef
    <2>2. CASE k = key[t]
      <3>1. t \in RefHolders(k)
        BY <1>2, <2>2 DEF UnregisterRef, DropRef, RefHolders, Counted
      <3>2. RefHolders(k)' = RefHolders(k) \ {t}
        BY <1>2, <2>1, <2>2 DEF UnregisterRef, DropRef, RefHolders, Counted
      <3> QED BY <2>1, <2>2, <3>1, <3>2, CountDown, HoldersFinite DEF RefsExact
    <2>3. CASE k # key[t]
      <3>1. RefHolders(k)' = RefHolders(k)
        BY <1>2, <2>1, <2>3 DEF UnregisterRef, DropRef, RefHolders
      <3> QED BY <2>1, <2>3, <3>1 DEF RefsExact, Decrement
    <2> QED BY <2>2, <2>3
  <1>3. ASSUME NEW t \in Tasks,
               \/ RegisterPending(t) \/ GetOrInsert(t) \/ Lock(t) \/ DropWaiter(t)
               \/ UnregisterPending(t) \/ Unlock(t) \/ DropPending(t) \/ DropLock(t)
        PROVE  RefsExact'
    <2>1. /\ actor_ref_counts' = actor_ref_counts
          /\ key' = key
      BY <1>3 DEF RegisterPending, GetOrInsert, Lock, DropWaiter,
                  UnregisterPending, Unlock, DropPending, DropLock
    <2>2. \A k \in Keys : RefHolders(k)' = RefHolders(k)
      BY <1>3, <2>1 DEF RegisterPending, GetOrInsert, Lock, DropWaiter,
                  UnregisterPending, Unlock, DropPending, DropLock,
                  RefHolders, Counted
    <2> QED BY <2>1, <2>2 DEF RefsExact
  <1>4. CASE UNCHANGED vars
    BY <1>4 DEF vars, RefsExact, RefHolders
  <1> QED BY <1>1, <1>2, <1>3, <1>4 DEF Next, Step

\* So does the count of pending turns.
LEMMA PendingStep == TypeOK /\ TurnsOnly /\ PendingExact /\ [Next]_vars => PendingExact'
  <1> SUFFICES ASSUME TypeOK, TurnsOnly, PendingExact, [Next]_vars PROVE PendingExact'
    OBVIOUS
  <1> USE TasksAssumption DEF TypeOK, Goto, Idle
  <1>1. ASSUME NEW t \in Tasks, RegisterPending(t), t \in TurnTasks
        PROVE  PendingExact'
    <2> SUFFICES ASSUME NEW k \in Keys
                 PROVE  pending_turns'[k] = Cardinality(PendingHolders(k)')
      BY DEF PendingExact
    <2>1. /\ pending_turns' = Increment(pending_turns, key[t])
          /\ key' = key
          /\ key[t] \in Keys
      BY <1>1 DEF RegisterPending
    <2>2. t \notin PendingHolders(k)
      BY <1>1 DEF RegisterPending, PendingHolders, PendingCounted
    <2>3. CASE k = key[t]
      <3>1. PendingHolders(k)' = PendingHolders(k) \cup {t}
        BY <1>1, <2>1, <2>3 DEF RegisterPending, PendingHolders, PendingCounted
      <3>2. /\ pending_turns[k] = Cardinality(PendingHolders(k))
            /\ pending_turns \in [Keys -> Nat]
            /\ IsFiniteSet(PendingHolders(k))
        BY HoldersFinite DEF PendingExact
      <3>3. Increment(pending_turns, k)[k] = Cardinality(PendingHolders(k) \cup {t})
        BY <2>2, <3>2, CountUp
      <3> QED BY <2>1, <2>3, <3>1, <3>3
    <2>4. CASE k # key[t]
      <3>1. PendingHolders(k)' = PendingHolders(k)
        BY <1>1, <2>1, <2>4 DEF RegisterPending, PendingHolders
      <3> QED BY <2>1, <2>4, <3>1 DEF PendingExact, Increment
    <2> QED BY <2>3, <2>4
  <1>2. ASSUME NEW t \in Tasks, UnregisterPending(t) \/ DropPending(t), t \in TurnTasks
        PROVE  PendingExact'
    <2> SUFFICES ASSUME NEW k \in Keys
                 PROVE  pending_turns'[k] = Cardinality(PendingHolders(k)')
      BY DEF PendingExact
    <2>1. /\ pending_turns' = Decrement(pending_turns, key[t])
          /\ key' = key
          /\ key[t] \in Keys
      BY <1>2 DEF UnregisterPending, DropPending
    <2>2. CASE k = key[t]
      <3>1. t \in PendingHolders(k)
        BY <1>2, <2>2 DEF UnregisterPending, DropPending, PendingHolders, PendingCounted
      <3>2. PendingHolders(k)' = PendingHolders(k) \ {t}
        BY <1>2, <2>1, <2>2
        DEF UnregisterPending, DropPending, PendingHolders, PendingCounted
      <3> QED BY <2>1, <2>2, <3>1, <3>2, CountDown, HoldersFinite DEF PendingExact
    <2>3. CASE k # key[t]
      <3>1. PendingHolders(k)' = PendingHolders(k)
        BY <1>2, <2>1, <2>3 DEF UnregisterPending, DropPending, PendingHolders
      <3> QED BY <2>1, <2>3, <3>1 DEF PendingExact, Decrement
    <2> QED BY <2>2, <2>3
  <1>3. ASSUME NEW t \in Tasks, RegisterRef(t) PROVE PendingExact'
    <2>1. pending_turns' = pending_turns
      BY <1>3 DEF RegisterRef
    <2>2. \A k \in Keys : PendingHolders(k)' = PendingHolders(k)
      BY <1>3 DEF RegisterRef, PendingHolders, PendingCounted
    <2> QED BY <2>1, <2>2 DEF PendingExact
  <1>4. ASSUME NEW t \in Tasks,
               \/ GetOrInsert(t) \/ Lock(t) \/ DropWaiter(t)
               \/ UnregisterRef(t) \/ Unlock(t) \/ DropRef(t) \/ DropLock(t)
        PROVE  PendingExact'
    <2>1. /\ pending_turns' = pending_turns
          /\ key' = key
      BY <1>4 DEF GetOrInsert, Lock, DropWaiter, UnregisterRef, Unlock, DropRef, DropLock
    <2>2. \A k \in Keys : PendingHolders(k)' = PendingHolders(k)
      BY <1>4, <2>1 DEF GetOrInsert, Lock, DropWaiter, UnregisterRef, Unlock,
                        DropRef, DropLock, PendingHolders, PendingCounted
    <2> QED BY <2>1, <2>2 DEF PendingExact
  <1>5. CASE UNCHANGED vars
    BY <1>5 DEF vars, PendingExact, PendingHolders
  <1>6. ASSUME NEW t \in Tasks, RegisterPending(t) \/ UnregisterPending(t) \/ DropPending(t)
        PROVE  t \in TurnTasks
    BY <1>6 DEF TurnsOnly, RegisterPending, UnregisterPending, DropPending
  <1> QED BY <1>1, <1>2, <1>3, <1>4, <1>5, <1>6 DEF Next, Step

\* Only a turn ever gets to a step in which it is counted as pending.
LEMMA TurnsStep == TypeOK /\ TurnsOnly /\ [Next]_vars => TurnsOnly'
  <1> SUFFICES ASSUME TypeOK, TurnsOnly, [Next]_vars PROVE TurnsOnly'
    OBVIOUS
  <1> USE DEF TypeOK, TurnsOnly, Goto, Idle
  <1>1. ASSUME NEW t \in Tasks, Step(t) PROVE TurnsOnly'
    BY <1>1 DEF Step, RegisterRef, RegisterPending, GetOrInsert, Lock, DropWaiter,
                UnregisterPending, UnregisterRef, Unlock, DropPending, DropRef, DropLock
  <1>2. CASE UNCHANGED vars
    BY <1>2 DEF vars
  <1> QED BY <1>1, <1>2 DEF Next

-----------------------------------------------------------------------------
\* A task that waits or holds is counted, so its key's count is not zero.
LEMMA WaiterCounted ==
    ASSUME TypeOK, RefsExact, NEW t \in Tasks, pc[t] \in {"wait", "hold"}
    PROVE  actor_ref_counts[key[t]] # 0
  <1>1. t \in RefHolders(key[t])
    BY DEF RefHolders, Counted
  <1>2. key[t] \in Keys
    BY DEF TypeOK
  <1>3. IsFiniteSet(RefHolders(key[t]))
    BY <1>2, HoldersFinite
  <1>4. Cardinality(RefHolders(key[t])) # 0
    BY <1>1, <1>3, FS_EmptySet
  <1> QED BY <1>2, <1>4 DEF RefsExact

\* An entry is removed only when its count, which is exact, is zero.
LEMMA RegistryStep ==
    TypeOK /\ RefsExact /\ RegistryCurrent /\ [Next]_vars => RegistryCurrent'
  <1> SUFFICES ASSUME TypeOK, RefsExact, RegistryCurrent, [Next]_vars
               PROVE  RegistryCurrent'
    OBVIOUS
  <1> USE DEF TypeOK, RegistryCurrent, Goto, Idle
  <1>1. ASSUME NEW t \in Tasks, GetOrInsert(t) PROVE RegistryCurrent'
    <2>1. CASE session_actor_locks[key[t]] # None
      BY <1>1, <2>1 DEF GetOrInsert
    <2>2. CASE session_actor_locks[key[t]] = None
      \* Nobody waits for or holds a lock on this key: its mutex would be None.
      <3>1. PICK m \in Mutexes :
                /\ mutex' = [mutex EXCEPT ![t] = m]
                /\ session_actor_locks' = [session_actor_locks EXCEPT ![key[t]] = m]
        BY <1>1, <2>2 DEF GetOrInsert
      <3>2. key' = key /\ pc' = [pc EXCEPT ![t] = "wait"]
        BY <1>1 DEF GetOrInsert
      <3>3. m # None
        BY NoneAssumption
      <3> QED BY <2>2, <3>1, <3>2, <3>3
    <2> QED BY <2>1, <2>2
  <1>2. ASSUME NEW t \in Tasks, DropLock(t) PROVE RegistryCurrent'
    <2> SUFFICES ASSUME NEW s \in Tasks, pc'[s] \in {"wait", "hold"}
                 PROVE  mutex'[s] # None /\ session_actor_locks'[key'[s]] = mutex'[s]
      OBVIOUS
    <2>1. pc[s] \in {"wait", "hold"} /\ key' = key /\ mutex' = mutex
      BY <1>2 DEF DropLock
    <2>2. actor_ref_counts[key[s]] # 0
      BY <2>1, WaiterCounted
    <2> QED BY <1>2, <2>1, <2>2 DEF DropLock
  <1>3. ASSUME NEW t \in Tasks, RegisterRef(t) \/ RegisterPending(t)
        PROVE  RegistryCurrent'
    BY <1>3 DEF RegisterRef, RegisterPending
  <1>4. ASSUME NEW t \in Tasks, Lock(t) \/ DropWaiter(t) \/ Unlock(t)
        PROVE  RegistryCurrent'
    BY <1>4 DEF Lock, DropWaiter, Unlock
  <1>5. ASSUME NEW t \in Tasks,
               UnregisterPending(t) \/ UnregisterRef(t) \/ DropPending(t) \/ DropRef(t)
        PROVE  RegistryCurrent'
    BY <1>5 DEF UnregisterPending, UnregisterRef, DropPending, DropRef
  <1>6. CASE UNCHANGED vars
    BY <1>6 DEF vars
  <1> QED BY <1>1, <1>2, <1>3, <1>4, <1>5, <1>6 DEF Next, Step

\* A task that holds a mutex is between taking it and giving it back.
LEMMA HolderStep ==
    TypeOK /\ RegistryCurrent /\ HolderInside /\ [Next]_vars => HolderInside'
  <1> SUFFICES ASSUME TypeOK, RegistryCurrent, HolderInside, [Next]_vars
               PROVE  HolderInside'
    OBVIOUS
  <1> USE NoneAssumption DEF TypeOK, HolderInside, Goto, Idle
  <1>1. ASSUME NEW t \in Tasks, Lock(t) PROVE HolderInside'
    <2>1. mutex[t] \in Mutexes /\ mutex' = mutex
      BY <1>1 DEF Lock, RegistryCurrent
    <2> QED BY <1>1, <2>1 DEF Lock
  <1>2. ASSUME NEW t \in Tasks, Unlock(t) PROVE HolderInside'
    <2>1. mutex[t] \in Mutexes /\ holder[mutex[t]] = t
      BY <1>2 DEF Unlock, RegistryCurrent
    <2> QED BY <1>2, <2>1 DEF Unlock
  <1>3. ASSUME NEW t \in Tasks,
               \/ RegisterRef(t) \/ RegisterPending(t) \/ GetOrInsert(t)
               \/ DropWaiter(t) \/ UnregisterPending(t) \/ UnregisterRef(t)
               \/ DropPending(t) \/ DropRef(t) \/ DropLock(t)
        PROVE  HolderInside'
    BY <1>3 DEF RegisterRef, RegisterPending, GetOrInsert, DropWaiter,
                UnregisterPending, UnregisterRef, DropPending, DropRef, DropLock
  <1>4. CASE UNCHANGED vars
    BY <1>4 DEF vars
  <1> QED BY <1>1, <1>2, <1>3, <1>4 DEF Next, Step

-----------------------------------------------------------------------------
\* CountsExact, count by count.
LEMMA CountsParts == CountsExact <=> RefsExact /\ PendingExact
  BY DEF CountsExact, RefsExact, PendingExact

\* An empty manager satisfies the invariant.
LEMMA InitIInv == Init => IInv
  <1> SUFFICES ASSUME Init PROVE IInv
    OBVIOUS
  <1> USE DEF Init, Idle
  <1>1. TypeOK
    BY DEF TypeOK
  <1>2. \A k \in Keys : RefHolders(k) = {} /\ PendingHolders(k) = {}
    BY TasksAssumption DEF RefHolders, PendingHolders, Counted, PendingCounted
  <1>3. CountsExact
    BY <1>2, FS_EmptySet DEF CountsExact
  <1>4. RegistryCurrent /\ HolderInside /\ TurnsOnly
    BY DEF RegistryCurrent, HolderInside, TurnsOnly
  <1> QED BY <1>1, <1>3, <1>4 DEF IInv

\* Every step keeps the invariant.
LEMMA StepIInv == IInv /\ [Next]_vars => IInv'
  <1> SUFFICES ASSUME IInv, [Next]_vars PROVE IInv'
    OBVIOUS
  <1>1. TypeOK /\ TurnsOnly /\ RefsExact /\ PendingExact /\ RegistryCurrent /\ HolderInside
    BY CountsParts DEF IInv
  <1>2. TypeOK'
    BY <1>1, TypeStep
  <1>3. RefsExact' /\ PendingExact'
    BY <1>1, RefsStep, PendingStep
  <1>4. CountsExact'
    BY <1>3 DEF CountsExact, RefsExact, PendingExact
  <1>5. TurnsOnly' /\ RegistryCurrent' /\ HolderInside'
    BY <1>1, TurnsStep, RegistryStep, HolderStep
  <1> QED BY <1>2, <1>4, <1>5 DEF IInv

\* The invariant holds throughout.
LEMMA Inductive == Spec => []IInv
  BY InitIInv, StepIInv, PTL DEF Spec

(* The maps of the manager keep their types: no count goes below zero and   *)
(* no task leaves the steps of acquire, work and Drop.                      *)
THEOREM TypeCorrect == Spec => []TypeOK
  <1>1. IInv => TypeOK
    BY DEF IInv
  <1> QED BY <1>1, Inductive, PTL

(* actor_ref_counts and pending_turns are exact in every order of arrivals, *)
(* completions and dropped waits, for any number of tasks and keys.         *)
THEOREM CountsCorrect == Spec => []CountsExact
  <1>1. IInv => CountsExact
    BY DEF IInv
  <1> QED BY <1>1, Inductive, PTL

(* Drop for SessionActorGuard never removes the mutex of a key that has a   *)
(* waiter or a holder.                                                      *)
THEOREM RegistryCorrect == Spec => []RegistryCurrent
  <1>1. IInv => RegistryCurrent
    BY DEF IInv
  <1> QED BY <1>1, Inductive, PTL

(* Two operations on one actor key never overlap: both hold the registered  *)
(* mutex, and a mutex has one holder.                                       *)
THEOREM ExclusionCorrect == Spec => []ActorExclusive
  <1>1. IInv => ActorExclusive
    BY DEF IInv, ActorExclusive, RegistryCurrent, HolderInside
  <1> QED BY <1>1, Inductive, PTL
=============================================================================
