-------------------------- MODULE WorkUnitsProofs --------------------------
(***************************************************************************)
(* Proofs about the work-unit queue, for every set of units, owners, times *)
(* and every retry policy: the columns keep their types, the lease columns *)
(* stay coherent, the retry budget is kept, the dependency graph stays     *)
(* acyclic, and the queue implements WorkLease.                            *)
(***************************************************************************)
EXTENDS WorkUnitsProps, TLAPS

\* The saturating sum is a time.
LEMMA AddDelayType ==
    ASSUME NEW base \in Int, NEW delay \in Int
    PROVE  AddDelay(base, delay) \in Int
  BY TimesAssumption DEF AddDelay

\* The status a completion leaves is one of the four a lease may end in.
LEMMA CompletionStatus ==
    ASSUME NEW u, NEW d \in Dispositions, NEW now, NEW next
    PROVE  Completion(u, d, now, next).status \in Dispositions
  BY DEF Completion, Dispositions

\* The status a recovery leaves is one of two.
LEMMA RecoveryStatus ==
    ASSUME NEW u, NEW now
    PROVE  Recovery(u, now).status \in {"failed_terminal", "retry_pending"}
  BY DEF Recovery

-----------------------------------------------------------------------------
\* Types.

\* An empty table is in its type.
LEMMA TypeInit == Init => TypeOK
  BY DEF Init, TypeOK, Statuses

\* Every transaction keeps the rows in their types.
LEMMA TypeStep == TypeOK /\ [Next]_vars => TypeOK'
  <1> SUFFICES ASSUME TypeOK, [Next]_vars PROVE TypeOK'
    OBVIOUS
  <1> USE DEF TypeOK
  <1>1. ASSUME NEW u \in Units, NEW now \in Times, NEW st \in StartStatuses,
               NEW rk \in Ranks, NEW next \in Times,
               create_work_unit(u, st, rk, next, now)
        PROVE  TypeOK'
    BY <1>1, InputsAssumption, RanksAssumption, TimesAssumption
    DEF create_work_unit, leaseVars, Statuses
  <1>2. ASSUME NEW u \in Units, NEW now \in Times, NEW o \in Owners,
               NEW ttl \in Ttls, acquire_next_ready_lease(u, o, ttl, now)
        PROVE  TypeOK'
    <2>1. AddDelay(now, ttl) \in Int
      BY AddDelayType, TimesAssumption, TtlsAssumption
    <2> QED BY <1>2, <2>1, TimesAssumption
            DEF acquire_next_ready_lease, Statuses, Active
  <1>3. ASSUME NEW u \in Units, NEW now \in Times, NEW o \in Owners,
               mark_leased_running(u, o, now)
        PROVE  TypeOK'
    BY <1>3, TimesAssumption DEF mark_leased_running, leaseVars, Statuses, Active
  <1>4. ASSUME NEW u \in Units, NEW now \in Times, NEW o \in Owners,
               NEW ttl \in Ttls, heartbeat_lease(u, o, ttl, now)
        PROVE  TypeOK'
    <2>1. AddDelay(now, ttl) \in Int
      BY AddDelayType, TimesAssumption, TtlsAssumption
    <2> QED BY <1>4, <2>1, TimesAssumption DEF heartbeat_lease
  <1>5. ASSUME NEW u \in Units, NEW now \in Times, NEW o \in Owners,
               NEW d \in Dispositions, NEW next \in Times \cup {NULL},
               complete_work_unit(u, o, d, now, next)
        PROVE  TypeOK'
    <2>1. Completion(u, d, now, next).status \in Statuses
      BY CompletionStatus DEF Dispositions, Statuses, Terminal, Unleased
    <2> QED BY <1>5, <2>1, TimesAssumption DEF complete_work_unit, ClearLease
  <1>6. ASSUME NEW now \in Times, recover_expired_leases(now)
        PROVE  TypeOK'
    <2>1. \A u \in Units : Recovery(u, now).status \in Statuses
      BY RecoveryStatus DEF Statuses, Terminal, Unleased
    <2> QED BY <1>6, <2>1, TimesAssumption DEF recover_expired_leases, ClearLease
  <1>7. ASSUME NEW u \in Units, NEW now \in Times, archive_work_unit(u, now)
        PROVE  TypeOK'
    BY <1>7, TimesAssumption DEF archive_work_unit, leaseVars, Statuses, Terminal
  <1>8. ASSUME NEW u \in Units, NEW now \in Times,
               NEW st \in EditStatuses \cup {NULL}, NEW rk \in Ranks \cup {rank[u]},
               NEW next \in Times \cup {next_run[u]},
               update_work_unit(u, st, rk, next, now)
        PROVE  TypeOK'
    BY <1>8, InputsAssumption, RanksAssumption, TimesAssumption
    DEF update_work_unit, leaseVars, Statuses, Terminal
  <1>9. ASSUME NEW u \in Units, NEW now \in Times,
               assign_work_unit(u, now) \/ append_note(u, now)
        PROVE  TypeOK'
    BY <1>9, TimesAssumption DEF assign_work_unit, append_note, Touch, leaseVars
  <1>10. ASSUME NEW u \in Units, NEW b \in Units, NEW now \in Times,
                add_dependency(b, u, now) \/ remove_dependency(b, u, now)
         PROVE  TypeOK'
    BY <1>10, TimesAssumption DEF add_dependency, remove_dependency, Touch, leaseVars
  <1>11. CASE UNCHANGED vars
    BY <1>11 DEF vars
  <1> QED
    BY <1>1, <1>2, <1>3, <1>4, <1>5, <1>6, <1>7, <1>8, <1>9, <1>10, <1>11 DEF Next

(* Every column the repository writes keeps its type, whatever the order of *)
(* the operations and the clocks they bring.                                *)
THEOREM TypeCorrect == Spec => []TypeOK
  BY TypeInit, TypeStep, PTL DEF Spec

-----------------------------------------------------------------------------
\* Lease coherence: inductive together with the types.

\* The lease columns of a unit are written together.
LEMMA LeaseStep == TypeOK /\ LeaseCoherent /\ [Next]_vars => LeaseCoherent'
  <1> SUFFICES ASSUME TypeOK, LeaseCoherent, [Next]_vars PROVE LeaseCoherent'
    OBVIOUS
  <1> USE NullAssumption
          DEF TypeOK, LeaseCoherent, Unleased, Active, Terminal, Statuses
  <1>1. ASSUME NEW u \in Units, NEW now \in Times, NEW st \in StartStatuses,
               NEW rk \in Ranks, NEW next \in Times,
               create_work_unit(u, st, rk, next, now)
        PROVE  LeaseCoherent'
    BY <1>1, InputsAssumption DEF create_work_unit, leaseVars, Exists
  <1>2. ASSUME NEW u \in Units, NEW now \in Times, NEW o \in Owners,
               NEW ttl \in Ttls, acquire_next_ready_lease(u, o, ttl, now)
        PROVE  LeaseCoherent'
    <2>1. AddDelay(now, ttl) \in Int
      BY AddDelayType, TimesAssumption, TtlsAssumption
    <2> QED BY <1>2, <2>1 DEF acquire_next_ready_lease, NextReady, Claimable
  <1>3. ASSUME NEW u \in Units, NEW now \in Times, NEW o \in Owners,
               mark_leased_running(u, o, now)
        PROVE  LeaseCoherent'
    BY <1>3 DEF mark_leased_running, leaseVars
  <1>4. ASSUME NEW u \in Units, NEW now \in Times, NEW o \in Owners,
               NEW ttl \in Ttls, heartbeat_lease(u, o, ttl, now)
        PROVE  LeaseCoherent'
    <2>1. AddDelay(now, ttl) \in Int
      BY AddDelayType, TimesAssumption, TtlsAssumption
    <2> QED BY <1>4, <2>1 DEF heartbeat_lease
  <1>5. ASSUME NEW u \in Units, NEW now \in Times, NEW o \in Owners,
               NEW d \in Dispositions, NEW next \in Times \cup {NULL},
               complete_work_unit(u, o, d, now, next)
        PROVE  LeaseCoherent'
    <2>1. Completion(u, d, now, next).status \in Dispositions
      BY CompletionStatus
    <2> QED BY <1>5, <2>1 DEF complete_work_unit, ClearLease, Dispositions
  <1>6. ASSUME NEW now \in Times, recover_expired_leases(now)
        PROVE  LeaseCoherent'
    <2>1. \A u \in Units :
             Recovery(u, now).status \in {"failed_terminal", "retry_pending"}
      BY RecoveryStatus
    <2> QED BY <1>6, <2>1 DEF recover_expired_leases, ClearLease, Expired
  <1>7. ASSUME NEW u \in Units, NEW now \in Times, archive_work_unit(u, now)
        PROVE  LeaseCoherent'
    BY <1>7 DEF archive_work_unit, leaseVars
  <1>8. ASSUME NEW u \in Units, NEW now \in Times,
               NEW st \in EditStatuses \cup {NULL}, NEW rk \in Ranks \cup {rank[u]},
               NEW next \in Times \cup {next_run[u]},
               update_work_unit(u, st, rk, next, now)
        PROVE  LeaseCoherent'
    BY <1>8, InputsAssumption DEF update_work_unit, ManuallyMutable, leaseVars
  <1>9. ASSUME NEW u \in Units, NEW now \in Times,
               assign_work_unit(u, now) \/ append_note(u, now)
        PROVE  LeaseCoherent'
    BY <1>9 DEF assign_work_unit, append_note, Touch, leaseVars
  <1>10. ASSUME NEW u \in Units, NEW b \in Units, NEW now \in Times,
                add_dependency(b, u, now) \/ remove_dependency(b, u, now)
         PROVE  LeaseCoherent'
    BY <1>10 DEF add_dependency, remove_dependency, Touch, leaseVars
  <1>11. CASE UNCHANGED vars
    BY <1>11 DEF vars
  <1> QED
    BY <1>1, <1>2, <1>3, <1>4, <1>5, <1>6, <1>7, <1>8, <1>9, <1>10, <1>11 DEF Next

(* No sequence of operations leaves a half-written lease: the "lease_owner  *)
(* set without ..." and "recovery requires lease owner" errors of the       *)
(* repository are unreachable.                                              *)
THEOREM LeaseCorrect == Spec => []LeaseCoherent
  <1>1. Init => LeaseCoherent
    BY NullAssumption DEF Init, LeaseCoherent, Active
  <1> QED BY <1>1, LeaseStep, TypeCorrect, PTL DEF Spec

-----------------------------------------------------------------------------
\* The retry budget.

\* A unit is granted only while it has an attempt left.
LEMMA BudgetStep == TypeOK /\ RetryBudget /\ [Next]_vars => RetryBudget'
  <1> SUFFICES ASSUME TypeOK, RetryBudget, [Next]_vars PROVE RetryBudget'
    OBVIOUS
  <1> USE RetryPolicyAssumption DEF TypeOK, RetryBudget
  <1>1. ASSUME NEW u \in Units, NEW now \in Times, NEW st \in StartStatuses,
               NEW rk \in Ranks, NEW next \in Times,
               create_work_unit(u, st, rk, next, now)
        PROVE  RetryBudget'
    BY <1>1 DEF create_work_unit, Exists
  <1>2. ASSUME NEW u \in Units, NEW now \in Times, NEW o \in Owners,
               NEW ttl \in Ttls, acquire_next_ready_lease(u, o, ttl, now)
        PROVE  RetryBudget'
    BY <1>2 DEF acquire_next_ready_lease, NextReady, Claimable, Unleased
  <1>3. ASSUME NEW u \in Units, NEW now \in Times, NEW o \in Owners,
               mark_leased_running(u, o, now)
        PROVE  RetryBudget'
    BY <1>3 DEF mark_leased_running, Unleased
  <1>4. ASSUME NEW u \in Units, NEW now \in Times, NEW o \in Owners,
               NEW ttl \in Ttls, heartbeat_lease(u, o, ttl, now)
        PROVE  RetryBudget'
    BY <1>4 DEF heartbeat_lease
  <1>5. ASSUME NEW u \in Units, NEW now \in Times, NEW o \in Owners,
               NEW d \in Dispositions, NEW next \in Times \cup {NULL},
               complete_work_unit(u, o, d, now, next)
        PROVE  RetryBudget'
    <2>1. Completion(u, d, now, next).status \in Unleased \cup {"absent"}
             => attempt[u] < RetryPolicy[u].max_attempts
      BY DEF Completion, Dispositions, Unleased
    <2> QED BY <1>5, <2>1 DEF complete_work_unit
  <1>6. ASSUME NEW now \in Times, recover_expired_leases(now)
        PROVE  RetryBudget'
    <2>1. \A u \in Units : Recovery(u, now).status \in Unleased \cup {"absent"}
             => attempt[u] < RetryPolicy[u].max_attempts
      BY DEF Recovery, Unleased
    <2> QED BY <1>6, <2>1 DEF recover_expired_leases
  <1>7. ASSUME NEW u \in Units, NEW now \in Times, archive_work_unit(u, now)
        PROVE  RetryBudget'
    BY <1>7 DEF archive_work_unit, Unleased
  <1>8. ASSUME NEW u \in Units, NEW now \in Times,
               NEW st \in EditStatuses \cup {NULL}, NEW rk \in Ranks \cup {rank[u]},
               NEW next \in Times \cup {next_run[u]},
               update_work_unit(u, st, rk, next, now)
        PROVE  RetryBudget'
    BY <1>8, InputsAssumption DEF update_work_unit, ManuallyMutable, Unleased
  <1>9. ASSUME NEW u \in Units, NEW now \in Times,
               assign_work_unit(u, now) \/ append_note(u, now)
        PROVE  RetryBudget'
    BY <1>9 DEF assign_work_unit, append_note, Touch
  <1>10. ASSUME NEW u \in Units, NEW b \in Units, NEW now \in Times,
                add_dependency(b, u, now) \/ remove_dependency(b, u, now)
         PROVE  RetryBudget'
    BY <1>10 DEF add_dependency, remove_dependency, Touch
  <1>11. CASE UNCHANGED vars
    BY <1>11 DEF vars
  <1> QED
    BY <1>1, <1>2, <1>3, <1>4, <1>5, <1>6, <1>7, <1>8, <1>9, <1>10, <1>11 DEF Next

(* Whatever mixes of completions, expiries, recoveries and manual edits     *)
(* happen, a unit is attempted at most max_attempts times plus once per     *)
(* manual revival.                                                          *)
THEOREM BudgetCorrect == Spec => []RetryBudget
  <1>1. Init => RetryBudget
    BY RetryPolicyAssumption DEF Init, RetryBudget, Unleased
  <1> QED BY <1>1, BudgetStep, TypeCorrect, PTL DEF Spec

-----------------------------------------------------------------------------
\* The dependency graph.

\* The recursive query returns a set that holds the direct dependents of its
\* start and is closed under "blocks".
LEMMA ChainClosed ==
    ASSUME NEW edges, NEW from \in Units
    PROVE  /\ Chain(edges, from) \subseteq Units
           /\ \A v \in Units : <<from, v>> \in edges => v \in Chain(edges, from)
           /\ \A v, w \in Units :
                 v \in Chain(edges, from) /\ <<v, w>> \in edges
                     => w \in Chain(edges, from)
  BY DEF Chain

\* It is the least such set.
LEMMA ChainLeast ==
    ASSUME NEW edges, NEW from \in Units, NEW S \in SUBSET Units,
           \A v \in Units : <<from, v>> \in edges => v \in S,
           \A v, w \in Units : v \in S /\ <<v, w>> \in edges => w \in S
    PROVE  Chain(edges, from) \subseteq S
  BY DEF Chain

\* Fewer edges, smaller chains.
LEMMA ChainMonotone ==
    ASSUME NEW E, NEW F, E \subseteq F, NEW from \in Units
    PROVE  Chain(E, from) \subseteq Chain(F, from)
  <1>1. Chain(F, from) \in SUBSET Units
    BY ChainClosed
  <1>2. \A v \in Units : <<from, v>> \in E => v \in Chain(F, from)
    BY ChainClosed
  <1>3. \A v, w \in Units : v \in Chain(F, from) /\ <<v, w>> \in E
                                => w \in Chain(F, from)
    BY ChainClosed
  <1> QED BY <1>1, <1>2, <1>3, ChainLeast

\* The check add_dependency makes is enough: an edge from a to b closes no
\* cycle when a is not reachable from b.
LEMMA AddEdgeAcyclic ==
    ASSUME NEW E, NEW a \in Units, NEW b \in Units, a # b,
           a \notin Chain(E, b),
           \A u \in Units : u \notin Chain(E, u)
    PROVE  \A u \in Units : u \notin Chain(E \cup {<<a, b>>}, u)
  <1> SUFFICES ASSUME NEW x \in Units
               PROVE  x \notin Chain(E \cup {<<a, b>>}, x)
    OBVIOUS
  <1> DEFINE F == E \cup {<<a, b>>}
             Rx == Chain(E, x)
             Rb == Chain(E, b)
  <1>a. /\ Rx \subseteq Units
        /\ \A v \in Units : <<x, v>> \in E => v \in Rx
        /\ \A v, w \in Units : v \in Rx /\ <<v, w>> \in E => w \in Rx
    BY ChainClosed
  <1>b. /\ Rb \subseteq Units
        /\ \A v \in Units : <<b, v>> \in E => v \in Rb
        /\ \A v, w \in Units : v \in Rb /\ <<v, w>> \in E => w \in Rb
    BY ChainClosed
  <1>e. \A v, w : <<v, w>> \in F <=> <<v, w>> \in E \/ (v = a /\ w = b)
    OBVIOUS
  <1> HIDE DEF F, Rx, Rb
  <1>1. CASE x # a /\ a \notin Rx
    <2>1. \A v \in Units : <<x, v>> \in F => v \in Rx
      BY <1>1, <1>a, <1>e
    <2>2. \A v, w \in Units : v \in Rx /\ <<v, w>> \in F => w \in Rx
      BY <1>1, <1>a, <1>e
    <2>3. Chain(F, x) \subseteq Rx
      BY <2>1, <2>2, <1>a, ChainLeast
    <2> QED BY <2>3 DEF F, Rx
  <1>2. CASE x = a \/ a \in Rx
    <2> DEFINE S == Rx \cup {b} \cup Rb
    <2>1. S \in SUBSET Units
      BY <1>a, <1>b
    <2>2. \A v \in Units : <<x, v>> \in F => v \in S
      BY <1>a, <1>e
    <2>3. \A v, w \in Units : v \in S /\ <<v, w>> \in F => w \in S
      BY <1>a, <1>b, <1>e
    <2>4. Chain(F, x) \subseteq S
      <3> HIDE DEF S
      <3> QED BY <2>1, <2>2, <2>3, ChainLeast
    <2>5. x \notin Rx
      BY DEF Rx
    <2>6. x # b
      BY <1>2 DEF Rx, Rb
    <2>7. x \notin Rb
      <3> SUFFICES ASSUME x \in Rb PROVE FALSE
        OBVIOUS
      <3>1. \A v \in Units : <<x, v>> \in E => v \in Rb
        BY <1>b
      <3>2. Chain(E, x) \subseteq Rb
        BY <3>1, <1>b, ChainLeast
      <3> QED BY <3>2, <1>2 DEF Rx, Rb
    <2> QED BY <2>4, <2>5, <2>6, <2>7 DEF F
  <1> QED BY <1>1, <1>2

\* Acyclicity in terms of the query.
LEMMA AcyclicByChain ==
    DependenciesAcyclic <=> \A u \in Units : u \notin Chain(deps, u)
  <1>1. ASSUME NEW u \in Units, u \notin Chain(deps, u)
        PROVE  \E S \in SUBSET (Units \ {u}) :
                  /\ \A v \in Units : <<u, v>> \in deps => v \in S
                  /\ \A v, w \in Units : v \in S /\ <<v, w>> \in deps => w \in S
    <2>1. Chain(deps, u) \in SUBSET (Units \ {u})
      BY <1>1, ChainClosed
    <2> QED BY <2>1, ChainClosed
  <1>2. ASSUME NEW u \in Units, NEW S \in SUBSET (Units \ {u}),
               \A v \in Units : <<u, v>> \in deps => v \in S,
               \A v, w \in Units : v \in S /\ <<v, w>> \in deps => w \in S
        PROVE  u \notin Chain(deps, u)
    <2>1. Chain(deps, u) \subseteq S
      BY <1>2, ChainLeast
    <2> QED BY <2>1
  <1> QED BY <1>1, <1>2 DEF DependenciesAcyclic

\* The same in the next state.
LEMMA AcyclicAtNext ==
    (\A u \in Units : u \notin Chain(deps', u)) => DependenciesAcyclic'
  <1> SUFFICES ASSUME \A u \in Units : u \notin Chain(deps', u)
               PROVE  DependenciesAcyclic'
    OBVIOUS
  <1>1. ASSUME NEW u \in Units
        PROVE  \E S \in SUBSET (Units \ {u}) :
                  /\ \A v \in Units : <<u, v>> \in deps' => v \in S
                  /\ \A v, w \in Units : v \in S /\ <<v, w>> \in deps' => w \in S
    <2>1. Chain(deps', u) \in SUBSET (Units \ {u})
      BY ChainClosed
    <2> QED BY <2>1, ChainClosed
  <1> QED BY <1>1 DEF DependenciesAcyclic

\* An edge is added only where its end does not reach its start.
LEMMA AcyclicStep == DependenciesAcyclic /\ [Next]_vars => DependenciesAcyclic'
  <1> SUFFICES ASSUME DependenciesAcyclic, [Next]_vars
               PROVE  DependenciesAcyclic'
    OBVIOUS
  <1>1. ASSUME NEW u \in Units, NEW b \in Units, NEW now \in Times,
               add_dependency(b, u, now)
        PROVE  DependenciesAcyclic'
    <2>1. \A v \in Units : v \notin Chain(deps \cup {<<b, u>>}, v)
      BY <1>1, AddEdgeAcyclic, AcyclicByChain DEF add_dependency
    <2>2. \A v \in Units : v \notin Chain(deps', v)
      BY <1>1, <2>1 DEF add_dependency
    <2> QED BY <2>2, AcyclicAtNext
  <1>2. ASSUME NEW u \in Units, NEW b \in Units, NEW now \in Times,
               remove_dependency(b, u, now)
        PROVE  DependenciesAcyclic'
    <2>1. deps' \subseteq deps
      BY <1>2 DEF remove_dependency
    <2>2. \A v \in Units : Chain(deps', v) \subseteq Chain(deps, v)
      BY <2>1, ChainMonotone
    <2>3. \A v \in Units : v \notin Chain(deps', v)
      BY <2>2, AcyclicByChain
    <2> QED BY <2>3, AcyclicAtNext
  <1>3. ASSUME UNCHANGED deps
        PROVE  DependenciesAcyclic'
    BY <1>3 DEF DependenciesAcyclic
  <1>4. (\E u, b \in Units, now \in Times :
             add_dependency(b, u, now) \/ remove_dependency(b, u, now))
        \/ UNCHANGED deps
    <2>1. ASSUME NEW u \in Units, NEW now \in Times,
                 \/ \E st, rk, next : create_work_unit(u, st, rk, next, now)
                 \/ \E o, ttl : acquire_next_ready_lease(u, o, ttl, now)
                 \/ \E o : mark_leased_running(u, o, now)
                 \/ \E o, ttl : heartbeat_lease(u, o, ttl, now)
          PROVE  UNCHANGED deps
      BY <2>1 DEF create_work_unit, acquire_next_ready_lease,
                  mark_leased_running, heartbeat_lease
    <2>2. ASSUME NEW u \in Units, NEW now \in Times,
                 \/ \E o, d, next : complete_work_unit(u, o, d, now, next)
                 \/ recover_expired_leases(now)
                 \/ archive_work_unit(u, now)
          PROVE  UNCHANGED deps
      BY <2>2 DEF complete_work_unit, recover_expired_leases, archive_work_unit
    <2>3. ASSUME NEW u \in Units, NEW now \in Times,
                 \/ \E st, rk, next : update_work_unit(u, st, rk, next, now)
                 \/ assign_work_unit(u, now)
                 \/ append_note(u, now)
          PROVE  UNCHANGED deps
      BY <2>3 DEF update_work_unit, assign_work_unit, append_note
    <2> QED BY <2>1, <2>2, <2>3, Zenon DEF Next, vars
  <1> QED BY <1>1, <1>2, <1>3, <1>4

(* No interleaving of add_dependency and remove_dependency ever makes a     *)
(* unit wait for itself.                                                    *)
THEOREM AcyclicCorrect == Spec => []DependenciesAcyclic
  <1>1. Init => DependenciesAcyclic
    <2> SUFFICES ASSUME Init, NEW u \in Units PROVE u \notin Chain(deps, u)
      BY AcyclicByChain
    <2>1. Chain(deps, u) \subseteq {}
      BY ChainLeast DEF Init
    <2> QED BY <2>1
  <1> QED BY <1>1, AcyclicStep, PTL DEF Spec

-----------------------------------------------------------------------------
\* The queue implements WorkLease.

\* A transaction is a step of WorkLease, or leaves the leases alone.
LEMMA RefineStep ==
    TypeOK /\ LeaseCoherent /\ RetryBudget /\ [Next]_vars
        => [Lease!Next]_(Lease!vars)
  <1> SUFFICES ASSUME TypeOK, LeaseCoherent, RetryBudget, [Next]_vars
               PROVE  [Lease!Next]_(Lease!vars)
    OBVIOUS
  <1> USE DEF TypeOK, Statuses
  <1> DEFINE ph == [u \in Units |-> Phase(status[u])]
  <1>p. \A u \in Units :
          /\ status[u] \in Unleased => Phase(status[u]) = "open"
          /\ status[u] \in Active => Phase(status[u]) = "held"
    BY DEF Phase, Unleased, Active
  <1>1. ASSUME NEW u \in Units, NEW now \in Times, NEW st \in StartStatuses,
               NEW rk \in Ranks, NEW next \in Times,
               create_work_unit(u, st, rk, next, now)
        PROVE  Lease!Create(u)
    BY <1>1, InputsAssumption
    DEF create_work_unit, leaseVars, Exists, Lease!Create, Phase, Unleased
  <1>2. ASSUME NEW u \in Units, NEW now \in Times, NEW o \in Owners,
               NEW ttl \in Ttls, acquire_next_ready_lease(u, o, ttl, now)
        PROVE  Lease!Grant(u, o)
    <2>1. status[u] \in Unleased
      BY <1>2 DEF acquire_next_ready_lease, NextReady, Claimable, Unleased
    <2>2. version[u] < RetryPolicy[u].max_attempts + revivals[u]
      BY <2>1 DEF LeaseCoherent, RetryBudget
    <2> QED BY <1>2, <2>1, <2>2
            DEF acquire_next_ready_lease, Lease!Grant, Phase, Unleased, Active
  <1>3. ASSUME NEW u \in Units, NEW now \in Times, NEW o \in Owners,
               mark_leased_running(u, o, now)
        PROVE  UNCHANGED Lease!vars
    BY <1>3 DEF mark_leased_running, leaseVars, Lease!vars, Phase, Active, Unleased
  <1>4. ASSUME NEW u \in Units, NEW now \in Times, NEW o \in Owners,
               NEW ttl \in Ttls, heartbeat_lease(u, o, ttl, now)
        PROVE  UNCHANGED Lease!vars
    BY <1>4 DEF heartbeat_lease, Lease!vars
  <1>5. ASSUME NEW u \in Units, NEW now \in Times, NEW o \in Owners,
               NEW d \in Dispositions, NEW next \in Times \cup {NULL},
               complete_work_unit(u, o, d, now, next)
        PROVE  Lease!Next
    <2> DEFINE c == Completion(u, d, now, next).status
               out == [v \in {u} |-> Phase(c)]
    <2>1. c \in Dispositions
      BY CompletionStatus
    <2>2. Phase(c) \in {"open", "cancelled", "done"}
      BY <2>1 DEF Dispositions, Phase, Unleased, Active
    <2> HIDE DEF c
    <2>3. out \in [{u} -> {"open", "cancelled", "done"}]
      BY <2>2
    <2>4. Lease!EndLeases({u}, out)
      BY <1>5 DEF complete_work_unit, ClearLease, Lease!EndLeases, c, Phase, Active, Unleased
    <2> QED BY <2>3, <2>4 DEF Lease!Next
  <1>6. ASSUME NEW now \in Times, recover_expired_leases(now)
        PROVE  Lease!Next
    <2> DEFINE S == {u \in Units : Expired(u, now)}
               out == [v \in S |-> Phase(Recovery(v, now).status)]
    <2>1. \A u \in Units : Phase(Recovery(u, now).status) \in {"open", "done"}
      BY RecoveryStatus DEF Phase, Unleased, Active
    <2>2. out \in [S -> {"open", "cancelled", "done"}]
      BY <2>1
    <2>3. \A u \in S : ph[u] = "held"
      BY <1>p DEF Expired
    <2>4. Lease!EndLeases(S, out)
      BY <1>6, <2>3 DEF recover_expired_leases, ClearLease, Lease!EndLeases
    <2>5. S \in SUBSET Units
      OBVIOUS
    <2> HIDE DEF S, out
    <2> QED BY <2>2, <2>4, <2>5 DEF Lease!Next
  <1>7. ASSUME NEW u \in Units, NEW now \in Times, archive_work_unit(u, now)
        PROVE  Lease!Archive(u)
    BY <1>7 DEF archive_work_unit, leaseVars, LeaseCoherent, Lease!Archive,
                Phase, Terminal, Unleased, Active
  <1>8. ASSUME NEW u \in Units, NEW now \in Times,
               NEW st \in EditStatuses \cup {NULL}, NEW rk \in Ranks \cup {rank[u]},
               NEW next \in Times \cup {next_run[u]},
               update_work_unit(u, st, rk, next, now)
        PROVE  Lease!Withdraw(u) \/ Lease!Reopen(u) \/ UNCHANGED Lease!vars
    <2> DEFINE new == IF st = NULL THEN status[u] ELSE st
    <2>1. /\ status' = [status EXCEPT ![u] = new]
          /\ revivals' = [revivals EXCEPT ![u] =
                IF status[u] = "cancelled" /\ new # "cancelled" THEN @ + 1 ELSE @]
          /\ UNCHANGED <<owner, version>>
          /\ \/ new = status[u]
             \/ new \in Unleased \cup {"cancelled"}
                /\ status[u] \in Unleased \cup {"cancelled"}
      BY <1>8, InputsAssumption DEF update_work_unit, ManuallyMutable, leaseVars
    <2> HIDE DEF new
    <2>2. CASE new = status[u]
      BY <2>1, <2>2 DEF Lease!vars
    <2>3. CASE status[u] \in Unleased /\ new \in Unleased
      BY <2>1, <2>3 DEF Lease!vars, Phase, Unleased
    <2>4. CASE status[u] \in Unleased /\ new = "cancelled"
      BY <2>1, <2>4 DEF Lease!Withdraw, Phase, Unleased, Active
    <2>5. CASE status[u] = "cancelled" /\ new \in Unleased
      BY <2>1, <2>5 DEF Lease!Reopen, Phase, Unleased, Active
    <2> QED BY <2>1, <2>2, <2>3, <2>4, <2>5
  <1>9. ASSUME NEW u \in Units, NEW now \in Times,
               assign_work_unit(u, now) \/ append_note(u, now)
        PROVE  UNCHANGED Lease!vars
    BY <1>9 DEF assign_work_unit, append_note, Touch, leaseVars, Lease!vars
  <1>10. ASSUME NEW u \in Units, NEW b \in Units, NEW now \in Times,
                add_dependency(b, u, now) \/ remove_dependency(b, u, now)
         PROVE  UNCHANGED Lease!vars
    BY <1>10 DEF add_dependency, remove_dependency, Touch, leaseVars, Lease!vars
  <1>11. CASE UNCHANGED vars
    BY <1>11 DEF vars, Lease!vars
  <1>12. \A u \in Units : Lease!Create(u) \/ (\E o \in Owners : Lease!Grant(u, o))
                           \/ Lease!Withdraw(u) \/ Lease!Reopen(u) \/ Lease!Archive(u)
                           => Lease!Next
    BY DEF Lease!Next
  <1> HIDE DEF TypeOK
  <1> QED
    BY <1>1, <1>2, <1>3, <1>4, <1>5, <1>6, <1>7, <1>8, <1>9, <1>10, <1>11, <1>12,
       Zenon
    DEF Next

(* The repository implements the lease contract of WorkLease for any units, *)
(* owners, clocks and retry policies.                                       *)
THEOREM LeaseRefinement == Spec => ImplementsLease
  <1>1. Init => Lease!Init
    BY DEF Init, Lease!Init, Phase
  <1> QED BY <1>1, RefineStep, TypeCorrect, LeaseCorrect, BudgetCorrect, PTL
          DEF Spec, ImplementsLease, Lease!Spec
=============================================================================
