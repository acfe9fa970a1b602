----------------------------- MODULE WorkUnits -----------------------------
(***************************************************************************)
(* The durable work-unit queue: crates/app/src/work/repository.rs over the *)
(* types of crates/contracts/src/work_types.rs.                            *)
(*                                                                         *)
(* Each operation of WorkUnitRepository runs in one SQLite transaction, so *)
(* each is one action.  Operations are issued by independent CLI processes *)
(* (claim, start, heartbeat, complete, recover, archive, update, ...), in  *)
(* any order, and each brings its own now_ms: the wall clock it read       *)
(* before it opened the transaction, or the value the caller passed.       *)
(* Nothing orders those clocks, so now is an arbitrary member of Times.    *)
(*                                                                         *)
(* Text columns (title, notes, errors, payloads, assignee, the event rows) *)
(* are never read by an operation and are left out; lease_acquired_at_ms,  *)
(* lease_heartbeat_at_ms and archived_at_ms are read only for being NULL   *)
(* and are kept as "is set" flags.                                         *)
(***************************************************************************)
EXTENDS Integers, FiniteSets

CONSTANTS
    Units,           \* work unit ids; numbers, so that "id ASC" is <
    Owners,          \* lease owner names
    Times,           \* the now_ms and next_run_at_ms values callers bring
    Ttls,            \* lease ttl_ms values callers bring
    Ranks,           \* priority ranks in use (1 low .. 4 critical)
    StartStatuses,   \* statuses callers create units with
    EditStatuses,    \* statuses callers ask update_work_unit for
    RetryPolicy,     \* the retry policy each unit is created with
    I64Max,          \* where the i64 arithmetic on times saturates
    MaxLeases,       \* bound: leases granted per unit
    MaxRevivals,     \* bound: cancelled units put back in play, per unit
    NULL             \* SQL NULL

Unleased == {"captured", "triaged", "ready", "waiting_external",
             "waiting_review", "retry_pending"}
Active   == {"leased", "running"}
Terminal == {"completed", "failed_terminal", "cancelled", "archived"}
Statuses == Unleased \cup Active \cup Terminal

ASSUME UnitsAssumption == Units \subseteq Nat
ASSUME TimesAssumption ==
    /\ Times \subseteq Int
    /\ I64Max \in Int
    /\ \A t \in Times : t <= I64Max
ASSUME TtlsAssumption == Ttls \subseteq Nat \ {0}
ASSUME RanksAssumption == Ranks \subseteq 1..4
ASSUME NullAssumption == NULL \notin Owners /\ NULL \notin Int
ASSUME BoundsAssumption == MaxLeases \in Nat /\ MaxRevivals \in Nat
(* validate_initial_status and validate_manual_update_status refuse any    *)
(* other request before the transaction opens.                             *)
ASSUME InputsAssumption ==
    /\ StartStatuses \subseteq Unleased
    /\ EditStatuses \subseteq Unleased \cup {"cancelled"}
(* validate_retry_policy                                                   *)
ASSUME RetryPolicyAssumption ==
    /\ RetryPolicy \in [Units -> [max_attempts : Nat,
                                  initial_backoff_ms : Nat,
                                  max_backoff_ms : Nat]]
    /\ \A u \in Units :
          /\ RetryPolicy[u].max_attempts >= 1
          /\ RetryPolicy[u].initial_backoff_ms >= 1
          /\ RetryPolicy[u].max_backoff_ms >= RetryPolicy[u].initial_backoff_ms

VARIABLES
    status,          \* "absent" until the row is inserted
    rank,            \* priority_rank
    attempt,         \* attempt_count
    next_run,        \* next_run_at_ms
    owner,           \* lease_owner or NULL
    version,         \* lease_version
    acquired,        \* lease_acquired_at_ms IS NOT NULL
    heartbeat,       \* lease_heartbeat_at_ms IS NOT NULL
    expires,         \* lease_expires_at_ms or NULL
    updated,         \* updated_at_ms
    archived,        \* archived_at_ms IS NOT NULL
    deps,            \* rows <<blocking, blocked>> of work_unit_dependencies
    revivals         \* history: times an operator un-cancelled the unit

leaseVars == <<owner, acquired, heartbeat, expires>>
vars == <<status, rank, attempt, next_run, owner, version, acquired,
          heartbeat, expires, updated, archived, deps, revivals>>

-----------------------------------------------------------------------------
(* Times.                                                                  *)

\* add_delay_ms: saturating i64 addition, of a u64 delay that fits in an i64;
\* any other delay is an error, and the operation changes nothing.
Addable(delay) == delay <= I64Max
AddDelay(base, delay) == IF base + delay > I64Max THEN I64Max ELSE base + delay

\* compute_retry_delay_ms: doubled once per earlier attempt, clamped at each
\* doubling.  The function is indexed by the number of doublings.
RetryDelay(u, attempts) ==
    LET p == RetryPolicy[u]
        delay[n \in Nat] ==
            IF n = 0 THEN p.initial_backoff_ms
            ELSE IF 2 * delay[n - 1] < p.max_backoff_ms
                 THEN 2 * delay[n - 1] ELSE p.max_backoff_ms
    IN  delay[IF attempts = 0 THEN 0 ELSE attempts - 1]

-----------------------------------------------------------------------------
(* Reading the tables.                                                     *)

Exists(u) == status[u] # "absent"

Blockers(u) == {b \in Units : <<b, u>> \in deps}

\* The WHERE clause of the next-ready query.
Claimable(u, now) ==
    /\ status[u] \in {"ready", "retry_pending"}
    /\ ~archived[u]
    /\ next_run[u] <= now
    /\ expires[u] # NULL => expires[u] <= now
    /\ \A b \in Blockers(u) : status[b] \in Terminal

\* Its ORDER BY: rank DESC, next_run ASC, updated ASC, id ASC.
Before(u, v) ==
    \/ rank[u] > rank[v]
    \/ /\ rank[u] = rank[v]
       /\ \/ next_run[u] < next_run[v]
          \/ /\ next_run[u] = next_run[v]
             /\ \/ updated[u] < updated[v]
                \/ updated[u] = updated[v] /\ u < v

\* The row LIMIT 1 returns.
NextReady(u, now) ==
    /\ Claimable(u, now)
    /\ \A v \in Units \ {u} : Claimable(v, now) => Before(u, v)

\* Mutant: only the edges that leave `from`, without the recursive step.
DirectChain(edges, from) == {u \in Units : <<from, u>> \in edges}

\* The recursive query of would_create_dependency_cycle: the least set that
\* holds every unit `from` blocks and is closed under "blocks".
Chain(edges, from) ==
    {u \in Units :
        \A S \in SUBSET Units :
            /\ \A v \in Units : <<from, v>> \in edges => v \in S
            /\ \A v, w \in Units : v \in S /\ <<v, w>> \in edges => w \in S
            => u \in S}

\* The WHERE clause of the expired-lease query.
Expired(u, now) ==
    /\ status[u] \in Active
    /\ expires[u] # NULL
    /\ expires[u] < now

-----------------------------------------------------------------------------
(* The empty database.                                                     *)
Init ==
    /\ status = [u \in Units |-> "absent"]
    /\ rank = [u \in Units |-> 0]
    /\ attempt = [u \in Units |-> 0]
    /\ next_run = [u \in Units |-> 0]
    /\ owner = [u \in Units |-> NULL]
    /\ version = [u \in Units |-> 0]
    /\ acquired = [u \in Units |-> FALSE]
    /\ heartbeat = [u \in Units |-> FALSE]
    /\ expires = [u \in Units |-> NULL]
    /\ updated = [u \in Units |-> 0]
    /\ archived = [u \in Units |-> FALSE]
    /\ deps = {}
    /\ revivals = [u \in Units |-> 0]

\* A second insert of the same id fails on the primary key.
create_work_unit(u, st, rk, next, now) ==
    /\ ~Exists(u)
    /\ status' = [status EXCEPT ![u] = st]
    /\ rank' = [rank EXCEPT ![u] = rk]
    /\ next_run' = [next_run EXCEPT ![u] = next]
    /\ updated' = [updated EXCEPT ![u] = now]
    /\ UNCHANGED <<attempt, version, archived, deps, revivals>>
    /\ UNCHANGED leaseVars

acquire_next_ready_lease(u, o, ttl, now) ==
    /\ version[u] < MaxLeases
    /\ Addable(ttl)
    /\ NextReady(u, now)
    /\ status' = [status EXCEPT ![u] = "leased"]
    /\ attempt' = [attempt EXCEPT ![u] = @ + 1]
    /\ owner' = [owner EXCEPT ![u] = o]
    /\ version' = [version EXCEPT ![u] = @ + 1]
    /\ acquired' = [acquired EXCEPT ![u] = TRUE]
    /\ heartbeat' = [heartbeat EXCEPT ![u] = TRUE]
    /\ expires' = [expires EXCEPT ![u] = AddDelay(now, ttl)]
    /\ updated' = [updated EXCEPT ![u] = now]
    /\ UNCHANGED <<rank, next_run, archived, deps, revivals>>

mark_leased_running(u, o, now) ==
    /\ status[u] = "leased"
    /\ owner[u] = o
    /\ status' = [status EXCEPT ![u] = "running"]
    /\ updated' = [updated EXCEPT ![u] = now]
    /\ UNCHANGED <<rank, attempt, next_run, version, archived, deps, revivals>>
    /\ UNCHANGED leaseVars

heartbeat_lease(u, o, ttl, now) ==
    /\ Addable(ttl)
    /\ status[u] \in Active
    /\ owner[u] = o
    /\ heartbeat' = [heartbeat EXCEPT ![u] = TRUE]
    /\ expires' = [expires EXCEPT ![u] = AddDelay(now, ttl)]
    /\ updated' = [updated EXCEPT ![u] = now]
    /\ UNCHANGED <<status, rank, attempt, next_run, owner, version, acquired,
                   archived, deps, revivals>>

\* What the lease columns become when a lease ends.
ClearLease(S) ==
    /\ owner' = [u \in Units |-> IF u \in S THEN NULL ELSE owner[u]]
    /\ acquired' = [u \in Units |-> IF u \in S THEN FALSE ELSE acquired[u]]
    /\ heartbeat' = [u \in Units |-> IF u \in S THEN FALSE ELSE heartbeat[u]]
    /\ expires' = [u \in Units |-> IF u \in S THEN NULL ELSE expires[u]]

\* The delay of the unit's next retry, if it has one left, can be added.
Retriable(u) ==
    attempt[u] < RetryPolicy[u].max_attempts => Addable(RetryDelay(u, attempt[u]))

\* Mutant: a status label the other readers of the column do not know.
CompletionUnknownLabel(u, disposition, now, next) ==
    [status |-> IF disposition = "failed_terminal" THEN "failed" ELSE disposition,
     next_run |-> now]

\* resolve_completion; next is the caller's next_run_at_ms or NULL.
Completion(u, disposition, now, next) ==
    IF disposition # "retry_pending"
    THEN [status |-> disposition, next_run |-> now]
    ELSE IF attempt[u] >= RetryPolicy[u].max_attempts
    THEN [status |-> "failed_terminal", next_run |-> now]
    ELSE [status |-> "retry_pending",
          next_run |-> IF next # NULL THEN next
                       ELSE AddDelay(now, RetryDelay(u, attempt[u]))]

complete_work_unit(u, o, disposition, now, next) ==
    /\ status[u] \in Active
    /\ owner[u] = o
    /\ disposition = "retry_pending" /\ next = NULL => Retriable(u)
    /\ LET c == Completion(u, disposition, now, next)
       IN  /\ status' = [status EXCEPT ![u] = c.status]
           /\ next_run' = [next_run EXCEPT ![u] = c.next_run]
    /\ ClearLease({u})
    /\ updated' = [updated EXCEPT ![u] = now]
    /\ UNCHANGED <<rank, attempt, version, archived, deps, revivals>>

\* Mutant: the budget compared with > instead of >=.
RecoveryOneMore(u, now) ==
    IF attempt[u] > RetryPolicy[u].max_attempts
    THEN [status |-> "failed_terminal", next_run |-> now]
    ELSE [status |-> "retry_pending",
          next_run |-> AddDelay(now, RetryDelay(u, attempt[u]))]

\* resolve_recovery
Recovery(u, now) ==
    IF attempt[u] >= RetryPolicy[u].max_attempts
    THEN [status |-> "failed_terminal", next_run |-> now]
    ELSE [status |-> "retry_pending",
          next_run |-> AddDelay(now, RetryDelay(u, attempt[u]))]

\* Every expired lease in one transaction, which one delay that cannot be
\* added rolls back.
recover_expired_leases(now) ==
    LET S == {u \in Units : Expired(u, now)}
    IN  /\ S # {}
        /\ \A u \in S : Retriable(u)
        /\ status' = [u \in Units |-> IF u \in S THEN Recovery(u, now).status
                                      ELSE status[u]]
        /\ next_run' = [u \in Units |-> IF u \in S THEN Recovery(u, now).next_run
                                        ELSE next_run[u]]
        /\ ClearLease(S)
        /\ updated' = [u \in Units |-> IF u \in S THEN now ELSE updated[u]]
        /\ UNCHANGED <<rank, attempt, version, archived, deps, revivals>>

\* Mutant: archiving without the check for a terminal status.
ArchiveAnyUnit(u, now) ==
    /\ Exists(u)
    /\ ~archived[u]
    /\ status' = [status EXCEPT ![u] = "archived"]
    /\ archived' = [archived EXCEPT ![u] = TRUE]
    /\ updated' = [updated EXCEPT ![u] = now]
    /\ UNCHANGED <<rank, attempt, next_run, version, deps, revivals>>
    /\ UNCHANGED leaseVars

archive_work_unit(u, now) ==
    /\ status[u] \in Terminal
    /\ ~archived[u]
    /\ status' = [status EXCEPT ![u] = "archived"]
    /\ archived' = [archived EXCEPT ![u] = TRUE]
    /\ updated' = [updated EXCEPT ![u] = now]
    /\ UNCHANGED <<rank, attempt, next_run, version, deps, revivals>>
    /\ UNCHANGED leaseVars

\* Mutant: only the requested status is validated, not the current one.
MutableAlways(st) == st # "absent"

\* validate_manual_update_status, on the row's side.
ManuallyMutable(st) == st \in Unleased \cup {"cancelled"}

\* st is the requested status, or NULL when the request names none; the other
\* columns are given their old or a new value.  A request that changes no
\* column writes nothing; one that changes only text still touches the row.
update_work_unit(u, st, rk, next, now) ==
    LET newStatus == IF st = NULL THEN status[u] ELSE st
        revived == status[u] = "cancelled" /\ newStatus # "cancelled"
    IN  /\ Exists(u)
        /\ ~archived[u]
        /\ st # NULL => ManuallyMutable(status[u])
        /\ revived => revivals[u] < MaxRevivals
        /\ status' = [status EXCEPT ![u] = newStatus]
        /\ rank' = [rank EXCEPT ![u] = rk]
        /\ next_run' = [next_run EXCEPT ![u] = next]
        /\ updated' = [updated EXCEPT ![u] = now]
        /\ revivals' = [revivals EXCEPT ![u] = IF revived THEN @ + 1 ELSE @]
        /\ UNCHANGED <<attempt, version, archived, deps>>
        /\ UNCHANGED leaseVars

\* touch_work_unit, and nothing else that the model keeps.
Touch(u, now) ==
    /\ updated' = [updated EXCEPT ![u] = now]
    /\ UNCHANGED <<status, rank, attempt, next_run, version, archived, revivals>>
    /\ UNCHANGED leaseVars

\* assigned_to and the note text are not kept.
assign_work_unit(u, now) ==
    Exists(u) /\ ~archived[u] /\ Touch(u, now) /\ UNCHANGED deps

append_note(u, now) ==
    Exists(u) /\ ~archived[u] /\ Touch(u, now) /\ UNCHANGED deps

\* validate_dependency_endpoints, ensure_work_unit_exists (twice) and the
\* cycle query; INSERT OR IGNORE, so an existing row changes nothing.
add_dependency(blocking, blocked, now) ==
    /\ blocking # blocked
    /\ Exists(blocking)
    /\ Exists(blocked)
    /\ blocking \notin Chain(deps, blocked)
    /\ <<blocking, blocked>> \notin deps
    /\ deps' = deps \cup {<<blocking, blocked>>}
    /\ Touch(blocked, now)

remove_dependency(blocking, blocked, now) ==
    /\ blocking # blocked
    /\ <<blocking, blocked>> \in deps
    /\ deps' = deps \ {<<blocking, blocked>>}
    /\ Touch(blocked, now)

-----------------------------------------------------------------------------
Dispositions == {"completed", "cancelled", "failed_terminal", "retry_pending"}

\* A caller of update_work_unit leaves rank and next run alone or sets them.
Next ==
    \E u \in Units, now \in Times :
        \/ \E st \in StartStatuses, rk \in Ranks, next \in Times :
              create_work_unit(u, st, rk, next, now)
        \/ \E o \in Owners, ttl \in Ttls : acquire_next_ready_lease(u, o, ttl, now)
        \/ \E o \in Owners : mark_leased_running(u, o, now)
        \/ \E o \in Owners, ttl \in Ttls : heartbeat_lease(u, o, ttl, now)
        \/ \E o \in Owners, d \in Dispositions, next \in Times \cup {NULL} :
              complete_work_unit(u, o, d, now, next)
        \/ recover_expired_leases(now)
        \/ archive_work_unit(u, now)
        \/ \E st \in EditStatuses \cup {NULL}, rk \in Ranks \cup {rank[u]},
              next \in Times \cup {next_run[u]} :
              update_work_unit(u, st, rk, next, now)
        \/ assign_work_unit(u, now)
        \/ append_note(u, now)
        \/ \E b \in Units : add_dependency(b, u, now)
        \/ \E b \in Units : remove_dependency(b, u, now)

Spec == Init /\ [][Next]_vars
=============================================================================
