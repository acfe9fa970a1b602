-------------------------- MODULE ProgrammaticBatch --------------------------
(***************************************************************************)
(* A parallel batch step of the spec engine:                               *)
(* execute_programmatic_batch_calls and                                    *)
(* invoke_programmatic_connector_with_resilience in                        *)
(* crates/spec/src/programmatic.rs.                                        *)
(*                                                                         *)
(* The scheduler fills its in-flight set from three priority queues up to  *)
(* an adaptive budget and awaits one result at a time; the calls in flight *)
(* progress in any order while it awaits.  A call takes a slot of its      *)
(* connector's circuit, tries up to its max_attempts times and records its *)
(* outcome.  Rate-limit and backoff sleeps only take time, which passes    *)
(* between any two steps.  The steps of a program share the circuits and   *)
(* run one after the other.                                                *)
(***************************************************************************)
EXTENDS ConnectorCircuit, FiniteSets, Sequences

CONSTANTS
    Calls,              \* prepared calls
    Queues,             \* priority class -> the calls of that class, in order
    Guarded,            \* the calls whose connector has a circuit breaker
    Cycle,              \* round-robin cycle of classes, strict or weighted
    MaxAttempts,        \* call -> its retry.max_attempts
    MinInFlight, MaxInFlight, UpshiftStep, DownshiftStep, RecoverySuccesses,
    ReduceOn,           \* adaptive_reduce_on; {} when adaptive_budget is off
    ContinueOnError

Classes == {"high", "normal", "low"}
\* Any code of a failed connector call, and the code of a refused one.
ErrorCodes == {"connector_execution_error", "circuit_open"}

\* A call is in some queue, and none is in two places of them.
Queued(queues, c) == \E k \in Classes : \E i \in DOMAIN queues[k] : queues[k][i] = c
QueuedOnce(queues) ==
    \A k, l \in Classes : \A i \in DOMAIN queues[k], j \in DOMAIN queues[l] :
        queues[k][i] = queues[l][j] => k = l /\ i = j

\* validate_retry_policy.
ASSUME AttemptsAssumption == MaxAttempts \in [Calls -> Nat \ {0}]

\* validate_programmatic_concurrency_policy; a batch step runs in parallel
\* from two calls on, each of which group_programmatic_calls_by_priority
\* pushes into the queue of its class.
ASSUME ConcurrencyAssumption ==
    /\ IsFiniteSet(Calls) /\ Cardinality(Calls) > 1
    /\ Guarded \subseteq Calls
    /\ Queues \in [Classes -> Seq(Calls)] /\ QueuedOnce(Queues)
    /\ \A c \in Calls : Queued(Queues, c)
    /\ Cycle \in Seq(Classes) /\ \A k \in Classes : \E i \in DOMAIN Cycle : Cycle[i] = k
    /\ MinInFlight \in Nat \ {0} /\ MaxInFlight \in Nat /\ MinInFlight <= MaxInFlight
    /\ UpshiftStep \in Nat \ {0} /\ DownshiftStep \in Nat \ {0}
    /\ RecoverySuccesses \in Nat \ {0}
    /\ ReduceOn \subseteq ErrorCodes
    /\ ContinueOnError \in BOOLEAN

VARIABLES
    mode,      \* "fill", "await", or how the step ended: "ok", "err"
    pending,   \* class -> calls not yet dispatched
    cursor,    \* fairness_cursor
    stage,     \* where each call is
    attempt,   \* its attempts so far
    budget,    \* current_budget
    streak,    \* consecutive_successes, no further than RecoverySuccesses counts
    failed,    \* first_error is set
    circuit,   \* the breaker of the guarded connector
    passed     \* history: class -> dispatches of other classes while it waits

vars == <<mode, pending, cursor, stage, attempt, budget, streak, failed,
          circuit, passed>>
scheduler == <<pending, cursor, budget, streak, failed, passed>>

Results == {"result_ok"} \cup ErrorCodes
InFlight == {c \in Calls : stage[c] \in {"dispatched", "running"} \cup Results}

Least(x, y) == IF x < y THEN x ELSE y
Greatest(x, y) == IF x < y THEN y ELSE x

\* What the steps before this one can leave of the circuit: none of their calls
\* is in flight any more, so each probe of a half-open window has succeeded.
LeftCircuits ==
    {c \in [phase : Phases, consecutive_failures : 0..FailureThreshold,
            open_until : 0..Cooldown \cup {None},
            half_open_remaining_calls : 0..HalfOpenMaxCalls,
            half_open_successes : 0..(SuccessThreshold - 1)] :
        /\ c.open_until # None <=> c.phase = "Open"
        /\ c.consecutive_failures = FailureThreshold <=> c.phase # "Closed"
        /\ c.half_open_remaining_calls # 0 <=> c.phase = "HalfOpen"
        /\ c.phase = "HalfOpen" =>
              HalfOpenMaxCalls - c.half_open_remaining_calls \in 1..c.half_open_successes
        /\ c.phase = "Closed" => c.half_open_successes = 0}

Init ==
    /\ mode = "fill"
    /\ pending = Queues
    /\ cursor = 0
    /\ stage = [c \in Calls |-> "pending"]
    /\ attempt = [c \in Calls |-> 0]
    /\ budget = MaxInFlight
    /\ streak = 0
    /\ failed = FALSE
    /\ circuit \in LeftCircuits
    /\ passed = [k \in Classes |-> 0]

-----------------------------------------------------------------------------
(* Dispatching.                                                             *)

AnyPending == \E k \in Classes : pending[k] # <<>>

ClassAt(i) == Cycle[i + 1]

\* Mutant: the scan starts at the front of the cycle every time.
NextIndexFromFront ==
    CHOOSE i \in 0..(Len(Cycle) - 1) :
        /\ pending[ClassAt(i)] # <<>>
        /\ \A j \in 0..(i - 1) : pending[ClassAt(j)] = <<>>

\* pop_next_programmatic_call: the first position of the cycle, from the
\* cursor on, whose class has a call.
NextIndex ==
    LET At(offset) == (cursor + offset) % Len(Cycle)
        offset == CHOOSE o \in 0..(Len(Cycle) - 1) :
                     /\ pending[ClassAt(At(o))] # <<>>
                     /\ \A n \in 0..(o - 1) : pending[ClassAt(At(n))] = <<>>
    IN  At(offset)

Advanced(i) == (i + 1) % Len(Cycle)

Dispatch ==
    /\ mode = "fill"
    /\ Cardinality(InFlight) < budget
    /\ AnyPending
    /\ LET k == ClassAt(NextIndex)
       IN  /\ pending' = [pending EXCEPT ![k] = Tail(@)]
           /\ stage' = [stage EXCEPT ![Head(pending[k])] = "dispatched"]
           /\ passed' = [j \in Classes |->
                IF j = k \/ pending[j] = <<>> THEN 0 ELSE passed[j] + 1]
    /\ cursor' = Advanced(NextIndex)
    /\ UNCHANGED <<mode, attempt, budget, streak, failed, circuit>>

\* Mutant: the loop ends when nothing is pending, whatever is in flight.
FilledAndGone ==
    /\ mode = "fill"
    /\ Cardinality(InFlight) >= budget \/ ~AnyPending
    /\ mode' = IF AnyPending THEN "await" ELSE "ok"
    /\ UNCHANGED <<stage, attempt, circuit, scheduler>>

\* The budget is used up or nothing is pending: await a result, or leave the
\* loop when nothing is in flight.
Filled ==
    /\ mode = "fill"
    /\ Cardinality(InFlight) >= budget \/ ~AnyPending
    /\ mode' = IF InFlight # {} THEN "await"
               ELSE IF failed /\ ~ContinueOnError THEN "err" ELSE "ok"
    /\ UNCHANGED <<stage, attempt, circuit, scheduler>>

-----------------------------------------------------------------------------
(* invoke_programmatic_connector_with_resilience.                           *)

AcquireSlot(c) ==
    /\ mode = "await"
    /\ stage[c] = "dispatched"
    /\ stage' = [stage EXCEPT ![c] =
                    IF c \in Guarded /\ ~Grants(circuit) THEN "circuit_open" ELSE "running"]
    /\ circuit' = IF c \in Guarded THEN Acquired(circuit) ELSE circuit
    /\ UNCHANGED <<mode, attempt, scheduler>>

\* Mutant: a success is returned without being recorded.
SucceedUnrecorded(c) ==
    /\ mode = "await"
    /\ stage[c] = "running"
    /\ stage' = [stage EXCEPT ![c] = "result_ok"]
    /\ attempt' = [attempt EXCEPT ![c] = @ + 1]
    /\ UNCHANGED <<mode, circuit, scheduler>>

Succeed(c) ==
    /\ mode = "await"
    /\ stage[c] = "running"
    /\ stage' = [stage EXCEPT ![c] = "result_ok"]
    /\ attempt' = [attempt EXCEPT ![c] = @ + 1]
    /\ circuit' = IF c \in Guarded THEN Recorded(circuit, TRUE) ELSE circuit
    /\ UNCHANGED <<mode, scheduler>>

\* Mutant: a retry starts all over with a new slot.
FailRestarted(c) ==
    /\ mode = "await"
    /\ stage[c] = "running"
    /\ stage' = [stage EXCEPT ![c] = "dispatched"]
    /\ UNCHANGED <<mode, attempt, circuit, scheduler>>

\* An attempt fails: the last one is recorded, an earlier one is retried.
Fail(c) ==
    /\ mode = "await"
    /\ stage[c] = "running"
    /\ attempt' = [attempt EXCEPT ![c] = @ + 1]
    /\ IF attempt'[c] >= MaxAttempts[c]
       THEN /\ stage' = [stage EXCEPT ![c] = "connector_execution_error"]
            /\ circuit' = IF c \in Guarded THEN Recorded(circuit, FALSE) ELSE circuit
       ELSE UNCHANGED <<stage, circuit>>
    /\ UNCHANGED <<mode, scheduler>>

Tick ==
    /\ circuit' = Waited(circuit)
    /\ UNCHANGED <<mode, stage, attempt, scheduler>>

-----------------------------------------------------------------------------
(* The scheduler receives a result and adapts its budget.                   *)

\* Mutant: not limited by max_in_flight.
RaisedUnlimited(b) == b + UpshiftStep

Raised(b) == Least(b + UpshiftStep, MaxInFlight)

Lowered(b) == Greatest(b - DownshiftStep, MinInFlight)

AdaptAfterSuccess ==
    LET n == Least(streak + 1, RecoverySuccesses)
        raise == budget < MaxInFlight /\ n >= RecoverySuccesses
    IN  /\ budget' = IF raise THEN Raised(budget) ELSE budget
        /\ streak' = IF raise THEN 0 ELSE n
        /\ UNCHANGED failed

AdaptAfterError(code) ==
    /\ budget' = IF code \in ReduceOn /\ budget > MinInFlight THEN Lowered(budget) ELSE budget
    /\ streak' = 0
    /\ failed' = TRUE

Deliver(c) ==
    /\ mode = "await"
    /\ stage[c] \in Results
    /\ IF stage[c] = "result_ok" THEN AdaptAfterSuccess ELSE AdaptAfterError(stage[c])
    /\ stage' = [stage EXCEPT ![c] = "reported"]
    /\ mode' = "fill"
    /\ UNCHANGED <<pending, cursor, attempt, circuit, passed>>

Next ==
    \/ Dispatch \/ Filled \/ Tick
    \/ \E c \in Calls : AcquireSlot(c) \/ Succeed(c) \/ Fail(c) \/ Deliver(c)

Spec == Init /\ [][Next]_vars

-----------------------------------------------------------------------------
(* However results, failures and recoveries move the adaptive budget, it    *)
(* stays within min_in_flight..max_in_flight and never more than            *)
(* max_in_flight calls are in flight.                                       *)
InFlightBounded ==
    /\ budget \in MinInFlight..MaxInFlight
    /\ Cardinality(InFlight) <= MaxInFlight

(* The round robin starves no priority class: a class with calls is served  *)
(* within one turn of the cycle, however the other queues fill and empty.   *)
NoStarvation == \A k \in Classes : passed[k] < Len(Cycle)

(* No call is lost between the queues, the in-flight set and the reports:   *)
(* the calls not yet dispatched are those in the queues, each in one place, *)
(* and a batch step ends only when every call has its report.               *)
NothingLost ==
    /\ \A c \in Calls : stage[c] = "pending" <=> Queued(pending, c)
    /\ QueuedOnce(pending)
    /\ mode \in {"ok", "err"} => \A c \in Calls : stage[c] = "reported"

(* Every granted slot is recorded: a half-open circuit without probes left  *)
(* has a call running, also at the end of the batch, so that no later step  *)
(* finds a window that nobody can close.                                    *)
NoOrphanProbe ==
    circuit.phase = "HalfOpen" /\ circuit.half_open_remaining_calls = 0 =>
        \E c \in Guarded : stage[c] = "running"

-----------------------------------------------------------------------------
(* The calls are polled by the scheduler's task and connector calls end.    *)
Fairness ==
    /\ WF_vars(Dispatch \/ Filled)
    /\ \A c \in Calls :
          /\ WF_vars(AcquireSlot(c) \/ Succeed(c) \/ Fail(c))
          /\ WF_vars(Deliver(c))

FairSpec == Spec /\ Fairness

(* The batch step ends: the budget, the retries and the refusals of an open *)
(* circuit never leave the scheduler waiting for nothing.                   *)
BatchEnds == <>(mode \in {"ok", "err"})
=============================================================================
