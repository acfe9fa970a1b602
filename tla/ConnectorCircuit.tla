-------------------------- MODULE ConnectorCircuit --------------------------
(***************************************************************************)
(* The circuit breaker of a connector:                                     *)
(* crates/spec/src/spec_runtime/connector_circuit.rs.                      *)
(*                                                                         *)
(* The two functions of the code, on the breaker's state.  open_until is   *)
(* kept as the time that is left of it, which is all the code looks at;    *)
(* Waited lets time pass.                                                  *)
(***************************************************************************)
EXTENDS Integers

CONSTANTS
    FailureThreshold,  \* policy.failure_threshold
    Cooldown,          \* policy.cooldown_ms
    HalfOpenMaxCalls,  \* policy.half_open_max_calls
    SuccessThreshold,  \* policy.success_threshold
    None               \* open_until: not set

\* validate_connector_circuit_breaker_policy.
ASSUME PolicyAssumption ==
    /\ FailureThreshold \in Nat \ {0}
    /\ Cooldown \in Nat \ {0}
    /\ HalfOpenMaxCalls \in Nat \ {0}
    /\ SuccessThreshold \in 1..HalfOpenMaxCalls

ASSUME NoneAssumption == None \notin Nat

Phases == {"Closed", "Open", "HalfOpen"}

Circuit == [phase : Phases,
            consecutive_failures : Nat,
            open_until : Nat \cup {None},
            half_open_remaining_calls : Nat,
            half_open_successes : Nat]

DefaultCircuit == [phase |-> "Closed",
                   consecutive_failures |-> 0,
                   open_until |-> None,
                   half_open_remaining_calls |-> 0,
                   half_open_successes |-> 0]

\* Mutant: the deadline is not left alone once it is over.
WaitedBelowZero(c) ==
    [c EXCEPT !.open_until = IF @ = None THEN @ ELSE @ - 1]

Waited(c) ==
    [c EXCEPT !.open_until = IF @ = None \/ @ = 0 THEN @ ELSE @ - 1]

\* Mutant: a deadline that is over still counts.
CoolingForever(c) == c.open_until # None

\* connector_circuit_remaining_cooldown_ms of an open circuit.
Cooling(c) == c.open_until # None /\ c.open_until # 0

\* Mutant: no new deadline is set.
OpenedWithoutCooldown(c) == [c EXCEPT !.phase = "Open"]

Opened(c) == [c EXCEPT !.phase = "Open", !.open_until = Cooldown]

\* Mutant: the window is entered with one probe too many.
EnteredHalfOpenWide(c) ==
    IF c.phase = "Open" /\ ~Cooling(c)
    THEN [c EXCEPT !.phase = "HalfOpen",
                   !.open_until = None,
                   !.half_open_remaining_calls = HalfOpenMaxCalls + 1,
                   !.half_open_successes = 0]
    ELSE c

\* acquire_connector_circuit_slot_for_state: an open circuit whose cooldown is
\* over becomes half open ...
EnteredHalfOpen(c) ==
    IF c.phase = "Open" /\ ~Cooling(c)
    THEN [c EXCEPT !.phase = "HalfOpen",
                   !.open_until = None,
                   !.half_open_remaining_calls = HalfOpenMaxCalls,
                   !.half_open_successes = 0]
    ELSE c

\* ... and then a slot is granted, or the circuit stays open, or a half-open
\* circuit without probes left opens again.
Grants(c) ==
    LET d == EnteredHalfOpen(c)
    IN  \/ d.phase = "Closed"
        \/ d.phase = "HalfOpen" /\ d.half_open_remaining_calls # 0

Acquired(c) ==
    LET d == EnteredHalfOpen(c)
    IN  IF d.phase # "HalfOpen" THEN d
        ELSE IF d.half_open_remaining_calls = 0 THEN Opened(d)
        ELSE [d EXCEPT !.half_open_remaining_calls = @ - 1]

\* record_connector_circuit_outcome_for_state, by the phase at that moment,
\* which need not be the phase in which the slot was granted.
RecordedClosed(c, success) ==
    IF success THEN [c EXCEPT !.consecutive_failures = 0]
    ELSE LET d == [c EXCEPT !.consecutive_failures = @ + 1]
         IN  IF d.consecutive_failures >= FailureThreshold
             THEN [Opened(d) EXCEPT !.half_open_remaining_calls = 0,
                                    !.half_open_successes = 0]
             ELSE d

RecordedHalfOpen(c, success) ==
    LET d == [c EXCEPT !.half_open_successes = @ + 1]
    IN  IF ~success THEN [Opened(c) EXCEPT !.half_open_remaining_calls = 0,
                                           !.half_open_successes = 0]
        ELSE IF d.half_open_successes >= SuccessThreshold THEN DefaultCircuit
        ELSE IF d.half_open_remaining_calls = 0
        THEN [Opened(d) EXCEPT !.half_open_successes = 0]
        ELSE d

Recorded(c, success) ==
    IF c.phase = "Closed" THEN RecordedClosed(c, success)
    ELSE IF c.phase = "HalfOpen" THEN RecordedHalfOpen(c, success)
    ELSE c
=============================================================================
