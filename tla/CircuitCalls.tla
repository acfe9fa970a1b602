---------------------------- MODULE CircuitCalls ----------------------------
(***************************************************************************)
(* Concurrent calls through one circuit breaker, as in                     *)
(* invoke_programmatic_connector_with_resilience (programmatic.rs) and     *)
(* DynamicCatalogConnector (dynamic_catalog.rs): a call takes a slot under *)
(* the circuit's mutex, runs without it, and records its outcome under it  *)
(* again.  Other calls take slots and record in between, so an outcome is  *)
(* counted in whatever phase the circuit is in by then.                    *)
(***************************************************************************)
EXTENDS ConnectorCircuit

CONSTANT Callers

VARIABLES
    circuit,  \* the shared state
    slot,     \* callers that hold a slot
    elapsed   \* history: time since the circuit last opened, up to Cooldown

vars == <<circuit, slot, elapsed>>

\* The history variable follows every step that opens the circuit.
Note(c) ==
    elapsed' = IF c.phase = "Open" /\ circuit.phase # "Open" THEN 0 ELSE elapsed

Init ==
    /\ circuit = DefaultCircuit
    /\ slot = {}
    /\ elapsed = Cooldown

\* acquire_programmatic_circuit_slot, acquire_bridge_circuit_phase.
Acquire(p) ==
    /\ p \notin slot
    /\ circuit' = Acquired(circuit)
    /\ slot' = IF Grants(circuit) THEN slot \cup {p} ELSE slot
    /\ Note(circuit')

\* Mutant: only failures are recorded.
RecordFailureOnly(p, success) ==
    /\ p \in slot
    /\ circuit' = IF success THEN circuit ELSE Recorded(circuit, FALSE)
    /\ slot' = slot \ {p}
    /\ Note(circuit')

\* record_programmatic_circuit_outcome, record_bridge_circuit_outcome.
Record(p, success) ==
    /\ p \in slot
    /\ circuit' = Recorded(circuit, success)
    /\ slot' = slot \ {p}
    /\ Note(circuit')

Tick ==
    /\ circuit' = Waited(circuit)
    /\ elapsed' = IF elapsed < Cooldown THEN elapsed + 1 ELSE elapsed
    /\ UNCHANGED slot

Next ==
    \/ \E p \in Callers : Acquire(p) \/ \E success \in BOOLEAN : Record(p, success)
    \/ Tick

Spec == Init /\ [][Next]_vars

-----------------------------------------------------------------------------
TypeOK ==
    /\ circuit \in Circuit
    /\ slot \subseteq Callers
    /\ elapsed \in 0..Cooldown

(* The fields agree with the phase whatever order slots are granted and     *)
(* outcomes recorded in: a closed circuit is below its failure threshold,   *)
(* a half-open one below its success threshold and with fewer probes left   *)
(* than its window had, and only an open one has a deadline.                *)
CircuitCoherent ==
    /\ circuit.open_until # None <=> circuit.phase = "Open"
    /\ circuit.phase = "Closed" =>
          /\ circuit.consecutive_failures < FailureThreshold
          /\ circuit.half_open_remaining_calls = 0
          /\ circuit.half_open_successes = 0
    /\ circuit.phase = "HalfOpen" =>
          /\ circuit.half_open_successes < SuccessThreshold
          /\ circuit.half_open_remaining_calls < HalfOpenMaxCalls
    /\ circuit.phase = "Open" => circuit.half_open_remaining_calls = 0

(* A half-open circuit without probes left waits for a call that is really  *)
(* in flight, never for nobody: the window cannot be used up by outcomes    *)
(* that were recorded elsewhere.                                            *)
NoOrphanWindow ==
    circuit.phase = "HalfOpen" /\ circuit.half_open_remaining_calls = 0 => slot # {}

(* After it opens, for whatever reason and from whatever phase, the circuit *)
(* refuses every call for the whole cooldown.                               *)
CooldownKept == elapsed < Cooldown => circuit.phase = "Open"

-----------------------------------------------------------------------------
(* Time passes; a caller goes on calling and calls end.                     *)
Fairness ==
    /\ WF_vars(Tick)
    /\ \A p \in Callers : WF_vars(Acquire(p)) /\ WF_vars(\E s \in BOOLEAN : Record(p, s))

FairSpec == Spec /\ Fairness

(* An open circuit is probed again: no order of refusals and late outcomes  *)
(* keeps renewing or losing its deadline while it is open.                  *)
Reprobed == circuit.phase = "Open" ~> circuit.phase # "Open"
=============================================================================
