---------------------------- MODULE CircuitProofs ----------------------------
(***************************************************************************)
(* Proofs about the circuit breaker for every valid policy and any number  *)
(* of concurrent callers.                                                  *)
(***************************************************************************)
EXTENDS CircuitCalls, TLAPS

\* What is left of the deadline and what has passed make up the cooldown.
\* CooldownKept is not inductive without it: the circuit becomes half open
\* because nothing is left of the deadline.
DeadlineWhole == circuit.phase = "Open" => circuit.open_until + elapsed >= Cooldown

IInv == TypeOK /\ CircuitCoherent /\ NoOrphanWindow /\ DeadlineWhole /\ CooldownKept

USE PolicyAssumption, NoneAssumption

\* The fields' agreement, of any circuit value.  A window holds all its probes
\* only between its entry and the grant of the first, in one call.
CoherentUpTo(c, n) ==
    /\ c.open_until # None <=> c.phase = "Open"
    /\ c.phase = "Closed" => /\ c.consecutive_failures < FailureThreshold
                             /\ c.half_open_remaining_calls = 0
                             /\ c.half_open_successes = 0
    /\ c.phase = "HalfOpen" => /\ c.half_open_successes < SuccessThreshold
                               /\ c.half_open_remaining_calls <= n
    /\ c.phase = "Open" => c.half_open_remaining_calls = 0

Coherent(c) == CoherentUpTo(c, HalfOpenMaxCalls - 1)

\* The invariant is the predicate the lemmas about the operators use.
LEMMA CoherentIs == TypeOK => (CircuitCoherent <=> Coherent(circuit))
  BY DEF CircuitCoherent, Coherent, CoherentUpTo, TypeOK, Circuit

-----------------------------------------------------------------------------
\* The operators of the breaker.

\* Entering the half-open phase keeps the fields in agreement, happens only
\* when the deadline is over, and leaves at least one probe.
LEMMA EnterFacts ==
    ASSUME NEW c \in Circuit, Coherent(c)
    PROVE  LET d == EnteredHalfOpen(c) IN
           /\ d \in Circuit
           /\ CoherentUpTo(d, HalfOpenMaxCalls)
           /\ d.phase = "Open" => d = c
           /\ d.phase # "Open" /\ c.phase = "Open" =>
                 c.open_until = 0 /\ d.half_open_remaining_calls # 0
           /\ c.phase # "Open" => d = c
  <1> DEFINE d == EnteredHalfOpen(c)
  <1>1. CASE c.phase = "Open" /\ ~Cooling(c)
    <2>1. d = [c EXCEPT !.phase = "HalfOpen",
                        !.open_until = None,
                        !.half_open_remaining_calls = HalfOpenMaxCalls,
                        !.half_open_successes = 0]
      BY <1>1 DEF EnteredHalfOpen
    <2> HIDE DEF d
    <2>2. /\ d \in Circuit
          /\ d.phase = "HalfOpen"
          /\ d.open_until = None
          /\ d.half_open_remaining_calls = HalfOpenMaxCalls
          /\ d.half_open_successes = 0
      BY <2>1 DEF Circuit, Phases
    <2>3. c.open_until = 0
      BY <1>1 DEF Cooling, Coherent, CoherentUpTo
    <2>4. CoherentUpTo(d, HalfOpenMaxCalls)
      BY <2>2 DEF CoherentUpTo
    <2>5. HalfOpenMaxCalls # 0
      OBVIOUS
    <2> QED BY <1>1, <2>2, <2>3, <2>4, <2>5 DEF d
  <1>2. CASE ~(c.phase = "Open" /\ ~Cooling(c))
    <2>1. d = c
      BY <1>2 DEF EnteredHalfOpen
    <2>2. CoherentUpTo(c, HalfOpenMaxCalls)
      BY DEF Coherent, CoherentUpTo, Circuit
    <2> QED BY <1>2, <2>1, <2>2
  <1> QED BY <1>1, <1>2

\* What acquire_connector_circuit_slot does to a coherent circuit.
LEMMA AcquireFacts ==
    ASSUME NEW c \in Circuit, Coherent(c)
    PROVE  LET d == Acquired(c) IN
           /\ d \in Circuit
           /\ Coherent(d)
           \* A window that is used up was used up by a granted slot.
           /\ d.phase = "HalfOpen" /\ d.half_open_remaining_calls = 0 => Grants(c)
           \* Leaving Open needs the deadline to be over.
           /\ c.phase = "Open" /\ d.phase # "Open" => c.open_until = 0
           /\ c.phase = "Open" /\ d.phase = "Open" => d = c
           /\ c.phase # "Open" /\ d.phase = "Open" => d.open_until = Cooldown
  <1> DEFINE e == EnteredHalfOpen(c)
  <1>1. /\ e \in Circuit
        /\ CoherentUpTo(e, HalfOpenMaxCalls)
        /\ e.phase = "Open" => e = c
        /\ e.phase # "Open" /\ c.phase = "Open" =>
              c.open_until = 0 /\ e.half_open_remaining_calls # 0
        /\ c.phase # "Open" => e = c
    BY EnterFacts
  <1> HIDE DEF e
  <1>2. Acquired(c) = IF e.phase # "HalfOpen" THEN e
                      ELSE IF e.half_open_remaining_calls = 0 THEN Opened(e)
                      ELSE [e EXCEPT !.half_open_remaining_calls = @ - 1]
    BY DEF Acquired, e
  <1>3. Grants(c) <=> \/ e.phase = "Closed"
                      \/ e.phase = "HalfOpen" /\ e.half_open_remaining_calls # 0
    BY DEF Grants, e
  <1>4. CASE e.phase # "HalfOpen"
    BY <1>1, <1>2, <1>3, <1>4 DEF Coherent, CoherentUpTo
  <1>5. CASE e.phase = "HalfOpen" /\ e.half_open_remaining_calls = 0
    BY <1>1, <1>2, <1>3, <1>5 DEF Opened, Circuit, Phases, Coherent, CoherentUpTo
  <1>6. CASE e.phase = "HalfOpen" /\ e.half_open_remaining_calls # 0
    BY <1>1, <1>2, <1>3, <1>6 DEF Circuit, Phases, Coherent, CoherentUpTo
  <1> QED BY <1>4, <1>5, <1>6

\* What record_connector_circuit_outcome does to a coherent circuit.
LEMMA RecordFacts ==
    ASSUME NEW c \in Circuit, Coherent(c), NEW success \in BOOLEAN
    PROVE  LET d == Recorded(c, success) IN
           /\ d \in Circuit
           /\ Coherent(d)
           \* An outcome never leaves a window without probes.
           /\ ~(d.phase = "HalfOpen" /\ d.half_open_remaining_calls = 0)
           /\ c.phase = "Open" => d = c
           /\ c.phase # "Open" /\ d.phase = "Open" => d.open_until = Cooldown
  <1>1. CASE c.phase = "Closed"
    <2>1. CASE success
      <3>1. Recorded(c, success) = [c EXCEPT !.consecutive_failures = 0]
        BY <1>1, <2>1 DEF Recorded, RecordedClosed
      <3> QED BY <1>1, <3>1 DEF Circuit, Phases, Coherent, CoherentUpTo
    <2>2. CASE ~success
      <3> DEFINE d == [c EXCEPT !.consecutive_failures = @ + 1]
      <3>1. /\ d \in Circuit
            /\ d.phase = "Closed"
            /\ d.open_until = None
            /\ d.half_open_remaining_calls = 0
            /\ d.half_open_successes = 0
        BY <1>1 DEF Circuit, Phases, Coherent, CoherentUpTo
      <3>2. Recorded(c, success) =
               IF d.consecutive_failures >= FailureThreshold
               THEN [Opened(d) EXCEPT !.half_open_remaining_calls = 0,
                                      !.half_open_successes = 0]
               ELSE d
        BY <1>1, <2>2 DEF Recorded, RecordedClosed
      <3> HIDE DEF d
      <3>3. CASE d.consecutive_failures >= FailureThreshold
        BY <1>1, <3>1, <3>2, <3>3 DEF Opened, Circuit, Phases, Coherent, CoherentUpTo
      <3>4. CASE ~(d.consecutive_failures >= FailureThreshold)
        BY <1>1, <3>1, <3>2, <3>4 DEF Circuit, Phases, Coherent, CoherentUpTo
      <3> QED BY <3>3, <3>4
    <2> QED BY <2>1, <2>2
  <1>2. CASE c.phase = "HalfOpen"
    <2>1. CASE ~success
      BY <1>2, <2>1 DEF Recorded, RecordedHalfOpen, Opened, Circuit, Phases, Coherent, CoherentUpTo
    <2>2. CASE success
      <3> DEFINE d == [c EXCEPT !.half_open_successes = @ + 1]
      <3>1. /\ d \in Circuit
            /\ d.phase = "HalfOpen"
            /\ d.open_until = None
            /\ d.half_open_remaining_calls = c.half_open_remaining_calls
            /\ d.half_open_remaining_calls < HalfOpenMaxCalls
        BY <1>2 DEF Circuit, Phases, Coherent, CoherentUpTo
      <3>2. Recorded(c, success) =
               IF d.half_open_successes >= SuccessThreshold THEN DefaultCircuit
               ELSE IF d.half_open_remaining_calls = 0
               THEN [Opened(d) EXCEPT !.half_open_successes = 0]
               ELSE d
        BY <1>2, <2>2 DEF Recorded, RecordedHalfOpen
      <3> HIDE DEF d
      <3>3. CASE d.half_open_successes >= SuccessThreshold
        BY <1>2, <3>2, <3>3 DEF DefaultCircuit, Circuit, Phases, Coherent, CoherentUpTo
      <3>4. CASE ~(d.half_open_successes >= SuccessThreshold)
                 /\ d.half_open_remaining_calls = 0
        BY <1>2, <3>1, <3>2, <3>4 DEF Opened, Circuit, Phases, Coherent, CoherentUpTo
      <3>5. CASE ~(d.half_open_successes >= SuccessThreshold)
                 /\ d.half_open_remaining_calls # 0
        BY <1>2, <3>1, <3>2, <3>5 DEF Circuit, Phases, Coherent, CoherentUpTo
      <3> QED BY <3>3, <3>4, <3>5
    <2> QED BY <2>1, <2>2
  <1>3. CASE c.phase = "Open"
    BY <1>3 DEF Recorded, Circuit, Phases, Coherent, CoherentUpTo
  <1> QED BY <1>1, <1>2, <1>3 DEF Circuit, Phases

-----------------------------------------------------------------------------
\* A closed circuit without callers satisfies the invariant.
LEMMA InitIInv == Init => IInv
  BY DEF Init, IInv, TypeOK, CircuitCoherent, NoOrphanWindow, DeadlineWhole,
         CooldownKept, DefaultCircuit, Circuit, Phases

\* Every step keeps the invariant.
LEMMA StepIInv == IInv /\ [Next]_vars => IInv'
  <1> SUFFICES ASSUME IInv, [Next]_vars PROVE IInv'
    OBVIOUS
  <1>0. /\ circuit \in Circuit /\ Coherent(circuit)
        /\ slot \subseteq Callers /\ elapsed \in 0..Cooldown
        /\ circuit.phase = "Open" => circuit.open_until \in Nat
    BY CoherentIs DEF IInv, TypeOK, Coherent, CoherentUpTo, Circuit
  <1>00. circuit' \in Circuit /\ Coherent(circuit') => CircuitCoherent'
    BY DEF Coherent, CoherentUpTo, CircuitCoherent, Circuit
  <1>1. ASSUME NEW p \in Callers, Acquire(p) PROVE IInv'
    <2>1. /\ circuit' \in Circuit
          /\ Coherent(circuit')
          /\ circuit'.phase = "HalfOpen" /\ circuit'.half_open_remaining_calls = 0
                => Grants(circuit)
          /\ circuit.phase = "Open" /\ circuit'.phase # "Open" => circuit.open_until = 0
          /\ circuit.phase = "Open" /\ circuit'.phase = "Open" => circuit' = circuit
          /\ circuit.phase # "Open" /\ circuit'.phase = "Open" =>
                circuit'.open_until = Cooldown
      BY <1>0, <1>1, AcquireFacts DEF Acquire
    <2>2. TypeOK'
      BY <1>0, <1>1, <2>1 DEF Acquire, Note, TypeOK
    <2>3. NoOrphanWindow'
      BY <1>1, <2>1 DEF Acquire, NoOrphanWindow
    <2>4. DeadlineWhole' /\ CooldownKept'
      BY <1>0, <1>1, <2>1 DEF Acquire, Note, IInv, DeadlineWhole, CooldownKept
    <2> QED BY <1>00, <2>1, <2>2, <2>3, <2>4 DEF IInv
  <1>2. ASSUME NEW p \in Callers, NEW success \in BOOLEAN, Record(p, success)
        PROVE  IInv'
    <2>1. /\ circuit' \in Circuit
          /\ Coherent(circuit')
          /\ ~(circuit'.phase = "HalfOpen" /\ circuit'.half_open_remaining_calls = 0)
          /\ circuit.phase = "Open" => circuit' = circuit
          /\ circuit.phase # "Open" /\ circuit'.phase = "Open" =>
                circuit'.open_until = Cooldown
      BY <1>0, <1>2, RecordFacts DEF Record
    <2>2. TypeOK'
      BY <1>0, <1>2, <2>1 DEF Record, Note, TypeOK
    <2>3. NoOrphanWindow'
      BY <2>1 DEF NoOrphanWindow
    <2>4. DeadlineWhole' /\ CooldownKept'
      BY <1>0, <1>2, <2>1 DEF Record, Note, IInv, DeadlineWhole, CooldownKept
    <2> QED BY <1>00, <2>1, <2>2, <2>3, <2>4 DEF IInv
  <1>3. CASE Tick
    <2>1. /\ circuit' \in Circuit
          /\ Coherent(circuit')
          /\ circuit'.phase = circuit.phase
          /\ circuit'.half_open_remaining_calls = circuit.half_open_remaining_calls
          /\ circuit.phase = "Open" =>
                circuit'.open_until = IF circuit.open_until = 0 THEN 0
                                      ELSE circuit.open_until - 1
      BY <1>0, <1>3 DEF Tick, Waited, Circuit, Phases, Coherent, CoherentUpTo
    <2>2. TypeOK'
      BY <1>0, <1>3, <2>1 DEF Tick, TypeOK
    <2>3. NoOrphanWindow'
      BY <1>3, <2>1 DEF Tick, NoOrphanWindow, IInv
    <2>4. DeadlineWhole'
      BY <1>0, <1>3, <2>1 DEF Tick, DeadlineWhole, IInv
    <2>5. CooldownKept'
      BY <1>0, <1>3, <2>1 DEF Tick, CooldownKept, IInv
    <2> QED BY <1>00, <2>1, <2>2, <2>3, <2>4, <2>5 DEF IInv
  <1>4. CASE UNCHANGED vars
    BY <1>4 DEF vars, IInv, TypeOK, CircuitCoherent, NoOrphanWindow,
                DeadlineWhole, CooldownKept
  <1> QED BY <1>1, <1>2, <1>3, <1>4 DEF Next

\* The invariant holds throughout.
LEMMA Inductive == Spec => []IInv
  BY InitIInv, StepIInv, PTL DEF Spec

(* The counters of ConnectorCircuitRuntimeState never leave the naturals:   *)
(* no probe is granted from an empty window and no deadline passes zero.    *)
THEOREM TypeCorrect == Spec => []TypeOK
  <1>1. IInv => TypeOK
    BY DEF IInv
  <1> QED BY <1>1, Inductive, PTL

(* acquire_connector_circuit_slot_for_state and                             *)
(* record_connector_circuit_outcome_for_state keep phase, deadline, failure *)
(* count and half-open counters in agreement, in any order of calls.        *)
THEOREM CoherenceCorrect == Spec => [](TypeOK /\ CircuitCoherent)
  <1>1. IInv => TypeOK /\ CircuitCoherent
    BY DEF IInv
  <1> QED BY <1>1, Inductive, PTL

(* A half-open window without probes left always has a call in flight.      *)
THEOREM WindowCorrect == Spec => []NoOrphanWindow
  <1>1. IInv => NoOrphanWindow
    BY DEF IInv
  <1> QED BY <1>1, Inductive, PTL

(* Every opening is followed by a full cooldown in which no slot is granted.*)
THEOREM CooldownCorrect == Spec => []CooldownKept
  <1>1. IInv => CooldownKept
    BY DEF IInv
  <1> QED BY <1>1, Inductive, PTL
=============================================================================
