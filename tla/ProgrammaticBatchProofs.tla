----------------------- MODULE ProgrammaticBatchProofs -----------------------
(***************************************************************************)
(* Proofs about a parallel batch step for any number of calls, any queues, *)
(* any round-robin cycle that names every class, every concurrency and     *)
(* retry policy and every circuit policy the validators accept.            *)
(***************************************************************************)
EXTENDS ProgrammaticBatch, FiniteSetTheorems, WellFoundedInduction, TLAPS

Stages == {"pending", "dispatched", "running", "reported"} \cup Results

Types ==
    /\ mode \in {"fill", "await", "ok", "err"}
    /\ pending \in [Classes -> Seq(Calls)]
    /\ cursor \in 0..(Len(Cycle) - 1)
    /\ stage \in [Calls -> Stages]
    /\ circuit \in Circuit
    /\ passed \in [Classes -> Nat]

\* The class at a distance from the cursor, around the cycle.
Ahead(position, offset) == ClassAt((position + offset) % Len(Cycle))

\* Why the round robin starves nobody: each class comes up again before the
\* others can have been served a whole cycle.  NoStarvation is not inductive
\* without it, as it does not say where the cursor is.
TurnAhead ==
    \A k \in Classes : \E o \in Nat :
        passed[k] + o < Len(Cycle) /\ Ahead(cursor, o) = k

IInv == Types /\ InFlightBounded /\ NothingLost /\ NoOrphanProbe /\ TurnAhead

-----------------------------------------------------------------------------
\* Arithmetic.

\* A remainder of less than two turns.
LEMMA ModSmall ==
    ASSUME NEW L \in Nat \ {0}, NEW x \in Nat, x < 2 * L
    PROVE  x % L = IF x < L THEN x ELSE x - L
  <1>1. CASE x < L
    <2>1. x % L = x
      BY <1>1
    <2> QED BY <1>1, <2>1
  <1>2. CASE x >= L
    <2>1. x % L = x - L
      BY <1>2
    <2> QED BY <1>2, <2>1
  <1> QED BY <1>1, <1>2

\* A nonempty set of naturals has a least element.
Below == {ss \in Nat \X Nat : ss[1] < ss[2]}

\* Every nonempty set of naturals has a least member.
LEMMA LeastNatural ==
    ASSUME NEW S, S \subseteq Nat, S # {}
    PROVE  \E x \in S : \A y \in S : x <= y
  <1>1. IsWellFoundedOn(Below, Nat)
    BY NatLessThanWellFounded, Zenon DEF OpToRel, Below
  <1>2. PICK x \in S : \A y \in S : ~ (<<y, x>> \in Below)
    BY <1>1, WFMin
  <1>3. ASSUME NEW y \in S PROVE x <= y
    <2>1. x \in Nat /\ y \in Nat
      BY <1>3, <1>2
    <2>2. ~(y < x)
      BY <1>2, <2>1 DEF Below
    <2> QED BY <2>1, <2>2
  <1> QED BY <1>2, <1>3

-----------------------------------------------------------------------------
\* The circuit of the guarded connector.

\* A half-open window without probes left.
UsedUp(c) == c.phase = "HalfOpen" /\ c.half_open_remaining_calls = 0

\* Taking a slot uses up a window only when it grants the slot.
LEMMA AcquiredFacts ==
    ASSUME NEW c \in Circuit
    PROVE  Acquired(c) \in Circuit /\ (UsedUp(Acquired(c)) => Grants(c))
  <1> USE PolicyAssumption, NoneAssumption
  <1>1. PICK e : e = EnteredHalfOpen(c)
    OBVIOUS
  <1>2. e \in Circuit
    BY <1>1 DEF EnteredHalfOpen, Circuit, Phases
  <1>3. Acquired(c) = IF e.phase # "HalfOpen" THEN e
                      ELSE IF e.half_open_remaining_calls = 0 THEN Opened(e)
                      ELSE [e EXCEPT !.half_open_remaining_calls = @ - 1]
    BY <1>1 DEF Acquired
  <1>4. Grants(c) <=> \/ e.phase = "Closed"
                      \/ e.phase = "HalfOpen" /\ e.half_open_remaining_calls # 0
    BY <1>1 DEF Grants
  <1>5. CASE e.phase # "HalfOpen"
    BY <1>2, <1>3, <1>5 DEF UsedUp
  <1>6. CASE e.phase = "HalfOpen" /\ e.half_open_remaining_calls = 0
    BY <1>2, <1>3, <1>6 DEF UsedUp, Opened, Circuit, Phases
  <1>7. CASE e.phase = "HalfOpen" /\ e.half_open_remaining_calls # 0
    BY <1>2, <1>3, <1>4, <1>7 DEF Circuit, Phases
  <1> QED BY <1>5, <1>6, <1>7

\* Recording an outcome never leaves a used-up window.
LEMMA RecordedFacts ==
    ASSUME NEW c \in Circuit, NEW success \in BOOLEAN
    PROVE  Recorded(c, success) \in Circuit /\ ~UsedUp(Recorded(c, success))
  <1> USE PolicyAssumption, NoneAssumption
  <1>1. CASE c.phase = "Closed"
    <2>1. PICK d : d = [c EXCEPT !.consecutive_failures = @ + 1]
      OBVIOUS
    <2>2. d \in Circuit /\ d.phase = "Closed"
      BY <1>1, <2>1 DEF Circuit, Phases
    <2>3. PICK e : e = [Opened(d) EXCEPT !.half_open_remaining_calls = 0,
                                         !.half_open_successes = 0]
      OBVIOUS
    <2>4. e \in Circuit /\ e.phase = "Open"
      BY <2>2, <2>3 DEF Opened, Circuit, Phases
    <2>5. PICK g : g = [c EXCEPT !.consecutive_failures = 0]
      OBVIOUS
    <2>6. g \in Circuit /\ g.phase = "Closed"
      BY <1>1, <2>5 DEF Circuit, Phases
    <2>7. Recorded(c, success) \in {d, e, g}
      BY <1>1, <2>1, <2>3, <2>5 DEF Recorded, RecordedClosed
    <2> QED BY <2>2, <2>4, <2>6, <2>7 DEF UsedUp
  <1>2. CASE c.phase = "HalfOpen"
    <2>1. PICK d : d = [c EXCEPT !.half_open_successes = @ + 1]
      OBVIOUS
    <2>2. d \in Circuit
      BY <2>1 DEF Circuit, Phases
    <2>3. PICK e : e = [Opened(c) EXCEPT !.half_open_remaining_calls = 0,
                                         !.half_open_successes = 0]
      OBVIOUS
    <2>4. e \in Circuit /\ e.phase = "Open"
      BY <2>3 DEF Opened, Circuit, Phases
    <2>5. PICK g : g = [Opened(d) EXCEPT !.half_open_successes = 0]
      OBVIOUS
    <2>6. g \in Circuit /\ g.phase = "Open"
      BY <2>2, <2>5 DEF Opened, Circuit, Phases
    <2>7. DefaultCircuit \in Circuit /\ DefaultCircuit.phase = "Closed"
      BY DEF DefaultCircuit, Circuit, Phases
    <2>8. \/ Recorded(c, success) \in {e, g, DefaultCircuit}
          \/ Recorded(c, success) = d /\ d.half_open_remaining_calls # 0
      BY <1>2, <2>1, <2>3, <2>5 DEF Recorded, RecordedHalfOpen
    <2> QED BY <2>2, <2>4, <2>6, <2>7, <2>8 DEF UsedUp
  <1>3. CASE c.phase = "Open"
    BY <1>3 DEF Recorded, UsedUp
  <1> QED BY <1>1, <1>2, <1>3 DEF Circuit, Phases

\* Time does not touch the window.
LEMMA WaitedFacts ==
    ASSUME NEW c \in Circuit
    PROVE  Waited(c) \in Circuit /\ (UsedUp(Waited(c)) <=> UsedUp(c))
  BY NoneAssumption DEF Waited, UsedUp, Circuit

-----------------------------------------------------------------------------
\* The round robin.

USE ConcurrencyAssumption

\* The cycle has places, and each holds a class.
LEMMA CycleFacts ==
    /\ Len(Cycle) \in Nat \ {0}
    /\ \A i \in 0..(Len(Cycle) - 1) : ClassAt(i) \in Classes
    /\ \A k \in Classes : \E i \in 0..(Len(Cycle) - 1) : ClassAt(i) = k
  <1>1. Cycle \in Seq(Classes) /\ Len(Cycle) \in Nat /\ DOMAIN Cycle = 1..Len(Cycle)
    OBVIOUS
  <1>2. "high" \in Classes
    BY DEF Classes
  <1>3. PICK h \in DOMAIN Cycle : Cycle[h] = "high"
    BY <1>2
  <1>4. Len(Cycle) # 0
    BY <1>1, <1>3
  <1>5. \A i \in 0..(Len(Cycle) - 1) : i + 1 \in DOMAIN Cycle
    BY <1>1
  <1>6. ASSUME NEW i \in 0..(Len(Cycle) - 1)
        PROVE  ClassAt(i) \in Classes
    BY <1>1, <1>5 DEF ClassAt
  <1>7. ASSUME NEW k \in Classes
        PROVE  \E i \in 0..(Len(Cycle) - 1) : ClassAt(i) = k
    <2>1. PICK i \in DOMAIN Cycle : Cycle[i] = k
      OBVIOUS
    <2>2. i - 1 \in 0..(Len(Cycle) - 1) /\ (i - 1) + 1 = i
      BY <1>1, <2>1
    <2> QED BY <2>1, <2>2 DEF ClassAt
  <1> QED BY <1>1, <1>4, <1>6, <1>7

\* From every position of the cursor every class is less than a turn ahead.
LEMMA EveryClassAhead ==
    ASSUME NEW p \in 0..(Len(Cycle) - 1), NEW k \in Classes
    PROVE  \E o \in 0..(Len(Cycle) - 1) : Ahead(p, o) = k
  <1> DEFINE L == Len(Cycle)
  <1>1. L \in Nat \ {0}
    BY CycleFacts
  <1>2. PICK i \in 0..(L - 1) : ClassAt(i) = k
    BY CycleFacts
  <1> DEFINE o == IF p <= i THEN i - p ELSE i - p + L
  <1> HIDE DEF L
  <1>3. /\ o \in 0..(L - 1)
        /\ p + o = IF p <= i THEN i ELSE i + L
    BY <1>1, <1>2 DEF L
  <1> HIDE DEF o
  <1>4. (p + o) % L = i
    <2>1. CASE p <= i
      <3>1. i \in Nat /\ i < 2 * L /\ i < L
        BY <1>1
      <3>2. i % L = IF i < L THEN i ELSE i - L
        BY <1>1, <3>1, ModSmall, Zenon
      <3> QED BY <1>3, <2>1, <3>1, <3>2
    <2>2. CASE ~(p <= i)
      <3>1. (i + L) % L = i
        <4> DEFINE x == i + L
        <4>1. x \in Nat /\ x < 2 * L /\ ~(x < L) /\ x - L = i
          BY <1>1
        <4> HIDE DEF x
        <4>2. x % L = IF x < L THEN x ELSE x - L
          BY <1>1, <4>1, ModSmall, Zenon
        <4> QED BY <4>1, <4>2 DEF x
      <3> QED BY <1>3, <2>2, <3>1
    <2> QED BY <2>1, <2>2
  <1> QED BY <1>2, <1>3, <1>4 DEF Ahead, L

\* What pop_next_programmatic_call returns when a call is pending: the first
\* position from the cursor on whose queue is not empty.
NextAt(f) ==
    /\ f \in 0..(Len(Cycle) - 1)
    /\ NextIndex = (cursor + f) % Len(Cycle)
    /\ NextIndex \in 0..(Len(Cycle) - 1)
    /\ ClassAt(NextIndex) \in Classes
    /\ pending[ClassAt(NextIndex)] # <<>>
    /\ \A n \in 0..(f - 1) : pending[Ahead(cursor, n)] = <<>>

\* The cursor comes to a class with calls within one round.
LEMMA NextIndexFacts ==
    ASSUME Types, AnyPending
    PROVE  \E f \in 0..(Len(Cycle) - 1) : NextAt(f)
  <1> DEFINE L == Len(Cycle)
             Busy == {o \in 0..(L - 1) : pending[Ahead(cursor, o)] # <<>>}
             First(o) == /\ pending[ClassAt((cursor + o) % L)] # <<>>
                         /\ \A n \in 0..(o - 1) : pending[ClassAt((cursor + n) % L)] = <<>>
             f == CHOOSE o \in 0..(L - 1) : First(o)
  <1>1. L \in Nat \ {0} /\ cursor \in 0..(L - 1)
    BY CycleFacts DEF Types
  <1>2. Busy # {} /\ Busy \subseteq Nat
    <2>1. PICK k \in Classes : pending[k] # <<>>
      BY DEF AnyPending
    <2>2. PICK o \in 0..(L - 1) : Ahead(cursor, o) = k
      BY <1>1, EveryClassAhead
    <2>3. o \in Busy
      BY <2>1, <2>2
    <2> QED BY <1>1, <2>3
  <1>3. PICK x \in Busy : \A y \in Busy : x <= y
    <2> HIDE DEF Busy
    <2> QED BY <1>2, LeastNatural
  <1>4. First(x)
    <2>1. ASSUME NEW n \in 0..(x - 1)
          PROVE  pending[ClassAt((cursor + n) % L)] = <<>>
      <3>1. n \in 0..(L - 1) /\ ~(x <= n)
        BY <1>1, <1>3
      <3> QED BY <1>3, <3>1 DEF Ahead
    <2> QED BY <1>3, <2>1 DEF Ahead
  <1>5. f \in 0..(L - 1) /\ First(f)
    <2>1. \E o \in 0..(L - 1) : First(o)
      BY <1>3, <1>4
    <2> HIDE DEF First
    <2> QED BY <2>1
  <1>6. NextIndex = (cursor + f) % L
    BY DEF NextIndex
  <1> HIDE DEF f, L
  <1>7. NextIndex \in 0..(L - 1)
    <2> DEFINE z == cursor + f
    <2>1. z \in Nat /\ z < 2 * L
      BY <1>1, <1>5
    <2>2. NextIndex = z % L
      BY <1>6
    <2> HIDE DEF z
    <2>3. z % L = IF z < L THEN z ELSE z - L
      BY <1>1, <2>1, ModSmall, Zenon
    <2> QED BY <1>1, <2>1, <2>2, <2>3
  <1>8. ClassAt(NextIndex) \in Classes
    BY <1>7, CycleFacts DEF L
  <1>9. \A n \in 0..(f - 1) : pending[Ahead(cursor, n)] = <<>>
    BY <1>5 DEF Ahead, L
  <1>10. NextAt(f)
    BY <1>5, <1>6, <1>7, <1>8, <1>9 DEF NextAt, L
  <1> QED BY <1>5, <1>10 DEF L

\* Positions counted from the place after the chosen one are those counted
\* from the cursor, f + 1 places on.
LEMMA RoundShift ==
    ASSUME NEW L \in Nat \ {0}, NEW c \in 0..(L - 1), NEW f \in 0..(L - 1),
           NEW o \in 0..(L - 1), f < o
    PROVE  (((((c + f) % L) + 1) % L) + (o - f - 1)) % L = (c + o) % L
  <1>1. /\ c + f \in Nat /\ c + f < 2 * L
        /\ c + o \in Nat /\ c + o < 2 * L
    OBVIOUS
  <1>2. PICK a \in Nat : a = c + f
    BY <1>1
  <1>3. PICK b \in Nat : b = c + o
    BY <1>1
  <1>4. /\ a % L = IF a < L THEN a ELSE a - L
        /\ b % L = IF b < L THEN b ELSE b - L
    <2>1. a < 2 * L /\ b < 2 * L
      BY <1>1, <1>2, <1>3
    <2> QED BY <2>1, ModSmall, Zenon
  <1>5. PICK d \in Nat : d = a % L /\ d < L
    BY <1>1, <1>2, <1>4
  <1>6. PICK e \in Nat : e = d + 1 /\ e < 2 * L
    <2>1. d + 1 \in Nat /\ d + 1 < 2 * L
      BY <1>5
    <2> QED BY <2>1
  <1>7. e % L = IF e < L THEN e ELSE e - L
    BY <1>6, ModSmall, Zenon
  <1>8. PICK g \in Nat : g = e % L /\ g < L
    BY <1>5, <1>6, <1>7
  <1>9. PICK h \in Nat : h = g + (o - f - 1) /\ h < 2 * L
    BY <1>8
  <1>10. h % L = IF h < L THEN h ELSE h - L
    BY <1>9, ModSmall, Zenon
  <1>11. PICK bm \in Int : bm = b % L
    BY <1>1, <1>3, <1>4
  <1>12. PICK hm \in Int : hm = h % L
    BY <1>9, <1>10
  <1>13. hm = bm
    <2>1. /\ bm = IF b < L THEN b ELSE b - L
          /\ hm = IF h < L THEN h ELSE h - L
          /\ g = IF e < L THEN e ELSE e - L
          /\ d = IF a < L THEN a ELSE a - L
      BY <1>4, <1>5, <1>7, <1>8, <1>10, <1>11, <1>12, Zenon
    <2> QED BY <2>1, <1>2, <1>3, <1>6, <1>9
  <1> QED BY <1>2, <1>3, <1>5, <1>6, <1>8, <1>9, <1>11, <1>12, <1>13

-----------------------------------------------------------------------------
\* Dispatching one call.

\* What Dispatch does, with the position and the call it chose.
Chosen(f, k, c) ==
    /\ f \in 0..(Len(Cycle) - 1)
    /\ k \in Classes
    /\ c \in Calls
    /\ k = Ahead(cursor, f)
    /\ \A n \in 0..(f - 1) : pending[Ahead(cursor, n)] = <<>>
    /\ pending[k] # <<>>
    /\ c = Head(pending[k])
    /\ pending' = [pending EXCEPT ![k] = Tail(@)]
    /\ stage' = [stage EXCEPT ![c] = "dispatched"]
    /\ passed' = [j \in Classes |->
          IF j = k \/ pending[j] = <<>> THEN 0 ELSE passed[j] + 1]
    /\ cursor' = (((cursor + f) % Len(Cycle)) + 1) % Len(Cycle)
    /\ cursor' \in 0..(Len(Cycle) - 1)

\* Which class and which call a dispatch takes.
LEMMA DispatchFacts ==
    ASSUME Types, Dispatch
    PROVE  \E f \in 0..(Len(Cycle) - 1) : \E k \in Classes : \E c \in Calls : Chosen(f, k, c)
  <1>1. PICK f \in 0..(Len(Cycle) - 1) : NextAt(f)
    BY NextIndexFacts DEF Dispatch
  <1> DEFINE k == ClassAt(NextIndex)
             c == Head(pending[k])
  <1>2. /\ k \in Classes
        /\ pending[k] # <<>>
        /\ k = Ahead(cursor, f)
        /\ \A n \in 0..(f - 1) : pending[Ahead(cursor, n)] = <<>>
    BY <1>1 DEF NextAt, Ahead
  <1>3. pending[k] \in Seq(Calls)
    <2> HIDE DEF k
    <2> QED BY <1>2 DEF Types
  <1>4. c \in Calls
    <2> HIDE DEF k
    <2> QED BY <1>2, <1>3
  <1>5. /\ pending' = [pending EXCEPT ![k] = Tail(@)]
        /\ stage' = [stage EXCEPT ![c] = "dispatched"]
        /\ passed' = [j \in Classes |->
              IF j = k \/ pending[j] = <<>> THEN 0 ELSE passed[j] + 1]
        /\ cursor' = Advanced(NextIndex)
    BY DEF Dispatch
  <1>6. cursor' = (((cursor + f) % Len(Cycle)) + 1) % Len(Cycle)
    BY <1>1, <1>5 DEF NextAt, Advanced
  <1>7. cursor' \in 0..(Len(Cycle) - 1)
    <2>1. PICK L \in Nat \ {0} : L = Len(Cycle)
      BY CycleFacts
    <2>2. PICK i \in 0..(L - 1) : i = NextIndex
      BY <1>1, <2>1 DEF NextAt
    <2>3. PICK x \in Nat : x = i + 1 /\ x < 2 * L
      <3>1. i + 1 \in Nat /\ i + 1 < 2 * L
        OBVIOUS
      <3> QED BY <3>1
    <2>4. x % L = IF x < L THEN x ELSE x - L
      BY <2>3, ModSmall, Zenon
    <2>5. x % L \in 0..(L - 1)
      BY <2>3, <2>4
    <2>6. cursor' = x % L
      BY <1>5, <2>1, <2>2, <2>3 DEF Advanced
    <2> QED BY <2>1, <2>5, <2>6
  <1> HIDE DEF k, c
  <1>8. Chosen(f, k, c)
    BY <1>2, <1>4, <1>5, <1>6, <1>7 DEF Chosen, c
  <1> QED BY <1>2, <1>4, <1>8

\* The dispatched class and the empty ones start to count anew; any other
\* class is ahead of the position chosen, so the cursor came closer to it.
LEMMA TurnStep ==
    ASSUME Types, TurnAhead, NEW f, NEW k, NEW c, Chosen(f, k, c)
    PROVE  TurnAhead'
  <1> DEFINE L == Len(Cycle)
  <1>1. L \in Nat \ {0} /\ cursor \in 0..(L - 1) /\ cursor' \in 0..(L - 1)
    BY CycleFacts DEF Types, Chosen
  <1>2. SUFFICES ASSUME NEW j \in Classes
                 PROVE  \E o \in Nat : passed'[j] + o < L /\ Ahead(cursor', o) = j
    BY DEF TurnAhead, Ahead, ClassAt
  <1>3. PICK at \in 0..(L - 1) : at = cursor'
    BY <1>1
  <1>4. CASE j = k \/ pending[j] = <<>>
    <2>1. passed'[j] = 0
      BY <1>4 DEF Chosen
    <2>2. PICK o \in 0..(L - 1) : Ahead(at, o) = j
      BY EveryClassAhead
    <2>3. o \in Nat /\ 0 + o < L
      BY <1>1, <2>2
    <2> QED BY <1>3, <2>1, <2>2, <2>3
  <1>5. CASE j # k /\ pending[j] # <<>>
    <2>1. passed'[j] = passed[j] + 1 /\ passed[j] \in Nat
      BY <1>5 DEF Chosen, Types
    <2>2. PICK o \in Nat : passed[j] + o < L /\ Ahead(cursor, o) = j
      BY DEF TurnAhead
    <2>3. f \in 0..(L - 1) /\ o \in 0..(L - 1)
      <3>1. f \in 0..(L - 1)
        BY DEF Chosen
      <3>2. o < L
        <4> DEFINE m == passed[j]
        <4>1. m \in Nat /\ m + o < L
          BY <2>1, <2>2
        <4> HIDE DEF m, L
        <4> QED BY <1>1, <2>2, <4>1
      <3> HIDE DEF L
      <3>3. o \in 0..(L - 1)
        BY <1>1, <2>2, <3>2
      <3> QED BY <3>1, <3>3
    <2>4. f < o
      <3>1. o # f
        BY <1>5, <2>2 DEF Chosen
      <3>2. ~(o < f)
        <4>1. o < f => o \in 0..(f - 1)
          BY <2>3
        <4> QED BY <1>5, <2>2, <4>1 DEF Chosen
      <3> QED BY <2>3, <3>1, <3>2
    <2> DEFINE n == o - f - 1
    <2>5. n \in Nat /\ passed'[j] + n < L
      <3>1. n \in Nat
        BY <2>3, <2>4
      <3> DEFINE m == passed[j]
      <3>2. m \in Nat /\ m + o < L /\ passed'[j] = m + 1
        BY <2>1, <2>2
      <3> HIDE DEF m, L
      <3>3. (m + 1) + n < L
        BY <1>1, <2>3, <2>4, <3>2
      <3> QED BY <3>1, <3>2, <3>3
    <2>6. Ahead(cursor', n) = j
      <3>1. (((((cursor + f) % L) + 1) % L) + n) % L = (cursor + o) % L
        BY <1>1, <2>3, <2>4, RoundShift
      <3>2. (cursor' + n) % L = (cursor + o) % L
        BY <3>1 DEF Chosen
      <3> QED BY <2>2, <3>2 DEF Ahead
    <2> QED BY <2>5, <2>6
  <1> QED BY <1>4, <1>5

\* Every place of the queues afterwards was a place before, and only the
\* front of the chosen queue is gone.
LEMMA PlacesStep ==
    ASSUME Types, NEW f, NEW k, NEW c, Chosen(f, k, c)
    PROVE  /\ pending' \in [Classes -> Seq(Calls)]
           /\ \A l \in Classes : l # k => pending'[l] = pending[l]
           /\ 1 \in DOMAIN pending[k] /\ pending[k][1] = c
           /\ \A i \in DOMAIN pending'[k] : /\ i + 1 \in DOMAIN pending[k]
                                            /\ i + 1 # 1
                                            /\ pending'[k][i] = pending[k][i + 1]
           /\ \A i \in DOMAIN pending[k] : i # 1 =>
                 i - 1 \in DOMAIN pending'[k] /\ pending'[k][i - 1] = pending[k][i]
  <1>1. PICK q \in Seq(Calls) : q = pending[k]
    BY DEF Types, Chosen
  <1>2. q # <<>> /\ k \in Classes /\ c = Head(q)
    BY <1>1 DEF Chosen
  <1>3. /\ pending' = [pending EXCEPT ![k] = Tail(q)]
        /\ pending'[k] = Tail(q)
        /\ \A l \in Classes : l # k => pending'[l] = pending[l]
    BY <1>1, <1>2 DEF Chosen, Types
  <1>4. /\ Tail(q) \in Seq(Calls)
        /\ Len(Tail(q)) = Len(q) - 1 /\ Len(q) \in Nat \ {0}
        /\ DOMAIN q = 1..Len(q) /\ DOMAIN Tail(q) = 1..(Len(q) - 1)
        /\ \A i \in 1..(Len(q) - 1) : Tail(q)[i] = q[i + 1]
        /\ q[1] = c
    BY <1>2
  <1>5. pending' \in [Classes -> Seq(Calls)]
    BY <1>2, <1>3, <1>4 DEF Types
  <1>6. PICK len \in Nat \ {0} : len = Len(q)
    BY <1>4
  <1>7. 1 \in DOMAIN q
    BY <1>4, <1>6
  <1>8. ASSUME NEW i \in DOMAIN Tail(q)
        PROVE  i + 1 \in DOMAIN q /\ i + 1 # 1 /\ Tail(q)[i] = q[i + 1]
    <2>1. i \in 1..(len - 1)
      BY <1>4, <1>6
    <2>2. i + 1 \in 1..len /\ i + 1 # 1
      BY <2>1
    <2> QED BY <1>4, <1>6, <2>1, <2>2
  <1>9. ASSUME NEW i \in DOMAIN q, i # 1
        PROVE  i - 1 \in DOMAIN Tail(q) /\ Tail(q)[i - 1] = q[i]
    <2>1. i \in 1..len
      BY <1>4, <1>6
    <2>2. i - 1 \in 1..(len - 1) /\ (i - 1) + 1 = i
      BY <1>9, <2>1
    <2> QED BY <1>4, <1>6, <2>2
  <1> QED BY <1>1, <1>3, <1>4, <1>5, <1>7, <1>8, <1>9

\* The dispatched call leaves its only place; every other keeps one.
LEMMA QueuesStep ==
    ASSUME Types, NothingLost, NEW f, NEW k, NEW c, Chosen(f, k, c)
    PROVE  /\ stage[c] = "pending"
           /\ \A d \in Calls : stage'[d] = "pending" <=> Queued(pending', d)
           /\ QueuedOnce(pending')
  <1>1. /\ pending' \in [Classes -> Seq(Calls)]
        /\ \A l \in Classes : l # k => pending'[l] = pending[l]
        /\ 1 \in DOMAIN pending[k] /\ pending[k][1] = c
        /\ \A i \in DOMAIN pending'[k] : /\ i + 1 \in DOMAIN pending[k]
                                         /\ i + 1 # 1
                                         /\ pending'[k][i] = pending[k][i + 1]
        /\ \A i \in DOMAIN pending[k] : i # 1 =>
              i - 1 \in DOMAIN pending'[k] /\ pending'[k][i - 1] = pending[k][i]
    BY PlacesStep
  <1>2. /\ k \in Classes /\ c \in Calls
        /\ \A d \in Calls : stage'[d] = IF d = c THEN "dispatched" ELSE stage[d]
    BY DEF Chosen, Types
  <1>3. QueuedOnce(pending)
    BY DEF NothingLost
  <1>4. stage[c] = "pending"
    <2>1. Queued(pending, c)
      BY <1>1, <1>2 DEF Queued
    <2> QED BY <1>2, <2>1 DEF NothingLost
  <1>5. ASSUME NEW l \in Classes, NEW i \in DOMAIN pending'[l]
        PROVE  /\ pending'[l][i] # c
               /\ \E j \in DOMAIN pending[l] :
                     /\ pending[l][j] = pending'[l][i]
                     /\ j = IF l = k THEN i + 1 ELSE i
    <2>1. CASE l = k
      <3>1. /\ i + 1 \in DOMAIN pending[k] /\ i + 1 # 1
            /\ pending'[k][i] = pending[k][i + 1]
        BY <1>1, <1>5, <2>1
      <3>2. pending[k][i + 1] # c
        <4>1. ASSUME pending[k][i + 1] = pending[k][1] PROVE FALSE
          BY <1>1, <1>2, <1>3, <3>1, <4>1 DEF QueuedOnce
        <4> QED BY <1>1, <4>1
      <3> QED BY <2>1, <3>1, <3>2
    <2>2. CASE l # k
      <3>1. i \in DOMAIN pending[l] /\ pending'[l][i] = pending[l][i]
        BY <1>1, <1>5, <2>2
      <3>2. pending[l][i] # c
        <4>1. ASSUME pending[l][i] = pending[k][1] PROVE FALSE
          BY <1>1, <1>2, <1>3, <1>5, <2>2, <3>1, <4>1 DEF QueuedOnce
        <4> QED BY <1>1, <4>1
      <3> QED BY <2>2, <3>1, <3>2
    <2> QED BY <2>1, <2>2
  <1>6. ASSUME NEW d \in Calls
        PROVE  Queued(pending', d) <=> d # c /\ Queued(pending, d)
    <2>1. ASSUME Queued(pending', d) PROVE d # c /\ Queued(pending, d)
      <3>0. PICK l \in Classes : \E i \in DOMAIN pending'[l] : pending'[l][i] = d
        BY <2>1 DEF Queued
      <3>1. PICK i \in DOMAIN pending'[l] : pending'[l][i] = d
        BY <3>0
      <3>2. d # c /\ \E j \in DOMAIN pending[l] : pending[l][j] = d
        BY <1>5, <3>1
      <3> QED BY <3>2 DEF Queued
    <2>2. ASSUME d # c, Queued(pending, d) PROVE Queued(pending', d)
      <3>0. PICK l \in Classes : \E i \in DOMAIN pending[l] : pending[l][i] = d
        BY <2>2 DEF Queued
      <3>1. PICK i \in DOMAIN pending[l] : pending[l][i] = d
        BY <3>0
      <3>2. CASE l = k
        <4>1. i # 1
          BY <1>1, <2>2, <3>1, <3>2
        <4>2. i - 1 \in DOMAIN pending'[k] /\ pending'[k][i - 1] = d
          BY <1>1, <3>1, <3>2, <4>1
        <4> QED BY <1>2, <4>2 DEF Queued
      <3>3. CASE l # k
        <4>1. i \in DOMAIN pending'[l] /\ pending'[l][i] = d
          BY <1>1, <3>1, <3>3
        <4> QED BY <4>1 DEF Queued
      <3> QED BY <3>2, <3>3
    <2> QED BY <2>1, <2>2
  <1>7. ASSUME NEW d \in Calls PROVE stage'[d] = "pending" <=> Queued(pending', d)
    <2>1. stage[d] = "pending" <=> Queued(pending, d)
      BY DEF NothingLost
    <2> QED BY <1>2, <1>6, <2>1
  <1>8. QueuedOnce(pending')
    <2>1. SUFFICES ASSUME NEW l \in Classes, NEW m \in Classes,
                          NEW i \in DOMAIN pending'[l], NEW j \in DOMAIN pending'[m],
                          pending'[l][i] = pending'[m][j]
                   PROVE  l = m /\ i = j
      BY DEF QueuedOnce
    <2>2. PICK x \in DOMAIN pending[l] :
              pending[l][x] = pending'[l][i] /\ x = IF l = k THEN i + 1 ELSE i
      BY <1>5
    <2>3. PICK y \in DOMAIN pending[m] :
              pending[m][y] = pending'[m][j] /\ y = IF m = k THEN j + 1 ELSE j
      BY <1>5
    <2>4. l = m /\ x = y
      BY <1>3, <2>1, <2>2, <2>3 DEF QueuedOnce
    <2>5. i \in Int /\ j \in Int
      <3>1. pending'[l] \in Seq(Calls) /\ pending'[m] \in Seq(Calls)
        BY <1>1
      <3> QED BY <3>1
    <2>6. CASE l = k
      <3>1. i + 1 = j + 1
        BY <2>2, <2>3, <2>4, <2>6
      <3> QED BY <2>4, <2>5, <3>1
    <2>7. CASE l # k
      BY <2>2, <2>3, <2>4, <2>7
    <2> QED BY <2>6, <2>7
  <1> QED BY <1>4, <1>7, <1>8

-----------------------------------------------------------------------------
\* The calls in flight.

Flying == {"dispatched", "running"} \cup Results

\* How the in-flight set follows a call's stage.
LEMMA FlightStep ==
    ASSUME Types, NEW c \in Calls, NEW s \in Stages,
           stage' = [stage EXCEPT ![c] = s]
    PROVE  /\ stage' \in [Calls -> Stages]
           /\ stage'[c] = s
           /\ \A d \in Calls : d # c => stage'[d] = stage[d]
           /\ IsFiniteSet(InFlight) /\ Cardinality(InFlight) \in Nat
           /\ InFlight' = IF s \in Flying THEN InFlight \cup {c} ELSE InFlight \ {c}
           /\ Cardinality(InFlight') \in Nat
           /\ s \notin Flying => Cardinality(InFlight') <= Cardinality(InFlight)
           /\ s \in Flying =>
                 Cardinality(InFlight') = IF stage[c] \in Flying THEN Cardinality(InFlight)
                                          ELSE Cardinality(InFlight) + 1
  <1>1. /\ stage' \in [Calls -> Stages]
        /\ stage'[c] = s
        /\ \A d \in Calls : d # c => stage'[d] = stage[d]
    BY DEF Types
  <1>2. IsFiniteSet(InFlight) /\ Cardinality(InFlight) \in Nat
    <2>1. InFlight \in SUBSET Calls /\ IsFiniteSet(Calls)
      BY DEF InFlight
    <2>2. IsFiniteSet(InFlight)
      BY <2>1, FS_Subset
    <2> QED BY <2>2, FS_CardinalityType
  <1>3. /\ InFlight = {d \in Calls : stage[d] \in Flying}
        /\ InFlight' = {d \in Calls : stage'[d] \in Flying}
    BY DEF InFlight, Flying, Results
  <1>4. InFlight' = IF s \in Flying THEN InFlight \cup {c} ELSE InFlight \ {c}
    <2> HIDE DEF Flying
    <2> QED BY <1>1, <1>3
  <1>5. /\ IsFiniteSet(InFlight \cup {c}) /\ IsFiniteSet(InFlight \ {c})
        /\ Cardinality(InFlight \cup {c}) =
              IF c \in InFlight THEN Cardinality(InFlight) ELSE Cardinality(InFlight) + 1
        /\ Cardinality(InFlight \ {c}) =
              IF c \in InFlight THEN Cardinality(InFlight) - 1 ELSE Cardinality(InFlight)
    BY <1>2, FS_AddElement, FS_RemoveElement
  <1>6. Cardinality(InFlight') \in Nat
    BY <1>4, <1>5, FS_CardinalityType
  <1>7. c \in InFlight <=> stage[c] \in Flying
    BY <1>3
  <1>8. ASSUME s \notin Flying PROVE Cardinality(InFlight') <= Cardinality(InFlight)
    <2>1. InFlight' = InFlight \ {c}
      BY <1>4, <1>8
    <2>2. Cardinality(InFlight') =
             IF c \in InFlight THEN Cardinality(InFlight) - 1 ELSE Cardinality(InFlight)
      BY <1>5, <2>1
    <2> QED BY <1>2, <2>2
  <1>9. ASSUME s \in Flying
        PROVE  Cardinality(InFlight') = IF stage[c] \in Flying THEN Cardinality(InFlight)
                                        ELSE Cardinality(InFlight) + 1
    BY <1>4, <1>5, <1>7, <1>9
  <1> QED BY <1>1, <1>2, <1>4, <1>6, <1>8, <1>9

\* A step of one call in flight: it stays in flight or is reported, and the
\* queues stay as they are.
CallMoves(c, s) ==
    /\ c \in Calls
    /\ stage[c] \in Flying
    /\ s \in Flying \cup {"reported"}
    /\ stage' = [stage EXCEPT ![c] = s]
    /\ UNCHANGED <<pending, cursor, passed>>
    /\ mode' \in {"fill", "await"}
    /\ budget' \in MinInFlight..MaxInFlight
    /\ circuit' \in Circuit

\* A step of one call that is under way.
LEMMA CallStep ==
    ASSUME IInv, NEW c, NEW s, CallMoves(c, s)
    PROVE  Types' /\ InFlightBounded' /\ NothingLost' /\ TurnAhead'
  <1>1. /\ Types /\ c \in Calls /\ s \in Stages /\ s # "pending"
        /\ stage[c] # "pending" /\ stage' = [stage EXCEPT ![c] = s]
        /\ s \notin Flying => s = "reported"
    BY DEF CallMoves, IInv, Flying, Stages, Results, ErrorCodes
  <1>2. /\ stage' \in [Calls -> Stages]
        /\ stage'[c] = s
        /\ \A d \in Calls : d # c => stage'[d] = stage[d]
        /\ Cardinality(InFlight) \in Nat
        /\ Cardinality(InFlight') \in Nat
        /\ s \notin Flying => Cardinality(InFlight') <= Cardinality(InFlight)
        /\ s \in Flying =>
              Cardinality(InFlight') = IF stage[c] \in Flying THEN Cardinality(InFlight)
                                       ELSE Cardinality(InFlight) + 1
    BY <1>1, FlightStep
  <1>3. Types'
    BY <1>1, <1>2 DEF Types, CallMoves
  <1>4. InFlightBounded'
    <2>1. Cardinality(InFlight) <= MaxInFlight
      BY DEF IInv, InFlightBounded
    <2>2. stage[c] \in Flying
      BY DEF CallMoves
    <2>3. Cardinality(InFlight') <= Cardinality(InFlight)
      BY <1>2, <2>2
    <2>4. Cardinality(InFlight') <= MaxInFlight
      BY <1>2, <2>1, <2>3
    <2> QED BY <2>4 DEF CallMoves, InFlightBounded
  <1>5. NothingLost'
    <2>1. pending' = pending /\ mode' \notin {"ok", "err"}
      BY DEF CallMoves
    <2>2. /\ \A d \in Calls : stage[d] = "pending" <=> Queued(pending, d)
          /\ QueuedOnce(pending)
      BY DEF IInv, NothingLost
    <2>3. \A d \in Calls : stage'[d] = "pending" <=> stage[d] = "pending"
      BY <1>1, <1>2
    <2> QED BY <2>1, <2>2, <2>3 DEF NothingLost
  <1>6. TurnAhead'
    BY DEF IInv, TurnAhead, CallMoves, Ahead, ClassAt
  <1> QED BY <1>3, <1>4, <1>5, <1>6

\* A used-up window keeps its running call as long as that call does not move
\* and the window was used up before.
LEMMA ProbeKept ==
    ASSUME Types, NoOrphanProbe, NEW c \in Calls, NEW s \in Stages,
           stage' = [stage EXCEPT ![c] = s],
           c \in Guarded => stage[c] # "running",
           UsedUp(circuit') => UsedUp(circuit)
    PROVE  NoOrphanProbe'
  <1>1. SUFFICES ASSUME UsedUp(circuit') PROVE \E d \in Guarded : stage'[d] = "running"
    BY DEF NoOrphanProbe, UsedUp
  <1>2. PICK d \in Guarded : stage[d] = "running"
    BY <1>1 DEF NoOrphanProbe, UsedUp
  <1>3. d # c /\ d \in Calls
    BY <1>2
  <1>4. stage'[d] = stage[d]
    BY <1>3 DEF Types
  <1> QED BY <1>2, <1>4

-----------------------------------------------------------------------------
\* The budget.

\* The budget is never raised or lowered past its limits.
LEMMA BudgetSteps ==
    ASSUME NEW b \in MinInFlight..MaxInFlight
    PROVE  Raised(b) \in MinInFlight..MaxInFlight /\ Lowered(b) \in MinInFlight..MaxInFlight
  BY DEF Raised, Lowered, Least, Greatest

-----------------------------------------------------------------------------
\* The inductive step, action by action.

\* A batch that has not begun satisfies the invariant.
LEMMA InitIInv == Init => IInv
  <1> SUFFICES ASSUME Init PROVE IInv
    OBVIOUS
  <1>0. /\ circuit \in [phase : Phases, consecutive_failures : Nat, open_until : Nat \cup {None},
                         half_open_remaining_calls : Nat, half_open_successes : Nat]
        /\ circuit.phase = "HalfOpen" => circuit.half_open_remaining_calls # 0
    BY PolicyAssumption DEF Init, LeftCircuits
  <1>1. Types
    <2>1. cursor \in 0..(Len(Cycle) - 1)
      <3>1. PICK L \in Nat \ {0} : L = Len(Cycle)
        BY CycleFacts
      <3>2. 0 \in 0..(L - 1)
        BY <3>1
      <3> QED BY <3>1, <3>2 DEF Init
    <2>2. circuit \in Circuit
      BY <1>0 DEF Circuit
    <2> QED BY <2>1, <2>2 DEF Init, Types, Stages
  <1>2. InFlightBounded
    <2>1. InFlight = {}
      BY DEF Init, InFlight, Results, ErrorCodes
    <2>2. Cardinality(InFlight) = 0
      BY <2>1, FS_EmptySet
    <2>3. budget \in MinInFlight..MaxInFlight /\ 0 <= MaxInFlight
      BY DEF Init
    <2> QED BY <2>2, <2>3 DEF InFlightBounded
  <1>3. NothingLost
    <2>1. pending = Queues /\ \A c \in Calls : stage[c] = "pending"
      BY DEF Init
    <2> QED BY <2>1 DEF NothingLost, Init
  <1>4. NoOrphanProbe
    BY <1>0 DEF NoOrphanProbe
  <1>5. TurnAhead
    <2>1. SUFFICES ASSUME NEW k \in Classes
                   PROVE  \E o \in Nat : passed[k] + o < Len(Cycle) /\ Ahead(cursor, o) = k
      BY DEF TurnAhead
    <2>2. PICK L \in Nat \ {0} : L = Len(Cycle)
      BY CycleFacts
    <2>3. PICK o \in 0..(L - 1) : Ahead(cursor, o) = k
      BY <1>1, <2>2, EveryClassAhead DEF Types
    <2>4. o \in Nat /\ 0 + o < L
      BY <2>3
    <2>5. passed[k] = 0
      BY DEF Init
    <2> QED BY <2>2, <2>3, <2>4, <2>5
  <1> QED BY <1>1, <1>2, <1>3, <1>4, <1>5 DEF IInv

\* A call leaves its queue for a free place in flight.
LEMMA DispatchIInv == IInv /\ Dispatch => IInv'
  <1> SUFFICES ASSUME IInv, Dispatch PROVE IInv'
    OBVIOUS
  <1>0. Types
    BY DEF IInv
  <1>1. PICK f \in 0..(Len(Cycle) - 1), k \in Classes, c \in Calls : Chosen(f, k, c)
    BY <1>0, DispatchFacts
  <1>2. /\ stage[c] = "pending"
        /\ \A d \in Calls : stage'[d] = "pending" <=> Queued(pending', d)
        /\ QueuedOnce(pending')
    BY <1>0, <1>1, QueuesStep DEF IInv
  <1>3. /\ mode = "fill" /\ UNCHANGED <<mode, budget, circuit>>
        /\ Cardinality(InFlight) < budget
        /\ budget \in MinInFlight..MaxInFlight
    BY DEF Dispatch, IInv, InFlightBounded
  <1>4. stage' = [stage EXCEPT ![c] = "dispatched"] /\ "dispatched" \in Stages \cap Flying
    BY <1>1 DEF Chosen, Stages, Flying
  <1>5. stage[c] \notin Flying /\ stage[c] # "running"
    BY <1>2 DEF Flying, Results, ErrorCodes
  <1>6. /\ stage' \in [Calls -> Stages]
        /\ Cardinality(InFlight) \in Nat
        /\ Cardinality(InFlight') = Cardinality(InFlight) + 1
    BY <1>0, <1>4, <1>5, FlightStep
  <1>7. Types'
    <2>1. pending' \in [Classes -> Seq(Calls)]
      BY <1>0, <1>1, PlacesStep
    <2>2. cursor' \in 0..(Len(Cycle) - 1)
      BY <1>1 DEF Chosen
    <2>3. passed' \in [Classes -> Nat]
      <3>1. passed' = [j \in Classes |->
               IF j = k \/ pending[j] = <<>> THEN 0 ELSE passed[j] + 1]
        BY <1>1 DEF Chosen
      <3>2. ASSUME NEW j \in Classes PROVE passed[j] + 1 \in Nat
        <4>1. PICK n \in Nat : n = passed[j]
          BY <1>0 DEF Types
        <4>2. n + 1 \in Nat
          BY <4>1
        <4> QED BY <4>1, <4>2
      <3> QED BY <3>1, <3>2
    <2> QED BY <1>0, <1>3, <1>6, <2>1, <2>2, <2>3 DEF Types
  <1>8. InFlightBounded'
    <2>1. Cardinality(InFlight') <= MaxInFlight
      BY <1>3, <1>6
    <2> QED BY <1>3, <2>1 DEF InFlightBounded
  <1>9. NothingLost'
    BY <1>2, <1>3 DEF NothingLost
  <1>10. NoOrphanProbe'
    BY <1>0, <1>3, <1>4, <1>5, ProbeKept DEF IInv
  <1>11. TurnAhead'
    BY <1>0, <1>1, TurnStep DEF IInv
  <1> QED BY <1>7, <1>8, <1>9, <1>10, <1>11 DEF IInv

\* The scheduler has dispatched what it can and awaits.
LEMMA FilledIInv == IInv /\ Filled => IInv'
  <1> SUFFICES ASSUME IInv, Filled PROVE IInv'
    OBVIOUS
  <1>1. UNCHANGED <<pending, cursor, stage, budget, circuit, passed>>
    BY DEF Filled, scheduler
  <1>2. mode' \in {"await", "ok", "err"} /\ (mode' # "await" => InFlight = {})
    BY DEF Filled
  <1>3. Types' /\ NoOrphanProbe'
    BY <1>1, <1>2 DEF IInv, Types, NoOrphanProbe
  <1>4. InFlightBounded'
    BY <1>1 DEF IInv, InFlightBounded, InFlight
  <1>5. TurnAhead'
    BY <1>1 DEF IInv, TurnAhead, Ahead, ClassAt
  <1>6. NothingLost'
    <2>1. SUFFICES ASSUME mode' \in {"ok", "err"}, NEW c \in Calls
                   PROVE  stage[c] = "reported"
      BY <1>1 DEF IInv, NothingLost
    <2>2. InFlight = {} /\ Cardinality(InFlight) = 0
      BY <1>2, <2>1, FS_EmptySet
    <2>3. ~AnyPending
      BY <2>2 DEF Filled, IInv, InFlightBounded
    <2>4. ~Queued(pending, c)
      BY <2>3 DEF AnyPending, Queued, IInv, Types
    <2>5. stage[c] # "pending" /\ stage[c] \in Stages
      BY <2>4 DEF IInv, NothingLost, Types
    <2>6. stage[c] \notin {"dispatched", "running"} \cup Results
      BY <2>2 DEF InFlight
    <2> QED BY <2>5, <2>6 DEF Stages
  <1> QED BY <1>3, <1>4, <1>5, <1>6 DEF IInv

\* Time passes for the circuit.
LEMMA TickIInv == IInv /\ Tick => IInv'
  <1> SUFFICES ASSUME IInv, Tick PROVE IInv'
    OBVIOUS
  <1>1. /\ UNCHANGED <<mode, pending, cursor, stage, budget, passed>>
        /\ circuit' = Waited(circuit) /\ circuit \in Circuit
    BY DEF Tick, scheduler, IInv, Types
  <1>2. circuit' \in Circuit /\ (UsedUp(circuit') <=> UsedUp(circuit))
    BY <1>1, WaitedFacts
  <1>3. Types' /\ NothingLost'
    BY <1>1, <1>2 DEF IInv, Types, NothingLost
  <1>4. NoOrphanProbe'
    BY <1>1, <1>2 DEF IInv, NoOrphanProbe, UsedUp
  <1>5. InFlightBounded'
    BY <1>1 DEF IInv, InFlightBounded, InFlight
  <1>6. TurnAhead'
    BY <1>1 DEF IInv, TurnAhead, Ahead, ClassAt
  <1> QED BY <1>3, <1>4, <1>5, <1>6 DEF IInv

\* A call asks the circuit of its connector.
LEMMA AcquireIInv ==
    ASSUME IInv, NEW c \in Calls, AcquireSlot(c)
    PROVE  IInv'
  <1>0. Types /\ circuit \in Circuit /\ budget \in MinInFlight..MaxInFlight
    BY DEF IInv, Types, InFlightBounded
  <1>1. PICK s : s = IF c \in Guarded /\ ~Grants(circuit) THEN "circuit_open" ELSE "running"
    OBVIOUS
  <1>2. /\ stage' = [stage EXCEPT ![c] = s] /\ stage[c] = "dispatched"
        /\ circuit' = IF c \in Guarded THEN Acquired(circuit) ELSE circuit
        /\ mode' = "await" /\ UNCHANGED <<pending, cursor, budget, passed>>
    BY <1>1 DEF AcquireSlot, scheduler
  <1>3. circuit' \in Circuit /\ (c \in Guarded /\ UsedUp(circuit') => Grants(circuit))
    BY <1>0, <1>2, AcquiredFacts
  <1>4. s \in Flying /\ s \in Stages /\ "dispatched" \in Flying
    BY <1>1 DEF Flying, Stages, Results, ErrorCodes
  <1>5. CallMoves(c, s)
    BY <1>0, <1>2, <1>3, <1>4 DEF CallMoves
  <1>6. NoOrphanProbe'
    <2>1. CASE c \in Guarded /\ UsedUp(circuit')
      <3>1. s = "running"
        BY <1>1, <1>3, <2>1
      <3>2. stage'[c] = "running"
        BY <1>0, <1>2, <3>1 DEF Types
      <3> QED BY <2>1, <3>2 DEF NoOrphanProbe
    <2>2. CASE ~(c \in Guarded /\ UsedUp(circuit'))
      <3>1. UsedUp(circuit') => UsedUp(circuit)
        BY <1>2, <2>2
      <3> QED BY <1>0, <1>2, <1>4, <3>1, ProbeKept DEF IInv
    <2> QED BY <2>1, <2>2
  <1> QED BY <1>5, <1>6, CallStep DEF IInv

\* Both ways a call ends record its outcome, which leaves no used-up window;
\* an unguarded call leaves the circuit alone.
LEMMA EndIInv ==
    ASSUME IInv, NEW c \in Calls, NEW s \in Results, NEW success \in BOOLEAN,
           mode = "await", stage[c] = "running",
           stage' = [stage EXCEPT ![c] = s],
           circuit' = IF c \in Guarded THEN Recorded(circuit, success) ELSE circuit,
           UNCHANGED mode, UNCHANGED scheduler
    PROVE  IInv'
  <1>0. Types /\ circuit \in Circuit /\ budget \in MinInFlight..MaxInFlight
    BY DEF IInv, Types, InFlightBounded
  <1>1. circuit' \in Circuit /\ (c \in Guarded => ~UsedUp(circuit'))
    BY <1>0, RecordedFacts
  <1>2. s \in Flying /\ s \in Stages /\ "running" \in Flying
    BY DEF Flying, Stages
  <1>3. CallMoves(c, s)
    BY <1>0, <1>1, <1>2 DEF CallMoves, scheduler
  <1>4. NoOrphanProbe'
    <2>1. CASE c \in Guarded
      BY <1>1, <2>1 DEF NoOrphanProbe, UsedUp
    <2>2. CASE c \notin Guarded
      BY <1>0, <1>2, <2>2, ProbeKept DEF IInv
    <2> QED BY <2>1, <2>2
  <1> QED BY <1>3, <1>4, CallStep DEF IInv

\* A call ends well and records it.
LEMMA SucceedIInv ==
    ASSUME IInv, NEW c \in Calls, Succeed(c)
    PROVE  IInv'
  <1>1. "result_ok" \in Results
    BY DEF Results
  <1> QED BY <1>1, EndIInv DEF Succeed

\* The variables IInv is about.
LEMMA SameIInv ==
    ASSUME IInv, UNCHANGED <<mode, pending, cursor, stage, budget, circuit, passed>>
    PROVE  IInv'
  <1>1. Types' /\ NothingLost' /\ NoOrphanProbe'
    BY DEF IInv, Types, NothingLost, NoOrphanProbe
  <1>2. InFlightBounded'
    BY DEF IInv, InFlightBounded, InFlight
  <1>3. TurnAhead'
    BY DEF IInv, TurnAhead, Ahead, ClassAt
  <1> QED BY <1>1, <1>2, <1>3 DEF IInv

\* A call fails and is tried again, or ends.
LEMMA FailIInv ==
    ASSUME IInv, NEW c \in Calls, Fail(c)
    PROVE  IInv'
  <1>1. CASE attempt'[c] >= MaxAttempts[c]
    <2>1. "connector_execution_error" \in Results
      BY DEF Results, ErrorCodes
    <2> QED BY <1>1, <2>1, EndIInv DEF Fail
  <1>2. CASE ~(attempt'[c] >= MaxAttempts[c])
    <2>1. UNCHANGED <<mode, pending, cursor, stage, budget, circuit, passed>>
      BY <1>2 DEF Fail, scheduler
    <2> QED BY <2>1, SameIInv
  <1> QED BY <1>1, <1>2

\* The scheduler takes the result of a call and adapts the budget.
LEMMA DeliverIInv ==
    ASSUME IInv, NEW c \in Calls, Deliver(c)
    PROVE  IInv'
  <1>0. Types /\ circuit \in Circuit /\ budget \in MinInFlight..MaxInFlight
    BY DEF IInv, Types, InFlightBounded
  <1>1. /\ stage' = [stage EXCEPT ![c] = "reported"] /\ stage[c] \in Results
        /\ mode' = "fill" /\ UNCHANGED <<pending, cursor, circuit, passed>>
    BY DEF Deliver
  <1>2. budget' \in MinInFlight..MaxInFlight
    <2>1. budget' \in {budget, Raised(budget), Lowered(budget)}
      BY DEF Deliver, AdaptAfterSuccess, AdaptAfterError
    <2> QED BY <1>0, <2>1, BudgetSteps
  <1>3. /\ "reported" \in Stages /\ stage[c] \in Flying /\ stage[c] # "running"
    BY <1>1 DEF Flying, Stages, Results, ErrorCodes
  <1>4. CallMoves(c, "reported")
    BY <1>0, <1>1, <1>2, <1>3 DEF CallMoves
  <1>5. NoOrphanProbe'
    BY <1>0, <1>1, <1>3, ProbeKept DEF IInv
  <1> QED BY <1>4, <1>5, CallStep DEF IInv

\* Every step keeps the invariant.
LEMMA StepIInv == IInv /\ [Next]_vars => IInv'
  <1> SUFFICES ASSUME IInv, [Next]_vars PROVE IInv'
    OBVIOUS
  <1>1. CASE Dispatch
    BY <1>1, DispatchIInv
  <1>2. CASE Filled
    BY <1>2, FilledIInv
  <1>3. CASE Tick
    BY <1>3, TickIInv
  <1>4. ASSUME NEW c \in Calls, AcquireSlot(c) \/ Succeed(c) \/ Fail(c) \/ Deliver(c)
        PROVE  IInv'
    BY <1>4, AcquireIInv, SucceedIInv, FailIInv, DeliverIInv
  <1>5. CASE UNCHANGED vars
    <2>1. UNCHANGED <<mode, pending, cursor, stage, budget, circuit, passed>>
      BY <1>5 DEF vars
    <2> QED BY <2>1, SameIInv
  <1> QED BY <1>1, <1>2, <1>3, <1>4, <1>5 DEF Next

-----------------------------------------------------------------------------
(* The scheduler's queues, budget, cursor and circuit keep the inductive    *)
(* invariant through every dispatch, outcome and result.                    *)
THEOREM Inductive == Spec => []IInv
  BY InitIInv, StepIInv, PTL DEF Spec

(* However results move the adaptive budget of                              *)
(* execute_programmatic_batch_calls, it stays within its limits and no more *)
(* than max_in_flight calls are in flight, for every policy.                *)
THEOREM BudgetCorrect == Spec => []InFlightBounded
  <1>1. IInv => InFlightBounded
    BY DEF IInv
  <1> QED BY <1>1, Inductive, PTL

(* The round robin of pop_next_programmatic_call serves every class with    *)
(* calls within one turn of the cycle, for every cycle that names them all. *)
THEOREM FairnessCorrect == Spec => []NoStarvation
  <1>1. IInv => NoStarvation
    <2>1. ASSUME IInv, NEW k \in Classes PROVE passed[k] < Len(Cycle)
      <3>1. PICK o \in Nat : passed[k] + o < Len(Cycle)
        BY <2>1 DEF IInv, TurnAhead
      <3>2. passed[k] \in Nat /\ Len(Cycle) \in Nat
        BY <2>1, CycleFacts DEF IInv, Types
      <3> QED BY <3>1, <3>2
    <2> QED BY <2>1 DEF NoStarvation
  <1> QED BY <1>1, Inductive, PTL

(* No prepared call is lost or dispatched twice, and the loop of            *)
(* execute_programmatic_batch_calls ends only when every call is reported.  *)
THEOREM ReportsCorrect == Spec => []NothingLost
  <1>1. IInv => NothingLost
    BY DEF IInv
  <1> QED BY <1>1, Inductive, PTL

(* Every slot invoke_programmatic_connector_with_resilience is granted is   *)
(* recorded: no batch leaves a half-open window that nobody can close.      *)
THEOREM ProbesCorrect == Spec => []NoOrphanProbe
  <1>1. IInv => NoOrphanProbe
    BY DEF IInv
  <1> QED BY <1>1, Inductive, PTL
=============================================================================
