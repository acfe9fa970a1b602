------------------------- MODULE ControlPlaneProofs -------------------------
(***************************************************************************)
(* Proofs about the control plane's turn streams and long polls, for any   *)
(* turns, retentions, channel capacity and limits.                         *)
(*                                                                         *)
(* The argument for streams.  A turn's task broadcasts an event before it  *)
(* numbers the next, so whatever comes out of the channel comes after all  *)
(* smaller numbers of its turn (Broadcast).  A stream subscribes before it *)
(* reads: what was broadcast before its position has been delivered, is    *)
(* pending, or is no longer retained, unless a replay was cut (Caught).    *)
(*                                                                         *)
(* The argument for polls.  A Notified is made before the read; if nobody  *)
(* has been notified since, nothing has been retained since (PollInv).     *)
(***************************************************************************)
EXTENDS ControlPlane, Integers, TLAPS

Event == [turn : Turns, seq : Nat]

Types ==
    /\ status \in [Turns -> {"none", "running", "terminal", "pruned"}]
    /\ count \in [Turns -> Nat]
    /\ task \in [Turns -> {"work", "send", "number", "retain"}]
    /\ sent \in Seq(Event)
    /\ mode \in {"off", "replay", "stream", "receive", "over"}
    /\ position \in 1..(Len(sent) + 1)
    /\ pending \in Seq(Nat)
    /\ last \in Nat /\ cursor \in Nat /\ repeated = FALSE
    /\ mode # "off" => cursor = last
    /\ cut \in BOOLEAN
    /\ mode \in {"replay", "stream", "receive"} => status[Watched] # "none"

\* The event n of the watched turn has been broadcast, before i.
Before(n, i) == \E j \in 1..(i - 1) : sent[j].turn = Watched /\ sent[j].seq = n

Broadcast ==
    /\ \A n \in 1..count[Watched] :
          n < count[Watched] \/ task[Watched] # "send" => Before(n, Len(sent) + 1)
    /\ \A i \in 1..Len(sent) : sent[i].turn = Watched =>
          /\ sent[i].seq <= count[Watched]
          /\ \A n \in 1..(sent[i].seq - 1) : Before(n, i)

Dropped(n) == n + Retention <= count[Watched]

\* What is pending is new, without gaps, and follows what was delivered.
PendingFits ==
    /\ mode = "receive" => pending = <<>>
    /\ mode = "stream" =>
          /\ \A i \in 1..Len(pending) : pending[i] = pending[1] + i - 1
          /\ pending # <<>> => /\ pending[1] > last
                               /\ pending[1] = last + 1 \/ Dropped(pending[1] - 1)

\* Nothing that was broadcast before the stream's position is missed.
Caught ==
    ~cut /\ (mode = "receive" \/ (mode = "stream" /\ status[Watched] # "pruned")) =>
        \A i \in 1..(position - 1) : sent[i].turn = Watched /\ sent[i].seq > last =>
            \/ \E k \in 1..Len(pending) : pending[k] = sent[i].seq
            \/ Dropped(sent[i].seq)

PollInv ==
    /\ notified \in Nat /\ wake \in 0..notified
    /\ poll \in {"empty", "asleep"} /\ wake = notified => Later = {}

StreamInv == Types /\ Broadcast /\ PendingFits /\ Caught

-----------------------------------------------------------------------------
(* Long polls.                                                              *)

(* Nothing is retained without notified going up.                           *)
LEMMA PollStep == PollInv /\ [Next]_vars => PollInv'
  <1> SUFFICES ASSUME PollInv, [Next]_vars PROVE PollInv'
    OBVIOUS
  <1>1. CASE UNCHANGED <<managerVars, pollVars>>
    BY <1>1 DEF PollInv, Later, managerVars, pollVars
  <1>2. ASSUME NEW t \in Turns, Number(t) PROVE PollInv'
    BY <1>2 DEF Number, PollInv, Later, pollVars
  <1>3. ASSUME NEW t \in Turns, Retain(t) PROVE PollInv'
    BY <1>3 DEF Retain, PollInv, pollVars
  <1>4. CASE Arm
    BY <1>4 DEF Arm, PollInv, managerVars
  <1>5. CASE Read
    <2>1. /\ poll' \in {"empty", "off"} /\ UNCHANGED <<events, notified, wake>>
          /\ poll' = "empty" => Later = {} /\ UNCHANGED after
      BY <1>5 DEF Read, managerVars
    <2> QED BY <2>1 DEF PollInv, Later
  <1>6. CASE Sleep \/ Timeout
    BY <1>6 DEF Sleep, Timeout, PollInv, Later, managerVars
  <1>7. CASE UNCHANGED vars
    BY <1>1, <1>7 DEF vars
  <1> QED BY <1>1, <1>2, <1>3, <1>4, <1>5, <1>6, <1>7 DEF Next, Task, Client

(* A long poll that sleeps and has not been woken has nothing to report:    *)
(* wait_for_recent_events makes its Notified before it reads.               *)
THEOREM WakeupCorrect == Spec => []NoLostWakeup
  <1>1. Init => PollInv
    BY DEF Init, PollInv
  <1>2. PollInv => NoLostWakeup
    BY DEF PollInv, NoLostWakeup
  <1> QED BY <1>1, <1>2, PollStep, PTL DEF Spec

-----------------------------------------------------------------------------
(* The types of what is sent and what is pending.                           *)
LEMMA SeqTypes ==
  ASSUME StreamInv
  PROVE  /\ Len(sent) \in Nat /\ \A i \in 1..Len(sent) : sent[i].seq \in Nat
         /\ Len(pending) \in Nat /\ \A k \in 1..Len(pending) : pending[k] \in Nat
         /\ \A i \in 1..(position - 1) : i \in 1..Len(sent)
         /\ pending # <<>> => pending[1] \in Nat
  <1>1. sent \in Seq(Event) /\ pending \in Seq(Nat) /\ position \in 1..(Len(sent) + 1)
    BY DEF StreamInv, Types
  <1>2. Len(sent) \in Nat /\ \A i \in 1..Len(sent) : sent[i] \in Event
    BY <1>1
  <1>3. \A e \in Event : e.seq \in Nat
    BY DEF Event
  <1>4. /\ Len(pending) \in Nat /\ \A k \in 1..Len(pending) : pending[k] \in Nat
        /\ pending # <<>> => 1 \in 1..Len(pending)
    BY <1>1
  <1> QED BY <1>1, <1>2, <1>3, <1>4

(* Steps that leave the turns alone leave the broadcast alone.              *)
LEMMA BroadcastSame ==
  ASSUME Broadcast, UNCHANGED <<count, task, sent>>
  PROVE  Broadcast'
  BY DEF Broadcast, Before

-----------------------------------------------------------------------------
(* Steps of the turns: what is broadcast comes in order.                    *)

\* A turn is issued; it has no events yet.
LEMMA IssueKeeps ==
  ASSUME StreamInv, NEW t \in Turns, Issue(t)
  PROVE  StreamInv'
  <1>1. /\ status \in [Turns -> {"none", "running", "terminal", "pruned"}]
        /\ status[t] = "none" /\ status' = [status EXCEPT ![t] = "running"]
        /\ UNCHANGED <<count, task, sent, mode, position, pending, last, cursor, repeated, cut>>
    BY DEF Issue, streamVars, StreamInv, Types
  <1>2. /\ status'[Watched] # "none" \/ status'[Watched] = status[Watched]
        /\ status[Watched] # "none" => status'[Watched] = status[Watched]
    BY <1>1, TurnsAssumption
  <1>3. Types'
    BY <1>1, <1>2 DEF StreamInv, Types
  <1>4. Broadcast' /\ PendingFits'
    BY <1>1 DEF StreamInv, Broadcast, Before, PendingFits, Dropped
  <1>5. Caught'
    BY <1>1, <1>2 DEF StreamInv, Types, Caught, Dropped
  <1> QED BY <1>3, <1>4, <1>5 DEF StreamInv

(* The next number is given when everything before has been broadcast.      *)
LEMMA NumberKeeps ==
  ASSUME StreamInv, NEW t \in Turns, task[t] = "work", status[t] = "running",
         count' = [count EXCEPT ![t] = @ + 1], task' = [task EXCEPT ![t] = "send"],
         status' \in [Turns -> {"none", "running", "terminal", "pruned"}],
         \A u \in Turns : (status'[u] = "none" <=> status[u] = "none")
                           /\ (status[u] = "pruned" => status'[u] = "pruned"),
         UNCHANGED <<sent, streamVars>>
  PROVE  StreamInv'
  <1>1. /\ UNCHANGED <<sent, mode, position, pending, last, cursor, repeated, cut>>
        /\ count \in [Turns -> Nat] /\ Watched \in Turns /\ Retention \in Nat
    BY TurnsAssumption DEF streamVars, StreamInv, Types
  <1>2. /\ count'[Watched] = IF t = Watched THEN count[Watched] + 1 ELSE count[Watched]
        /\ task'[Watched] = IF t = Watched THEN "send" ELSE task[Watched]
    BY <1>1 DEF StreamInv, Types
  <1>3. Types'
    BY <1>1 DEF StreamInv, Types
  <1>4. Broadcast'
    <2>1. \A n, i : Before(n, i)' <=> Before(n, i)
      BY <1>1 DEF Before
    <2>2. ASSUME NEW n \in 1..count'[Watched], n < count'[Watched] \/ task'[Watched] # "send"
          PROVE  Before(n, Len(sent) + 1)
      BY <1>1, <1>2, <2>2 DEF StreamInv, Broadcast
    <2>3. ASSUME NEW i \in 1..Len(sent), sent[i].turn = Watched
          PROVE  /\ sent[i].seq <= count'[Watched]
                 /\ \A n \in 1..(sent[i].seq - 1) : Before(n, i)
      <3>1. sent[i].seq \in Nat
        BY SeqTypes
      <3> QED BY <1>1, <1>2, <2>3, <3>1 DEF StreamInv, Broadcast
    <2> QED BY <1>1, <2>1, <2>2, <2>3 DEF Broadcast, Before
  <1>5. \A n \in Nat : Dropped(n) => Dropped(n)'
    BY <1>1, <1>2 DEF Dropped
  <1>6. PendingFits'
    <2>1. pending # <<>> /\ pending[1] > last => pending[1] \in Nat /\ pending[1] - 1 \in Nat
      BY SeqTypes DEF StreamInv, Types
    <2>2. pending # <<>> /\ pending[1] > last /\ Dropped(pending[1] - 1) => Dropped(pending[1] - 1)'
      BY <1>1, <1>2, <2>1 DEF Dropped
    <2> QED BY <1>1, <2>2 DEF StreamInv, PendingFits
  <1>7. Caught'
    <2>1. \A i \in 1..(position - 1) : sent[i].seq \in Nat
      BY SeqTypes
    <2>2. status'[Watched] # "pruned" => status[Watched] # "pruned"
      BY <1>1
    <2>3. \A i \in 1..(position - 1) : Dropped(sent[i].seq) => Dropped(sent[i].seq)'
      BY <1>1, <1>2, <2>1 DEF Dropped
    <2> QED BY <1>1, <2>2, <2>3 DEF StreamInv, Caught
  <1> QED BY <1>3, <1>4, <1>6, <1>7 DEF StreamInv

\* An event is retained; the client has not moved.
LEMMA PushKeeps ==
  ASSUME StreamInv, NEW t \in Turns, Push(t)
  PROVE  StreamInv'
  BY NumberKeeps DEF Push, StreamInv, Types

\* A turn ends, and an older one may be pruned.
LEMMA CompleteKeeps ==
  ASSUME StreamInv, NEW t \in Turns, Complete(t)
  PROVE  StreamInv'
  <1> DEFINE terminal == {u \in Turns : status[u] = "terminal"} \cup {t}
  <1>1. PICK gone \in Prunings(terminal) :
           status' = [u \in Turns |-> IF u \in gone THEN "pruned"
                                      ELSE IF u = t THEN "terminal" ELSE status[u]]
    BY DEF Complete
  <1>2. gone \subseteq terminal
    BY DEF Prunings
  <1>3. status[t] = "running" /\ status \in [Turns -> {"none", "running", "terminal", "pruned"}]
    BY DEF Complete, StreamInv, Types
  <1>4. /\ status' \in [Turns -> {"none", "running", "terminal", "pruned"}]
        /\ \A u \in Turns : (status'[u] = "none" <=> status[u] = "none")
                             /\ (status[u] = "pruned" => status'[u] = "pruned")
    BY <1>1, <1>2, <1>3
  <1> QED BY <1>4, NumberKeeps DEF Complete

(* The broadcast of the last number.                                        *)
LEMMA SendKeeps ==
  ASSUME StreamInv, NEW t \in Turns, Send(t)
  PROVE  StreamInv'
  <1> DEFINE event == [turn |-> t, seq |-> count[t]]
  <1>1. /\ UNCHANGED <<status, count, mode, position, pending, last, cursor, repeated, cut>>
        /\ task[t] = "send" /\ task' = [task EXCEPT ![t] = "number"]
        /\ sent' = Append(sent, event) /\ sent \in Seq(Event) /\ event \in Event
        /\ count \in [Turns -> Nat] /\ Watched \in Turns
    BY TurnsAssumption DEF Send, streamVars, StreamInv, Types, Event
  <1>e. event.turn = t /\ event.seq = count[t]
    OBVIOUS
  <1> HIDE DEF event
  <1>2. /\ Len(sent') = Len(sent) + 1 /\ Len(sent) \in Nat /\ sent' \in Seq(Event)
        /\ sent'[Len(sent) + 1] = event /\ \A i \in 1..Len(sent) : sent'[i] = sent[i]
    BY <1>1
  <1>3. task'[Watched] = IF t = Watched THEN "number" ELSE task[Watched]
    BY <1>1 DEF StreamInv, Types
  <1>4. Types'
    BY <1>1, <1>2 DEF StreamInv, Types
  <1>5. Broadcast'
    <2>1. \A n : \A i \in 1..(Len(sent) + 1) : Before(n, i) => Before(n, i)'
      BY <1>2 DEF Before
    <2>2. \A n \in 1..count[Watched] : n < count[Watched] => Before(n, Len(sent) + 1)
      BY DEF StreamInv, Broadcast
    <2>3. ASSUME NEW n \in 1..count[Watched], n < count[Watched] \/ task'[Watched] # "send"
          PROVE  Before(n, Len(sent) + 1)'
      <3>1. CASE t = Watched /\ n = count[Watched]
        <4>1. sent'[Len(sent) + 1].turn = Watched /\ sent'[Len(sent) + 1].seq = n
          BY <1>2, <1>e, <3>1
        <4>2. Len(sent) + 1 \in 1..((Len(sent') + 1) - 1)
          BY <1>2
        <4> QED BY <4>1, <4>2 DEF Before
      <3>2. CASE t # Watched \/ n # count[Watched]
        <4>1. Before(n, Len(sent) + 1)
          BY <1>1, <1>3, <2>3, <3>2 DEF StreamInv, Broadcast
        <4> QED BY <1>2, <4>1 DEF Before
      <3> QED BY <3>1, <3>2
    <2>4. ASSUME NEW i \in 1..Len(sent'), sent'[i].turn = Watched
          PROVE  /\ sent'[i].seq <= count[Watched]
                 /\ \A n \in 1..(sent'[i].seq - 1) : Before(n, i)'
      <3>1. CASE i \in 1..Len(sent)
        <4>1. sent'[i] = sent[i]
          BY <1>2, <3>1
        <4>2. /\ sent[i].seq <= count[Watched]
              /\ \A n \in 1..(sent[i].seq - 1) : Before(n, i)
          BY <2>4, <3>1, <4>1 DEF StreamInv, Broadcast
        <4> QED BY <1>2, <2>1, <3>1, <4>1, <4>2
      <3>2. CASE i = Len(sent) + 1
        <4>1. sent'[i].seq = count[Watched]
          BY <1>2, <1>e, <2>4, <3>2
        <4> QED BY <1>1, <1>2, <2>1, <2>2, <3>2, <4>1
      <3> QED BY <1>2, <3>1, <3>2
    <2> QED BY <1>1, <2>3, <2>4 DEF Broadcast
  <1>6. PendingFits'
    BY <1>1 DEF StreamInv, PendingFits, Dropped
  <1>7. Caught'
    <2>1. \A i \in 1..(position - 1) : sent'[i] = sent[i]
      BY <1>2 DEF StreamInv, Types
    <2> QED BY <1>1, <2>1 DEF StreamInv, Caught, Dropped
  <1> QED BY <1>4, <1>5, <1>6, <1>7 DEF StreamInv

(* Numbering and retaining at the manager concern no stream.                *)
LEMMA ManagerKeeps ==
  ASSUME StreamInv, NEW t \in Turns, Number(t) \/ Retain(t)
  PROVE  StreamInv'
  <1>1. /\ UNCHANGED <<status, count, sent, mode, position, pending, last, cursor, repeated, cut>>
        /\ task[t] \in {"number", "retain"}
        /\ task' = [task EXCEPT ![t] = task'[t]] /\ task'[t] \in {"retain", "work"}
    BY DEF Number, Retain, streamVars, StreamInv, Types
  <1>2. Types'
    BY <1>1 DEF StreamInv, Types
  <1>3. task'[Watched] # "send" <=> task[Watched] # "send"
    BY <1>1, TurnsAssumption DEF StreamInv, Types
  <1>4. Broadcast'
    BY <1>1, <1>3 DEF StreamInv, Broadcast, Before
  <1>5. PendingFits' /\ Caught'
    BY <1>1 DEF StreamInv, PendingFits, Caught, Dropped
  <1> QED BY <1>2, <1>4, <1>5 DEF StreamInv

-----------------------------------------------------------------------------
(* Steps of the stream.                                                     *)

(* What recent_events_after returns: it starts at the first retained event  *)
(* and, unless it is cut at its limit, goes to the last one.                *)
LEMMA RecentFacts ==
  ASSUME StreamInv
  PROVE  /\ Recent(last) \in Seq(Nat)
         /\ \A i \in 1..Len(Recent(last)) : Recent(last)[i] = Recent(last)[1] + i - 1
         /\ Recent(last) # <<>> =>
               /\ Recent(last)[1] > last
               /\ Recent(last)[1] = last + 1 \/ Dropped(Recent(last)[1] - 1)
         /\ ~CutShort(last) => \A n \in Nat : n > last /\ n <= count[Watched] =>
               (\E k \in 1..Len(Recent(last)) : Recent(last)[k] = n) \/ Dropped(n)
  <1> DEFINE from == From(last)
             c == count[Watched]
             len == Smaller(Limit, c - Smaller(from, c))
             R == [i \in 1..len |-> from + i]
  <1>1. /\ c \in Nat /\ last \in Nat /\ Retention \in Nat \ {0} /\ Limit \in Nat \ {0}
    BY TurnsAssumption DEF StreamInv, Types
  <1>2. /\ from \in Nat /\ from >= last
        /\ from = last \/ (from = c - Retention /\ from > last)
        /\ from + Retention >= c
    BY <1>1 DEF From, Larger
  <1>3. Recent(last) = R /\ (CutShort(last) <=> from + Limit < c)
    BY DEF Recent, CutShort
  <1> HIDE DEF from, c
  <1>4. /\ len \in Nat /\ (from + Limit >= c => from + len >= c)
        /\ len # 0 => from < c
    BY <1>1, <1>2 DEF Smaller
  <1> HIDE DEF len
  <1>5. R \in Seq(Nat) /\ Len(R) = len /\ \A i \in 1..len : R[i] = from + i
    BY <1>2, <1>4
  <1> HIDE DEF R
  <1>6. \A i \in 1..Len(R) : R[i] = R[1] + i - 1
    BY <1>2, <1>4, <1>5
  <1>7. R # <<>> => R[1] = from + 1
    BY <1>4, <1>5
  <1>8. R # <<>> => R[1] > last /\ (R[1] = last + 1 \/ Dropped(R[1] - 1))
    BY <1>1, <1>2, <1>7 DEF Dropped, c
  <1>9. ASSUME ~CutShort(last), NEW n \in Nat, n > last, n <= c
        PROVE  (\E k \in 1..Len(R) : R[k] = n) \/ Dropped(n)
    <2>1. CASE n <= from
      BY <1>1, <1>2, <1>9, <2>1 DEF Dropped, c
    <2>2. CASE n > from
      <3>1. n - from \in 1..len
        BY <1>1, <1>2, <1>3, <1>4, <1>9, <2>2
      <3>2. R[n - from] = n
        BY <1>2, <1>5, <3>1
      <3> QED BY <1>5, <3>1, <3>2
    <2> QED BY <1>1, <1>2, <2>1, <2>2
  <1> QED BY <1>3, <1>5, <1>6, <1>8, <1>9 DEF c

(* A stream that has just read what is retained has missed nothing that     *)
(* was broadcast up to any position.                                        *)
LEMMA ReadCaught ==
  ASSUME StreamInv, mode' = "stream", pending' = Recent(last),
         CutShort(last) => cut', UNCHANGED <<status, count, sent, last>>,
         \A i \in 1..(position' - 1) : i \in 1..Len(sent)
  PROVE  PendingFits' /\ Caught'
  <1>1. PendingFits'
    BY RecentFacts DEF PendingFits, Dropped
  <1>2. ASSUME ~cut', NEW i \in 1..(position' - 1), sent[i].turn = Watched, sent[i].seq > last
        PROVE  (\E k \in 1..Len(pending') : pending'[k] = sent[i].seq) \/ Dropped(sent[i].seq)
    <2>1. i \in 1..Len(sent)
      OBVIOUS
    <2>2. sent[i].seq \in Nat /\ sent[i].seq <= count[Watched]
      BY <1>2, <2>1, SeqTypes DEF StreamInv, Broadcast
    <2> QED BY <1>2, <2>2, RecentFacts
  <1>3. Caught'
    BY <1>2 DEF Caught, Dropped
  <1> QED BY <1>1, <1>3

\* The client subscribes.
LEMMA ConnectKeeps == ASSUME StreamInv, Connect PROVE StreamInv'
  <1>1. /\ UNCHANGED <<status, count, task, sent, cursor, repeated>> /\ mode' = "replay"
        /\ position' = Len(sent) + 1 /\ pending' = <<>> /\ last' = cursor /\ cut' = FALSE
        /\ status[Watched] # "none"
    BY DEF Connect, turnVars, Known
  <1>2. Types'
    <2>1. position' \in 1..(Len(sent') + 1) /\ pending' \in Seq(Nat)
      BY <1>1, SeqTypes
    <2> QED BY <1>1, <2>1 DEF StreamInv, Types
  <1>3. Broadcast'
    BY <1>1, BroadcastSame DEF StreamInv
  <1> QED BY <1>1, <1>2, <1>3 DEF StreamInv, PendingFits, Caught

\* The client takes what is retained above its cursor.
LEMMA ReplayKeeps == ASSUME StreamInv, Replay PROVE StreamInv'
  <1>1. UNCHANGED <<status, count, task, sent, position, last, cursor, repeated>> /\ mode = "replay"
    BY DEF Replay, turnVars
  <1>2. Broadcast'
    BY <1>1, BroadcastSame DEF StreamInv
  <1>3. CASE Known(Watched)
    <2>1. mode' = "stream" /\ pending' = Recent(last) /\ cut' = CutShort(last)
      BY <1>3 DEF Replay
    <2>2. Types'
      <3>1. cut' \in BOOLEAN
        BY <2>1 DEF CutShort
      <3> QED BY <1>1, <2>1, <3>1, RecentFacts DEF StreamInv, Types
    <2>3. PendingFits' /\ Caught'
      BY <1>1, <2>1, ReadCaught, SeqTypes
    <2> QED BY <1>2, <2>2, <2>3 DEF StreamInv
  <1>4. CASE ~Known(Watched)
    <2>1. mode' = "over" /\ UNCHANGED <<pending, cut>>
      BY <1>4 DEF Replay
    <2>2. Types'
      BY <1>1, <2>1 DEF StreamInv, Types
    <2> QED BY <1>2, <2>1, <2>2 DEF StreamInv, PendingFits, Caught
  <1> QED BY <1>3, <1>4

\* The channel has passed the client, who replays again.
LEMMA LaggedKeeps == ASSUME StreamInv, Lagged PROVE StreamInv'
  <1>1. /\ UNCHANGED <<status, count, task, sent, last, cursor, repeated>> /\ mode = "receive"
        /\ mode' = "stream" /\ position' = OldestSent
    BY DEF Lagged, turnVars
  <1>2. Broadcast'
    BY <1>1, BroadcastSame DEF StreamInv
  <1>3. position' \in 1..(Len(sent) + 1)
    BY <1>1, SeqTypes, TurnsAssumption DEF OldestSent
  <1>4. CASE Known(Watched)
    <2>1. pending' = Recent(last) /\ cut' = (cut \/ CutShort(last))
      BY <1>4 DEF Lagged
    <2>2. Types'
      <3>1. cut' \in BOOLEAN
        BY <2>1
      <3> QED BY <1>1, <1>3, <2>1, <3>1, RecentFacts DEF StreamInv, Types
    <2>3. PendingFits' /\ Caught'
      <3>1. \A i \in 1..(position' - 1) : i \in 1..Len(sent)
        <4> DEFINE at == position'
                   len == Len(sent)
        <4>1. at \in 1..(len + 1) /\ len \in Nat
          BY <1>3, SeqTypes
        <4> HIDE DEF at, len
        <4>2. \A i \in 1..(at - 1) : i \in 1..len
          BY <4>1
        <4> QED BY <4>2 DEF at, len
      <3> QED BY <1>1, <2>1, <3>1, ReadCaught
    <2> QED BY <1>2, <2>2, <2>3 DEF StreamInv
  <1>5. CASE ~Known(Watched)
    <2>1. pending' = <<>> /\ status[Watched] = "pruned" /\ cut' \in BOOLEAN
      BY <1>1, <1>5, TurnsAssumption DEF Lagged, Known, StreamInv, Types
    <2>2. Types'
      BY <1>1, <1>3, <2>1 DEF StreamInv, Types
    <2>3. PendingFits' /\ Caught'
      BY <1>1, <2>1 DEF PendingFits, Caught
    <2> QED BY <1>2, <2>2, <2>3 DEF StreamInv
  <1> QED BY <1>4, <1>5

\* A replayed event goes out; what it passes over is no longer retained.
LEMMA SendPendingKeeps ==
  ASSUME StreamInv, SendPending
  PROVE  /\ StreamInv'
         /\ cursor' > cursor
         /\ \A n \in (cursor + 1)..(cursor' - 1) : n + Retention <= count[Watched]
  <1>1. /\ UNCHANGED <<status, count, task, sent, mode, position, cut>>
        /\ mode = "stream" /\ pending # <<>> /\ last' = Head(pending) /\ cursor' = Head(pending)
        /\ pending' = Tail(pending) /\ pending \in Seq(Nat) /\ last \in Nat /\ cursor = last
        /\ repeated' = (IF Head(pending) <= cursor THEN TRUE ELSE repeated) /\ repeated = FALSE
    BY DEF SendPending, Deliver, turnVars, StreamInv, Types
  <1>2. /\ Head(pending) = pending[1] /\ pending[1] \in Nat /\ Len(pending) \in Nat \ {0}
        /\ Tail(pending) \in Seq(Nat) /\ Len(Tail(pending)) = Len(pending) - 1
        /\ \A i \in 1..(Len(pending) - 1) : Tail(pending)[i] = pending[i + 1]
    BY <1>1
  <1>3. /\ \A i \in 1..Len(pending) : pending[i] = pending[1] + i - 1
        /\ pending[1] > last /\ (pending[1] = last + 1 \/ Dropped(pending[1] - 1))
    BY <1>1 DEF StreamInv, PendingFits
  <1>4. Types'
    <2>1. repeated' = FALSE
      BY <1>1, <1>2, <1>3
    <2> QED BY <1>1, <1>2, <2>1 DEF StreamInv, Types
  <1>5. Broadcast'
    BY <1>1, BroadcastSame DEF StreamInv
  <1>6. PendingFits'
    <2>1. \A i \in 1..Len(pending') : pending'[i] = last' + i
      BY <1>1, <1>2, <1>3
    <2>l. Len(pending') \in Nat /\ last' \in Nat /\ (pending' # <<>> => Len(pending') # 0)
      BY <1>1, <1>2
    <2>2. \A i \in 1..Len(pending') : pending'[i] = pending'[1] + i - 1
      <3> SUFFICES ASSUME NEW i \in 1..Len(pending') PROVE pending'[i] = pending'[1] + i - 1
        OBVIOUS
      <3>1. pending'[i] = last' + i /\ pending'[1] = last' + 1
        BY <2>1, <2>l
      <3> QED BY <2>l, <3>1
    <2>3. pending' # <<>> => pending'[1] = last' + 1
      BY <2>1, <2>l
    <2>4. pending' # <<>> => pending'[1] > last'
      BY <1>1, <1>2, <2>3
    <2> QED BY <1>1, <2>2, <2>3, <2>4 DEF PendingFits
  <1>7. Caught'
    <2> SUFFICES ASSUME ~cut', status'[Watched] # "pruned", NEW i \in 1..(position' - 1),
                        sent'[i].turn = Watched, sent'[i].seq > last'
                 PROVE  (\E k \in 1..Len(pending') : pending'[k] = sent'[i].seq) \/ Dropped(sent[i].seq)'
      BY <1>1 DEF Caught
    <2>1. i \in 1..(position - 1) /\ sent[i].seq \in Nat /\ sent[i].seq > pending[1]
      BY <1>1, <1>2, SeqTypes
    <2>2. (\E k \in 1..Len(pending) : pending[k] = sent[i].seq) \/ Dropped(sent[i].seq)
      BY <1>1, <1>2, <1>3, <2>1 DEF StreamInv, Caught
    <2>3. ASSUME NEW k \in 1..Len(pending), pending[k] = sent[i].seq
          PROVE  \E l \in 1..Len(pending') : pending'[l] = sent'[i].seq
      <3>1. k - 1 \in 1..Len(pending')
        BY <1>1, <1>2, <2>1, <2>3
      <3>2. pending'[k - 1] = sent'[i].seq
        BY <1>1, <1>2, <2>3, <3>1
      <3> QED BY <3>1, <3>2
    <2> QED BY <1>1, <2>2, <2>3 DEF Dropped
  <1>8. cursor' > cursor /\ \A n \in (cursor + 1)..(cursor' - 1) : n + Retention <= count[Watched]
    <2>1. count[Watched] \in Nat /\ Retention \in Nat
      BY TurnsAssumption DEF StreamInv, Types
    <2> QED BY <1>1, <1>2, <1>3, <2>1 DEF Dropped
  <1> QED BY <1>4, <1>5, <1>6, <1>7, <1>8 DEF StreamInv

\* The client asks whether the turn is over.
LEMMA CheckStatusKeeps == ASSUME StreamInv, CheckStatus PROVE StreamInv'
  <1>1. /\ UNCHANGED <<status, count, task, sent, position, pending, last, cursor, repeated, cut>>
        /\ mode = "stream" /\ pending = <<>>
        /\ mode' = IF status[Watched] = "running" THEN "receive" ELSE "over"
    BY DEF CheckStatus, turnVars
  <1>2. Types'
    BY <1>1 DEF StreamInv, Types
  <1>3. Broadcast'
    BY <1>1, BroadcastSame DEF StreamInv
  <1>4. PendingFits'
    BY <1>1 DEF PendingFits
  <1>5. Caught'
    BY <1>1 DEF StreamInv, Caught, Dropped
  <1> QED BY <1>2, <1>3, <1>4, <1>5 DEF StreamInv

\* An event comes from the channel, above the cursor or not at all.
LEMMA ReceiveKeeps ==
  ASSUME StreamInv, Receive
  PROVE  /\ StreamInv'
         /\ cursor' # cursor =>
               /\ cursor' > cursor
               /\ ~cut => \A n \in (cursor + 1)..(cursor' - 1) : n + Retention <= count[Watched]
  <1> DEFINE event == sent[position]
  <1>1. /\ UNCHANGED <<status, count, task, sent, pending, cut>>
        /\ mode = "receive" /\ mode' = "stream" /\ pending = <<>>
        /\ position \in 1..Len(sent) /\ position' = position + 1
        /\ last \in Nat /\ cursor = last /\ event.seq \in Nat /\ repeated = FALSE
    <2>1. position \in OldestSent..Len(sent) /\ position \in 1..(Len(sent) + 1)
      BY DEF Receive, StreamInv, Types
    <2>2. position \in 1..Len(sent)
      BY <2>1, SeqTypes, TurnsAssumption DEF OldestSent
    <2> QED BY <2>2, SeqTypes DEF Receive, turnVars, StreamInv, Types, PendingFits
  <1>2. \/ /\ event.turn = Watched /\ event.seq > last /\ last' = event.seq /\ cursor' = event.seq
           /\ repeated' = (IF event.seq <= cursor THEN TRUE ELSE repeated)
        \/ /\ ~(event.turn = Watched /\ event.seq > last) /\ UNCHANGED <<last, cursor, repeated>>
    BY DEF Receive, Deliver
  <1>3. /\ last' \in Nat /\ last' >= last /\ cursor' = last' /\ repeated' = FALSE
        /\ event.turn = Watched => event.seq <= last'
    <2>1. PICK n \in Nat : n = event.seq
      BY <1>1
    <2>2. event.seq > last => ~(event.seq <= cursor)
      BY <1>1, <2>1
    <2>3. repeated' = FALSE
      BY <1>1, <1>2, <2>2
    <2>4. CASE event.turn = Watched /\ event.seq > last
      <3>1. last' = n /\ cursor' = n /\ n > last
        BY <1>2, <2>1, <2>4
      <3> QED BY <1>1, <2>1, <2>3, <3>1
    <2>5. CASE ~(event.turn = Watched /\ event.seq > last)
      <3>1. UNCHANGED <<last, cursor>>
        BY <1>2, <2>5
      <3> QED BY <1>1, <2>1, <2>3, <2>5, <3>1
    <2> QED BY <2>4, <2>5
  <1>4. Types'
    <2>1. position' \in 1..(Len(sent') + 1)
      BY <1>1, SeqTypes
    <2> QED BY <1>1, <1>3, <2>1 DEF StreamInv, Types
  <1>5. Broadcast'
    BY <1>1, BroadcastSame DEF StreamInv
  <1>6. PendingFits'
    BY <1>1 DEF PendingFits
  <1>7. ASSUME ~cut, NEW i \in 1..(position - 1), sent[i].turn = Watched, sent[i].seq > last
        PROVE  Dropped(sent[i].seq)
    BY <1>1, <1>7 DEF StreamInv, Caught
  <1>8. Caught'
    <2> SUFFICES ASSUME ~cut, NEW i \in 1..(position' - 1), sent[i].turn = Watched, sent[i].seq > last'
                 PROVE  Dropped(sent[i].seq)
      BY <1>1 DEF Caught, Dropped
    <2>1. i # position /\ i \in 1..Len(sent)
      BY <1>1, <1>3, SeqTypes
    <2>2. i \in 1..(position - 1) /\ sent[i].seq \in Nat
      BY <1>1, <2>1, SeqTypes
    <2> QED BY <1>1, <1>3, <1>7, <2>2
  <1>9. ASSUME cursor' # cursor
        PROVE  /\ cursor' > cursor
               /\ ~cut => \A n \in (cursor + 1)..(cursor' - 1) : n + Retention <= count[Watched]
    <2>1. event.turn = Watched /\ event.seq > last /\ cursor' = event.seq
      BY <1>2, <1>9
    <2>2. ASSUME ~cut, NEW n \in (cursor + 1)..(cursor' - 1)
          PROVE  n + Retention <= count[Watched]
      <3>1. n \in 1..(event.seq - 1) /\ n > last
        BY <1>1, <2>1
      <3>2. Before(n, position)
        BY <1>1, <2>1, <3>1 DEF StreamInv, Broadcast
      <3>3. PICK j \in 1..(position - 1) : sent[j].turn = Watched /\ sent[j].seq = n
        BY <3>2 DEF Before
      <3> QED BY <1>7, <2>2, <3>1, <3>3 DEF Dropped
    <2> QED BY <1>1, <2>1, <2>2
  <1> QED BY <1>4, <1>5, <1>6, <1>8, <1>9 DEF StreamInv

\* The connection breaks; the client has no more than was sent to it.
LEMMA DetachKeeps == ASSUME StreamInv, Detach PROVE StreamInv' /\ ~(cursor' > cursor)
  <1>1. /\ UNCHANGED <<status, count, task, sent, position, pending, last, repeated, cut>>
        /\ mode' = "off" /\ cursor' \in 0..cursor /\ cursor \in Nat
    BY DEF Detach, turnVars, StreamInv, Types
  <1>2. Types'
    BY <1>1 DEF StreamInv, Types
  <1>3. Broadcast'
    BY <1>1, BroadcastSame DEF StreamInv
  <1> QED BY <1>1, <1>2, <1>3 DEF StreamInv, PendingFits, Caught

-----------------------------------------------------------------------------
(* What StreamFaithful says of a step.                                      *)
Faithful ==
    /\ ~repeated'
    /\ cursor' > cursor /\ ~cut =>
           \A n \in (cursor + 1)..(cursor' - 1) : n + Retention <= count[Watched]

\* Every step keeps the invariant and is one that StreamFaithful allows.
LEMMA StreamStepKeeps == StreamInv /\ [Next]_vars => StreamInv' /\ Faithful
  <1> SUFFICES ASSUME StreamInv, [Next]_vars PROVE StreamInv' /\ Faithful
    OBVIOUS
  <1>0. cursor \in Nat /\ (StreamInv' => ~repeated')
    BY DEF StreamInv, Types
  <1>s. ASSUME StreamInv', UNCHANGED cursor PROVE StreamInv' /\ Faithful
    BY <1>0, <1>s DEF Faithful
  <1>1. CASE UNCHANGED <<turnVars, streamVars>>
    <2>1. UNCHANGED <<status, count, task, sent, mode, position, pending, last, cursor, repeated, cut>>
      BY <1>1 DEF turnVars, streamVars
    <2>2. Types'
      BY <2>1 DEF StreamInv, Types
    <2>3. Broadcast'
      BY <2>1, BroadcastSame DEF StreamInv
    <2>4. PendingFits' /\ Caught'
      BY <2>1 DEF StreamInv, PendingFits, Caught, Dropped
    <2>5. StreamInv'
      BY <2>2, <2>3, <2>4 DEF StreamInv
    <2> QED BY <1>s, <2>1, <2>5
  <1>2. ASSUME NEW t \in Turns, Issue(t) \/ Push(t) \/ Complete(t) \/ Send(t)
        PROVE  StreamInv' /\ Faithful
    <2>1. UNCHANGED cursor
      BY <1>2 DEF Issue, Push, Complete, Send, streamVars
    <2>2. StreamInv'
      BY <1>2, IssueKeeps, PushKeeps, CompleteKeeps, SendKeeps
    <2> QED BY <1>s, <2>1, <2>2
  <1>3. ASSUME NEW t \in Turns, Number(t) \/ Retain(t) PROVE StreamInv' /\ Faithful
    <2>1. UNCHANGED cursor
      BY <1>3 DEF Number, Retain, streamVars
    <2> QED BY <1>3, <1>s, <2>1, ManagerKeeps
  <1>4. CASE Connect \/ Replay \/ CheckStatus \/ Lagged
    <2>1. UNCHANGED cursor
      BY <1>4 DEF Connect, Replay, CheckStatus, Lagged
    <2>2. StreamInv'
      BY <1>4, ConnectKeeps, ReplayKeeps, CheckStatusKeeps, LaggedKeeps
    <2> QED BY <1>s, <2>1, <2>2
  <1>d. CASE Detach
    BY <1>0, <1>d, DetachKeeps DEF Faithful
  <1>5. CASE SendPending
    BY <1>0, <1>5, SendPendingKeeps DEF Faithful
  <1>6. CASE Receive
    <2>1. CASE UNCHANGED cursor
      BY <1>6, <1>s, <2>1, ReceiveKeeps
    <2>2. CASE cursor' # cursor
      BY <1>0, <1>6, <2>2, ReceiveKeeps DEF Faithful
    <2> QED BY <2>1, <2>2
  <1>7. CASE Arm \/ Read \/ Sleep \/ Timeout \/ UNCHANGED vars
    BY <1>1, <1>7 DEF Arm, Read, Sleep, Timeout, vars
  <1> QED BY <1>2, <1>3, <1>4, <1>5, <1>6, <1>7, <1>d DEF Next, Task, Client, StreamStep

(* The inductive invariant of the turn streams.                             *)
THEOREM StreamInductive == Spec => []StreamInv
  <1>1. Init => StreamInv
    <2> SUFFICES ASSUME Init PROVE StreamInv
      OBVIOUS
    <2>1. Types
      <3>1. /\ sent = <<>> /\ position = 1 /\ pending = <<>> /\ Len(sent) = 0
            /\ sent \in Seq(Event) /\ pending \in Seq(Nat)
        BY DEF Init, TurnsInit
      <3>2. /\ status \in [Turns -> {"none", "running", "terminal", "pruned"}]
            /\ count \in [Turns -> Nat] /\ task \in [Turns -> {"work", "send", "number", "retain"}]
            /\ mode = "off" /\ last = 0 /\ cursor = 0 /\ repeated = FALSE /\ cut = FALSE
        BY DEF Init, TurnsInit
      <3>3. position \in 1..(Len(sent) + 1)
        BY <3>1
      <3> QED BY <3>1, <3>2, <3>3 DEF Types
    <2>2. Broadcast
      BY TurnsAssumption DEF Init, TurnsInit, Broadcast
    <2> QED BY <2>1, <2>2 DEF Init, TurnsInit, StreamInv, PendingFits, Caught
  <1> QED BY <1>1, StreamStepKeeps, PTL DEF Spec

(* turn_stream: a client gets a turn's events in order, none twice, and     *)
(* passes over an event only when it is no longer retained or a replay was  *)
(* cut at its limit, for any channel capacity and any traffic.              *)
THEOREM StreamCorrect == Spec => StreamFaithful
  <1>1. StreamInv /\ [Next]_vars => [Faithful]_<<turnVars, streamVars>>
    BY StreamStepKeeps
  <1> QED BY <1>1, StreamInductive, PTL DEF Spec, StreamFaithful, Faithful
=============================================================================
