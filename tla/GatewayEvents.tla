---------------------------- MODULE GatewayEvents ----------------------------
(***************************************************************************)
(* The gateway's event bus and its SSE streams:                            *)
(* crates/daemon/src/gateway/event_bus.rs and api_events.rs.               *)
(*                                                                         *)
(* publish numbers, retains and broadcasts an event under one lock, so the *)
(* retained events and the channel's contents follow from next_seq.  A     *)
(* stream subscribes, then reads the retained events, then alternates      *)
(* between what it has pending and the channel; it falls behind, is        *)
(* dropped and comes back at any time.                                     *)
(***************************************************************************)
EXTENDS Integers, Sequences

CONSTANTS
    Clients,
    Limits,      \* replay limits that clients ask for
    Retention,   \* retention_limit
    Channel,     \* broadcast capacity: Retention rounded up by tokio
    MaxEvents,   \* bound: events published
    None         \* no after_seq in the query

ASSUME BusAssumption ==
    /\ Limits \subseteq Nat \ {0}
    /\ Retention \in Nat \ {0}
    /\ Channel \in Nat /\ Channel >= Retention
    /\ MaxEvents \in Nat
    /\ None \notin Nat

VARIABLES
    next_seq,  \* the last number given out
    mode,      \* client -> "off", "replay", "stream"
    position,  \* its receiver's next event
    pending,   \* pending_events, by number
    last,      \* last_seq
    limit,     \* replay_limit
    floor,     \* history: the client asked for the events after this one
    cursor,    \* the last event the client has got, or says it has
    repeated   \* history: it got one that is not after its cursor

vars == <<next_seq, mode, position, pending, last, limit, floor, cursor, repeated>>

Larger(x, y) == IF x < y THEN y ELSE x

\* The oldest event that a buffer of this size holds.
Oldest(size) == Larger(1, next_seq - size + 1)

Interval(from, to) == [i \in 1..(to - from + 1) |-> from + i - 1]

Init ==
    /\ next_seq = 0
    /\ mode = [s \in Clients |-> "off"]
    /\ position = [s \in Clients |-> 1]
    /\ pending = [s \in Clients |-> <<>>]
    /\ last = [s \in Clients |-> 0]
    /\ limit \in [Clients -> Limits]
    /\ floor = [s \in Clients |-> 0]
    /\ cursor = [s \in Clients |-> 0]
    /\ repeated = {}

Publish ==
    /\ next_seq < MaxEvents
    /\ next_seq' = next_seq + 1
    /\ UNCHANGED <<mode, position, pending, last, limit, floor, cursor, repeated>>

\* recent_events_after: the newest Limit retained events after that number.
Recent(s, after) ==
    Interval(Larger(after + 1, Larger(Oldest(Retention), Oldest(limit[s]))), next_seq)

-----------------------------------------------------------------------------
(* initial_gateway_event_stream_state: subscribe first ...  The client may  *)
(* ask for any number: its own cursor, an older one to see events again, or *)
(* one above next_seq that it has from before a restart of the gateway.     *)
Attach(s, after, bound) ==
    /\ mode[s] = "off"
    /\ position' = [position EXCEPT ![s] = next_seq + 1]
    /\ pending' = [pending EXCEPT ![s] = <<>>]
    /\ limit' = [limit EXCEPT ![s] = bound]
    /\ IF after = None
       THEN /\ mode' = [mode EXCEPT ![s] = "stream"]
            /\ last' = [last EXCEPT ![s] = 0]
            /\ floor' = [floor EXCEPT ![s] = next_seq]
            /\ cursor' = [cursor EXCEPT ![s] = 0]
       ELSE /\ mode' = [mode EXCEPT ![s] = "replay"]
            /\ last' = [last EXCEPT ![s] = after]
            /\ floor' = [floor EXCEPT ![s] = after]
            /\ cursor' = [cursor EXCEPT ![s] = after]
    /\ UNCHANGED <<next_seq, repeated>>

\* ... and then read what is retained.
Replay(s) ==
    /\ mode[s] = "replay"
    /\ mode' = [mode EXCEPT ![s] = "stream"]
    /\ pending' = [pending EXCEPT ![s] = Recent(s, last[s])]
    /\ UNCHANGED <<next_seq, position, last, limit, floor, cursor, repeated>>

Deliver(s, n) ==
    /\ last' = [last EXCEPT ![s] = n]
    /\ cursor' = [cursor EXCEPT ![s] = n]
    /\ repeated' = IF n <= cursor[s] THEN repeated \cup {s} ELSE repeated

\* next_gateway_sse_item.
SendPending(s) ==
    /\ mode[s] = "stream"
    /\ pending[s] # <<>>
    /\ Deliver(s, Head(pending[s]))
    /\ pending' = [pending EXCEPT ![s] = Tail(@)]
    /\ UNCHANGED <<next_seq, mode, position, limit, floor>>

\* Mutant: `<` for `<=` in already_seen.
ReceiveAgain(s) ==
    /\ mode[s] = "stream"
    /\ pending[s] = <<>>
    /\ position[s] \in Oldest(Channel)..next_seq
    /\ position' = [position EXCEPT ![s] = @ + 1]
    /\ IF position[s] < last[s] THEN UNCHANGED <<last, cursor, repeated>>
       ELSE Deliver(s, position[s])
    /\ UNCHANGED <<next_seq, mode, pending, limit, floor>>

\* Mutant: waits for the next number instead of passing over what was seen.
ReceiveExpected(s) ==
    /\ mode[s] = "stream"
    /\ pending[s] = <<>>
    /\ position[s] \in Oldest(Channel)..next_seq
    /\ position[s] = last[s] + 1
    /\ position' = [position EXCEPT ![s] = @ + 1]
    /\ Deliver(s, position[s])
    /\ UNCHANGED <<next_seq, mode, pending, limit, floor>>

Receive(s) ==
    /\ mode[s] = "stream"
    /\ pending[s] = <<>>
    /\ position[s] \in Oldest(Channel)..next_seq
    /\ position' = [position EXCEPT ![s] = @ + 1]
    /\ IF position[s] <= last[s] THEN UNCHANGED <<last, cursor, repeated>>
       ELSE Deliver(s, position[s])
    /\ UNCHANGED <<next_seq, mode, pending, limit, floor>>

\* Mutant: subscribes anew instead of reading the retained events.
LaggedToTail(s) ==
    /\ mode[s] = "stream"
    /\ pending[s] = <<>>
    /\ position[s] < Oldest(Channel)
    /\ position' = [position EXCEPT ![s] = next_seq + 1]
    /\ UNCHANGED <<next_seq, mode, pending, last, limit, floor, cursor, repeated>>

\* The channel has overwritten the receiver's next event.
Lagged(s) ==
    /\ mode[s] = "stream"
    /\ pending[s] = <<>>
    /\ position[s] < Oldest(Channel)
    /\ position' = [position EXCEPT ![s] = Oldest(Channel)]
    /\ pending' = [pending EXCEPT ![s] = Recent(s, last[s])]
    /\ UNCHANGED <<next_seq, mode, last, limit, floor, cursor, repeated>>

\* The connection is gone; the client keeps what it got.
Detach(s) ==
    /\ mode[s] # "off"
    /\ mode' = [mode EXCEPT ![s] = "off"]
    /\ UNCHANGED <<next_seq, position, pending, last, limit, floor, cursor, repeated>>

Stream(s) == Replay(s) \/ SendPending(s) \/ Receive(s) \/ Lagged(s)

Next ==
    \/ Publish
    \/ \E s \in Clients :
          \/ \E after \in {None} \cup (0..MaxEvents), bound \in Limits : Attach(s, after, bound)
          \/ Stream(s)
          \/ Detach(s)

Spec == Init /\ [][Next]_vars

-----------------------------------------------------------------------------
(* A client gets no event that it has, and events in the order of           *)
(* publication: each one delivered, by replay or by the channel, is after   *)
(* the one before and after the number the client asked for, although       *)
(* replay and channel overlap and a lagging stream is replayed again.       *)
OnceInOrder == repeated = {}

(* A client that may have the whole retention replayed misses only events   *)
(* that were dropped from the retention: nothing falls between subscribing  *)
(* and reading, between two lags, or between two connections.               *)
NoRetainedSkipped ==
    [][\A s \in Clients :
          limit[s] >= Retention /\ mode[s] = "stream" /\ cursor'[s] # cursor[s] =>
              \A n \in (Larger(floor[s], last[s]) + 1)..(cursor'[s] - 1) :
                  n < Oldest(Retention)]_vars

(* A stream that stays connected gets to every event its client asked for,  *)
(* sent or passed over, however far it fell behind.                         *)
CatchesUp ==
    \A s \in Clients : \A n \in 1..MaxEvents :
        mode[s] = "stream" /\ floor[s] < n /\ n <= next_seq ~>
            last[s] >= n \/ mode[s] = "off"

-----------------------------------------------------------------------------
(* A stream is polled as long as its connection lasts.                      *)
FairSpec == Spec /\ \A s \in Clients : WF_vars(Stream(s))
=============================================================================
