---------------------------- MODULE ControlTurns ----------------------------
(***************************************************************************)
(* The control plane's turns: ControlPlaneTurnRegistry in                  *)
(* crates/app/src/control_plane.rs and the turn streams of                 *)
(* crates/daemon/src/control_plane_server.rs.                              *)
(*                                                                         *)
(* One task per turn pushes the turn's events, one after the other.  An    *)
(* event is numbered and retained under the registry's lock and broadcast  *)
(* after the lock is free, on a channel that all turns share.  Terminal    *)
(* turns beyond a limit are pruned with everything they retain.            *)
(*                                                                         *)
(* A client follows one turn and comes back, with the last number it has,  *)
(* until it has got the terminal event.  Clients do not affect each other. *)
(***************************************************************************)
EXTENDS Naturals, Sequences, FiniteSets

CONSTANTS
    Turns,
    Watched,             \* the turn the client follows
    Retention,           \* CONTROL_PLANE_TURN_RECENT_EVENT_LIMIT
    Channel,             \* CONTROL_PLANE_TURN_EVENT_CHANNEL_CAPACITY
    Limit,               \* CONTROL_PLANE_DEFAULT_EVENT_LIMIT
    TerminalRetention,   \* CONTROL_PLANE_TURN_TERMINAL_RETENTION_LIMIT
    MaxEvents,           \* bound: turn -> its events, the terminal one included
    MaxDetaches          \* bound: connections that break

ASSUME TurnsAssumption ==
    /\ Watched \in Turns
    /\ Retention \in Nat \ {0} /\ Channel \in Nat \ {0} /\ Limit \in Nat \ {0}
    /\ TerminalRetention \in Nat
    /\ MaxEvents \in [Turns -> Nat \ {0}]
    /\ MaxDetaches \in Nat

VARIABLES
    status,     \* turn -> "none", "running", "terminal" or "pruned"
    count,      \* turn -> the number of its last event (next_seq - 1)
    task,       \* turn -> what its task does next
    sent,       \* everything broadcast so far, of which the channel holds the end
    mode,       \* the client's stream
    position,   \* its receiver's next value
    pending,    \* its pending_events, by number
    last,       \* its last_seq
    cursor,     \* the last event the client has got
    repeated,   \* history: it got one that is not after its cursor
    cut,        \* history: a replay of this stream left retained events out
    detaches    \* history: connections that broke

turnVars == <<status, count, task, sent>>
streamVars == <<mode, position, pending, last, cursor, repeated, cut, detaches>>

Known(t) == status[t] \in {"running", "terminal"}

Ended(t) == status[t] \in {"terminal", "pruned"}

Larger(x, y) == IF x < y THEN y ELSE x

Smaller(x, y) == IF x < y THEN x ELSE y

TurnsInit ==
    /\ status = [t \in Turns |-> "none"]
    /\ count = [t \in Turns |-> 0]
    /\ task = [t \in Turns |-> "work"]
    /\ sent = <<>>
    /\ mode = "off" /\ position = 1 /\ pending = <<>>
    /\ last = 0 /\ cursor = 0 /\ repeated = FALSE /\ cut = FALSE /\ detaches = 0

-----------------------------------------------------------------------------
(* The registry.                                                            *)

\* issue_turn.
Issue(t) ==
    /\ status[t] = "none"
    /\ status' = [status EXCEPT ![t] = "running"]
    /\ UNCHANGED <<count, task, sent, streamVars>>

\* record_runtime_event, under the lock.
Push(t) ==
    /\ status[t] = "running" /\ task[t] = "work"
    /\ count[t] + 1 < MaxEvents[t]
    /\ count' = [count EXCEPT ![t] = @ + 1]
    /\ task' = [task EXCEPT ![t] = "send"]
    /\ UNCHANGED <<status, sent, streamVars>>

\* prune_terminal_turns_locked.  Completion times are read before the lock is
\* taken, so any terminal turn can be the oldest one.
Prunings(terminal) ==
    {gone \in SUBSET terminal :
        Cardinality(gone) = IF Cardinality(terminal) <= TerminalRetention THEN 0
                            ELSE Cardinality(terminal) - TerminalRetention}

\* complete_success and complete_failure, under the lock.
Complete(t) ==
    LET terminal == {u \in Turns : status[u] = "terminal"} \cup {t}
    IN  /\ status[t] = "running" /\ task[t] = "work"
        /\ count' = [count EXCEPT ![t] = @ + 1]
        /\ \E gone \in Prunings(terminal) :
              status' = [u \in Turns |-> IF u \in gone THEN "pruned"
                                         ELSE IF u = t THEN "terminal" ELSE status[u]]
        /\ task' = [task EXCEPT ![t] = "send"]
        /\ UNCHANGED <<sent, streamVars>>

\* sender.send, without the lock.
Send(t) ==
    /\ task[t] = "send"
    /\ sent' = Append(sent, [turn |-> t, seq |-> count[t]])
    /\ task' = [task EXCEPT ![t] = "number"]
    /\ UNCHANGED <<status, count, streamVars>>

-----------------------------------------------------------------------------
(* A stream.                                                                *)

\* recent_events_after: the oldest Limit retained events after that number.
From(after) ==
    Larger(after, IF count[Watched] < Retention THEN 0 ELSE count[Watched] - Retention)

Recent(after) ==
    [i \in 1..Smaller(Limit, count[Watched] - Smaller(From(after), count[Watched])) |->
        From(after) + i]

CutShort(after) == From(after) + Limit < count[Watched]

\* Mutant: the stream does not start where the client asks.
ConnectFromStart ==
    /\ mode \in {"off", "over"} /\ Known(Watched)
    /\ ~(Ended(Watched) /\ cursor = count[Watched])
    /\ mode' = "replay"
    /\ position' = Len(sent) + 1
    /\ last' = 0 /\ pending' = <<>> /\ cut' = FALSE
    /\ UNCHANGED <<turnVars, cursor, repeated, detaches>>

\* turn_stream and initial_turn_stream_state: subscribe ...
Connect ==
    /\ mode \in {"off", "over"} /\ Known(Watched)
    /\ ~(Ended(Watched) /\ cursor = count[Watched])
    /\ mode' = "replay"
    /\ position' = Len(sent) + 1
    /\ last' = cursor /\ pending' = <<>> /\ cut' = FALSE
    /\ UNCHANGED <<turnVars, cursor, repeated, detaches>>

\* ... and then read what is retained, an error when the turn has been pruned.
Replay ==
    /\ mode = "replay"
    /\ IF Known(Watched)
       THEN /\ mode' = "stream"
            /\ pending' = Recent(last) /\ cut' = CutShort(last)
       ELSE mode' = "over" /\ UNCHANGED <<pending, cut>>
    /\ UNCHANGED <<turnVars, position, last, cursor, repeated, detaches>>

\* Sent is received, unless the connection breaks: see Detach.
Deliver(n) ==
    /\ last' = n /\ cursor' = n
    /\ repeated' = IF n <= cursor THEN TRUE ELSE repeated

\* next_turn_sse_item: what is pending goes first.
SendPending ==
    /\ mode = "stream" /\ pending # <<>>
    /\ Deliver(Head(pending))
    /\ pending' = Tail(pending)
    /\ UNCHANGED <<turnVars, mode, position, cut, detaches>>

\* The stream of a terminal or pruned turn is over; otherwise wait.
CheckStatus ==
    /\ mode = "stream" /\ pending = <<>>
    /\ mode' = IF status[Watched] = "running" THEN "receive" ELSE "over"
    /\ UNCHANGED <<turnVars, position, pending, last, cursor, repeated, cut, detaches>>

OldestSent == IF Len(sent) <= Channel THEN 1 ELSE Len(sent) - Channel + 1

\* Mutant: `<` for `<=`, so the last event is passed on again.
ReceiveAgain ==
    LET event == sent[position]
    IN  /\ mode = "receive" /\ position \in OldestSent..Len(sent)
        /\ position' = position + 1
        /\ mode' = "stream"
        /\ IF event.turn = Watched /\ event.seq >= last THEN Deliver(event.seq)
           ELSE UNCHANGED <<last, cursor, repeated>>
        /\ UNCHANGED <<turnVars, pending, cut, detaches>>

\* recv returns an event, of this turn or another.
Receive ==
    LET event == sent[position]
    IN  /\ mode = "receive" /\ position \in OldestSent..Len(sent)
        /\ position' = position + 1
        /\ mode' = "stream"
        /\ IF event.turn = Watched /\ event.seq > last THEN Deliver(event.seq)
           ELSE UNCHANGED <<last, cursor, repeated>>
        /\ UNCHANGED <<turnVars, pending, cut, detaches>>

\* recv returns Lagged: read the retained events again, none of a pruned turn.
Lagged ==
    /\ mode = "receive" /\ position < OldestSent
    /\ position' = OldestSent
    /\ mode' = "stream"
    /\ pending' = IF Known(Watched) THEN Recent(last) ELSE <<>>
    /\ cut' = (cut \/ (Known(Watched) /\ CutShort(last)))
    /\ UNCHANGED <<turnVars, last, cursor, repeated, detaches>>

\* The connection breaks.  What was in transit is lost: the client has any
\* number up to the last one sent, and comes back with that.
Detach ==
    /\ mode # "off"
    /\ detaches < MaxDetaches
    /\ detaches' = detaches + 1
    /\ mode' = "off"
    /\ cursor' \in 0..cursor
    /\ UNCHANGED <<turnVars, position, pending, last, repeated, cut>>

StreamStep == Replay \/ SendPending \/ CheckStatus \/ Receive \/ Lagged

-----------------------------------------------------------------------------
(* A client is sent a turn's events in order and none that it has: every   *)
(* event delivered, from a replay or from the channel, is after the one     *)
(* before.  A stream passes over an event only when it was dropped from the *)
(* retention, or when a replay was cut at its limit: nothing is lost        *)
(* between subscribing and reading, to other turns' traffic on the channel, *)
(* in a lag, in a broken connection, or between retention and broadcast.    *)
StreamFaithful ==
    [][/\ ~repeated'
       /\ cursor' > cursor /\ ~cut =>
              \A n \in (cursor + 1)..(cursor' - 1) :
                  n + Retention <= count[Watched]]_<<turnVars, streamVars>>

(* A stream that the server ends has sent the turn's terminal event, unless *)
(* the turn was pruned.  The code does not keep this: it asks whether the   *)
(* turn is terminal before it looks at its channel.                         *)
StreamEndsWithTerminal ==
    mode = "over" /\ status[Watched] = "terminal" => cursor = count[Watched]
=============================================================================
