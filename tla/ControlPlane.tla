---------------------------- MODULE ControlPlane ----------------------------
(***************************************************************************)
(* The turns of ControlTurns together with the control plane's own events: *)
(* ControlPlaneManager in crates/app/src/control_plane.rs, to which every  *)
(* turn event is reported, and the long polls that wait for them.          *)
(*                                                                         *)
(* record_event takes its number before it takes the retention's lock; the *)
(* event is retained and waiters are notified under that lock.  The        *)
(* versions of the lanes and the targeted filter are left out.             *)
(***************************************************************************)
EXTENDS ControlTurns

CONSTANTS
    EventRetention,   \* DEFAULT_RECENT_EVENT_LIMIT
    MaxPolls          \* bound: long polls begun

ASSUME EventsAssumption == EventRetention \in Nat \ {0} /\ MaxPolls \in Nat

VARIABLES
    audience,   \* who is there: a turn's "stream" or a "poll"
    seq,        \* the last number given out
    number,     \* turn -> the number its task has taken
    events,     \* recent_events, by number
    notified,   \* times that waiters have been notified
    poll,       \* the long poll
    wake,       \* notified when its Notified was made
    after,      \* its after_seq
    polls       \* history: long polls begun

managerVars == <<seq, number, events, notified>>
pollVars == <<poll, wake, after, polls>>
vars == <<turnVars, streamVars, managerVars, pollVars, audience>>

Init ==
    /\ TurnsInit
    /\ audience \in {"stream", "poll"}
    /\ seq = 0 /\ number = [t \in Turns |-> 0]
    /\ events = <<>> /\ notified = 0
    /\ poll = "off" /\ wake = 0 /\ after = 0 /\ polls = 0

\* record_event: the number ...
Number(t) ==
    /\ task[t] = "number"
    /\ seq' = seq + 1
    /\ number' = [number EXCEPT ![t] = seq + 1]
    /\ task' = [task EXCEPT ![t] = "retain"]
    /\ UNCHANGED <<status, count, sent, streamVars, events, notified, pollVars, audience>>

\* ... and push_recent_event.
Retain(t) ==
    LET all == Append(events, number[t])
    IN  /\ task[t] = "retain"
        /\ events' = IF Len(all) > EventRetention THEN Tail(all) ELSE all
        /\ notified' = notified + 1
        /\ task' = [task EXCEPT ![t] = "work"]
        /\ UNCHANGED <<status, count, sent, streamVars, seq, number, pollVars, audience>>

-----------------------------------------------------------------------------
(* wait_for_recent_events.                                                  *)

\* recent_events_after: the places of the retained events after that number,
\* in the order of retention, of which the oldest Limit are taken.
Later == {i \in DOMAIN events : events[i] > after}

Taken == {i \in Later : Cardinality({j \in Later : j <= i}) <= Limit}

\* A request comes in, or the loop goes round: make a Notified, then read.
Arm ==
    /\ audience = "poll"
    /\ \/ poll = "off" /\ polls < MaxPolls /\ polls' = polls + 1
       \/ poll = "asleep" /\ wake < notified /\ UNCHANGED polls
    /\ poll' = "armed" /\ wake' = notified
    /\ UNCHANGED <<turnVars, streamVars, managerVars, after, audience>>

\* Answer with what is there; the client goes on after the largest number.
Read ==
    /\ poll = "armed"
    /\ IF Later = {} THEN poll' = "empty" /\ UNCHANGED after
       ELSE /\ poll' = "off"
            /\ after' \in {events[i] : i \in Taken}
            /\ \A i \in Taken : events[i] <= after'
    /\ UNCHANGED <<turnVars, streamVars, managerVars, wake, polls, audience>>

\* Mutant: the Notified is made when the wait begins.
SleepUnarmed ==
    /\ poll = "empty"
    /\ poll' = "asleep" /\ wake' = notified
    /\ UNCHANGED <<turnVars, streamVars, managerVars, after, polls, audience>>

\* Time is left: wait.
Sleep ==
    /\ poll = "empty"
    /\ poll' = "asleep"
    /\ UNCHANGED <<turnVars, streamVars, managerVars, wake, after, polls, audience>>

\* The deadline has passed, before the wait or in it.
Timeout ==
    /\ poll \in {"empty", "asleep"}
    /\ poll' = "off"
    /\ UNCHANGED <<turnVars, streamVars, managerVars, wake, after, polls, audience>>

-----------------------------------------------------------------------------
Task(t) ==
    \/ Send(t) /\ UNCHANGED <<managerVars, pollVars, audience>>
    \/ Number(t)
    \/ Retain(t)

Client ==
    /\ audience = "stream"
    /\ Connect \/ StreamStep
    /\ UNCHANGED <<managerVars, pollVars, audience>>

Next ==
    \/ \E t \in Turns :
          \/ (Issue(t) \/ Push(t) \/ Complete(t)) /\ UNCHANGED <<managerVars, pollVars, audience>>
          \/ Task(t)
    \/ Client
    \/ audience = "stream" /\ Detach /\ UNCHANGED <<managerVars, pollVars, audience>>
    \/ Arm
    \/ Read
    \/ Sleep
    \/ Timeout

Spec == Init /\ [][Next]_vars

(* Tasks run and a polled stream goes on; the client comes back.  When a    *)
(* turn produces an event, ends or loses its client is left open.           *)
FairSpec == Spec /\ WF_vars(Client) /\ \A t \in Turns : WF_vars(Task(t))

-----------------------------------------------------------------------------
(* A long poll never sleeps on what it waits for: while it has not been     *)
(* woken, no event after its after_seq is retained.  The notification has   *)
(* no memory, so one between the read and the wait would be lost.           *)
NoLostWakeup ==
    poll = "asleep" /\ wake = notified => Later = {}

(* A client that comes back until it has the terminal event gets it, or the *)
(* turn is pruned: streams that end early, replays cut at their limit, lags *)
(* and broken connections only delay it.                                    *)
ReaderGetsTerminal ==
    audience = "stream" /\ status[Watched] = "terminal" ~>
        cursor = count[Watched] \/ status[Watched] = "pruned"
=============================================================================
