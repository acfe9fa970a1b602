--------------------------- MODULE MCAcpSessions ---------------------------
(* Instances of AcpSessions for TLC.                                       *)
EXTENDS AcpSessionsProps, TLC

CONSTANTS s1, s2, s3, c1, r1

Unbound(s) == [session |-> s, conversation |-> c1, binding |-> None]
Bound(s) == [session |-> s, conversation |-> c1, binding |-> r1]

\* Two session keys of one conversation, so that one resolves to the other;
\* two operations at a time, on what a crash has left.
SharedConversation ==
    [bootstraps |-> {Unbound(s1), Unbound(s2)}, kinds |-> AllKinds \ {"ensure"},
     width |-> 2, left |-> {"Busy"}]

\* One session bound to a route: a turn, its canceller and a third party.
BoundRoute ==
    [bootstraps |-> {Bound(s3)}, kinds |-> AllKinds \ {"ensure"}, width |-> 3,
     left |-> {"Busy"}]

\* The same with ensure_session called on its own.
EnsuredApart ==
    [bootstraps |-> {Bound(s3)}, kinds |-> AllKinds, width |-> 2,
     left |-> {"Busy", "Cancelling"}]

\* One session with and without its channel's scope: two actor keys.
TwoScopes ==
    [bootstraps |-> {Unbound(s3), Bound(s3)}, kinds |-> {"turn", "ensure", "close", "control"},
     width |-> 2, left |-> {}]

\* One session that is closed while turns, cancels and sweeps go on.
OneSession ==
    [bootstraps |-> {Unbound(s1)}, kinds |-> {"turn", "cancel", "close", "snapshot"},
     width |-> 2, left |-> {}]

Safety == {SharedConversation, BoundRoute, EnsuredApart, TwoScopes}
Closing == {OneSession}

\* Exchanging s1 and s2 leaves each traffic as it is.
Symmetry == Permutations(Callers) \cup Permutations({s1, s2})
=============================================================================
