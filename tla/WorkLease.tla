----------------------------- MODULE WorkLease -----------------------------
(***************************************************************************)
(* What the work-unit queue promises, without clocks, retries or tables:   *)
(* every unit is held by at most one owner at a time; a held unit changes  *)
(* hands only by first coming back to the queue; a finished unit never     *)
(* comes back; and a unit is handed out at most Budget[u] times, plus once *)
(* for every time an operator reopens it after a cancellation.             *)
(*                                                                         *)
(* WorkUnits implements this module under the mapping of WorkUnitsProps.   *)
(***************************************************************************)
EXTENDS Naturals

CONSTANTS Units, Owners, Budget, NoOwner

VARIABLES
    phase,      \* where the unit is in its life
    holder,     \* the owner it is handed out to, or NoOwner
    grants,     \* how often it was handed out
    reopened    \* how often it was reopened after a cancellation

vars == <<phase, holder, grants, reopened>>

Init ==
    /\ phase = [u \in Units |-> "none"]
    /\ holder = [u \in Units |-> NoOwner]
    /\ grants = [u \in Units |-> 0]
    /\ reopened = [u \in Units |-> 0]

Create(u) ==
    /\ phase[u] = "none"
    /\ phase' = [phase EXCEPT ![u] = "open"]
    /\ UNCHANGED <<holder, grants, reopened>>

Grant(u, o) ==
    /\ phase[u] = "open"
    /\ grants[u] < Budget[u] + reopened[u]
    /\ phase' = [phase EXCEPT ![u] = "held"]
    /\ holder' = [holder EXCEPT ![u] = o]
    /\ grants' = [grants EXCEPT ![u] = @ + 1]
    /\ UNCHANGED reopened

\* Some held units come back at once, each to the queue or to an end.
EndLeases(S, outcome) ==
    /\ \A u \in S : phase[u] = "held"
    /\ phase' = [u \in Units |-> IF u \in S THEN outcome[u] ELSE phase[u]]
    /\ holder' = [u \in Units |-> IF u \in S THEN NoOwner ELSE holder[u]]
    /\ UNCHANGED <<grants, reopened>>

Withdraw(u) ==
    /\ phase[u] = "open"
    /\ phase' = [phase EXCEPT ![u] = "cancelled"]
    /\ UNCHANGED <<holder, grants, reopened>>

Reopen(u) ==
    /\ phase[u] = "cancelled"
    /\ phase' = [phase EXCEPT ![u] = "open"]
    /\ reopened' = [reopened EXCEPT ![u] = @ + 1]
    /\ UNCHANGED <<holder, grants>>

Archive(u) ==
    /\ phase[u] \in {"cancelled", "done"}
    /\ phase' = [phase EXCEPT ![u] = "archived"]
    /\ UNCHANGED <<holder, grants, reopened>>

Next ==
    \/ \E u \in Units :
          \/ Create(u)
          \/ \E o \in Owners : Grant(u, o)
          \/ Withdraw(u)
          \/ Reopen(u)
          \/ Archive(u)
    \/ \E S \in SUBSET Units :
          \E outcome \in [S -> {"open", "cancelled", "done"}] :
              EndLeases(S, outcome)

Spec == Init /\ [][Next]_vars
=============================================================================
