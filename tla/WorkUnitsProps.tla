--------------------------- MODULE WorkUnitsProps ---------------------------
(* What must hold of the work-unit queue, and the mapping to WorkLease.     *)
EXTENDS WorkUnits

(* Every column but next_run_at_ms, which only orders the claims.           *)
TypeOK ==
    /\ status \in [Units -> Statuses \cup {"absent"}]
    /\ rank \in [Units -> 0..4]
    /\ attempt \in [Units -> Nat]
    /\ owner \in [Units -> Owners \cup {NULL}]
    /\ version \in [Units -> Nat]
    /\ acquired \in [Units -> BOOLEAN]
    /\ heartbeat \in [Units -> BOOLEAN]
    /\ expires \in [Units -> Int \cup {NULL}]
    /\ updated \in [Units -> Int]
    /\ archived \in [Units -> BOOLEAN]
    /\ deps \subseteq Units \X Units
    /\ revivals \in [Units -> Nat]

(* The lease columns agree with each other and with the status after any    *)
(* sequence of operations: build_lease_record and build_expired_lease_error *)
(* answer with an error ("lease_owner set without lease_expires_at_ms",     *)
(* "expired lease recovery requires lease owner") on a row that breaks      *)
(* this, and one such row makes every later recovery pass fail.  The lease  *)
(* version counts the attempts.                                             *)
LeaseCoherent ==
    \A u \in Units :
        /\ status[u] \in Active <=> owner[u] # NULL
        /\ acquired[u] <=> owner[u] # NULL
        /\ heartbeat[u] <=> owner[u] # NULL
        /\ expires[u] # NULL <=> owner[u] # NULL
        /\ archived[u] <=> status[u] = "archived"
        /\ version[u] = attempt[u]

(* A unit is attempted at most max_attempts times, plus once for every time *)
(* an operator un-cancels it with update_work_unit; and a unit waiting to   *)
(* be claimed still has an attempt left, so retry_pending never lies.       *)
RetryBudget ==
    \A u \in Units :
        LET budget == RetryPolicy[u].max_attempts + revivals[u]
        IN  /\ attempt[u] <= budget
            /\ status[u] \in Unleased \cup {"absent"} => attempt[u] < budget

(* No unit waits for itself, however many edges were added and removed in   *)
(* between: the units that wait for u, directly or through others, fit in a *)
(* set that leaves u out.                                                   *)
DependenciesAcyclic ==
    \A u \in Units :
        \E S \in SUBSET (Units \ {u}) :
            /\ \A v \in Units : <<u, v>> \in deps => v \in S
            /\ \A v, w \in Units : v \in S /\ <<v, w>> \in deps => w \in S

-----------------------------------------------------------------------------
(* Refinement: the phase of a unit is read off its status.                  *)
Phase(st) ==
    IF st = "absent" THEN "none"
    ELSE IF st \in Unleased THEN "open"
    ELSE IF st \in Active THEN "held"
    ELSE IF st \in {"completed", "failed_terminal"} THEN "done"
    ELSE st

Lease == INSTANCE WorkLease WITH
    Budget   <- [u \in Units |-> RetryPolicy[u].max_attempts],
    NoOwner  <- NULL,
    phase    <- [u \in Units |-> Phase(status[u])],
    holder   <- owner,
    grants   <- version,
    reopened <- revivals

(* The queue implements the lease contract: exclusive holders, no lease     *)
(* taken over without coming back first, finished units stay finished, and  *)
(* a bounded number of grants.                                              *)
ImplementsLease == Lease!Spec
=============================================================================
