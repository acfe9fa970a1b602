---------------------------- MODULE MCWorkUnits ----------------------------
(* Instances of WorkUnits for TLC.                                          *)
EXTENDS WorkUnitsProps, TLC

\* Two units that may be retried once, the second with a delay that no i64
\* holds; the third only tried once.
MCRetryPolicy ==
    [u \in Units |-> [max_attempts |-> IF u = 3 THEN 1 ELSE 2,
                      initial_backoff_ms |-> IF u = 2 THEN I64Max + 1 ELSE 1,
                      max_backoff_ms |-> I64Max + 1]]

\* What is explored: two units with every lease and clock value, or all three
\* units, with any dependencies, not yet leased and at one time.
TwoUnitsOrNoLease ==
    \/ status[3] = "absent"
    \/ \A u \in Units : version[u] = 0 /\ next_run[u] = 0 /\ updated[u] = 0

\* Owner names are only compared.  Unit ids are ordered, so not symmetric.
OwnerSymmetry == Permutations(Owners)
=============================================================================
