-------------------------- MODULE MCCircuitCalls --------------------------
(* Instances of CircuitCalls for TLC.                                      *)
EXTENDS CircuitCalls, TLC

Symmetry == Permutations(Callers)
=============================================================================
