----------------------------- MODULE MCAcpActor -----------------------------
(* Instances of AcpActor for TLC: tasks and mutexes are interchangeable.     *)
EXTENDS AcpActor, TLC

MutexSymmetry == Permutations(Mutexes)
=============================================================================
