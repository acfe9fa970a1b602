------------------------------ MODULE MCKernel ------------------------------
(* Instances of Kernel and its journal for TLC.                             *)
EXTENDS Kernel, TLC

CONSTANT legacy

MCEvents == KernelEvents \cup {legacy}

Symmetry == Permutations(Callers)
=============================================================================
