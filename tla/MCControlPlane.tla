--------------------------- MODULE MCControlPlane ---------------------------
(* Instances of ControlPlane for TLC: a turn that is followed and another.  *)
EXTENDS ControlPlane

CONSTANTS t1, t2

MCMaxEvents == [t \in Turns |-> IF t = t1 THEN 4 ELSE 1]
=============================================================================
