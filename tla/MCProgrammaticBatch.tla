------------------------ MODULE MCProgrammaticBatch ------------------------
(* An instance of ProgrammaticBatch for TLC.                               *)
EXTENDS ProgrammaticBatch, TLC

CONSTANTS c1, c2, c3, c4, c5

\* Two high, two normal and one low call; weights 2, 1, 1.
FiveCalls == {c1, c2, c3, c4, c5}
FiveQueues == [high |-> <<c1, c2>>, normal |-> <<c3, c4>>, low |-> <<c5>>]
Attempts == [c \in FiveCalls |-> IF c = c5 THEN 1 ELSE 2]
Weighted == <<"high", "high", "normal", "low">>
=============================================================================
