---------------------------- MODULE MCGatewayRun ----------------------------
(* Instances of GatewayRun for TLC, with two starts.                        *)
EXTENDS GatewayRun

\* What follows is not explored: of two gateways that take each other's place
\* the properties say nothing.
Tame == ~raced /\ ~lapsed

\* Bounds on the second gateway, which does what the first does: it is
\* headless, it follows one that stopped or crashed, and has no fault itself.
\* A stop request that nobody reads is left by the first, and by none before.
Few ==
    /\ stopfile # Previous
    /\ run[2].mode # "attached"
    /\ Owns(2) => failed \subseteq {2} /\ (trouble = 0 \/ pc(1) = "dead")
=============================================================================
