--------------------------- MODULE MCGatewayEvents ---------------------------
(* An instance of GatewayEvents for TLC: streams do not meet but on the    *)
(* bus, so one client that connects again and again stands for many.       *)
EXTENDS GatewayEvents

CONSTANT c1
=============================================================================
