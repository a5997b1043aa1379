------------------------------ MODULE MCGateway ------------------------------
(***************************************************************************)
(* A connection of a gateway that keeps running.                           *)
(***************************************************************************)
EXTENDS Gateway

RunningSpec == GInit /\ [][GNext /\ ~Shutdown]_gatewayVars /\ GFairness

==============================================================================
