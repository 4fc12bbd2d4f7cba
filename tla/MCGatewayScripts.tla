-------------------------- MODULE MCGatewayScripts --------------------------
(* An instance of GatewayScripts small enough for TLC: one command of each *)
(* kind and two processes.                                                 *)
EXTENDS GatewayScripts

=============================================================================
