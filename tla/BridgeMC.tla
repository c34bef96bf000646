------------------------------ MODULE BridgeMC -------------------------------
(* An instance of the bridge for TLC. *)
EXTENDS BridgeProperties
=============================================================================
