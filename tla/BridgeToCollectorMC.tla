------------------------ MODULE BridgeToCollectorMC -------------------------
(* An instance of bridge and collector for TLC: every line carries an event. *)
EXTENDS BridgeToCollector

CONSTANT noInode

MCEventLines == 1..MaxLines
=============================================================================
