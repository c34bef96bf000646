---------------------------- MODULE IngestionMC -----------------------------
(* Instances of the ingestion for TLC: line 2 carries no event. *)
EXTENDS IngestionProperties

CONSTANT noInode

MCEventLines == Lines \ {2}
MCNone == {}
MCBoth == {"replace", "remove"}
=============================================================================
