---------------------------- MODULE EventStoreMC -----------------------------
(* An instance of the event store for TLC. *)
EXTENDS EventStoreProperties

CONSTANTS ingestion, reconciliation, trade, noTrade, nobody
=============================================================================
