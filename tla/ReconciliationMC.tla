-------------------------- MODULE ReconciliationMC --------------------------
(* Instances of the reconciliation for TLC. *)
EXTENDS ReconciliationProperties

MCHeartbeat == {"HEARTBEAT"}
=============================================================================
