----------------------------- MODULE EventStore ------------------------------
(***************************************************************************)
(* The event store as its users meet it: processes open the database and   *)
(* migrate it, and one that has it open validates the stream it holds.     *)
(***************************************************************************)
EXTENDS SchemaMigrations, TradeContract

vars == <<schemaVars, contractVars>>

TypeOK == SchemaTypeOK /\ ContractTypeOK

Init == SchemaInit /\ ContractInit

\* query_events() answers an open repository only; any stream may be stored.
Validate ==
  /\ \E p \in Openers : step[p] = "open"
  /\ ContractStep
  /\ UNCHANGED schemaVars

Migrate == SchemaStep /\ UNCHANGED contractVars

Next == Migrate \/ Validate

Spec == Init /\ [][Next]_vars
=============================================================================
