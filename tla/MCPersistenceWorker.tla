------------------------- MODULE MCPersistenceWorker -------------------------
(* Small instances of PersistenceWorker for TLC. *)
EXTENDS PersistenceWorker
=============================================================================
