--------------------------- MODULE MCEngineRuntime ---------------------------
(* Small instances of EngineRuntime: the constants are in the .cfg files.  *)
EXTENDS EngineRuntime
=============================================================================
