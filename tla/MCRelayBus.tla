----------------------------- MODULE MCRelayBus -----------------------------
(* Small instances of RelayBus: the constants are in the .cfg files.       *)
EXTENDS RelayBus
=============================================================================
