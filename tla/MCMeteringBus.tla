---------------------------- MODULE MCMeteringBus ----------------------------
(* A small instance of MeteringBus: the constants are in the .cfg files.   *)
EXTENDS MeteringBus
=============================================================================
