------------------------- MODULE MCDurationRecovery -------------------------
(* Small instances of DurationRecovery: the constants are in the .cfg files. *)
EXTENDS DurationRecovery
=============================================================================
