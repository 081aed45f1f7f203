-------------------------- MODULE MCCleanupBatches --------------------------
(* Instances of CleanupBatches for TLC: the .cfg file gives the constants.   *)
EXTENDS CleanupBatches
=============================================================================
