-------------------------- MODULE MCReconcilerLock --------------------------
(* Instances of ReconcilerLock for TLC: the .cfg files give the constants.   *)
EXTENDS ReconcilerLock
=============================================================================
