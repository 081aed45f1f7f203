---------------------------- MODULE MCJobCleanup ----------------------------
(* Instances of JobCleanup for TLC: the .cfg files give the constants.       *)
EXTENDS JobCleanup
=============================================================================
