--------------------------- MODULE MCUploadIntake ---------------------------
(* Instances of UploadIntake for TLC: the .cfg files give the constants.     *)
EXTENDS UploadIntake

CONSTANTS k, r3

\* One request comes without a key, the others share one.
MCKeyOf == [r \in Requests |-> IF r = r3 THEN NoKey ELSE k]
=============================================================================
