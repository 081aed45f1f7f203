----------------------------- MODULE MCVideoJobs -----------------------------
(* Instances of VideoJobs for TLC: the .cfg files give the constants.        *)
EXTENDS VideoJobs, TLC

\* Workers are interchangeable, and so are administrators: no invariant names
\* one.
Symmetry == Permutations(Workers) \cup Permutations(Admins)
=============================================================================
