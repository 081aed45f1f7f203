---------------------------- MODULE MCDashboard ----------------------------
(* Instances of Dashboard for TLC: the .cfg file gives the constants.        *)
EXTENDS Dashboard
=============================================================================
