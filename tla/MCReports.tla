------------------------------ MODULE MCReports ------------------------------
(* The instance of Reports for TLC: that of MCVolume with the history. *)
EXTENDS Reports, MCVolume
=============================================================================
