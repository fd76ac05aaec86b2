------------------------------ MODULE MCRestore -----------------------------
(***************************************************************************)
(* The instance of Restore for TLC: a process may be killed in any phase.  *)
(***************************************************************************)
EXTENDS Restore

MCAnywhere == {"checking", "downloading", "copying", "storing", "extracting", "marking", "serving"}
=============================================================================
