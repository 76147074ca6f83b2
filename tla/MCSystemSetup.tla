---------------------------- MODULE MCSystemSetup -----------------------------
(* SystemSetup and Doctor for TLC. *)
EXTENDS Doctor
=============================================================================
