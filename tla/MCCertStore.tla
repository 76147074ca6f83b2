----------------------------- MODULE MCCertStore ------------------------------
(* CertStore for TLC. *)
EXTENDS CertStore
=============================================================================
