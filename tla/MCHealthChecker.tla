--------------------------- MODULE MCHealthChecker ---------------------------
(* An instance of HealthChecker for TLC: the constants are in health.cfg.    *)
EXTENDS HealthChecker
=============================================================================
