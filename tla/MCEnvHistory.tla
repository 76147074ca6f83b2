---------------------------- MODULE MCEnvHistory -----------------------------
(* An instance of EnvHistory for TLC: the checkouts of one project, on       *)
(* branches that declare different services and external files.              *)
EXTENDS MCOutportCli, EnvHistory

\* Configs come and go, with one project name.
FileConfigs == {TwoApp, OneApp, ExtApp}
FileEdits   == {<<TwoApp, OneApp>>, <<ExtApp, OneApp>>, <<OneApp, NoConfig>>, <<ExtApp, Gone>>, <<Gone, ExtApp>>}
TwoAndExt   == {[r \in Roots |-> IF r = "d1" THEN TwoApp ELSE ExtApp]}
=============================================================================
