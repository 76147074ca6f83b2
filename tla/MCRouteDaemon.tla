---------------------------- MODULE MCRouteDaemon ----------------------------
(* Instances of RouteDaemon with the Dashboard for TLC: two names, a sub-    *)
(* domain that is a name too, one tunnel, and two registries: in one every   *)
(* name has one owner, in the other two services claim one of them and       *)
(* neither has the port it had before, while the second name keeps its port. *)
EXTENDS Dashboard

MCParent == [n \in {"api.app", "x.app"} |-> "app"]

Claim(host, port, wild) == [host |-> host, port |-> port, wild |-> wild]

MCRegFiles ==
  {{Claim("app", 1, TRUE), Claim("api.app", 2, FALSE)},
   {Claim("app", 2, FALSE), Claim("app", 3, FALSE), Claim("api.app", 2, FALSE)}}

MCTunnelMaps == {[t \in {"t1"} |-> h] : h \in {"app", "api.app"}}
=============================================================================
