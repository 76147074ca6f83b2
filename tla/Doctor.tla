------------------------------- MODULE Doctor --------------------------------
(***************************************************************************)
(* outport doctor (internal/doctor): which checks of the installation that *)
(* SystemSetup models pass.  Left out: what no command of outport changes  *)
(* (resolv.conf, the stub listener, certutil, cloudflared), the dates of   *)
(* the CA, the registry file and the checks of a project.                  *)
(***************************************************************************)
EXTENDS SystemSetup

ResolverChecks == [resolver_file    |-> disk.resolver # "absent",
                   resolver_content |-> disk.resolver = "ours"]

\* The unit's binary exists: an upgrade has removed that of the version before.
ServiceBinary == disk.unit # None /\ disk.unit = exe

\* A unit that waits for its restart is not active, so this check may fail meanwhile.
AgentLoaded == svc.agent # "off"

\* The certificate can be parsed.
CertParses == disk.cert \in CAs

\* On Linux IsCATrusted looks for the anchor file, not at what it holds.
CATrusted == trust.anchor # None

\* A query to the daemon's own DNS server.
DNSResolving == svc.agent = "up"

\* Mutant for DoctorSound: the end-to-end check asks the daemon, not the system's resolver.
EndToEndDNSDirect == svc.agent = "up"

\* A lookup through the system's resolver.
EndToEndDNS == svc.agent = "up" /\ routed

LiveChecks == [dns_resolving |-> DNSResolving, end_to_end |-> EndToEndDNS]

\* Something accepts connections on ports 80 and 443: anyone's server may.
PortChecks == [http_proxy  |-> svc.agent = "up" \/ foreign,
               https_proxy |-> (svc.agent = "up" /\ svc.ca # None) \/ foreign]

ServiceChecks == [service_file   |-> disk.unit # None,
                  service_binary |-> ServiceBinary,
                  agent_loaded   |-> AgentLoaded]

CAChecks == [ca_cert |-> disk.cert # None, ca_key |-> disk.key # None,
             ca_expiry |-> CertParses, ca_trusted |-> CATrusted]

\* SystemChecks, without the warnings: browsers that do not trust the CA are one.
SystemChecks == {ResolverChecks, ServiceChecks, CAChecks, LiveChecks, PortChecks}

HasFailures == \E checks \in SystemChecks : \E name \in DOMAIN checks : ~checks[name]

-----------------------------------------------------------------------------
(* Properties.                                                              *)

HTTPSWorks ==
  svc.agent = "up" /\ routed /\ svc.ca # None /\ svc.ca = svc.key /\ svc.ca = trust.bundle

\* A report without failures means that browsers reach https://*.test through the daemon, if
\* the CA's files and the system's trust in it are not half made, which doctor does not see
\* (checks.go:293-307 look at the anchor only), no uninstall went on after a failure, and the
\* ports are not another server's.
DoctorSound == ~HasFailures /\ Trusted /\ ~leftover => HTTPSWorks \/ foreign
=============================================================================
