----------------------------- MODULE SystemSetup ------------------------------
(***************************************************************************)
(* The machine-wide installation: outport system start, stop, restart and  *)
(* uninstall, outport setup [--reset] and the restart that every other     *)
(* command makes of a daemon of another version (cmd/system_start.go,      *)
(* system_stop.go, setup.go, version_check.go), over what they change on a *)
(* Linux machine (platform/linux.go, nss_linux.go): the systemd unit, the  *)
(* drop-in of systemd-resolved, the CA's two files, the trust stores and   *)
(* the daemon process with the CA that it loaded (cmd/daemon.go).          *)
(*                                                                         *)
(* One step is one file written or one external program run; a command may *)
(* be killed before any of them, or in the middle of a file of the CA, and *)
(* each program may fail (sudo refused).  Commands do not overlap.  CAs    *)
(* are identities: what is not in use any more may be used again.  The     *)
(* registry and the cached certificates, which uninstall deletes as well,  *)
(* are in OutportCli and CertStore.                                        *)
(***************************************************************************)
EXTENDS Naturals

CONSTANTS
  CAs,          \* identities of certificate authorities
  Versions,     \* binaries an upgrade may install, each at a path of its own
  None,         \* no file, no CA, no daemon
  Torn,         \* a file that was not written to its end
  MaxFaults     \* bound: programs that fail, kills and edits by others

ASSUME NoneAssumption == None # Torn /\ {None, Torn} \cap (CAs \cup Versions) = {}
ASSUME FreshAssumption ==
  \A a, b, c, d, e \in CAs \cup {None, Torn} : \E ca \in CAs : ca \notin {a, b, c, d, e}
ASSUME FaultsAssumption == MaxFaults \in Nat

VARIABLES
  exe,          \* the outport binary that is installed
  capped,       \* it may bind ports 80 and 443 (setcap)
  disk,         \* unit file, resolver drop-in, CA certificate, CA key
  routed,       \* systemd-resolved has read our drop-in
  trust,        \* the anchor file, the bundle made from it, the browsers' stores
  svc,          \* the systemd unit, and its daemon's binary, CA and CA key
  foreign,      \* another server has ports 80 and 443
  run,          \* the command that is running: where it is, how the last one ended
  faults,
  leftover      \* history: uninstall went on although a step had failed

vars == <<exe, capped, disk, routed, trust, svc, foreign, run, faults, leftover>>

IsSetup == disk.resolver # "absent" /\ disk.unit # None
IsCAInstalled == disk.cert # None

\* systemctl is-active: a unit that waits for its restart is not, one just started is.
IsAgentLoaded(answer) == svc.agent = "starting" \/ answer = (svc.agent = "up")

\* IsListening binds the port.  Without the capability bind fails with EACCES, taken or not,
\* and that counts as free.
PortsInUse == capped /\ (foreign \/ svc.agent = "up")

-----------------------------------------------------------------------------
(* How a command moves, ends, and what can go wrong with it.                *)

At(step) == run.pc = step
Goto(step) == run' = [run EXCEPT !.pc = step]
Finish(outcome) == run' = [run EXCEPT !.pc = "idle", !.outcome = outcome]

Works == UNCHANGED faults
Fault == faults < MaxFaults /\ faults' = faults + 1

\* A program that may fail, and the command goes on; NothingLeft says it was uninstall.
Ignored == Works /\ UNCHANGED leftover
Neglected == Fault /\ leftover' = TRUE

Commands == {"start", "stop", "restart", "auto", "uninstall", "setup", "reset"}

Begin(cmd) ==
  /\ At("idle")
  /\ run' = [cmd |-> cmd, outcome |-> "running",
             pc |-> CASE cmd = "reset" -> "uninstall" [] OTHER -> cmd]
  /\ UNCHANGED <<exe, capped, disk, routed, trust, svc, foreign, faults, leftover>>

\* os.Create has emptied the file that is about to be written, or not.
TornFile == IF At("cert") THEN [disk EXCEPT !.cert = Torn]
            ELSE IF At("key") THEN [disk EXCEPT !.key = Torn] ELSE disk

\* The program of this step fails and the command returns the error.
FailSteps == {"unit", "setcap", "resolver", "resolved", "cert", "key", "trust", "update", "load",
              "unload", "stop.unload", "un.resolver"}
FailStep ==
  /\ run.pc \in FailSteps
  /\ Fault
  /\ Finish("error")
  /\ disk' \in {disk, TornFile}
  /\ UNCHANGED <<exe, capped, routed, trust, svc, foreign, leftover>>

Kill ==
  /\ ~At("idle")
  /\ Fault
  /\ Finish("killed")
  /\ disk' \in {disk, TornFile}
  /\ UNCHANGED <<exe, capped, routed, trust, svc, foreign, leftover>>

-----------------------------------------------------------------------------
(* system start, which is also the end of setup.                            *)

\* Mutant for ResetRepairs: a daemon that runs is taken for an installation.
StartIfRunning ==
  /\ At("start")
  /\ \E loaded \in BOOLEAN :
       /\ IsAgentLoaded(loaded)
       /\ \/ loaded /\ Finish("ok")
          \/ ~loaded /\ PortsInUse /\ Finish("error")
          \/ IsSetup /\ ~loaded /\ ~PortsInUse /\ Goto("load")
          \/ ~IsSetup /\ ~loaded /\ ~PortsInUse /\ Goto("unit")
  /\ UNCHANGED <<exe, capped, disk, routed, trust, svc, foreign, faults, leftover>>

Start ==
  /\ At("start")
  /\ \E loaded \in BOOLEAN :
       /\ IsAgentLoaded(loaded)
       /\ \/ IsSetup /\ loaded /\ Finish("ok")
          \/ ~(IsSetup /\ loaded) /\ PortsInUse /\ Finish("error")
          \/ IsSetup /\ ~loaded /\ ~PortsInUse /\ Goto("load")
          \/ ~IsSetup /\ ~PortsInUse /\ Goto("unit")
  /\ UNCHANGED <<exe, capped, disk, routed, trust, svc, foreign, faults, leftover>>

\* resolveAndWritePlist, for start and for restart.
WriteUnit ==
  /\ At("unit")
  /\ Works
  /\ disk' = [disk EXCEPT !.unit = exe]
  /\ Goto("setcap")
  /\ UNCHANGED <<exe, capped, routed, trust, svc, foreign, leftover>>

EnsurePrivilegedPorts ==
  /\ At("setcap")
  /\ Works
  /\ capped' = TRUE
  /\ Goto(IF run.cmd \in {"restart", "auto"} THEN "unload" ELSE "resolver")
  /\ UNCHANGED <<exe, disk, routed, trust, svc, foreign, leftover>>

\* A drop-in with the right content is left alone, and so is systemd-resolved.
WriteResolverFile ==
  /\ At("resolver")
  /\ Works
  /\ IF disk.resolver = "ours"
     THEN Goto("ca") /\ UNCHANGED disk
     ELSE Goto("resolved") /\ disk' = [disk EXCEPT !.resolver = "ours"]
  /\ UNCHANGED <<exe, capped, routed, trust, svc, foreign, leftover>>

RestartResolved ==
  /\ At("resolved")
  /\ Works
  /\ routed' = TRUE
  /\ Goto("ca")
  /\ UNCHANGED <<exe, capped, disk, trust, svc, foreign, leftover>>

\* Mutant for TrustKept: a new CA on every start.
DecideCAAnew ==
  /\ At("ca")
  /\ Goto("cert")
  /\ UNCHANGED <<exe, capped, disk, routed, trust, svc, foreign, faults, leftover>>

DecideCA ==
  /\ At("ca")
  /\ Goto(IF IsCAInstalled THEN "trust" ELSE "cert")
  /\ UNCHANGED <<exe, capped, disk, routed, trust, svc, foreign, faults, leftover>>

NewCA == CHOOSE ca \in CAs : ca \notin {disk.key, trust.anchor, trust.bundle, trust.browsers, svc.ca}

\* GenerateCA: the certificate first, then its key.
WriteCACert ==
  /\ At("cert")
  /\ Works
  /\ disk' = [disk EXCEPT !.cert = NewCA]
  /\ Goto("key")
  /\ UNCHANGED <<exe, capped, routed, trust, svc, foreign, leftover>>

WriteCAKey ==
  /\ At("key")
  /\ Works
  /\ disk' = [disk EXCEPT !.key = disk.cert]
  /\ Goto("trust")
  /\ UNCHANGED <<exe, capped, routed, trust, svc, foreign, leftover>>

\* TrustCA: the anchor is copied, then the bundle is made from the anchors.
CopyAnchor ==
  /\ At("trust")
  /\ Works
  /\ trust' = [trust EXCEPT !.anchor = disk.cert]
  /\ Goto("update")
  /\ UNCHANGED <<exe, capped, disk, routed, svc, foreign, leftover>>

UpdateBundle ==
  /\ At("update")
  /\ Works
  /\ trust' = [trust EXCEPT !.bundle = trust.anchor]
  /\ Goto("browsers")
  /\ UNCHANGED <<exe, capped, disk, routed, svc, foreign, leftover>>

TrustBrowserCAs ==
  /\ At("browsers")
  /\ \/ Works /\ trust' = [trust EXCEPT !.browsers = disk.cert]
     \/ Fault /\ UNCHANGED trust
  /\ Goto("load")
  /\ UNCHANGED <<exe, capped, disk, routed, svc, foreign, leftover>>

\* systemctl enable --now: a unit that runs already is not restarted.
LoadAgent ==
  /\ At("load")
  /\ Works
  /\ svc' = [svc EXCEPT !.enabled = TRUE, !.agent = IF @ = "off" THEN "starting" ELSE @]
  /\ Finish("ok")
  /\ UNCHANGED <<exe, capped, disk, routed, trust, foreign, leftover>>

-----------------------------------------------------------------------------
(* system stop, system restart and the restart after an upgrade.            *)

Stopped == [enabled |-> FALSE, agent |-> "off", bin |-> None, ca |-> None, key |-> None]

Stop ==
  /\ At("stop")
  /\ \E loaded \in BOOLEAN :
       /\ IsAgentLoaded(loaded)
       /\ \/ ~IsSetup /\ Finish("error")
          \/ IsSetup /\ ~loaded /\ Finish("ok")
          \/ IsSetup /\ loaded /\ Goto("stop.unload")
  /\ UNCHANGED <<exe, capped, disk, routed, trust, svc, foreign, faults, leftover>>

StopUnload ==
  /\ At("stop.unload")
  /\ Works
  /\ svc' = Stopped
  /\ Finish("ok")
  /\ UNCHANGED <<exe, capped, disk, routed, trust, foreign, leftover>>

Restart ==
  /\ At("restart")
  /\ IF IsSetup THEN Goto("unit") ELSE Finish("error")
  /\ UNCHANGED <<exe, capped, disk, routed, trust, svc, foreign, faults, leftover>>

\* Mutant for RestartUpdates: the daemon that runs is left alone.
RestartLoad ==
  /\ At("unload")
  /\ Works
  /\ Goto("load")
  /\ UNCHANGED <<exe, capped, disk, routed, trust, svc, foreign, leftover>>

\* restartDaemon after the unit is written.
RestartUnload ==
  /\ At("unload")
  /\ Works
  /\ \E loaded \in BOOLEAN :
       /\ IsAgentLoaded(loaded)
       /\ svc' = IF loaded THEN Stopped ELSE svc
  /\ Goto("load")
  /\ UNCHANGED <<exe, capped, disk, routed, trust, foreign, leftover>>

\* fetchDaemonVersion asks https://outport.test when a CA certificate exists.
Reachable ==
  /\ svc.agent = "up" /\ routed
  /\ IF IsCAInstalled THEN svc.ca # None /\ svc.ca = svc.key /\ svc.ca = trust.bundle
     ELSE svc.ca = None

MaybeRestartDaemon ==
  /\ At("auto")
  /\ \/ IsSetup /\ Reachable /\ svc.bin # exe /\ Goto("unit")
     \/ ~(IsSetup /\ Reachable /\ svc.bin # exe) /\ Finish("skipped")
  /\ UNCHANGED <<exe, capped, disk, routed, trust, svc, foreign, faults, leftover>>

-----------------------------------------------------------------------------
(* system uninstall, which is also the beginning of setup --reset.  Most of *)
(* its errors are ignored.                                                  *)

\* systemctl disable fails for a unit without a file, and leaves its process alone.
UninstallUnload ==
  /\ At("uninstall")
  /\ \/ Ignored /\ svc' = Stopped
     \/ Neglected /\ UNCHANGED svc
     \/ disk.unit = None /\ Ignored /\ UNCHANGED svc
  /\ Goto("un.unit")
  /\ UNCHANGED <<exe, capped, disk, routed, trust, foreign>>

RemoveUnit ==
  /\ At("un.unit")
  /\ \/ Ignored /\ disk' = [disk EXCEPT !.unit = None]
     \/ Neglected /\ UNCHANGED disk
  /\ Goto("un.resolver")
  /\ UNCHANGED <<exe, capped, routed, trust, svc, foreign>>

RemoveResolverFile ==
  /\ At("un.resolver")
  /\ \/ Ignored /\ routed' = FALSE
     \/ Fault /\ UNCHANGED <<routed, leftover>>      \* systemd-resolved is not restarted
  /\ disk' = [disk EXCEPT !.resolver = "absent"]
  /\ Goto(IF IsCAInstalled THEN "un.trust" ELSE "un.done")
  /\ UNCHANGED <<exe, capped, trust, svc, foreign>>

\* Mutant for NothingOutlivesCA: the anchor goes, the bundle is not made again.
UntrustCAAnchor ==
  /\ At("un.trust")
  /\ \/ Ignored /\ trust' = [trust EXCEPT !.anchor = None]
     \/ Neglected /\ UNCHANGED trust
  /\ Goto("un.browsers")
  /\ UNCHANGED <<exe, capped, disk, routed, svc, foreign>>

UntrustCA ==
  /\ At("un.trust")
  /\ \/ Ignored /\ trust' = [trust EXCEPT !.anchor = None, !.bundle = None]
     \/ Neglected /\ trust' = [trust EXCEPT !.anchor = None]
     \/ Neglected /\ UNCHANGED trust
  /\ Goto("un.browsers")
  /\ UNCHANGED <<exe, capped, disk, routed, svc, foreign>>

UntrustBrowserCAs ==
  /\ At("un.browsers")
  /\ \/ Ignored /\ trust' = [trust EXCEPT !.browsers = None]
     \/ Neglected /\ UNCHANGED trust
  /\ Goto("un.cert")
  /\ UNCHANGED <<exe, capped, disk, routed, svc, foreign>>

DeleteCACert ==
  /\ At("un.cert")
  /\ disk' = [disk EXCEPT !.cert = None]
  /\ Goto("un.key")
  /\ UNCHANGED <<exe, capped, routed, trust, svc, foreign, faults, leftover>>

DeleteCAKey ==
  /\ At("un.key")
  /\ disk' = [disk EXCEPT !.key = None]
  /\ Goto("un.done")
  /\ UNCHANGED <<exe, capped, routed, trust, svc, foreign, faults, leftover>>

\* The end of runSystemUninstall.  Of what precedes it, the deletion of the certificate cache is
\* CertStore's; the deletion of registry.json (nothing of the installation depends on the file)
\* is in no module.
UninstallDone ==
  /\ At("un.done")
  /\ IF run.cmd = "reset" THEN Goto("setup") ELSE Finish("ok")
  /\ UNCHANGED <<exe, capped, disk, routed, trust, svc, foreign, faults, leftover>>

\* setup: done when all seems there, else start, unless the prompt is declined.
Setup ==
  /\ At("setup")
  /\ \E loaded \in BOOLEAN :
       /\ IsAgentLoaded(loaded)
       /\ IF IsSetup /\ IsCAInstalled /\ loaded
          THEN Finish("ok")
          ELSE Goto("start") \/ Finish("declined")
  /\ UNCHANGED <<exe, capped, disk, routed, trust, svc, foreign, faults, leftover>>

-----------------------------------------------------------------------------
(* systemd, the daemon, and what others do to the machine.                  *)

\* runDaemon: TLS if there is a CA certificate, and then both files must load.
CanBoot == /\ disk.unit = exe /\ capped /\ ~foreign
           /\ IsCAInstalled => disk.cert # Torn /\ disk.key \notin {None, Torn}

Boot ==
  /\ svc.agent = "starting" /\ CanBoot
  /\ svc' = [svc EXCEPT !.agent = "up", !.bin = exe, !.ca = disk.cert,
                      !.key = IF IsCAInstalled THEN disk.key ELSE None]
  /\ UNCHANGED <<exe, capped, disk, routed, trust, foreign, run, faults, leftover>>

\* Restart=on-failure, until systemd has seen enough of it.
GiveUp ==
  /\ svc.agent = "starting" /\ ~CanBoot
  /\ svc' = [svc EXCEPT !.agent = "off"]
  /\ UNCHANGED <<exe, capped, disk, routed, trust, foreign, run, faults, leftover>>

DaemonFails ==
  /\ svc.agent = "up" /\ Fault
  /\ svc' = [svc EXCEPT !.agent = "starting", !.bin = None, !.ca = None, !.key = None]
  /\ UNCHANGED <<exe, capped, disk, routed, trust, foreign, run, leftover>>

Reboot ==
  /\ At("idle")
  /\ svc' = [Stopped EXCEPT !.enabled = svc.enabled,
             !.agent = IF svc.enabled /\ disk.unit # None THEN "starting" ELSE "off"]
  /\ routed' = (disk.resolver = "ours")
  /\ UNCHANGED <<exe, capped, disk, trust, foreign, run, faults, leftover>>

Upgrade ==
  /\ At("idle") /\ Fault
  /\ exe' \in Versions \ {exe}
  /\ capped' = FALSE
  /\ UNCHANGED <<disk, routed, trust, svc, foreign, run, leftover>>

\* Another server comes up or goes; someone edits the drop-in.
OtherServer ==
  /\ At("idle") /\ svc.agent # "up" /\ Fault
  /\ foreign' = ~foreign
  /\ UNCHANGED <<exe, capped, disk, routed, trust, svc, run, leftover>>

EditResolver ==
  /\ At("idle") /\ disk.resolver = "ours" /\ Fault
  /\ disk' = [disk EXCEPT !.resolver = "other"]
  /\ UNCHANGED <<exe, capped, routed, trust, svc, foreign, run, leftover>>

Init ==
  /\ exe \in Versions /\ capped = FALSE
  /\ disk = [unit |-> None, resolver |-> "absent", cert |-> None, key |-> None]
  /\ routed = FALSE
  /\ trust = [anchor |-> None, bundle |-> None, browsers |-> None]
  /\ svc = Stopped
  /\ foreign \in BOOLEAN
  /\ run = [cmd |-> "setup", pc |-> "idle", outcome |-> "declined"]
  /\ faults = 0 /\ leftover = FALSE

Command ==
  \/ Start \/ WriteUnit \/ EnsurePrivilegedPorts \/ WriteResolverFile \/ RestartResolved
  \/ DecideCA \/ WriteCACert \/ WriteCAKey \/ CopyAnchor \/ UpdateBundle \/ TrustBrowserCAs
  \/ LoadAgent \/ Stop \/ StopUnload \/ Restart \/ RestartUnload \/ MaybeRestartDaemon
  \/ UninstallUnload \/ RemoveUnit \/ RemoveResolverFile \/ UntrustCA \/ UntrustBrowserCAs
  \/ DeleteCACert \/ DeleteCAKey \/ UninstallDone \/ Setup

Machine ==
  \/ Boot \/ GiveUp \/ DaemonFails \/ Reboot \/ Upgrade \/ OtherServer \/ EditResolver

Next == Command \/ Machine \/ FailStep \/ Kill \/ \E cmd \in Commands : Begin(cmd)

Spec == Init /\ [][Next]_vars
-----------------------------------------------------------------------------
(* Properties.                                                              *)

\* Types, of the files, the unit and the running command.
SetupTypeOK ==
  /\ exe \in Versions /\ capped \in BOOLEAN /\ routed \in BOOLEAN /\ foreign \in BOOLEAN
  /\ disk \in [unit : Versions \cup {None}, resolver : {"absent", "ours", "other"},
               cert : CAs \cup {None, Torn}, key : CAs \cup {None, Torn}]
  /\ trust \in [anchor : CAs \cup {None, Torn}, bundle : CAs \cup {None, Torn},
                browsers : CAs \cup {None, Torn}]
  /\ svc \in [enabled : BOOLEAN, agent : {"off", "starting", "up"},
              bin : Versions \cup {None}, ca : CAs \cup {None}, key : CAs \cup {None}]
  /\ run.cmd \in Commands /\ faults \in 0 .. MaxFaults /\ leftover \in BOOLEAN

Trusted == /\ disk.cert \in CAs /\ disk.key = disk.cert
           /\ trust.anchor = disk.cert /\ trust.bundle = disk.cert

Installed ==
  /\ disk.unit = exe /\ capped /\ disk.resolver = "ours" /\ routed
  /\ Trusted
  /\ svc.enabled /\ svc.agent # "off"

Ends(commands) == run.cmd \in commands /\ ~At("idle") /\ run'.pc = "idle" /\ run'.outcome = "ok"

\* Whatever state failures, kills, upgrades and edits have left, a setup --reset that says it
\* succeeded leaves a complete installation: unit for this binary, DNS routed, one CA with its
\* key, trusted (setup.go:71-78, system_start.go).
ResetRepairs == [][Ends({"reset"}) => Installed']_vars

\* The system never trusts, and the daemon never signs with, a CA that is no longer on disk,
\* killed anywhere, unless an uninstall went on after a step of its own failed
\* (system_start.go:169-195: unload and untrust come before the deletion).
NothingOutlivesCA ==
  leftover \/ {trust.anchor, trust.bundle, svc.ca} \subseteq {None, disk.cert}

\* Once HTTPS is trusted no start, stop, restart, setup, upgrade or reboot, failed or killed,
\* takes the CA, its key or its trust away (system_start.go:121-135, ca.go:35).
TrustKept == [][Trusted => Trusted' \/ run.cmd \in {"uninstall", "reset"}]_vars

\* After a restart that succeeded, explicit or because of an upgrade, only a daemon of the
\* installed binary can be running (version_check.go:45-55).
RestartUpdates ==
  [][Ends({"restart", "auto"}) => /\ disk'.unit = exe' /\ svc'.agent # "off"
                                  /\ svc'.bin \in {None, exe'}]_vars
=============================================================================
