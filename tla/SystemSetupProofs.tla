-------------------------- MODULE SystemSetupProofs --------------------------
(***************************************************************************)
(* Proofs about SystemSetup and Doctor, for any number of CAs, versions,   *)
(* failures, kills, reboots and edits.                                     *)
(***************************************************************************)
EXTENDS Doctor, TLAPS

\* Where a command can be: installing, restarting and removing.
Installing == {"resolver", "resolved", "ca", "cert", "key", "trust", "update", "browsers"}
Removing   == {"un.unit", "un.resolver", "un.trust", "un.browsers", "un.cert", "un.key", "un.done"}
Pcs == {"idle", "start", "stop", "restart", "auto", "uninstall", "setup", "unit", "setcap",
        "unload", "load", "stop.unload"} \cup Installing \cup Removing
Outcomes == {"running", "ok", "error", "killed", "declined", "skipped"}

RunType   == run \in [cmd : Commands, pc : Pcs, outcome : Outcomes]
DiskType  == disk \in [unit : Versions \cup {None}, resolver : {"absent", "ours", "other"},
                       cert : CAs \cup {None, Torn}, key : CAs \cup {None, Torn}]
TrustType == trust \in [anchor : CAs \cup {None, Torn}, bundle : CAs \cup {None, Torn},
                        browsers : CAs \cup {None, Torn}]
SvcType   == svc \in [enabled : BOOLEAN, agent : {"off", "starting", "up"},
                      bin : Versions \cup {None}, ca : CAs \cup {None}, key : CAs \cup {None}]

\* What GenerateCA makes is new.
LEMMA NewCAType == DiskType /\ TrustType /\ SvcType => NewCA \in CAs /\ NewCA # disk.key
<1> SUFFICES ASSUME DiskType, TrustType, SvcType PROVE NewCA \in CAs /\ NewCA # disk.key
  OBVIOUS
<1> DEFINE Free(ca) == ca \notin {disk.key, trust.anchor, trust.bundle, trust.browsers, svc.ca}
<1>1. \E ca \in CAs : Free(ca)
  BY FreshAssumption DEF DiskType, TrustType, SvcType
<1>2. NewCA \in CAs /\ Free(NewCA)
  BY <1>1 DEF NewCA
<1> QED BY <1>2

LEMMA GotoType == ASSUME RunType, NEW step \in Pcs, Goto(step) PROVE RunType'
BY DEF RunType, Goto
LEMMA FinishType == ASSUME RunType, NEW o \in Outcomes, Finish(o) PROVE RunType'
BY DEF RunType, Finish, Pcs
LEMMA SameType == ASSUME RunType, UNCHANGED run PROVE RunType'
BY DEF RunType

LEMMA RunStep == RunType /\ [Next]_vars => RunType'
<1> SUFFICES ASSUME RunType, [Next]_vars PROVE RunType'
  OBVIOUS
<1> DEFINE Moves == (\E step \in Pcs : Goto(step)) \/ (\E o \in Outcomes : Finish(o))
<1>0. Moves => RunType'
  BY GotoType, FinishType
<1> USE DEF Pcs, Outcomes, Installing, Removing
<1>1. CASE Start \/ WriteUnit \/ EnsurePrivilegedPorts \/ WriteResolverFile \/ RestartResolved
  BY <1>1, <1>0 DEF Start, WriteUnit, EnsurePrivilegedPorts, WriteResolverFile, RestartResolved
<1>2. CASE DecideCA \/ WriteCACert \/ WriteCAKey \/ CopyAnchor \/ UpdateBundle \/ TrustBrowserCAs
  BY <1>2, <1>0 DEF DecideCA, WriteCACert, WriteCAKey, CopyAnchor, UpdateBundle, TrustBrowserCAs
<1>3. CASE LoadAgent \/ Stop \/ StopUnload \/ Restart \/ RestartUnload \/ MaybeRestartDaemon
  BY <1>3, <1>0 DEF LoadAgent, Stop, StopUnload, Restart, RestartUnload, MaybeRestartDaemon
<1>4. CASE UninstallUnload \/ RemoveUnit \/ RemoveResolverFile \/ UntrustCA
  BY <1>4, <1>0 DEF UninstallUnload, RemoveUnit, RemoveResolverFile, UntrustCA
<1>5. CASE UntrustBrowserCAs \/ DeleteCACert \/ DeleteCAKey \/ UninstallDone \/ Setup
  BY <1>5, <1>0 DEF UntrustBrowserCAs, DeleteCACert, DeleteCAKey, UninstallDone, Setup
<1>6. CASE Machine \/ UNCHANGED vars
  BY <1>6, SameType
     DEF Machine, Boot, GiveUp, DaemonFails, Reboot, Upgrade, OtherServer, EditResolver, vars
<1>7. CASE FailStep \/ Kill
  BY <1>7, <1>0 DEF FailStep, Kill
<1>8. CASE \E cmd \in Commands : Begin(cmd)
  BY <1>8 DEF Begin, RunType, Commands
<1> QED BY <1>1, <1>2, <1>3, <1>4, <1>5, <1>6, <1>7, <1>8 DEF Next, Command

LEMMA DiskStep == DiskType /\ TrustType /\ SvcType /\ exe \in Versions /\ [Next]_vars => DiskType'
<1> SUFFICES ASSUME DiskType, TrustType, SvcType, exe \in Versions, [Next]_vars PROVE DiskType'
  OBVIOUS
<1> USE DEF DiskType
<1>1. CASE WriteUnit \/ WriteResolverFile \/ RemoveUnit \/ RemoveResolverFile
  BY <1>1 DEF WriteUnit, WriteResolverFile, RemoveUnit, RemoveResolverFile
<1>2. CASE WriteCACert
  BY <1>2, NewCAType DEF WriteCACert
<1>3. CASE WriteCAKey \/ DeleteCACert \/ DeleteCAKey
  BY <1>3 DEF WriteCAKey, DeleteCACert, DeleteCAKey
<1>4. CASE FailStep \/ Kill
  BY <1>4 DEF FailStep, Kill, TornFile
<1>5. CASE EditResolver
  BY <1>5 DEF EditResolver
<1>6. CASE UNCHANGED disk
  BY <1>6
<1> QED BY <1>1, <1>2, <1>3, <1>4, <1>5, <1>6
     DEF Next, Command, Machine, Start, EnsurePrivilegedPorts, RestartResolved, DecideCA,
         CopyAnchor, UpdateBundle, TrustBrowserCAs, LoadAgent, Stop, StopUnload, Restart,
         RestartUnload, MaybeRestartDaemon, UninstallUnload, UntrustCA, UntrustBrowserCAs,
         UninstallDone, Setup, Boot, GiveUp, DaemonFails, Reboot, Upgrade, OtherServer, Begin, vars

LEMMA TrustStep == DiskType /\ TrustType /\ [Next]_vars => TrustType'
<1> SUFFICES ASSUME DiskType, TrustType, [Next]_vars PROVE TrustType'
  OBVIOUS
<1> USE DEF TrustType, DiskType
<1>1. CASE CopyAnchor \/ UpdateBundle \/ TrustBrowserCAs
  BY <1>1 DEF CopyAnchor, UpdateBundle, TrustBrowserCAs
<1>2. CASE UntrustCA \/ UntrustBrowserCAs
  BY <1>2 DEF UntrustCA, UntrustBrowserCAs
<1>3. CASE UNCHANGED trust
  BY <1>3
<1> QED BY <1>1, <1>2, <1>3
     DEF Next, Command, Machine, Start, WriteUnit, EnsurePrivilegedPorts, WriteResolverFile,
         RestartResolved, DecideCA, WriteCACert, WriteCAKey, LoadAgent, Stop, StopUnload, Restart,
         RestartUnload, MaybeRestartDaemon, UninstallUnload, RemoveUnit, RemoveResolverFile,
         DeleteCACert, DeleteCAKey, UninstallDone, Setup, Boot, GiveUp, DaemonFails, Reboot,
         Upgrade, OtherServer, EditResolver, Begin, FailStep, Kill, vars

LEMMA SvcStep == DiskType /\ SvcType /\ exe \in Versions /\ [Next]_vars => SvcType'
<1> SUFFICES ASSUME DiskType, SvcType, exe \in Versions, [Next]_vars PROVE SvcType'
  OBVIOUS
<1> USE DEF SvcType, DiskType, Stopped
<1>1. CASE LoadAgent
  <2>1. svc.agent \in {"off", "starting", "up"}
    OBVIOUS
  <2>2. PICK a \in {"off", "starting", "up"} : svc' = [svc EXCEPT !.enabled = TRUE, !.agent = a]
    BY <1>1, <2>1 DEF LoadAgent
  <2> QED BY <2>2
<1>5. CASE StopUnload \/ RestartUnload \/ UninstallUnload
  <2>1. svc' = Stopped \/ UNCHANGED svc
    BY <1>5 DEF StopUnload, RestartUnload, UninstallUnload
  <2>2. Stopped \in [enabled : BOOLEAN, agent : {"off", "starting", "up"},
                    bin : Versions \cup {None}, ca : CAs \cup {None}, key : CAs \cup {None}]
    OBVIOUS
  <2> HIDE DEF Stopped
  <2> QED BY <2>1, <2>2
<1>2. CASE Boot
  BY <1>2 DEF Boot, CanBoot, IsCAInstalled
<1>3. CASE GiveUp \/ DaemonFails \/ Reboot
  BY <1>3 DEF GiveUp, DaemonFails, Reboot
<1>4. CASE UNCHANGED svc
  BY <1>4
<1> QED BY <1>1, <1>2, <1>3, <1>4, <1>5
     DEF Next, Command, Machine, Start, WriteUnit, EnsurePrivilegedPorts, WriteResolverFile,
         RestartResolved, DecideCA, WriteCACert, WriteCAKey, CopyAnchor, UpdateBundle,
         TrustBrowserCAs, Stop, Restart, MaybeRestartDaemon, RemoveUnit, RemoveResolverFile,
         UntrustCA, UntrustBrowserCAs, DeleteCACert, DeleteCAKey, UninstallDone, Setup, Upgrade,
         OtherServer, EditResolver, Begin, FailStep, Kill, vars

LEMMA RestStep ==
  ASSUME exe \in Versions, capped \in BOOLEAN, routed \in BOOLEAN, foreign \in BOOLEAN,
         faults \in 0 .. MaxFaults, leftover \in BOOLEAN, [Next]_vars
  PROVE  /\ exe' \in Versions /\ capped' \in BOOLEAN /\ routed' \in BOOLEAN
         /\ foreign' \in BOOLEAN /\ faults' \in 0 .. MaxFaults /\ leftover' \in BOOLEAN
<1>1. Fault => faults' \in 0 .. MaxFaults
  BY FaultsAssumption DEF Fault
<1>2. Works => faults' \in 0 .. MaxFaults
  BY DEF Works
<1> USE <1>1, <1>2 DEF Ignored, Neglected
<1>3. CASE Command
  BY <1>3
     DEF Command, Start, WriteUnit, EnsurePrivilegedPorts, WriteResolverFile, RestartResolved,
         DecideCA, WriteCACert, WriteCAKey, CopyAnchor, UpdateBundle, TrustBrowserCAs, LoadAgent,
         Stop, StopUnload, Restart, RestartUnload, MaybeRestartDaemon, UninstallUnload, RemoveUnit,
         RemoveResolverFile, UntrustCA, UntrustBrowserCAs, DeleteCACert, DeleteCAKey,
         UninstallDone, Setup
<1>4. CASE Machine
  BY <1>4
     DEF Machine, Boot, GiveUp, DaemonFails, Reboot, Upgrade, OtherServer, EditResolver
<1>5. CASE FailStep \/ Kill \/ (\E cmd \in Commands : Begin(cmd)) \/ UNCHANGED vars
  BY <1>5 DEF FailStep, Kill, Begin, vars
<1> QED BY <1>3, <1>4, <1>5 DEF Next

TypeInv == SetupTypeOK /\ RunType

LEMMA TypeParts ==
  TypeInv <=> /\ RunType /\ DiskType /\ TrustType /\ SvcType /\ exe \in Versions
              /\ capped \in BOOLEAN /\ routed \in BOOLEAN /\ foreign \in BOOLEAN
              /\ faults \in 0 .. MaxFaults /\ leftover \in BOOLEAN
BY DEF TypeInv, SetupTypeOK, RunType, DiskType, TrustType, SvcType

LEMMA TypeInit == Init => TypeInv
<1> SUFFICES ASSUME Init PROVE TypeInv
  OBVIOUS
<1>1. RunType
  BY DEF Init, RunType, Commands, Pcs, Outcomes
<1>2. DiskType /\ TrustType /\ SvcType
  BY DEF Init, DiskType, TrustType, SvcType, Stopped
<1>3. faults \in 0 .. MaxFaults
  BY FaultsAssumption DEF Init
<1>4. capped \in BOOLEAN /\ routed \in BOOLEAN /\ leftover \in BOOLEAN
  BY DEF Init
<1>5. exe \in Versions /\ foreign \in BOOLEAN
  BY DEF Init
<1> QED BY <1>1, <1>2, <1>3, <1>4, <1>5, TypeParts

LEMMA TypeStep == TypeInv /\ [Next]_vars => TypeInv'
<1> SUFFICES ASSUME TypeInv, [Next]_vars PROVE TypeInv'
  OBVIOUS
<1>1. RunType' /\ DiskType' /\ TrustType' /\ SvcType'
  BY TypeParts, RunStep, DiskStep, TrustStep, SvcStep
<1>2. /\ exe' \in Versions /\ capped' \in BOOLEAN /\ routed' \in BOOLEAN
      /\ foreign' \in BOOLEAN /\ faults' \in 0 .. MaxFaults /\ leftover' \in BOOLEAN
  BY TypeParts, RestStep
<1>3. run'.cmd \in Commands
  BY <1>1 DEF RunType
<1> QED BY <1>1, <1>2, <1>3 DEF TypeInv, SetupTypeOK, DiskType, TrustType, SvcType

\* The files, the unit and the running command have their types.
THEOREM TypeCorrect == Spec => []SetupTypeOK
<1>1. TypeInv => SetupTypeOK
  BY DEF TypeInv
<1> QED BY <1>1, TypeInit, TypeStep, PTL DEF Spec

-----------------------------------------------------------------------------
(* Where a command is says what it has done so far.                         *)

Control ==
  /\ run.pc \in Removing \cup {"uninstall"} => run.cmd \in {"uninstall", "reset"}
  /\ run.pc \in Installing \cup {"start", "setup"} => run.cmd \in {"start", "setup", "reset"}
  /\ run.pc = "unload" => run.cmd \in {"restart", "auto"}
  /\ run.pc \in {"stop", "restart", "auto"} => run.cmd = run.pc
  /\ run.pc = "stop.unload" => run.cmd = "stop"
  /\ run.pc \in {"unit", "setcap", "load"} =>
       run.cmd \in {"start", "setup", "reset", "restart", "auto"}

Progress ==
  /\ run.pc = "cert" => disk.cert = None
  /\ run.pc = "key" => disk.cert # disk.key
  /\ run.pc \in Installing \cup {"setcap", "unload", "load"} => disk.unit # None
  /\ run.pc \in (Installing \ {"resolver"}) \cup {"unload", "load"} => disk.resolver # "absent"
  /\ run.pc \in {"unit", "setcap"} /\ run.cmd \in {"restart", "auto"} => disk.resolver # "absent"

LEMMA GotoIs == ASSUME RunType, NEW step, Goto(step)
                PROVE  run'.pc = step /\ run'.cmd = run.cmd /\ run'.outcome = run.outcome
BY DEF RunType, Goto
LEMMA FinishIs == ASSUME RunType, NEW o, Finish(o)
                  PROVE  run'.pc = "idle" /\ run'.cmd = run.cmd /\ run'.outcome = o
BY DEF RunType, Finish

LEMMA ControlStep == RunType /\ Control /\ [Next]_vars => Control'
<1> SUFFICES ASSUME RunType, Control, [Next]_vars PROVE Control'
  OBVIOUS
<1> USE GotoIs, FinishIs DEF Control, At, Installing, Removing
<1>1. CASE Start \/ WriteUnit \/ EnsurePrivilegedPorts \/ WriteResolverFile \/ RestartResolved
  BY <1>1 DEF Start, WriteUnit, EnsurePrivilegedPorts, WriteResolverFile, RestartResolved
<1>2. CASE DecideCA \/ WriteCACert \/ WriteCAKey \/ CopyAnchor \/ UpdateBundle \/ TrustBrowserCAs
  BY <1>2 DEF DecideCA, WriteCACert, WriteCAKey, CopyAnchor, UpdateBundle, TrustBrowserCAs
<1>3. CASE LoadAgent \/ Stop \/ StopUnload \/ Restart \/ RestartUnload \/ MaybeRestartDaemon
  BY <1>3 DEF LoadAgent, Stop, StopUnload, Restart, RestartUnload, MaybeRestartDaemon
<1>4. CASE UninstallUnload \/ RemoveUnit \/ RemoveResolverFile \/ UntrustCA
  BY <1>4 DEF UninstallUnload, RemoveUnit, RemoveResolverFile, UntrustCA
<1>5. CASE UntrustBrowserCAs \/ DeleteCACert \/ DeleteCAKey \/ UninstallDone \/ Setup
  BY <1>5 DEF UntrustBrowserCAs, DeleteCACert, DeleteCAKey, UninstallDone, Setup
<1>6. CASE Machine \/ UNCHANGED vars
  BY <1>6
     DEF Machine, Boot, GiveUp, DaemonFails, Reboot, Upgrade, OtherServer, EditResolver, vars
<1>7. CASE FailStep \/ Kill
  BY <1>7 DEF FailStep, Kill
<1>8. CASE \E cmd \in Commands : Begin(cmd)
  BY <1>8 DEF Begin, Commands
<1> QED BY <1>1, <1>2, <1>3, <1>4, <1>5, <1>6, <1>7, <1>8 DEF Next, Command

LEMMA ProgressStep == TypeInv /\ Control /\ Progress /\ [Next]_vars => Progress'
<1> SUFFICES ASSUME TypeInv, Control, Progress, [Next]_vars PROVE Progress'
  OBVIOUS
<1>0. /\ RunType /\ DiskType /\ exe # None
      /\ NewCA # disk.key
  BY TypeParts, NewCAType, NoneAssumption
<1> USE <1>0, GotoIs, FinishIs DEF Progress, DiskType, At, Installing
<1>1. CASE Start
  BY <1>1 DEF Start, IsSetup, Control
<1>2. CASE WriteUnit
  <2>1. disk' = [disk EXCEPT !.unit = exe] /\ run'.pc = "setcap" /\ run'.cmd = run.cmd
    BY <1>2 DEF WriteUnit
  <2>2. disk'.unit # None /\ disk'.resolver = disk.resolver
    BY <2>1
  <2>3. run.pc = "unit"
    BY <1>2 DEF WriteUnit
  <2> QED BY <2>1, <2>2, <2>3
<1>10. CASE WriteResolverFile
  <2>1. run'.pc \in {"ca", "resolved"} /\ run'.cmd = run.cmd /\ run.pc = "resolver"
    BY <1>10 DEF WriteResolverFile
  <2>2. disk'.resolver = "ours" /\ disk'.unit = disk.unit
    BY <1>10 DEF WriteResolverFile
  <2> QED BY <2>1, <2>2
<1>3. CASE EnsurePrivilegedPorts \/ RestartResolved \/ DecideCA \/ CopyAnchor \/ UpdateBundle
             \/ TrustBrowserCAs
  BY <1>3 DEF Control, EnsurePrivilegedPorts, RestartResolved, DecideCA, IsCAInstalled, CopyAnchor,
              UpdateBundle, TrustBrowserCAs
<1>4. CASE WriteCACert \/ WriteCAKey
  BY <1>4 DEF WriteCACert, WriteCAKey
<1>5. CASE Restart \/ RestartUnload \/ MaybeRestartDaemon
  BY <1>5 DEF Restart, RestartUnload, MaybeRestartDaemon, IsSetup
<1>6. CASE LoadAgent \/ Stop \/ StopUnload \/ UninstallUnload \/ RemoveUnit \/ RemoveResolverFile
             \/ UntrustCA \/ UntrustBrowserCAs \/ DeleteCACert \/ DeleteCAKey \/ UninstallDone
             \/ Setup
  BY <1>6 DEF LoadAgent, Stop, StopUnload, UninstallUnload, RemoveUnit, RemoveResolverFile, UntrustCA,
              UntrustBrowserCAs, DeleteCACert, DeleteCAKey, UninstallDone, Setup
<1>7. CASE Machine \/ UNCHANGED vars
  BY <1>7
     DEF Machine, Boot, GiveUp, DaemonFails, Reboot, Upgrade, OtherServer, EditResolver, vars
<1>8. CASE FailStep \/ Kill
  BY <1>8 DEF FailStep, Kill
<1>9. CASE \E cmd \in Commands : Begin(cmd)
  BY <1>9 DEF Begin, Commands
<1> QED BY <1>1, <1>2, <1>3, <1>4, <1>5, <1>6, <1>7, <1>8, <1>9, <1>10 DEF Next, Command

-----------------------------------------------------------------------------
(* The daemon, and what the system trusts.                                  *)

Off == svc.agent = "off" /\ ~svc.enabled

Daemon ==
  /\ svc.agent # "up" => svc.ca = None /\ svc.bin = None
  /\ ~leftover =>
       /\ disk.unit = None \/ disk.resolver = "absent" => Off
       /\ run.pc \in Removing \cup Installing => Off
       /\ run.pc \in {"unit", "setcap"} /\ run.cmd \notin {"restart", "auto"} => Off
       /\ svc.ca # None => svc.ca = disk.cert /\ svc.key = disk.key

\* The steps that concern neither the daemon nor the files it loads.
LEMMA DaemonKept ==
  ASSUME RunType, Daemon, UNCHANGED <<disk, svc>>, leftover => leftover',
         run'.pc \in Removing \cup Installing \cup {"unit", "setcap"} =>
            \/ UNCHANGED run
            \/ run.pc \in Removing \cup Installing
            \/ run.pc = "setcap" /\ run.cmd \notin {"restart", "auto"}
            \/ run'.pc = "setcap" /\ run.pc = "unit" /\ run'.cmd = run.cmd
            \/ disk.unit = None \/ disk.resolver = "absent"
            \/ run'.pc \in {"unit", "setcap"} /\ run'.cmd \in {"restart", "auto"}
  PROVE  Daemon'
BY DEF Daemon, Off, Installing, Removing

LEMMA DaemonStep == TypeInv /\ Control /\ Progress /\ Daemon /\ [Next]_vars => Daemon'
<1> SUFFICES ASSUME TypeInv, Control, Progress, Daemon, [Next]_vars PROVE Daemon'
  OBVIOUS
<1>0. RunType /\ DiskType /\ SvcType /\ exe # None
  BY TypeParts, NoneAssumption
<1> USE <1>0, GotoIs, FinishIs DEF At
<1>1. CASE Start \/ EnsurePrivilegedPorts \/ RestartResolved \/ DecideCA \/ CopyAnchor
             \/ UpdateBundle \/ TrustBrowserCAs
  BY <1>1, DaemonKept
     DEF Start, IsSetup, EnsurePrivilegedPorts, RestartResolved, DecideCA, CopyAnchor,
         UpdateBundle, TrustBrowserCAs, Control, Installing, Removing
<1>2. CASE Stop \/ Restart \/ MaybeRestartDaemon \/ UntrustCA \/ UntrustBrowserCAs
             \/ UninstallDone \/ Setup
  BY <1>2, DaemonKept
     DEF Stop, Restart, MaybeRestartDaemon, UntrustCA, UntrustBrowserCAs, UninstallDone, Setup,
         Control, Installing, Removing, Ignored, Neglected
<1>3. CASE Upgrade \/ OtherServer \/ UNCHANGED vars
  BY <1>3, DaemonKept DEF Upgrade, OtherServer, vars, Installing, Removing
<1>4. CASE \E cmd \in Commands : Begin(cmd)
  BY <1>4, DaemonKept DEF Begin, Commands, Installing, Removing
<1> USE DEF Daemon, Off, DiskType, SvcType
<1>5. CASE WriteUnit
  BY <1>5 DEF WriteUnit, Control, Installing, Removing
<1>6. CASE WriteResolverFile
  BY <1>6 DEF WriteResolverFile, Installing, Removing
<1>7. CASE WriteCACert \/ WriteCAKey
  BY <1>7 DEF WriteCACert, WriteCAKey, Installing, Removing
<1>8. CASE LoadAgent
  <2>1. disk.unit # None /\ disk.resolver # "absent" /\ UNCHANGED <<disk, leftover>>
    BY <1>8 DEF LoadAgent, Progress
  <2>2. run'.pc = "idle"
    BY <1>8 DEF LoadAgent
  <2>3. svc'.ca = svc.ca /\ svc'.key = svc.key /\ svc'.bin = svc.bin
    BY <1>8 DEF LoadAgent
  <2>4. svc'.agent # "up" => svc.agent # "up"
    BY <1>8 DEF LoadAgent
  <2> QED BY <2>1, <2>2, <2>3, <2>4 DEF Removing, Installing
<1>9. CASE StopUnload \/ RestartUnload
  BY <1>9 DEF StopUnload, RestartUnload, Stopped, Installing, Removing
<1>10. CASE UninstallUnload
  BY <1>10 DEF UninstallUnload, Stopped, Ignored, Neglected, Removing, Installing
<1>11. CASE RemoveUnit \/ RemoveResolverFile
  BY <1>11 DEF RemoveUnit, RemoveResolverFile, Ignored, Neglected, Removing, Installing
<1>12. CASE DeleteCACert \/ DeleteCAKey
  BY <1>12 DEF DeleteCACert, DeleteCAKey, Removing, Installing
<1>13. CASE Boot
  BY <1>13 DEF Boot, CanBoot, IsCAInstalled
<1>14. CASE GiveUp \/ DaemonFails \/ Reboot \/ EditResolver
  BY <1>14 DEF GiveUp, DaemonFails, Reboot, EditResolver, Stopped, Removing, Installing
<1>15. CASE FailStep \/ Kill
  BY <1>15 DEF FailStep, Kill, TornFile, Removing, Installing
<1> QED BY <1>1, <1>2, <1>3, <1>4, <1>5, <1>6, <1>7, <1>8, <1>9, <1>10, <1>11, <1>12, <1>13,
           <1>14, <1>15 DEF Next, Command, Machine

Anchors ==
  ~leftover =>
    /\ {trust.anchor, trust.bundle} \subseteq {None, disk.cert}
    /\ run.pc \in {"un.browsers", "un.cert"} => trust.anchor = None /\ trust.bundle = None

\* The steps that concern neither the CA nor the trust in it.
LEMMA AnchorsKept ==
  ASSUME Anchors, trust'.anchor = trust.anchor, trust'.bundle = trust.bundle,
         disk'.cert = disk.cert, leftover => leftover',
         run'.pc \in {"un.browsers", "un.cert"} => run.pc \in {"un.browsers", "un.cert"}
  PROVE  Anchors'
BY DEF Anchors

LEMMA AnchorsStep == TypeInv /\ Progress /\ Anchors /\ [Next]_vars => Anchors'
<1> SUFFICES ASSUME TypeInv, Progress, Anchors, [Next]_vars PROVE Anchors'
  OBVIOUS
<1>0. RunType /\ DiskType /\ TrustType
  BY TypeParts
<1> USE <1>0, GotoIs, FinishIs DEF At
<1>1. CASE Start \/ EnsurePrivilegedPorts \/ RestartResolved \/ DecideCA \/ LoadAgent \/ Stop
             \/ StopUnload \/ Restart \/ RestartUnload \/ MaybeRestartDaemon
  BY <1>1, AnchorsKept
     DEF Start, EnsurePrivilegedPorts, RestartResolved, DecideCA, LoadAgent, Stop, StopUnload,
         Restart, RestartUnload, MaybeRestartDaemon
<1>2. CASE UninstallUnload \/ DeleteCAKey \/ UninstallDone \/ Setup
  BY <1>2, AnchorsKept
     DEF UninstallUnload, DeleteCAKey, UninstallDone, Setup, Ignored, Neglected, DiskType
<1>3. CASE WriteUnit \/ WriteResolverFile \/ WriteCAKey
  BY <1>3, AnchorsKept DEF WriteUnit, WriteResolverFile, WriteCAKey, DiskType
<1>4. CASE RemoveUnit \/ RemoveResolverFile
  BY <1>4, AnchorsKept DEF RemoveUnit, RemoveResolverFile, Ignored, Neglected, DiskType
<1>5. CASE Machine \/ UNCHANGED vars
  BY <1>5, AnchorsKept
     DEF Machine, Boot, GiveUp, DaemonFails, Reboot, Upgrade, OtherServer, EditResolver, vars, DiskType
<1>6. CASE \E cmd \in Commands : Begin(cmd)
  BY <1>6, AnchorsKept DEF Begin, Commands
<1> USE DEF Anchors, DiskType, TrustType
<1>7. CASE WriteCACert
  BY <1>7 DEF WriteCACert, Progress
<1>8. CASE CopyAnchor \/ UpdateBundle \/ TrustBrowserCAs
  BY <1>8 DEF CopyAnchor, UpdateBundle, TrustBrowserCAs
<1>9. CASE UntrustCA \/ UntrustBrowserCAs
  BY <1>9 DEF UntrustCA, UntrustBrowserCAs, Ignored, Neglected
<1>10. CASE DeleteCACert
  BY <1>10 DEF DeleteCACert
<1>11. CASE FailStep \/ Kill
  BY <1>11 DEF FailStep, Kill, TornFile, Progress
<1> QED BY <1>1, <1>2, <1>3, <1>4, <1>5, <1>6, <1>7, <1>8, <1>9, <1>10, <1>11 DEF Next, Command

SetupInv == TypeInv /\ Control /\ Progress /\ Daemon /\ Anchors

LEMMA SetupInvariant == Spec => []SetupInv
<1>1. Init => SetupInv
  <2> SUFFICES ASSUME Init PROVE SetupInv
    OBVIOUS
  <2>1. TypeInv
    BY TypeInit
  <2>2. Control /\ Progress
    BY DEF Init, Control, Progress, Installing, Removing
  <2>3. Daemon /\ Anchors
    BY DEF Init, Daemon, Off, Anchors, Stopped, Installing, Removing
  <2> QED BY <2>1, <2>2, <2>3 DEF SetupInv
<1>2. SetupInv /\ [Next]_vars => SetupInv'
  <2> SUFFICES ASSUME SetupInv, [Next]_vars PROVE SetupInv'
    OBVIOUS
  <2>1. TypeInv' /\ Control'
    BY TypeStep, ControlStep, TypeParts DEF SetupInv
  <2>2. Progress' /\ Daemon' /\ Anchors'
    BY ProgressStep, DaemonStep, AnchorsStep DEF SetupInv
  <2> QED BY <2>1, <2>2 DEF SetupInv
<1> QED BY <1>1, <1>2, PTL DEF Spec

\* The system never trusts, and the daemon never signs with, a CA that is not on disk any
\* more, unless an uninstall went on after a step of its own failed (system_start.go:169-195).
THEOREM NoTrustOutlivesCA == Spec => []NothingOutlivesCA
<1>1. SetupInv => NothingOutlivesCA
  BY DEF SetupInv, Anchors, Daemon, NothingOutlivesCA
<1> QED BY <1>1, SetupInvariant, PTL

\* No start, stop, restart, setup, upgrade or reboot, failed or killed, takes a CA that is
\* trusted, its key or its trust away (system_start.go:121-135, ca.go:35).
THEOREM TrustNotTaken == Spec => TrustKept
<1>1. SetupInv /\ [Next]_vars => (Trusted => Trusted' \/ run.cmd \in {"uninstall", "reset"})
  <2> SUFFICES ASSUME SetupInv, [Next]_vars, Trusted, run.cmd \notin {"uninstall", "reset"}
               PROVE  Trusted'
    OBVIOUS
  <2>0. DiskType /\ TrustType /\ None \notin CAs /\ run.pc \notin Removing
    BY TypeParts, NoneAssumption DEF SetupInv, Control
  <2>1. run.pc \notin {"cert", "key"}
    BY <2>0 DEF SetupInv, Progress, Trusted
  <2> USE <2>0, <2>1 DEF Trusted, At
  <2>2. CASE CopyAnchor \/ UpdateBundle \/ TrustBrowserCAs
    BY <2>2 DEF CopyAnchor, UpdateBundle, TrustBrowserCAs, TrustType
  <2>3. CASE WriteUnit \/ WriteResolverFile \/ EditResolver
    BY <2>3 DEF WriteUnit, WriteResolverFile, EditResolver, DiskType
  <2>4. CASE FailStep \/ Kill
    BY <2>4 DEF FailStep, Kill, TornFile
  <2>5. ~(WriteCACert \/ WriteCAKey \/ RemoveUnit \/ RemoveResolverFile \/ UntrustCA
          \/ UntrustBrowserCAs \/ DeleteCACert \/ DeleteCAKey)
    BY DEF WriteCACert, WriteCAKey, RemoveUnit, RemoveResolverFile, UntrustCA,
           UntrustBrowserCAs, DeleteCACert, DeleteCAKey, Removing
  <2>6. CASE UNCHANGED <<disk, trust>>
    BY <2>6
  <2> QED BY <2>2, <2>3, <2>4, <2>5, <2>6
       DEF Next, Command, Machine, Start, EnsurePrivilegedPorts, RestartResolved, DecideCA, LoadAgent,
           Stop, StopUnload, Restart, RestartUnload, MaybeRestartDaemon, UninstallUnload,
           UninstallDone, Setup, Boot, GiveUp, DaemonFails, Reboot, Upgrade, OtherServer, Begin, vars
<1>2. SetupInv /\ [Next]_vars => [Trusted => Trusted' \/ run.cmd \in {"uninstall", "reset"}]_vars
  BY <1>1
<1> QED BY <1>2, SetupInvariant, PTL DEF Spec, TrustKept

-----------------------------------------------------------------------------
(* What a restart and a reset have done at each step.                       *)

Restarted ==
  /\ svc.agent # "up" => svc.bin = None
  /\ run.cmd \in {"restart", "auto"} =>
       /\ run.pc \in {"setcap", "unload", "load"} => disk.unit = exe
       /\ run.pc = "load" => svc.bin \in {None, exe}

LEMMA RestartedStep == TypeInv /\ Control /\ Restarted /\ [Next]_vars => Restarted'
<1> SUFFICES ASSUME TypeInv, Control, Restarted, [Next]_vars PROVE Restarted'
  OBVIOUS
<1>0. RunType /\ DiskType /\ SvcType
  BY TypeParts
<1> USE <1>0, GotoIs, FinishIs DEF At, Restarted, DiskType, SvcType, Removing, Installing, Control
<1>1. CASE Start \/ WriteUnit \/ EnsurePrivilegedPorts \/ WriteResolverFile \/ RestartResolved
  BY <1>1 DEF Start, WriteUnit, EnsurePrivilegedPorts, WriteResolverFile, RestartResolved
<1>2. CASE DecideCA \/ WriteCACert \/ WriteCAKey \/ CopyAnchor \/ UpdateBundle \/ TrustBrowserCAs
  BY <1>2 DEF DecideCA, WriteCACert, WriteCAKey, CopyAnchor, UpdateBundle, TrustBrowserCAs
<1>3. CASE LoadAgent \/ Stop \/ Restart \/ MaybeRestartDaemon
  BY <1>3 DEF LoadAgent, Stop, Restart, MaybeRestartDaemon
<1>4. CASE StopUnload \/ RestartUnload
  BY <1>4 DEF StopUnload, RestartUnload, IsAgentLoaded, Stopped
<1>5. CASE UninstallUnload
  BY <1>5 DEF UninstallUnload, Stopped
<1>6. CASE RemoveUnit \/ RemoveResolverFile \/ UntrustCA \/ UntrustBrowserCAs \/ DeleteCACert
             \/ DeleteCAKey \/ UninstallDone \/ Setup
  BY <1>6 DEF RemoveUnit, RemoveResolverFile, UntrustCA, UntrustBrowserCAs, DeleteCACert,
              DeleteCAKey, UninstallDone, Setup
<1>7. CASE Boot
  BY <1>7 DEF Boot, CanBoot
<1>8. CASE GiveUp \/ DaemonFails \/ Reboot \/ Upgrade \/ OtherServer \/ EditResolver
  BY <1>8 DEF GiveUp, DaemonFails, Reboot, Upgrade, OtherServer, EditResolver, Stopped
<1>9. CASE FailStep \/ Kill
  BY <1>9 DEF FailStep, Kill
<1>10. CASE (\E cmd \in Commands : Begin(cmd)) \/ UNCHANGED vars
  BY <1>10 DEF Begin, Commands, vars
<1> QED BY <1>1, <1>2, <1>3, <1>4, <1>5, <1>6, <1>7, <1>8, <1>9, <1>10 DEF Next, Command, Machine

\* After a restart that succeeded, explicit or because of an upgrade, only a daemon of the
\* installed binary can be running (version_check.go:45-55).
THEOREM RestartReplaces == Spec => RestartUpdates
<1> DEFINE Inv == SetupInv /\ Restarted
           Good == Ends({"restart", "auto"}) =>
                     disk'.unit = exe' /\ svc'.agent # "off" /\ svc'.bin \in {None, exe'}
<1>1. Inv /\ [Next]_vars => Good
  <2> SUFFICES ASSUME SetupInv, Restarted, [Next]_vars, Ends({"restart", "auto"})
               PROVE  disk'.unit = exe' /\ svc'.agent # "off" /\ svc'.bin \in {None, exe'}
    OBVIOUS
  <2>0. RunType /\ SvcType /\ Control
    BY TypeParts DEF SetupInv
  <2> USE <2>0, GotoIs, FinishIs DEF At
  <2>1. CASE LoadAgent
    BY <2>1 DEF LoadAgent, Ends, Restarted, SvcType
  <2>2. ~(Stop \/ StopUnload \/ Setup \/ Start \/ UninstallDone)
    BY DEF Stop, StopUnload, Setup, Start, UninstallDone, Ends, Control, Installing, Removing
  <2>3. CASE run'.outcome # "ok"
    BY <2>3 DEF Ends
  <2>4. CASE run'.pc # "idle" \/ UNCHANGED run
    BY <2>4 DEF Ends
  <2> QED BY <2>1, <2>2, <2>3, <2>4
       DEF Next, Command, Machine, WriteUnit, EnsurePrivilegedPorts, WriteResolverFile, RestartResolved,
           DecideCA, WriteCACert, WriteCAKey, CopyAnchor, UpdateBundle, TrustBrowserCAs, Restart,
           RestartUnload, MaybeRestartDaemon, UninstallUnload, RemoveUnit, RemoveResolverFile,
           UntrustCA, UntrustBrowserCAs, DeleteCACert, DeleteCAKey, Boot, GiveUp, DaemonFails,
           Reboot, Upgrade, OtherServer, EditResolver, Begin, FailStep, Kill, vars
<1>2. Inv /\ [Next]_vars => [Good]_vars
  BY <1>1
<1>3. Init => Restarted
  BY DEF Init, Restarted, Stopped
<1>4. SetupInv /\ Restarted /\ [Next]_vars => Restarted'
  BY RestartedStep DEF SetupInv
<1> QED BY <1>2, <1>3, <1>4, SetupInvariant, PTL DEF Spec, RestartUpdates

\* From the file that a step of start writes to the end of the command.
FromCap      == {"resolver", "resolved", "ca", "cert", "key", "trust", "update", "browsers", "load"}
FromUnit     == {"setcap"} \cup FromCap
FromResolver == FromCap \ {"resolver"}
FromTrust    == {"trust", "update", "browsers", "load"}

Reset ==
  run.cmd = "reset" =>
    /\ run.pc # "unload"
    /\ run.pc \in {"un.trust", "un.browsers", "un.cert", "un.key", "un.done", "setup", "start",
                   "unit", "setcap", "resolver"} => disk.resolver = "absent"
    /\ run.pc \in {"un.key", "un.done", "setup", "start", "unit", "setcap", "resolver",
                   "resolved", "ca", "cert"} => disk.cert = None
    /\ run.pc \in FromUnit => disk.unit = exe
    /\ run.pc \in FromCap => capped
    /\ run.pc \in FromResolver => disk.resolver = "ours"
    /\ run.pc \in FromResolver \ {"resolved"} => routed
    /\ run.pc \in {"key"} \cup FromTrust => disk.cert \in CAs
    /\ run.pc \in FromTrust => disk.key = disk.cert
    /\ run.pc \in {"update", "browsers", "load"} => trust.anchor = disk.cert
    /\ run.pc \in {"browsers", "load"} => trust.bundle = disk.cert

\* The steps of the machine outside a command, and the daemon's.
LEMMA ResetKept ==
  ASSUME Reset, UNCHANGED run, run.pc = "idle" \/ UNCHANGED <<exe, capped, disk, routed, trust>>
  PROVE  Reset'
BY DEF Reset, FromUnit, FromCap, FromResolver, FromTrust

LEMMA ResetStep == TypeInv /\ Control /\ Reset /\ [Next]_vars => Reset'
<1> SUFFICES ASSUME TypeInv, Control, Reset, [Next]_vars PROVE Reset'
  OBVIOUS
<1>0. RunType /\ DiskType /\ TrustType /\ SvcType /\ NewCA \in CAs
  BY TypeParts, NewCAType
<1>1. CASE Machine \/ UNCHANGED vars
  BY <1>1, ResetKept
     DEF Machine, Boot, GiveUp, DaemonFails, Reboot, Upgrade, OtherServer, EditResolver, vars, At
<1> USE <1>0, GotoIs, FinishIs
    DEF At, Reset, FromUnit, FromCap, FromResolver, FromTrust, DiskType, TrustType
<1>2. CASE Start
  BY <1>2 DEF Start, IsSetup
<1>3. CASE WriteUnit \/ EnsurePrivilegedPorts
  BY <1>3 DEF WriteUnit, EnsurePrivilegedPorts
<1>4. CASE WriteResolverFile \/ RestartResolved
  BY <1>4 DEF WriteResolverFile, RestartResolved
<1>5. CASE DecideCA
  BY <1>5 DEF DecideCA, IsCAInstalled
<1>6. CASE WriteCACert \/ WriteCAKey
  BY <1>6 DEF WriteCACert, WriteCAKey
<1>7. CASE CopyAnchor \/ UpdateBundle \/ TrustBrowserCAs
  BY <1>7 DEF CopyAnchor, UpdateBundle, TrustBrowserCAs
<1>8. CASE LoadAgent \/ Stop \/ StopUnload \/ Restart \/ RestartUnload \/ MaybeRestartDaemon
  BY <1>8 DEF LoadAgent, Stop, StopUnload, Restart, RestartUnload, MaybeRestartDaemon, Control
<1>9. CASE UninstallUnload \/ RemoveUnit \/ RemoveResolverFile
  BY <1>9 DEF UninstallUnload, RemoveUnit, RemoveResolverFile, IsCAInstalled
<1>10. CASE UntrustCA \/ UntrustBrowserCAs
  BY <1>10 DEF UntrustCA, UntrustBrowserCAs
<1>11. CASE DeleteCACert \/ DeleteCAKey
  BY <1>11 DEF DeleteCACert, DeleteCAKey
<1>12. CASE UninstallDone \/ Setup
  BY <1>12 DEF UninstallDone, Setup, IsSetup, IsCAInstalled
<1>13. CASE FailStep \/ Kill
  BY <1>13 DEF FailStep, Kill
<1>14. CASE \E cmd \in Commands : Begin(cmd)
  BY <1>14 DEF Begin, Commands
<1> QED BY <1>1, <1>2, <1>3, <1>4, <1>5, <1>6, <1>7, <1>8, <1>9, <1>10, <1>11, <1>12, <1>13,
           <1>14 DEF Next, Command

\* Whatever failures, kills, upgrades and edits have left, a setup --reset that says it
\* succeeded leaves a complete installation (setup.go:71-78, system_start.go).
THEOREM ResetCompletes == Spec => ResetRepairs
<1> DEFINE Inv == SetupInv /\ Reset
           Good == Ends({"reset"}) => Installed'
<1>1. Inv /\ [Next]_vars => Good
  <2> SUFFICES ASSUME SetupInv, Reset, [Next]_vars, Ends({"reset"}) PROVE Installed'
    OBVIOUS
  <2>0. RunType /\ SvcType /\ Control
    BY TypeParts DEF SetupInv
  <2> USE <2>0, GotoIs, FinishIs DEF At
  <2>1. CASE LoadAgent
    <3>1. run.pc = "load" /\ UNCHANGED <<exe, capped, disk, routed, trust>>
      BY <2>1 DEF LoadAgent
    <3>2. svc'.enabled /\ svc'.agent # "off"
      BY <2>1 DEF LoadAgent, SvcType
    <3> QED BY <3>1, <3>2
         DEF Ends, Installed, Trusted, Reset, FromUnit, FromCap, FromResolver, FromTrust
  <2>2. CASE Start
    BY <2>2 DEF Start, IsSetup, Reset, Ends
  <2>3. CASE Setup
    BY <2>3 DEF Setup, IsSetup, Reset, Ends
  <2>4. ~(Stop \/ StopUnload \/ Restart \/ MaybeRestartDaemon)
    BY DEF Stop, StopUnload, Restart, MaybeRestartDaemon, Ends, Control
  <2>5. CASE run'.outcome # "ok"
    BY <2>5 DEF Ends
  <2>6. CASE run'.pc # "idle" \/ UNCHANGED run
    BY <2>6 DEF Ends
  <2>7. UninstallDone => run'.pc # "idle"
    BY DEF UninstallDone, Ends
  <2> QED BY <2>1, <2>2, <2>3, <2>4, <2>5, <2>6, <2>7
       DEF Next, Command, Machine, WriteUnit, EnsurePrivilegedPorts, WriteResolverFile, RestartResolved,
           DecideCA, WriteCACert, WriteCAKey, CopyAnchor, UpdateBundle, TrustBrowserCAs,
           RestartUnload, UninstallUnload, RemoveUnit, RemoveResolverFile,
           UntrustCA, UntrustBrowserCAs, DeleteCACert, DeleteCAKey, Boot, GiveUp, DaemonFails,
           Reboot, Upgrade, OtherServer, EditResolver, Begin, FailStep, Kill, vars
<1>2. Inv /\ [Next]_vars => [Good]_vars
  BY <1>1
<1>3. Init => Reset
  BY DEF Init, Reset
<1>4. SetupInv /\ Reset /\ [Next]_vars => Reset'
  BY ResetStep DEF SetupInv
<1> QED BY <1>2, <1>3, <1>4, SetupInvariant, PTL DEF Spec, ResetRepairs

-----------------------------------------------------------------------------
(* doctor.                                                                  *)

\* A report without failures has these checks among those that passed.
LEMMA CleanReport ==
  ~HasFailures => svc.agent = "up" /\ routed /\ (svc.ca # None \/ foreign)
<1> SUFFICES ASSUME ~HasFailures PROVE svc.agent = "up" /\ routed /\ (svc.ca # None \/ foreign)
  OBVIOUS
<1> USE DEF HasFailures, SystemChecks
<1>1. \A name \in DOMAIN LiveChecks : LiveChecks[name]
  OBVIOUS
<1>2. \A name \in DOMAIN PortChecks : PortChecks[name]
  OBVIOUS
<1> HIDE DEF HasFailures, SystemChecks
<1>3. LiveChecks.end_to_end /\ PortChecks.https_proxy
  BY <1>1, <1>2 DEF LiveChecks, PortChecks
<1> QED BY <1>3 DEF LiveChecks, EndToEndDNS, PortChecks

\* A report of doctor without failures means that browsers reach https://*.test through the
\* daemon, if the CA's files and the trust in it are whole and the ports are nobody else's.
THEOREM CleanReportTrue == Spec => []DoctorSound
<1>1. SetupInv => DoctorSound
  BY CleanReport, NoneAssumption
     DEF SetupInv, Daemon, Trusted, DoctorSound, HTTPSWorks
<1> QED BY <1>1, SetupInvariant, PTL
=============================================================================
