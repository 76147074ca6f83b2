----------------------------- MODULE EnvHistory ------------------------------
(***************************************************************************)
(* OutportCli with a history of its env files: which of them a running     *)
(* command has written, and which are unsettled, that is, which may be out *)
(* of step with registry.json because of something the code does not make  *)
(* good before the next command writes them:                               *)
(*    - a command wrote them and ended without saving, or down could not   *)
(*      clean them;                                                        *)
(*    - the developer took them out of the config, or the config or the    *)
(*      directory away;                                                    *)
(*    - rename was given an instance of another directory: it writes the   *)
(*      files of the directory it runs in (rename.go:72-84);               *)
(*    - promote writes the external files of its own config only           *)
(*      (promote.go:64-69, 92-97);                                         *)
(*    - rename or promote wrote them with a config that declares other     *)
(*      services than the entry has ports for: the block lacks some of     *)
(*      them, or has a port 0 (envfiles.go:126-133).  promote does that to *)
(*      the demoted checkout when it is on another branch.                 *)
(* Every other file is settled, and of settled files the properties speak. *)
(***************************************************************************)
EXTENDS OutportCli

VARIABLES
  written,     \* the env files the running command has written
  unsettled    \* the env files that may be out of step

history == <<written, unsettled>>
hvars   == <<vars, history>>

ASSUME FilesApart == ExtFiles \cap Roots = {}

\* The env files of a directory under the configs conf: none without a config.
Listed(conf, root) == IF conf[root] \in Configs THEN {root} \cup conf[root].ext ELSE {}

\* The instance that is renamed is that of another directory.
Astray(local) ==
  /\ local.cmd = "rename"
  /\ SameFile[local.reg[local.key].dir] # SameFile[local.dir]

\* The files that name an instance that may be moved, and that are not written: with the
\* blocks e, those external ones that the config does not list.
Unreached(local, e) ==
  LET named == {f \in ExtFiles : e[f] # NoBlock /\ e[f].project = local.cfg.project}
  IN IF Astray(local) THEN {SameFile[local.reg[local.key].dir]} \cup named
     ELSE IF local.cmd = "promote" THEN named \ local.cfg.ext ELSE {}

\* The services of an entry are those of the config its .env is written with.
Fits(local, k) ==
  local.cmd \in {"rename", "promote"} =>
    {s \in Services : local.reg[k].ports[s] # NoPort} = local.cfg.svc

\* A file that was written is in step after the save, if its directory still lists it.
InStep(local, f) ==
  /\ ~Astray(local)
  /\ f \in Listed(config, IF f \in Roots THEN f ELSE SameFile[local.dir])
  /\ \A k \in EntriesOf(local.reg, f) : Fits(local, k)

\* The file that is written or skipped in a step of p.
Handled(p) == {w[1] : w \in proc[p].writes \ proc'[p].writes}

\* The files that are no longer those of a directory.
Dropped(root) ==
  (Listed(config, root) \ Listed(config', root))
    \cup (IF config'[root] \in Configs THEN {} ELSE {root})

-----------------------------------------------------------------------------
HInvoke(p) == Invoke(p) /\ written' = {} /\ UNCHANGED unsettled

HPromoteRest(p) == PromoteRest(p) /\ UNCHANGED history

HWriteEnv(p) ==
  WriteEnv(p) /\ written' = written \cup Handled(p) /\ UNCHANGED unsettled

HCleanSkipped(p) ==
  /\ CleanSkipped(p)
  /\ written' = written \ Handled(p)
  /\ unsettled' = unsettled \cup Handled(p)

\* The command ends without saving.
HGivesUp(p) ==
  /\ PromoteDenied(p) \/ MergeFails(p) \/ Abort(p)
  /\ written' = {}
  /\ unsettled' = unsettled \cup written

HSave(p) ==
  /\ Save(p)
  /\ written' = {}
  /\ LET wrong == {f \in written : ~InStep(proc[p], f)}
     IN unsettled' = (unsettled \ written) \cup wrong \cup Unreached(proc[p], env)

HEditConfig(root) ==
  /\ EditConfig(root)
  /\ written' = written \ Dropped(root)
  /\ unsettled' = unsettled \cup Dropped(root)

HInit == Init /\ written = {} /\ unsettled = {}

HProceed(p) ==
  HPromoteRest(p) \/ HWriteEnv(p) \/ HCleanSkipped(p) \/ HGivesUp(p) \/ HSave(p)

HNext ==
  \/ \E p \in Procs : HInvoke(p) \/ HProceed(p)
  \/ \E r \in Roots : HEditConfig(r)

HSpec == HInit /\ [][HNext]_hvars

-----------------------------------------------------------------------------
Quiescent == \A p \in Procs : ~Running(p)

\* Whenever no command is running, the .env of every registered directory holds
\* exactly the ports and the instance its entry has, unless it is unsettled:
\* whatever up, down, rename, promote and prune did in whichever checkout, with
\* whatever configs, and whichever of them were refused or killed, each that saves
\* has rewritten the .env of every directory whose entry it changes.
EnvMatchesRegistry ==
  Quiescent => \A k \in Registered(registry) :
    LET alloc == registry[k] IN
    SameFile[alloc.dir] \notin unsettled =>
      env[SameFile[alloc.dir]] =
        [project |-> ProjectOf(k), instance |-> InstanceOf(k), ports |-> alloc.ports]

\* Whenever no command is running, a managed block in a settled env file, also in
\* an external one that several checkouts write, belongs to an instance that is
\* registered: no command that saves leaves a block of an instance it removes or
\* gives another name.
NoOrphanBlocks ==
  Quiescent => \A f \in EnvFiles \ unsettled : env[f] # NoBlock =>
    registry[<<env[f].project, env[f].instance>>] # NoAlloc
=============================================================================
