----------------------------- MODULE OutportCli -----------------------------
(***************************************************************************)
(* The outport CLI: every invocation is a process that reads the project's *)
(* config and registry.json, works on its own copy of the registry, writes *)
(* .env files, and finally replaces registry.json by its copy (cmd/up.go,  *)
(* down.go, rename.go, promote.go, prune.go over cmd/context.go and        *)
(* cmd/envfiles.go).  Nothing is locked in between, so processes interleave*)
(* at every file access; a process may also end early, because a file      *)
(* could not be written, a prompt was declined or it was killed.           *)
(*                                                                         *)
(* One step of this module is                                              *)
(*    - the start of a command: load the context, compute everything that  *)
(*      depends only on it, and arrive at the first file to write;         *)
(*    - one .env file merged or cleaned;                                   *)
(*    - the save of the registry (its atomicity is module RegistryFile).   *)
(* A command that fails before its first write changes nothing: it is the  *)
(* absence of a step.  Reading the config and then the registry is one     *)
(* step, since no command writes a config.                                 *)
(***************************************************************************)
EXTENDS Allocator, Instance

CONSTANTS
  Procs,            \* concurrent invocations of the CLI
  Configs,          \* the configs a directory may hold
  InitConfigs,      \* the configs the directories may start with
  Edits,            \* how a developer may change a directory: pairs <<from, to>>
  ExtFiles,         \* env files outside every project directory
  HashPort,         \* <<key, service>> -> the port the hash gives
  BusySets,         \* the sets of ports other programs may hold during a command
  Commands,         \* the commands in use ("force" is up --force)
  RenameAnywhere,   \* "rename old new" is used, not only "rename new"
  Faults,           \* processes may be killed and files fail to be written
  MaxCommands,      \* bound: how many commands are started
  NoConfig, Gone,   \* a directory without config; a directory that is deleted
  NoBlock,          \* a file without a managed block
  Idle              \* a process slot with no command running

VARIABLES
  registry,   \* the contents of registry.json
  config,     \* directory -> its config, NoConfig or Gone
  env,        \* env file -> its managed block
  proc,       \* process -> Idle, or the local state of its command
  started     \* the number of commands started so far

vars == <<registry, config, env, proc, started>>

\* The .env of a directory is named by the directory.
EnvFiles == Roots \cup ExtFiles

PrefPorts == UNION {{c.pref[s] : s \in Services} : c \in Configs}
PortValues == {NoPort} \cup AllocPorts \cup PrefPorts

ConfigAt(dir) == config[SameFile[dir]]
MissingDirs   == {d \in Dirs : ConfigAt(d) = Gone}
StaleDirs     == {d \in Dirs : ConfigAt(d) \notin Configs}

Running(p) == proc[p] # Idle
\* Every registry value a process could save or another could read.
Copies == {registry} \cup {proc[p].reg : p \in {q \in Procs : Running(q)}}

ASSUME CliConstants ==
  /\ \A c \in Configs :
       /\ c.project \in Projects
       /\ c.svc \subseteq Services
       /\ c.pref \in [Services -> Nat]
       /\ c.stems \in [Services -> SUBSET Seq(Tokens)]
       /\ c.ext \subseteq ExtFiles
  /\ HashPort \in [Keys \X Services -> AllocPorts]
  /\ InitConfigs \subseteq [Roots -> Configs \cup {NoConfig, Gone}]
  /\ MaxCommands \in Nat

-----------------------------------------------------------------------------
(* What a command writes.  collectEnvFiles gives the directory's own .env  *)
(* and the external files; a write is a pair <<file, block>>.              *)

\* Mutant of FilesOf: an explicit env_file replaces the directory's .env.
FilesOfExplicit(dir, cfg) == IF cfg.ext # {} THEN cfg.ext ELSE {SameFile[dir]}

FilesOf(dir, cfg) == {SameFile[dir]} \cup cfg.ext

\* Mutant of EnvWrites: nothing is cleaned.
EnvWritesMergeOnly(dir, cfg, block) ==
  IF block = NoBlock THEN {} ELSE {<<f, block>> : f \in FilesOf(dir, cfg)}

EnvWrites(dir, cfg, block) == {<<f, block>> : f \in FilesOf(dir, cfg)}

\* ConfirmExternalFiles: the files that still need approval.  A command that is
\* refused ends here, so a step that goes on has all of them approved.
NewlyApproved(cfg, approved) == cfg.ext \ approved

WithApprovals(alloc, approved) == [alloc EXCEPT !.approved = approved]

\* The local state of a command that is about to write its files.
Writing(stage, cmd, dir, cfg, key, reg, writes) ==
  [stage |-> stage, cmd |-> cmd, dir |-> dir, cfg |-> cfg, key |-> key,
   reg |-> reg, writes |-> writes]

Start(p, local) ==
  /\ proc[p] = Idle
  /\ started < MaxCommands
  /\ started' = started + 1
  /\ proc' = [proc EXCEPT ![p] = local]
  /\ UNCHANGED <<registry, config, env>>

-----------------------------------------------------------------------------
(* outport up [--force]                                                    *)

\* Mutant of TakenByOthers: instances of one project do not exclude each other.
TakenByOtherProjects(reg, key) ==
  UNION {PortsOf(reg[k]) : k \in {l \in Registered(reg) : ProjectOf(l) # ProjectOf(key)}}

\* The ports that are taken when up starts to assign: all of the registry but
\* those of the instance itself.
TakenByOthers(reg, key) ==
  UsedPorts(reg) \ (IF reg[key] = NoAlloc THEN {} ELSE PortsOf(reg[key]))

\* Mutant of IsAssignment: a preferred port wins over the port already held.
IsAssignmentPreferred(ports, cfg, key, existing, taken, busy) ==
  \A s \in Services :
    IF s \notin cfg.svc THEN ports[s] = NoPort
    ELSE IF existing # NoAlloc /\ existing.ports[s] # NoPort /\ cfg.pref[s] = 0
    THEN ports[s] = existing.ports[s]
    ELSE IsAllocated(ports[s], HashPort[<<key, s>>], cfg.pref[s],
                     taken \cup {ports[t] : t \in {u \in cfg.svc : u < s}},
                     busy)

\* The ports up assigns, service by service in sorted order.  A port the
\* instance already has is kept, and counts as used from then on.
IsAssignment(ports, cfg, key, existing, taken, busy) ==
  \A s \in Services :
    IF s \notin cfg.svc THEN ports[s] = NoPort
    ELSE IF existing # NoAlloc /\ existing.ports[s] # NoPort
    THEN ports[s] = existing.ports[s]
    ELSE IsAllocated(ports[s], HashPort[<<key, s>>], cfg.pref[s],
                     taken \cup {ports[t] : t \in {u \in cfg.svc : u < s}},
                     busy)

\* The approvals up stores: only those of this run are merged with the earlier
\* ones, and when there are none the freshly built entry has none.
ApprovedByUp(approved, newly) ==
  IF newly = {} THEN {} ELSE approved \cup newly

Up(p, dir, force) ==
  /\ ConfigAt(dir) \in Configs
  /\ LET cfg == ConfigAt(dir) IN
     \E instance \in Resolve(registry, cfg.project, dir), busy \in BusySets :
       LET key      == <<cfg.project, instance>>
           existing == IF force THEN NoAlloc ELSE registry[key]
           approved == IF existing = NoAlloc THEN {} ELSE existing.approved
           newly    == NewlyApproved(cfg, approved)
           taken    == TakenByOthers(registry, key)
       IN \E ports \in [Services -> PortValues] :
            LET alloc == WithApprovals(Build(cfg, instance, dir, ports),
                                       ApprovedByUp(approved, newly))
            IN /\ IsAssignment(ports, cfg, key, existing, taken, busy)
               /\ \A h \in HostsOf(alloc) : ~HostnameTaken(registry, h, key)
               /\ Start(p, Writing("save", IF force THEN "force" ELSE "up", dir, cfg, key,
                                   Set(registry, key, alloc),
                                   EnvWrites(dir, cfg, EnvBlock(cfg, instance, ports))))

-----------------------------------------------------------------------------
(* outport down                                                            *)

Down(p, dir) ==
  /\ ConfigAt(dir) \in Configs
  /\ LET cfg == ConfigAt(dir) IN
     \E instance \in Resolve(registry, cfg.project, dir) :
       LET key == <<cfg.project, instance>> IN
       /\ registry[key] # NoAlloc
       /\ Start(p, Writing("save", "down", dir, cfg, key, Remove(registry, key),
                           EnvWrites(dir, cfg, NoBlock)))

-----------------------------------------------------------------------------
(* outport rename [old] <new>                                              *)

\* Mutant of Rekeyed: only the services of the config keep an entry in ports.
RekeyedDeclared(cfg, instance, alloc) ==
  WithApprovals(Build(cfg, instance, alloc.dir, [s \in cfg.svc |-> alloc.ports[s]]),
                alloc.approved \cup NewlyApproved(cfg, alloc.approved))

\* An entry under another instance name: hostnames are recomputed from the
\* config of the command, directory and ports stay.
Rekeyed(cfg, instance, alloc) ==
  WithApprovals(Build(cfg, instance, alloc.dir, alloc.ports),
                alloc.approved \cup NewlyApproved(cfg, alloc.approved))

\* The env files rewritten are those of the directory the command runs in.
Rename(p, dir, old, new) ==
  /\ ConfigAt(dir) \in Configs
  /\ old # new
  /\ LET cfg    == ConfigAt(dir)
         oldKey == <<cfg.project, old>>
         newKey == <<cfg.project, new>>
     IN /\ old \in (IF RenameAnywhere THEN Instances
                    ELSE Resolve(registry, cfg.project, dir))
        /\ registry[oldKey] # NoAlloc
        /\ registry[newKey] = NoAlloc
        /\ LET alloc == Rekeyed(cfg, new, registry[oldKey]) IN
           Start(p, Writing("save", "rename", dir, cfg, newKey,
                            Set(Remove(registry, oldKey), newKey, alloc),
                            EnvWrites(dir, cfg, EnvBlock(cfg, new, alloc.ports))))

-----------------------------------------------------------------------------
(* outport promote                                                         *)

\* Mutants of Promoted: no env file is rewritten; the old key stays.
PromotedNoEnv(local, key) ==
  LET main == <<local.cfg.project, Main>> IN
  Writing("save", "promote", local.dir, local.cfg, main,
          Set(Remove(local.reg, key), main, Rekeyed(local.cfg, Main, local.reg[key])), {})
PromotedTwice(local, key) ==
  LET main  == <<local.cfg.project, Main>>
      alloc == Rekeyed(local.cfg, Main, local.reg[key])
  IN Writing("save", "promote", local.dir, local.cfg, main, Set(local.reg, main, alloc),
             EnvWrites(local.dir, local.cfg, EnvBlock(local.cfg, Main, alloc.ports)))

\* The second half: the current instance becomes main in the copy, and the env
\* files of the directory the command runs in are to be written.
Promoted(local, key) ==
  LET cfg   == local.cfg
      main  == <<cfg.project, Main>>
      alloc == Rekeyed(cfg, Main, local.reg[key])
  IN Writing("save", "promote", local.dir, cfg, main,
             Set(Remove(local.reg, key), main, alloc),
             EnvWrites(local.dir, cfg, EnvBlock(cfg, Main, alloc.ports)))

\* With no main instance there is nothing to demote.
PromoteOnly(p, dir) ==
  /\ ConfigAt(dir) \in Configs
  /\ LET cfg == ConfigAt(dir) IN
     \E instance \in Resolve(registry, cfg.project, dir) \ {Main} :
       LET key == <<cfg.project, instance>> IN
       /\ registry[key] # NoAlloc
       /\ registry[<<cfg.project, Main>>] = NoAlloc
       /\ Start(p, Promoted([cfg |-> cfg, dir |-> dir, reg |-> registry], key))

\* The first half when there is a main: it gets a code, and the env files of its
\* own directory, which has to exist, are to be written with this config.
PromoteDemote(p, dir) ==
  /\ ConfigAt(dir) \in Configs
  /\ LET cfg  == ConfigAt(dir)
         main == <<cfg.project, Main>>
     IN \E instance \in Resolve(registry, cfg.project, dir) \ {Main},
           code \in GenerateCode({InstanceOf(k) : k \in FindByProject(registry, cfg.project)}) :
          LET key     == <<cfg.project, instance>>
              demoted == <<cfg.project, code>>
              old     == registry[main]
          IN /\ registry[key] # NoAlloc
             /\ old # NoAlloc
             /\ ConfigAt(old.dir) # Gone
             /\ LET alloc == Rekeyed(cfg, code, old) IN
                Start(p, Writing("promote", "promote", dir, cfg, key,
                                 Set(Remove(registry, main), demoted, alloc),
                                 EnvWrites(old.dir, cfg, EnvBlock(cfg, code, alloc.ports))))

\* The demoted instance's files are written; go on with the current one.
PromoteRest(p) ==
  /\ Running(p)
  /\ proc[p].stage = "promote"
  /\ proc[p].writes = {}
  /\ ConfigAt(proc[p].dir) # Gone
  /\ proc' = [proc EXCEPT ![p] = Promoted(proc[p], proc[p].key)]
  /\ UNCHANGED <<registry, config, env, started>>

\* The prompt for the current instance's external files is declined, or its
\* directory has disappeared, after the demoted instance's files were written:
\* the command ends without saving.
PromoteDenied(p) ==
  /\ Running(p)
  /\ proc[p].stage = "promote"
  /\ proc[p].writes = {}
  /\ \/ NewlyApproved(proc[p].cfg, proc[p].reg[proc[p].key].approved) # {}
     \/ ConfigAt(proc[p].dir) = Gone
  /\ proc' = [proc EXCEPT ![p] = Idle]
  /\ UNCHANGED <<registry, config, env, started>>

-----------------------------------------------------------------------------
(* outport system prune                                                    *)

Prune(p) ==
  \E pruned \in PruneDuplicateDirs(RemoveStale(registry, StaleDirs), MissingDirs) :
    /\ pruned # registry
    /\ Start(p, [stage |-> "save", cmd |-> "prune", reg |-> pruned, writes |-> {}])

-----------------------------------------------------------------------------
(* The file accesses, and what may go wrong with them.                     *)

\* The directory of an env file is there; external ones always are.
CanWrite(f) == f \in Roots => config[f] # Gone

\* dotenv.Merge or dotenv.RemoveBlock on one file.
WriteEnv(p) ==
  /\ Running(p)
  /\ \E w \in proc[p].writes :
       /\ CanWrite(w[1])
       /\ env' = [env EXCEPT ![w[1]] = w[2]]
       /\ proc' = [proc EXCEPT ![p].writes = @ \ {w}]
  /\ UNCHANGED <<registry, config, started>>

\* Cleaning a file is best effort: down goes on when RemoveBlock fails, and a
\* file that is not there needs no cleaning.
CleanSkipped(p) ==
  /\ Running(p)
  /\ proc[p].cmd = "down"
  /\ \E w \in proc[p].writes :
       /\ Faults \/ ~CanWrite(w[1])
       /\ proc' = [proc EXCEPT ![p].writes = @ \ {w}]
  /\ UNCHANGED <<registry, config, env, started>>

\* Merging into a directory that is gone fails, and the command with it.
MergeFails(p) ==
  /\ Running(p)
  /\ proc[p].cmd # "down"
  /\ \E w \in proc[p].writes : ~CanWrite(w[1])
  /\ proc' = [proc EXCEPT ![p] = Idle]
  /\ UNCHANGED <<registry, config, env, started>>

Save(p) ==
  /\ Running(p)
  /\ proc[p].stage = "save"
  /\ proc[p].writes = {}
  /\ registry' = proc[p].reg
  /\ proc' = [proc EXCEPT ![p] = Idle]
  /\ UNCHANGED <<config, env, started>>

\* A merge or the save fails on I/O, or the process is killed.
Abort(p) ==
  /\ Faults
  /\ Running(p)
  /\ proc' = [proc EXCEPT ![p] = Idle]
  /\ UNCHANGED <<registry, config, env, started>>

\* The developer edits, adds or removes a config, or deletes the directory.
EditConfig(root) ==
  \E to \in Configs \cup {NoConfig, Gone} :
    /\ <<config[root], to>> \in Edits
    /\ config' = [config EXCEPT ![root] = to]
    /\ env' = [env EXCEPT ![root] = IF to = Gone THEN NoBlock ELSE @]
    /\ UNCHANGED <<registry, proc, started>>

-----------------------------------------------------------------------------
Init ==
  /\ registry = EmptyRegistry
  /\ config \in InitConfigs
  /\ env = [f \in EnvFiles |-> NoBlock]
  /\ proc = [p \in Procs |-> Idle]
  /\ started = 0

Invoke(p) ==
  \/ "up" \in Commands /\ \E d \in Dirs : Up(p, d, FALSE)
  \/ "force" \in Commands /\ \E d \in Dirs : Up(p, d, TRUE)
  \/ "down" \in Commands /\ \E d \in Dirs : Down(p, d)
  \/ "rename" \in Commands /\ \E d \in Dirs, old, new \in Instances : Rename(p, d, old, new)
  \/ "promote" \in Commands /\ \E d \in Dirs : PromoteOnly(p, d) \/ PromoteDemote(p, d)
  \/ "prune" \in Commands /\ Prune(p)

Proceed(p) ==
  \/ PromoteRest(p) \/ PromoteDenied(p)
  \/ WriteEnv(p) \/ CleanSkipped(p) \/ MergeFails(p)
  \/ Save(p) \/ Abort(p)

Next ==
  \/ \E p \in Procs : Invoke(p) \/ Proceed(p)
  \/ \E r \in Roots : EditConfig(r)

Spec == Init /\ [][Next]_vars

-----------------------------------------------------------------------------
(* Types.                                                                  *)

Allocations ==
  [dir : Dirs, ports : [Services -> PortValues],
   hosts : [Services -> SUBSET Seq(Tokens)], approved : SUBSET ExtFiles]
Blocks ==
  [project : Projects, instance : Instances, ports : [Services -> PortValues]]
Registries == [Keys -> Allocations \cup {NoAlloc}]
Writes     == SUBSET (EnvFiles \X (Blocks \cup {NoBlock}))
Locals ==
  [stage : {"promote", "save"}, cmd : {"up", "force", "down", "rename", "promote"},
   dir : Dirs, cfg : Configs, key : Keys, reg : Registries, writes : Writes]
  \cup [stage : {"save"}, cmd : {"prune"}, reg : Registries, writes : Writes]

ASSUME Sentinels ==
  NoAlloc \notin Allocations /\ Idle \notin Locals /\ {NoConfig, Gone} \cap Configs = {}

\* Every variable holds what its description says: in particular every copy of
\* the registry a command works on is itself a registry, and every pending write
\* names an env file and a block.
TypeOK ==
  /\ registry \in Registries
  /\ config \in [Roots -> Configs \cup {NoConfig, Gone}]
  /\ env \in [EnvFiles -> Blocks \cup {NoBlock}]
  /\ proc \in [Procs -> Locals \cup {Idle}]
  /\ started \in 0 .. MaxCommands

EntriesOf(reg, root) == {k \in Registered(reg) : SameFile[reg[k].dir] = root}

-----------------------------------------------------------------------------
(* What holds of every registry value, whatever the interleaving: of the   *)
(* file on disk and of every copy a process may save.                      *)

\* No two instances own the same port: up takes no port another entry of its
\* copy has, rename and promote only move ports, and a save replaces the file
\* by a copy of which the same is true, however stale that copy is.
PortsDisjoint ==
  \A reg \in Copies : \A k, l \in Registered(reg) :
    k # l => PortsOf(reg[k]) \cap PortsOf(reg[l]) = {}

\* The port of the daemon's DNS server is never given to a service, not even
\* as a preferred port, nor kept from an earlier allocation.
ReservedNeverGiven ==
  \A reg \in Copies : \A k \in Registered(reg) :
    PortsOf(reg[k]) \cap ReservedPorts = {}

\* A directory has one identity: however its path is spelled, and whichever
\* command ran where, at most one entry denotes it.  Claimed as long as the
\* name in its config does not change.
OneEntryPerDirectory ==
  \A reg \in Copies : \A k, l \in Registered(reg) :
    SameFile[reg[k].dir] = SameFile[reg[l].dir] => k = l

-----------------------------------------------------------------------------
(* What holds across a save, when commands run one at a time.              *)

\* p saves, having run one of the commands cmds.
Saves(p, cmds) == Running(p) /\ proc[p].cmd \in cmds /\ Save(p)

\* Pairs of instances that claim a .test name in common.
Clashes(reg) ==
  {kl \in Registered(reg) \X Registered(reg) :
     kl[1] # kl[2] /\ HostsOf(reg[kl[1]]) \cap HostsOf(reg[kl[2]]) # {}}

\* rename and promote compute new .test names without asking who has them; no other command
\* makes two instances claim one name that did not before, not even an up of an instance that
\* another has taken a name from (up.go:113-126).
NoNewClash ==
  [][\A p \in Procs : Saves(p, {"up", "force", "down", "prune"}) =>
       Clashes(registry') \subseteq Clashes(registry)]_vars

Holdings(reg) == {<<reg[k].dir, reg[k].ports>> : k \in Registered(reg)}

\* rename and promote only give instances other names: no directory loses its
\* ports or its entry, not even the one that is demoted to a generated code.
MovesKeepAllocations ==
  [][\A p \in Procs : Saves(p, {"rename", "promote"}) =>
       /\ Holdings(registry') = Holdings(registry)
       /\ Cardinality(Registered(registry')) = Cardinality(Registered(registry))]_vars

\* up without --force keeps every port the instance has for a service that is
\* still declared, whatever was added to or removed from the config.
UpKeepsPorts ==
  [][\A p \in Procs : Saves(p, {"up"}) =>
       LET old == registry[proc[p].key]
           new == registry'[proc[p].key]
       IN old # NoAlloc => \A s \in proc[p].cfg.svc :
            old.ports[s] # NoPort => new.ports[s] = old.ports[s]]_vars

\* However the previous commands ended, a successful up leaves its directory
\* with a .env that agrees with the entry it saves, so that up repairs what a
\* killed command left behind.
UpRepairs ==
  [][\A p \in Procs : Saves(p, {"up", "force"}) /\ ConfigAt(proc[p].dir) # Gone =>
       LET key == proc[p].key IN
       env[SameFile[proc[p].dir]] =
         [project |-> ProjectOf(key), instance |-> InstanceOf(key),
          ports |-> registry'[key].ports]]_vars

\* up registers the directory it runs in and no other: an entry that exists is
\* never turned into an entry of another directory.
UpKeepsDirectories ==
  [][\A p \in Procs : Saves(p, {"up", "force"}) =>
       \A k \in Registered(registry) :
         /\ registry'[k] # NoAlloc
         /\ SameFile[registry'[k].dir] = SameFile[registry[k].dir]]_vars

\* prune leaves every directory with exactly one of the entries it has gathered
\* under different project names, as long as its config is still there: it drops
\* neither both of them nor an entry of a directory that is in use.
PruneLeavesOneEach ==
  [][\A p \in Procs : Saves(p, {"prune"}) => \A r \in Roots :
       /\ Cardinality(EntriesOf(registry', r)) <= 1
       /\ config[r] \in Configs /\ EntriesOf(registry, r) # {} =>
            EntriesOf(registry', r) # {}]_vars
=============================================================================
