-------------------------- MODULE OutportCliProofs --------------------------
(***************************************************************************)
(* Proofs about OutportCli and EnvHistory, for any number of processes,    *)
(* projects, directories and ports, and any interleaving of their commands:*)
(*    TypeCorrect             every value has its type                     *)
(*    PortsNeverShared        no two entries of a registry share a port    *)
(*    ReservedNeverAllocated  no entry holds a reserved port               *)
(*    OneEntryEach            a directory is registered once               *)
(* and, for commands that run one at a time,                               *)
(*    UpTakesNoPortAway, UpTakesNoDirectory, MovesLoseNothing,             *)
(*    NamesNotTaken, PruneSparesOne                                        *)
(*                            what a command leaves to the others          *)
(*    UpLeavesItRight         what up makes of the registry                *)
(*    EnvAgrees, NoBlockOrphaned                                           *)
(*                            env files and registry fit together, as far  *)
(*                            as EnvHistory calls the files settled        *)
(***************************************************************************)
EXTENDS EnvHistory, SequenceTheorems, FiniteSetTheorems, TLAPS

USE DEF NoPort

-----------------------------------------------------------------------------
(* The operators of the lower modules produce what they should.            *)

LEMMA StemType ==
  ASSUME NEW stem \in Seq(Tokens), NEW project \in Projects, NEW instance \in Instances
  PROVE  InstanceStem(stem, project, instance) \in Seq(Tokens)
<1> DEFINE last == LastOccurrence(project, stem)
           cut  == (CHOOSE i \in last : TRUE) + Len(project)
<1>1. CASE instance = Main \/ last = {}
  BY <1>1 DEF InstanceStem
<1>2. CASE ~(instance = Main \/ last = {})
  <2>1. project \in Seq(Tokens) /\ instance \in Tokens /\ "-" \in Tokens
    BY NamesAreTokens
  <2>2. Len(project) \in Nat /\ Len(stem) \in Nat
    BY <2>1, LenProperties
  <2>3. (CHOOSE i \in last : TRUE) \in 0 .. Len(stem) - Len(project)
    BY <1>2 DEF LastOccurrence, OccurrencesOf
  <2>4. cut \in 0 .. Len(stem)
    BY <2>2, <2>3
  <2> HIDE DEF cut
  <2>5. \A i \in 1 .. Len(stem) : stem[i] \in Tokens
    BY ElementOfSeq
  <2>6. SubSeq(stem, 1, cut) \in Seq(Tokens)
    BY <2>2, <2>4, <2>5, SubSeqProperties
  <2>7. SubSeq(stem, cut + 1, Len(stem)) \in Seq(Tokens)
    BY <2>2, <2>4, <2>5, SubSeqProperties
  <2>8. <<"-", instance>> \in Seq(Tokens)
    BY <2>1
  <2>9. SubSeq(stem, 1, cut) \o <<"-", instance>> \o SubSeq(stem, cut + 1, Len(stem))
          \in Seq(Tokens)
    BY <2>6, <2>7, <2>8, ConcatProperties
  <2> QED BY <1>2, <2>9 DEF InstanceStem, cut
<1> QED BY <1>1, <1>2

LEMMA BuildType ==
  ASSUME NEW cfg \in Configs, NEW instance \in Instances, NEW dir \in Dirs,
         NEW ports \in [Services -> PortValues], NEW approved \in SUBSET ExtFiles
  PROVE  /\ WithApprovals(Build(cfg, instance, dir, ports), approved) \in Allocations
         /\ WithApprovals(Build(cfg, instance, dir, ports), approved).ports = ports
<1>1. ComputeHosts(cfg, instance) \in [Services -> SUBSET Seq(Tokens)]
  <2>1. cfg.project \in Projects /\ cfg.stems \in [Services -> SUBSET Seq(Tokens)]
    BY CliConstants
  <2>2. ASSUME NEW s \in Services, NEW h \in cfg.stems[s]
        PROVE  InstanceStem(h, cfg.project, instance) \in Seq(Tokens)
    BY <2>1, StemType
  <2> QED BY <2>2 DEF ComputeHosts
<1> QED BY <1>1 DEF Build, WithApprovals, Allocations

LEMMA RekeyedType ==
  ASSUME NEW cfg \in Configs, NEW instance \in Instances, NEW alloc \in Allocations
  PROVE  /\ Rekeyed(cfg, instance, alloc) \in Allocations
         /\ Rekeyed(cfg, instance, alloc).ports = alloc.ports
<1>1. alloc.dir \in Dirs /\ alloc.ports \in [Services -> PortValues]
      /\ alloc.approved \in SUBSET ExtFiles
  BY DEF Allocations
<1>2. alloc.approved \cup NewlyApproved(cfg, alloc.approved) \in SUBSET ExtFiles
  BY <1>1, CliConstants DEF NewlyApproved
<1> QED BY <1>1, <1>2, BuildType DEF Rekeyed

LEMMA BlockType ==
  ASSUME NEW cfg \in Configs, NEW instance \in Instances,
         NEW ports \in [Services -> PortValues]
  PROVE  EnvBlock(cfg, instance, ports) \in Blocks
BY CliConstants DEF EnvBlock, Blocks, PortValues

LEMMA WritesType ==
  ASSUME NEW cfg \in Configs, NEW dir \in Dirs, NEW block \in Blocks \cup {NoBlock}
  PROVE  EnvWrites(dir, cfg, block) \in Writes
BY CliConstants DEF EnvWrites, FilesOf, EnvFiles, Roots, Writes

LEMMA SetType ==
  ASSUME NEW reg \in Registries, NEW key \in Keys, NEW alloc \in Allocations
  PROVE  Set(reg, key, alloc) \in Registries
BY DEF Registries, Set

LEMMA RemoveType ==
  ASSUME NEW reg \in Registries, NEW key \in Keys
  PROVE  Remove(reg, key) \in Registries
BY DEF Registries, Remove

LEMMA ResolveType ==
  ASSUME NEW reg, NEW project, NEW dir, NEW instance \in Resolve(reg, project, dir)
  PROVE  instance \in Instances
BY RegistryConstants
   DEF Resolve, FindByDir, GenerateCode, Registered, Keys, InstanceOf

-----------------------------------------------------------------------------
(* Type correctness.  The type invariant is not inductive by itself: the   *)
(* second half of promote uses the entry of the current instance in the    *)
(* copy made by the first half, so that entry has to be there; and the     *)
(* place of main, which it is moved to, has been vacated.                  *)

Halfway(local) ==
  /\ local.cmd = "promote"
  /\ ProjectOf(local.key) = local.cfg.project
  /\ local.reg[local.key] # NoAlloc
  /\ local.reg[<<local.cfg.project, Main>>] = NoAlloc

PromotePending ==
  \A p \in Procs : Running(p) /\ proc[p].stage = "promote" => Halfway(proc[p])

TypeInv == TypeOK /\ PromotePending

\* What a command has to bring along when it starts.
Fit(local) ==
  /\ local \in Locals
  /\ local.stage = "promote" => Halfway(local)

LEMMA InitTypes == Init => TypeInv
<1> SUFFICES ASSUME Init PROVE TypeInv
  OBVIOUS
<1>1. registry \in Registries
  BY DEF Init, EmptyRegistry, Registries
<1>2. config \in [Roots -> Configs \cup {NoConfig, Gone}]
  BY CliConstants DEF Init
<1> QED BY <1>1, <1>2, CliConstants
        DEF Init, TypeInv, TypeOK, PromotePending, Running

\* Replacing one process's state keeps the types when the new state is fit.
LEMMA ProcTypes ==
  ASSUME TypeInv, NEW p \in Procs, NEW local,
         local = Idle \/ Fit(local),
         proc' = [proc EXCEPT ![p] = local],
         registry' \in Registries,
         config' \in [Roots -> Configs \cup {NoConfig, Gone}],
         env' \in [EnvFiles -> Blocks \cup {NoBlock}],
         started' \in 0 .. MaxCommands
  PROVE  TypeInv'
<1>1. DOMAIN proc' = Procs
  BY DEF TypeInv, TypeOK
<1>2. \A q \in Procs : proc'[q] = IF q = p THEN local ELSE proc[q]
  BY DEF TypeInv, TypeOK
<1>3. \A q \in Procs : proc[q] # Idle => Fit(proc[q])
  BY DEF TypeInv, TypeOK, PromotePending, Running, Fit
<1>4. \A q \in Procs : proc'[q] # Idle => Fit(proc'[q])
  BY <1>2, <1>3
<1>5. TypeOK'
  BY <1>1, <1>4 DEF TypeOK, Running, Fit, Registries
<1>6. PromotePending'
  BY <1>4 DEF PromotePending, Running, Fit
<1> QED BY <1>5, <1>6 DEF TypeInv

LEMMA StartTypes ==
  ASSUME TypeInv, NEW p \in Procs, NEW local, Fit(local), Start(p, local)
  PROVE  TypeInv'
<1>1. started' \in 0 .. MaxCommands
  BY CliConstants DEF Start, TypeInv, TypeOK
<1> QED BY <1>1, ProcTypes DEF Start, TypeInv, TypeOK

LEMMA WritingFit ==
  ASSUME NEW stage \in {"promote", "save"},
         NEW cmd \in {"up", "force", "down", "rename", "promote"}, NEW dir \in Dirs, NEW cfg \in Configs,
         NEW key \in Keys, NEW reg \in Registries,
         NEW writes \in Writes,
         stage = "promote" => /\ cmd = "promote" /\ ProjectOf(key) = cfg.project
                              /\ reg[key] # NoAlloc
                              /\ reg[<<cfg.project, Main>>] = NoAlloc
  PROVE  Fit(Writing(stage, cmd, dir, cfg, key, reg, writes))
BY DEF Fit, Halfway, Writing, Locals

LEMMA UpTypes ==
  ASSUME TypeInv, NEW p \in Procs, NEW dir \in Dirs, NEW force \in BOOLEAN,
         Up(p, dir, force)
  PROVE  TypeInv'
<1> DEFINE cfg           == ConfigAt(dir)
           key(instance) == <<cfg.project, instance>>
           existing(instance) == IF force THEN NoAlloc ELSE registry[key(instance)]
           before(instance) ==
             IF existing(instance) = NoAlloc THEN {} ELSE existing(instance).approved
           approved(instance) ==
             ApprovedByUp(before(instance), NewlyApproved(cfg, before(instance)))
<1>1. PICK instance \in Resolve(registry, cfg.project, dir),
           ports \in [Services -> PortValues] :
        Start(p, Writing("save", IF force THEN "force" ELSE "up", dir, cfg, key(instance),
                         Set(registry, key(instance),
                             WithApprovals(Build(cfg, instance, dir, ports),
                                           approved(instance))),
                         EnvWrites(dir, cfg, EnvBlock(cfg, instance, ports))))
  BY DEF Up
<1>2. /\ cfg \in Configs
      /\ instance \in Instances
      /\ key(instance) \in Keys
      /\ registry \in Registries
  BY ResolveType, CliConstants DEF Up, TypeInv, TypeOK, Keys
<1>3. approved(instance) \in SUBSET ExtFiles
  <2>1. before(instance) \in SUBSET ExtFiles
    BY <1>2 DEF Registries, Allocations
  <2> QED BY <1>2, <2>1, CliConstants DEF ApprovedByUp, NewlyApproved
<1> HIDE DEF approved, key
<1> DEFINE alloc == WithApprovals(Build(cfg, instance, dir, ports), approved(instance))
<1>4. Set(registry, key(instance), alloc) \in Registries
  BY <1>2, <1>3, BuildType, SetType
<1>5. EnvWrites(dir, cfg, EnvBlock(cfg, instance, ports))
        \in Writes
  BY <1>2, BlockType, WritesType
<1> QED BY <1>1, <1>2, <1>4, <1>5, WritingFit, StartTypes

LEMMA DownTypes ==
  ASSUME TypeInv, NEW p \in Procs, NEW dir \in Dirs, Down(p, dir)
  PROVE  TypeInv'
<1> DEFINE cfg == ConfigAt(dir)
           key(instance) == <<cfg.project, instance>>
<1>1. PICK instance \in Resolve(registry, cfg.project, dir) :
        Start(p, Writing("save", "down", dir, cfg, key(instance),
                         Remove(registry, key(instance)), EnvWrites(dir, cfg, NoBlock)))
  BY DEF Down
<1>2. /\ cfg \in Configs
      /\ key(instance) \in Keys
      /\ registry \in Registries
  BY ResolveType, CliConstants DEF Down, TypeInv, TypeOK, Keys
<1> HIDE DEF key
<1>3. Remove(registry, key(instance)) \in Registries
  BY <1>2, RemoveType
<1>4. EnvWrites(dir, cfg, NoBlock) \in Writes
  BY <1>2, WritesType
<1> QED BY <1>1, <1>2, <1>3, <1>4, WritingFit, StartTypes

\* What rename and both halves of promote have in common: an entry is moved to
\* another key and the files of a directory are to be written.
LEMMA MoveFit ==
  ASSUME NEW stage \in {"promote", "save"},
         NEW cmd \in {"up", "force", "down", "rename", "promote"}, NEW dir \in Dirs, NEW at \in Dirs,
         NEW cfg \in Configs, NEW reg \in Registries,
         NEW from \in Keys, reg[from] # NoAlloc,
         NEW instance \in Instances, NEW key \in Keys,
         stage = "promote" =>
           /\ cmd = "promote" /\ ProjectOf(key) = cfg.project /\ reg[key] # NoAlloc
           /\ from = <<cfg.project, Main>> /\ instance # Main
           /\ key # from /\ key # <<cfg.project, instance>>
  PROVE  LET alloc == Rekeyed(cfg, instance, reg[from])
         IN Fit(Writing(stage, cmd, dir, cfg, key,
                        Set(Remove(reg, from), <<cfg.project, instance>>, alloc),
                        EnvWrites(at, cfg, EnvBlock(cfg, instance, alloc.ports))))
<1> DEFINE to    == <<cfg.project, instance>>
           alloc == Rekeyed(cfg, instance, reg[from])
           moved == Set(Remove(reg, from), to, alloc)
<1>1. to \in Keys
  BY CliConstants DEF Keys
<1>2. reg[from] \in Allocations
  BY DEF Registries
<1>3. alloc \in Allocations /\ alloc.ports \in [Services -> PortValues]
  BY <1>2, RekeyedType DEF Allocations
<1> HIDE DEF to, alloc
<1>4. moved \in Registries
  BY <1>1, <1>3, RemoveType, SetType
<1>5. EnvWrites(at, cfg, EnvBlock(cfg, instance, alloc.ports))
        \in Writes
  BY <1>3, BlockType, WritesType
<1>6. stage = "promote" => moved[key] # NoAlloc /\ moved[<<cfg.project, Main>>] = NoAlloc
  BY <1>1 DEF Registries, Set, Remove, to
<1> HIDE DEF moved
<1>7. Fit(Writing(stage, cmd, dir, cfg, key, moved,
                  EnvWrites(at, cfg, EnvBlock(cfg, instance, alloc.ports))))
  BY <1>4, <1>5, <1>6, WritingFit
<1> QED BY <1>7 DEF moved, to, alloc

LEMMA RenameTypes ==
  ASSUME TypeInv, NEW p \in Procs, NEW dir \in Dirs,
         NEW old \in Instances, NEW new \in Instances, Rename(p, dir, old, new)
  PROVE  TypeInv'
<1> DEFINE cfg   == ConfigAt(dir)
           from  == <<cfg.project, old>>
           to    == <<cfg.project, new>>
           alloc == Rekeyed(cfg, new, registry[from])
           local == Writing("save", "rename", dir, cfg, to, Set(Remove(registry, from), to, alloc),
                            EnvWrites(dir, cfg, EnvBlock(cfg, new, alloc.ports)))
<1>1. /\ cfg \in Configs
      /\ from \in Keys /\ to \in Keys
      /\ registry[from] # NoAlloc
      /\ registry \in Registries
  BY CliConstants DEF Rename, TypeInv, TypeOK, Keys
<1>2. Fit(local)
  BY <1>1, MoveFit
<1>3. Start(p, local)
  BY DEF Rename
<1> QED BY <1>2, <1>3, StartTypes

\* Promoted is fit whenever the entry it moves is there.
LEMMA PromotedFit ==
  ASSUME NEW local, NEW key \in Keys, local.cfg \in Configs, local.dir \in Dirs,
         local.reg \in Registries, local.reg[key] # NoAlloc
  PROVE  Fit(Promoted(local, key))
<1>1. Main \in Instances /\ <<local.cfg.project, Main>> \in Keys
  BY RegistryConstants, CliConstants DEF Keys
<1> QED BY <1>1, MoveFit DEF Promoted

LEMMA PromoteOnlyTypes ==
  ASSUME TypeInv, NEW p \in Procs, NEW dir \in Dirs, PromoteOnly(p, dir)
  PROVE  TypeInv'
<1> DEFINE cfg == ConfigAt(dir)
           local == [cfg |-> cfg, dir |-> dir, reg |-> registry]
<1>1. PICK instance \in Resolve(registry, cfg.project, dir) :
        /\ registry[<<cfg.project, instance>>] # NoAlloc
        /\ Start(p, Promoted(local, <<cfg.project, instance>>))
  BY DEF PromoteOnly
<1>2. /\ cfg \in Configs
      /\ <<cfg.project, instance>> \in Keys
      /\ registry \in Registries
  BY ResolveType, CliConstants DEF PromoteOnly, TypeInv, TypeOK, Keys
<1>3. Fit(Promoted(local, <<cfg.project, instance>>))
  BY <1>1, <1>2, PromotedFit
<1> QED BY <1>1, <1>3, StartTypes

LEMMA PromoteDemoteTypes ==
  ASSUME TypeInv, NEW p \in Procs, NEW dir \in Dirs, PromoteDemote(p, dir)
  PROVE  TypeInv'
<1> DEFINE cfg  == ConfigAt(dir)
           main == <<cfg.project, Main>>
           old  == registry[main]
           used == {InstanceOf(k) : k \in FindByProject(registry, cfg.project)}
           alloc(code) == Rekeyed(cfg, code, old)
           local(instance, code) ==
             Writing("promote", "promote", dir, cfg, <<cfg.project, instance>>,
                     Set(Remove(registry, main), <<cfg.project, code>>, alloc(code)),
                     EnvWrites(old.dir, cfg, EnvBlock(cfg, code, alloc(code).ports)))
<1>1. PICK instance \in Resolve(registry, cfg.project, dir) \ {Main}, code \in GenerateCode(used) :
        /\ registry[<<cfg.project, instance>>] # NoAlloc
        /\ old # NoAlloc
        /\ Start(p, local(instance, code))
  BY DEF PromoteDemote
<1>2. /\ cfg \in Configs /\ cfg.project \in Projects
      /\ instance \in Instances /\ code \in Instances
      /\ registry \in Registries
  BY <1>1, ResolveType, CliConstants DEF PromoteDemote, GenerateCode, TypeInv, TypeOK
<1>3. /\ main \in Keys /\ <<cfg.project, instance>> \in Keys
      /\ old.dir \in Dirs
  BY <1>1, <1>2, RegistryConstants DEF Keys, Registries, Allocations
<1>4. <<cfg.project, instance>> # main
  BY <1>1
<1>5. <<cfg.project, instance>> # <<cfg.project, code>>
  <2>1. <<cfg.project, instance>> \in FindByProject(registry, cfg.project)
    BY <1>1, <1>3 DEF FindByProject, Registered, ProjectOf
  <2>2. instance \in used
    BY <2>1 DEF InstanceOf
  <2> QED BY <1>1, <2>2 DEF GenerateCode
<1>6. code # Main /\ ProjectOf(<<cfg.project, instance>>) = cfg.project
  BY <1>1 DEF GenerateCode, ProjectOf
<1>7. Fit(local(instance, code))
  BY <1>1, <1>2, <1>3, <1>4, <1>5, <1>6, MoveFit
<1> QED BY <1>1, <1>7, StartTypes

LEMMA PromoteRestTypes ==
  ASSUME TypeInv, NEW p \in Procs, PromoteRest(p)
  PROVE  TypeInv'
<1>1. /\ proc[p].key \in Keys /\ proc[p].cfg \in Configs /\ proc[p].dir \in Dirs
      /\ proc[p].reg \in Registries
      /\ proc[p].reg[proc[p].key] # NoAlloc
  BY DEF PromoteRest, TypeInv, TypeOK, PromotePending, Halfway, Running, Locals
<1>2. Fit(Promoted(proc[p], proc[p].key))
  BY <1>1, PromotedFit
<1> QED BY <1>2, ProcTypes DEF PromoteRest, TypeInv, TypeOK

LEMMA PruneTypes ==
  ASSUME TypeInv, NEW p \in Procs, Prune(p)
  PROVE  TypeInv'
<1>1. PICK pruned \in PruneDuplicateDirs(RemoveStale(registry, StaleDirs), MissingDirs) :
        Start(p, [stage |-> "save", cmd |-> "prune", reg |-> pruned, writes |-> {}])
  BY DEF Prune
<1>2. registry \in Registries
  BY DEF TypeInv, TypeOK
<1>3. RemoveStale(registry, StaleDirs) \in Registries
  BY <1>2 DEF Registries, RemoveStale
<1>4. pruned \in Registries
  BY <1>3 DEF Registries, PruneDuplicateDirs
<1>5. Fit([stage |-> "save", cmd |-> "prune", reg |-> pruned, writes |-> {}])
  BY <1>4 DEF Fit, Locals, Writes
<1> QED BY <1>1, <1>5, StartTypes

LEMMA EndTypes ==
  ASSUME TypeInv, NEW p \in Procs,
         PromoteDenied(p) \/ MergeFails(p) \/ Save(p) \/ Abort(p)
  PROVE  TypeInv'
<1>1. registry' \in Registries
  <2>1. Running(p) => proc[p].reg \in Registries
    BY DEF TypeInv, TypeOK, Running, Locals
  <2> QED BY <2>1 DEF TypeInv, TypeOK, PromoteDenied, MergeFails, Save, Abort
<1>2. proc' = [proc EXCEPT ![p] = Idle]
  BY DEF PromoteDenied, MergeFails, Save, Abort
<1>3. /\ config' \in [Roots -> Configs \cup {NoConfig, Gone}]
      /\ env' \in [EnvFiles -> Blocks \cup {NoBlock}]
      /\ started' \in 0 .. MaxCommands
  BY DEF TypeInv, TypeOK, PromoteDenied, MergeFails, Save, Abort
<1> QED BY <1>1, <1>2, <1>3, ProcTypes

\* A process that has one file less to write is otherwise where it was.
SameCommand(local, after) ==
  /\ after.stage = local.stage /\ after.cmd = local.cmd /\ after.reg = local.reg
  /\ local.cmd # "prune" => after.dir = local.dir /\ after.cfg = local.cfg /\ after.key = local.key

LEMMA LessToWrite ==
  ASSUME NEW local \in Locals, NEW rest \in Writes
  PROVE  LET after == [local EXCEPT !.writes = rest]
         IN after \in Locals /\ after.writes = rest /\ SameCommand(local, after)
<1>1. CASE local.cmd = "prune"
  BY <1>1 DEF Locals, SameCommand
<1>2. CASE local.cmd # "prune"
  BY <1>2 DEF Locals, SameCommand
<1> QED BY <1>1, <1>2

LEMMA FileStep ==
  ASSUME TypeInv, NEW p \in Procs, WriteEnv(p) \/ CleanSkipped(p)
  PROVE  \E w \in proc[p].writes, after \in Locals :
           /\ w \in EnvFiles \X (Blocks \cup {NoBlock})
           /\ proc' = [proc EXCEPT ![p] = after]
           /\ SameCommand(proc[p], after)
           /\ after.writes = proc[p].writes \ {w}
           /\ \/ WriteEnv(p) /\ CanWrite(w[1]) /\ env' = [env EXCEPT ![w[1]] = w[2]]
              \/ CleanSkipped(p) /\ (Faults \/ ~CanWrite(w[1])) /\ env' = env
<1>1. proc[p] \in Locals
  BY DEF WriteEnv, CleanSkipped, TypeInv, TypeOK, Running
<1>2. PICK w \in proc[p].writes :
        /\ proc' = [proc EXCEPT ![p].writes = @ \ {w}]
        /\ \/ WriteEnv(p) /\ CanWrite(w[1]) /\ env' = [env EXCEPT ![w[1]] = w[2]]
           \/ CleanSkipped(p) /\ (Faults \/ ~CanWrite(w[1])) /\ env' = env
  BY DEF WriteEnv, CleanSkipped
<1>3. proc[p].writes \in Writes
  BY <1>1 DEF Locals
<1>4. w \in EnvFiles \X (Blocks \cup {NoBlock}) /\ proc[p].writes \ {w} \in Writes
  BY <1>3 DEF Writes
<1> DEFINE after == [proc[p] EXCEPT !.writes = @ \ {w}]
<1>5. proc' = [proc EXCEPT ![p] = after]
  BY <1>2
<1>6. after \in Locals /\ after.writes = proc[p].writes \ {w} /\ SameCommand(proc[p], after)
  BY <1>1, <1>4, LessToWrite
<1> QED BY <1>2, <1>4, <1>5, <1>6

LEMMA FileTypes ==
  ASSUME TypeInv, NEW p \in Procs, WriteEnv(p) \/ CleanSkipped(p)
  PROVE  TypeInv'
<1>1. PICK w \in proc[p].writes, after \in Locals :
        /\ w \in EnvFiles \X (Blocks \cup {NoBlock})
        /\ proc' = [proc EXCEPT ![p] = after]
        /\ SameCommand(proc[p], after)
        /\ env' = env \/ env' = [env EXCEPT ![w[1]] = w[2]]
  BY FileStep
<1>2. env' \in [EnvFiles -> Blocks \cup {NoBlock}]
  BY <1>1 DEF TypeInv, TypeOK
<1>3. Running(p)
  BY DEF WriteEnv, CleanSkipped
<1>4. Fit(after)
  BY <1>1, <1>3 DEF TypeInv, PromotePending, Halfway, Fit, SameCommand
<1> QED BY <1>1, <1>2, <1>4, ProcTypes DEF WriteEnv, CleanSkipped, TypeInv, TypeOK

LEMMA EditTypes ==
  ASSUME TypeInv, NEW r \in Roots, EditConfig(r)
  PROVE  TypeInv'
BY DEF EditConfig, EnvFiles, TypeInv, TypeOK, PromotePending, Halfway, Running

LEMMA NextTypes == TypeInv /\ [Next]_vars => TypeInv'
<1> SUFFICES ASSUME TypeInv, [Next]_vars PROVE TypeInv'
  OBVIOUS
<1>1. ASSUME NEW p \in Procs, Invoke(p) PROVE TypeInv'
  BY <1>1, UpTypes, DownTypes, RenameTypes, PromoteOnlyTypes, PromoteDemoteTypes, PruneTypes
     DEF Invoke
<1>2. ASSUME NEW p \in Procs, Proceed(p) PROVE TypeInv'
  BY <1>2, PromoteRestTypes, FileTypes, EndTypes DEF Proceed
<1>3. CASE UNCHANGED vars
  BY <1>3 DEF vars, TypeInv, TypeOK, PromotePending, Halfway, Running
<1> QED BY <1>1, <1>2, <1>3, EditTypes DEF Next

LEMMA TypesInvariant == Spec => []TypeInv
BY InitTypes, NextTypes, PTL DEF Spec

\* Every copy of the registry is a registry and every pending write names an env
\* file and a block, whatever the commands and however they interleave (cmd/up.go,
\* down.go, rename.go, promote.go, prune.go).
THEOREM TypeCorrect == Spec => []TypeOK
BY TypesInvariant, PTL DEF TypeInv

-----------------------------------------------------------------------------
(* Ports.  The invariant is inductive once it is stated of every copy of   *)
(* the registry: a save is only as good as the copy it writes.             *)

Safe(reg) ==
  /\ \A k, l \in Registered(reg) : k # l => PortsOf(reg[k]) \cap PortsOf(reg[l]) = {}
  /\ \A k \in Registered(reg) : PortsOf(reg[k]) \cap ReservedPorts = {}

PortInv == \A reg \in Copies : Safe(reg)

\* Replacing one process's state, and perhaps saving a copy.
LEMMA ProcSafe ==
  ASSUME TypeInv, PortInv, NEW p \in Procs, NEW local,
         local = Idle \/ Safe(local.reg),
         proc' = [proc EXCEPT ![p] = local],
         registry' \in Copies
  PROVE  PortInv'
<1>1. \A q \in Procs : proc'[q] = IF q = p THEN local ELSE proc[q]
  BY DEF TypeInv, TypeOK
<1>2. \A q \in Procs : proc[q] # Idle => Safe(proc[q].reg)
  BY DEF PortInv, Copies, Running
<1>3. \A q \in Procs : proc'[q] # Idle => Safe(proc'[q].reg)
  BY <1>1, <1>2
<1>4. Safe(registry')
  BY DEF PortInv
<1> QED BY <1>3, <1>4 DEF PortInv, Copies, Running

LEMMA StartSafe ==
  ASSUME TypeInv, PortInv, NEW p \in Procs, NEW local, Safe(local.reg), Start(p, local)
  PROVE  PortInv'
BY ProcSafe DEF Start, Copies

\* Dropping entries is safe.
LEMMA ShrinkSafe ==
  ASSUME NEW reg, Safe(reg), NEW less, \A k \in Keys : less[k] \in {reg[k], NoAlloc}
  PROVE  Safe(less)
BY DEF Safe, Registered

\* Moving an entry with its ports to another key is safe, even on top of another.
LEMMA MoveSafe ==
  ASSUME NEW reg \in Registries, Safe(reg), NEW from \in Keys, reg[from] # NoAlloc,
         NEW to \in Keys, NEW alloc, alloc.ports = reg[from].ports
  PROVE  Safe(Set(Remove(reg, from), to, alloc))
<1> DEFINE moved == Set(Remove(reg, from), to, alloc)
<1>1. \A k \in Keys : moved[k] = IF k = to THEN alloc ELSE IF k = from THEN NoAlloc ELSE reg[k]
  BY DEF Registries, Set, Remove
<1>2. PortsOf(alloc) = PortsOf(reg[from])
  BY DEF PortsOf
<1>3. \A k \in Registered(moved) : k # to => k \in Registered(reg) /\ moved[k] = reg[k] /\ k # from
  BY <1>1 DEF Registered
<1>4. from \in Registered(reg) /\ \A k \in Registered(moved) : k \in Keys
  BY DEF Registered
<1>5. \A k, l \in Registered(moved) : k # l => PortsOf(moved[k]) \cap PortsOf(moved[l]) = {}
  <2> SUFFICES ASSUME NEW k \in Registered(moved), NEW l \in Registered(moved), k # l
               PROVE  PortsOf(moved[k]) \cap PortsOf(moved[l]) = {}
    OBVIOUS
  <2>1. CASE k = to
    BY <1>1, <1>2, <1>3, <1>4, <2>1 DEF Safe
  <2>2. CASE l = to
    BY <1>1, <1>2, <1>3, <1>4, <2>2 DEF Safe
  <2>3. CASE k # to /\ l # to
    BY <1>3, <2>3 DEF Safe
  <2> QED BY <2>1, <2>2, <2>3
<1>6. \A k \in Registered(moved) : PortsOf(moved[k]) \cap ReservedPorts = {}
  BY <1>1, <1>2, <1>3, <1>4 DEF Safe
<1> QED BY <1>5, <1>6 DEF Safe

\* What up assigns to a key is disjoint from what every other key has, and not
\* reserved.
LEMMA AssignmentSafe ==
  ASSUME NEW reg \in Registries, Safe(reg), NEW cfg \in Configs, NEW key \in Keys,
         NEW existing \in {NoAlloc, reg[key]}, NEW busy,
         NEW ports \in [Services -> PortValues],
         IsAssignment(ports, cfg, key, existing, TakenByOthers(reg, key), busy),
         NEW alloc, alloc.ports = ports
  PROVE  Safe(Set(reg, key, alloc))
<1>1. ASSUME NEW s \in Services, ports[s] # NoPort
      PROVE  \/ reg[key] # NoAlloc /\ ports[s] \in PortsOf(reg[key])
             \/ ports[s] \notin TakenByOthers(reg, key) \cup ReservedPorts
  <2>1. CASE existing # NoAlloc /\ existing.ports[s] # NoPort
    BY <1>1, <2>1 DEF IsAssignment, PortsOf
  <2>2. CASE ~(existing # NoAlloc /\ existing.ports[s] # NoPort)
    <3>1. PICK used : /\ TakenByOthers(reg, key) \subseteq used
                      /\ IsAllocated(ports[s], HashPort[<<key, s>>], cfg.pref[s], used, busy)
      BY <1>1, <2>2 DEF IsAssignment
    <3> QED BY <3>1 DEF IsAllocated, IsFirstFree
  <2> QED BY <2>1, <2>2
<1>2. ASSUME NEW k \in Registered(reg), k # key
      PROVE  PortsOf(alloc) \cap PortsOf(reg[k]) = {}
  <2> SUFFICES ASSUME NEW s \in Services, ports[s] # NoPort, ports[s] \in PortsOf(reg[k])
               PROVE  FALSE
    BY DEF PortsOf
  <2>1. ports[s] \in UsedPorts(reg)
    BY DEF UsedPorts
  <2>2. reg[key] # NoAlloc => ports[s] \notin PortsOf(reg[key])
    BY <1>2 DEF Safe, Registered
  <2>3. ports[s] \in TakenByOthers(reg, key)
    BY <2>1, <2>2 DEF TakenByOthers
  <2> QED BY <1>1, <2>2, <2>3
<1>3. PortsOf(alloc) \cap ReservedPorts = {}
  <2> SUFFICES ASSUME NEW s \in Services, ports[s] # NoPort, ports[s] \in ReservedPorts
               PROVE  FALSE
    BY DEF PortsOf
  <2>1. reg[key] # NoAlloc => ports[s] \notin PortsOf(reg[key])
    BY DEF Safe, Registered
  <2> QED BY <1>1, <2>1
<1> DEFINE after == Set(reg, key, alloc)
<1>4. \A k \in Keys : after[k] = IF k = key THEN alloc ELSE reg[k]
  BY DEF Registries, Set
<1>5. \A k \in Registered(after) : k # key => k \in Registered(reg) /\ after[k] = reg[k]
  BY <1>4 DEF Registered
<1> HIDE DEF after
<1>6. \A k, l \in Registered(after) : k # l => PortsOf(after[k]) \cap PortsOf(after[l]) = {}
  <2> SUFFICES ASSUME NEW k \in Registered(after), NEW l \in Registered(after), k # l
               PROVE  PortsOf(after[k]) \cap PortsOf(after[l]) = {}
    OBVIOUS
  <2>1. CASE k = key
    BY <1>2, <1>4, <1>5, <2>1
  <2>2. CASE l = key
    BY <1>2, <1>4, <1>5, <2>2
  <2>3. CASE k # key /\ l # key
    BY <1>5, <2>3 DEF Safe
  <2> QED BY <2>1, <2>2, <2>3
<1>7. \A k \in Registered(after) : PortsOf(after[k]) \cap ReservedPorts = {}
  BY <1>3, <1>4, <1>5 DEF Safe
<1> QED BY <1>6, <1>7 DEF Safe, after

LEMMA UpSafe ==
  ASSUME TypeInv, PortInv, NEW p \in Procs, NEW dir \in Dirs, NEW force \in BOOLEAN,
         Up(p, dir, force)
  PROVE  PortInv'
<1> DEFINE cfg           == ConfigAt(dir)
           key(instance) == <<cfg.project, instance>>
           existing(instance) == IF force THEN NoAlloc ELSE registry[key(instance)]
           before(instance) ==
             IF existing(instance) = NoAlloc THEN {} ELSE existing(instance).approved
           alloc(instance, ports) ==
             WithApprovals(Build(cfg, instance, dir, ports),
                           ApprovedByUp(before(instance), NewlyApproved(cfg, before(instance))))
           local(instance, ports) ==
             Writing("save", IF force THEN "force" ELSE "up", dir, cfg, key(instance),
                     Set(registry, key(instance), alloc(instance, ports)),
                     EnvWrites(dir, cfg, EnvBlock(cfg, instance, ports)))
<1>1. PICK instance \in Resolve(registry, cfg.project, dir), busy \in BusySets,
           ports \in [Services -> PortValues] :
        /\ IsAssignment(ports, cfg, key(instance), existing(instance),
                        TakenByOthers(registry, key(instance)), busy)
        /\ Start(p, local(instance, ports))
  BY DEF Up
<1>2. /\ cfg \in Configs
      /\ key(instance) \in Keys
      /\ registry \in Registries
      /\ existing(instance) \in {NoAlloc, registry[key(instance)]}
  BY ResolveType, CliConstants DEF Up, TypeInv, TypeOK, Keys
<1>3. Safe(registry)
  BY DEF PortInv, Copies
<1>4. alloc(instance, ports).ports = ports
  BY DEF WithApprovals, Build
<1> HIDE DEF key, existing, alloc
<1>5. Safe(Set(registry, key(instance), alloc(instance, ports)))
  BY <1>1, <1>2, <1>3, <1>4, AssignmentSafe
<1>6. Safe(local(instance, ports).reg)
  BY <1>5 DEF Writing
<1> QED BY <1>1, <1>6, StartSafe

LEMMA DownSafe ==
  ASSUME TypeInv, PortInv, NEW p \in Procs, NEW dir \in Dirs, Down(p, dir)
  PROVE  PortInv'
<1> DEFINE cfg == ConfigAt(dir)
           local(instance) == Writing("save", "down", dir, cfg, <<cfg.project, instance>>,
                                      Remove(registry, <<cfg.project, instance>>),
                                      EnvWrites(dir, cfg, NoBlock))
<1>1. PICK instance \in Resolve(registry, cfg.project, dir) : Start(p, local(instance))
  BY DEF Down
<1>2. Safe(registry) /\ registry \in Registries
  BY DEF PortInv, Copies, TypeInv, TypeOK
<1>3. Safe(Remove(registry, <<cfg.project, instance>>))
  BY <1>2, ShrinkSafe DEF Remove, Registries
<1>4. Safe(local(instance).reg)
  BY <1>3 DEF Writing
<1> QED BY <1>1, <1>4, StartSafe

LEMMA RenameSafe ==
  ASSUME TypeInv, PortInv, NEW p \in Procs, NEW dir \in Dirs,
         NEW old \in Instances, NEW new \in Instances, Rename(p, dir, old, new)
  PROVE  PortInv'
<1> DEFINE cfg   == ConfigAt(dir)
           from  == <<cfg.project, old>>
           to    == <<cfg.project, new>>
           alloc == Rekeyed(cfg, new, registry[from])
           local == Writing("save", "rename", dir, cfg, to, Set(Remove(registry, from), to, alloc),
                            EnvWrites(dir, cfg, EnvBlock(cfg, new, alloc.ports)))
<1>1. /\ cfg \in Configs
      /\ from \in Keys /\ to \in Keys
      /\ registry[from] # NoAlloc
      /\ registry \in Registries /\ Safe(registry)
  BY CliConstants DEF Rename, TypeInv, TypeOK, Keys, PortInv, Copies
<1>2. alloc.ports = registry[from].ports
  BY DEF Rekeyed, WithApprovals, Build
<1>3. Safe(Set(Remove(registry, from), to, alloc))
  BY <1>1, <1>2, MoveSafe
<1>4. Safe(local.reg)
  BY <1>3 DEF Writing
<1>5. Start(p, local)
  BY DEF Rename
<1> QED BY <1>4, <1>5, StartSafe

LEMMA PromotedSafe ==
  ASSUME NEW local, NEW key \in Keys, local.cfg \in Configs,
         local.reg \in Registries, local.reg[key] # NoAlloc, Safe(local.reg)
  PROVE  Safe(Promoted(local, key).reg)
<1> DEFINE alloc == Rekeyed(local.cfg, Main, local.reg[key])
           main  == <<local.cfg.project, Main>>
<1>1. main \in Keys
  BY RegistryConstants, CliConstants DEF Keys
<1>2. alloc.ports = local.reg[key].ports
  BY DEF Rekeyed, WithApprovals, Build
<1>3. Safe(Set(Remove(local.reg, key), main, alloc))
  BY <1>1, <1>2, MoveSafe
<1> QED BY <1>3 DEF Promoted, Writing

LEMMA PromoteOnlySafe ==
  ASSUME TypeInv, PortInv, NEW p \in Procs, NEW dir \in Dirs, PromoteOnly(p, dir)
  PROVE  PortInv'
<1> DEFINE cfg == ConfigAt(dir)
           local == [cfg |-> cfg, dir |-> dir, reg |-> registry]
<1>1. PICK instance \in Resolve(registry, cfg.project, dir) :
        /\ registry[<<cfg.project, instance>>] # NoAlloc
        /\ Start(p, Promoted(local, <<cfg.project, instance>>))
  BY DEF PromoteOnly
<1>2. /\ cfg \in Configs
      /\ <<cfg.project, instance>> \in Keys
      /\ registry \in Registries /\ Safe(registry)
  BY ResolveType, CliConstants DEF PromoteOnly, TypeInv, TypeOK, Keys, PortInv, Copies
<1>3. Safe(Promoted(local, <<cfg.project, instance>>).reg)
  BY <1>1, <1>2, PromotedSafe
<1> QED BY <1>1, <1>3, StartSafe

LEMMA PromoteDemoteSafe ==
  ASSUME TypeInv, PortInv, NEW p \in Procs, NEW dir \in Dirs, PromoteDemote(p, dir)
  PROVE  PortInv'
<1> DEFINE cfg  == ConfigAt(dir)
           main == <<cfg.project, Main>>
           old  == registry[main]
           used == {InstanceOf(k) : k \in FindByProject(registry, cfg.project)}
           alloc(code) == Rekeyed(cfg, code, old)
           local(instance, code) ==
             Writing("promote", "promote", dir, cfg, <<cfg.project, instance>>,
                     Set(Remove(registry, main), <<cfg.project, code>>, alloc(code)),
                     EnvWrites(old.dir, cfg, EnvBlock(cfg, code, alloc(code).ports)))
<1>1. PICK instance \in Resolve(registry, cfg.project, dir) \ {Main}, code \in GenerateCode(used) :
        /\ old # NoAlloc
        /\ Start(p, local(instance, code))
  BY DEF PromoteDemote
<1>2. /\ main \in Keys /\ <<cfg.project, code>> \in Keys
      /\ registry \in Registries /\ Safe(registry)
  BY <1>1, RegistryConstants, CliConstants
     DEF PromoteDemote, GenerateCode, TypeInv, TypeOK, Keys, PortInv, Copies
<1>3. alloc(code).ports = old.ports
  BY DEF Rekeyed, WithApprovals, Build
<1>4. Safe(Set(Remove(registry, main), <<cfg.project, code>>, alloc(code)))
  BY <1>1, <1>2, <1>3, MoveSafe
<1>5. Safe(local(instance, code).reg)
  BY <1>4 DEF Writing
<1> QED BY <1>1, <1>5, StartSafe

LEMMA PromoteRestSafe ==
  ASSUME TypeInv, PortInv, NEW p \in Procs, PromoteRest(p)
  PROVE  PortInv'
<1>1. /\ proc[p].key \in Keys /\ proc[p].cfg \in Configs
      /\ proc[p].reg \in Registries
      /\ proc[p].reg[proc[p].key] # NoAlloc
  BY DEF PromoteRest, TypeInv, TypeOK, PromotePending, Halfway, Running, Locals
<1>2. Safe(proc[p].reg)
  BY DEF PromoteRest, PortInv, Copies
<1>3. Safe(Promoted(proc[p], proc[p].key).reg)
  BY <1>1, <1>2, PromotedSafe
<1> QED BY <1>3, ProcSafe DEF PromoteRest, Copies

LEMMA PruneSafe ==
  ASSUME TypeInv, PortInv, NEW p \in Procs, Prune(p)
  PROVE  PortInv'
<1> DEFINE fresh == RemoveStale(registry, StaleDirs)
<1>1. PICK pruned \in PruneDuplicateDirs(fresh, MissingDirs) :
        Start(p, [stage |-> "save", cmd |-> "prune", reg |-> pruned, writes |-> {}])
  BY DEF Prune
<1>2. Safe(registry)
  BY DEF PortInv, Copies
<1>3. Safe(fresh)
  BY <1>2, ShrinkSafe DEF RemoveStale
<1> HIDE DEF fresh
<1>4. Safe(pruned)
  BY <1>3, ShrinkSafe DEF PruneDuplicateDirs
<1> QED BY <1>1, <1>4, StartSafe

\* Env files, faults and the end of a command.
LEMMA ProceedSafe ==
  ASSUME TypeInv, PortInv, NEW p \in Procs,
         \/ PromoteDenied(p) \/ WriteEnv(p) \/ CleanSkipped(p)
         \/ MergeFails(p) \/ Save(p) \/ Abort(p)
  PROVE  PortInv'
<1>1. CASE WriteEnv(p) \/ CleanSkipped(p)
  <2>1. PICK w \in proc[p].writes : proc' = [proc EXCEPT ![p].writes = @ \ {w}]
    BY <1>1 DEF WriteEnv, CleanSkipped
  <2>2. Running(p) /\ registry' = registry
    BY <1>1 DEF WriteEnv, CleanSkipped
  <2> DEFINE local == [proc[p] EXCEPT !.writes = @ \ {w}]
  <2>3. local.reg = proc[p].reg
    BY <2>2 DEF TypeInv, TypeOK, Running, Locals
  <2>4. Safe(local.reg)
    BY <2>2, <2>3 DEF PortInv, Copies
  <2>5. proc' = [proc EXCEPT ![p] = local]
    BY <2>1
  <2> QED BY <2>2, <2>4, <2>5, ProcSafe DEF Copies
<1>2. CASE PromoteDenied(p) \/ MergeFails(p) \/ Save(p) \/ Abort(p)
  <2>1. proc' = [proc EXCEPT ![p] = Idle]
    BY <1>2 DEF PromoteDenied, MergeFails, Save, Abort
  <2>2. registry' \in Copies
    BY <1>2 DEF PromoteDenied, MergeFails, Save, Abort, Copies
  <2> QED BY <2>1, <2>2, ProcSafe
<1> QED BY <1>1, <1>2

LEMMA InitSafe == Init => PortInv
BY DEF Init, PortInv, Safe, Copies, Running, EmptyRegistry, Registered

LEMMA NextSafe == TypeInv /\ PortInv /\ [Next]_vars => PortInv'
<1> SUFFICES ASSUME TypeInv, PortInv, [Next]_vars PROVE PortInv'
  OBVIOUS
<1>1. ASSUME NEW p \in Procs, Invoke(p) PROVE PortInv'
  BY <1>1, UpSafe, DownSafe, RenameSafe, PromoteOnlySafe, PromoteDemoteSafe, PruneSafe
     DEF Invoke
<1>2. ASSUME NEW p \in Procs, Proceed(p) PROVE PortInv'
  BY <1>2, PromoteRestSafe, ProceedSafe DEF Proceed
<1>3. ASSUME NEW r \in Roots, EditConfig(r) PROVE PortInv'
  BY <1>3 DEF EditConfig, PortInv, Copies, Running
<1>4. CASE UNCHANGED vars
  BY <1>4 DEF vars, PortInv, Copies, Running
<1> QED BY <1>1, <1>2, <1>3, <1>4 DEF Next

LEMMA PortsInvariant == Spec => []PortInv
BY TypesInvariant, InitSafe, NextSafe, PTL DEF Spec

\* No two instances ever hold the same port, in registry.json and in the copy of
\* any command, although no command locks the file and a stale copy may be saved
\* over a newer one (cmd/up.go, the port loop; registry.go, UsedPorts).
THEOREM PortsNeverShared == Spec => []PortsDisjoint
<1>1. PortInv => PortsDisjoint
  BY DEF PortInv, Safe, PortsDisjoint
<1> QED BY <1>1, PortsInvariant, PTL

\* No instance ever holds a reserved port (allocator.go, ReservedPorts): not
\* through a preferred port, a kept port, a rename or a stale save.
THEOREM ReservedNeverAllocated == Spec => []ReservedNeverGiven
<1>1. PortInv => ReservedNeverGiven
  BY DEF PortInv, Safe, ReservedNeverGiven
<1> QED BY <1>1, PortsInvariant, PTL

-----------------------------------------------------------------------------
(* Directories, for any number of processes.  As long as the name in a     *)
(* config stays, an entry has the project its directory names, so the      *)
(* instance found for a directory leads to the entry it was found in.      *)

\* No edit gives a directory a project name it did not have: the service names, the
\* ports, the hostnames and the files may change, and the config or the directory may go.
NamesStay ==
  \A e \in Edits : e[2] \in Configs => e[1] \in Configs /\ e[1].project = e[2].project

Homed(reg, conf) ==
  \A k \in Registered(reg) :
    LET cfg == conf[SameFile[reg[k].dir]] IN cfg \in Configs => cfg.project = ProjectOf(k)
Single(reg) ==
  \A k, l \in Registered(reg) : SameFile[reg[k].dir] = SameFile[reg[l].dir] => k = l
Placed(reg, conf) == Homed(reg, conf) /\ Single(reg)

DirInv == \A reg \in Copies : Placed(reg, config)

LEMMA SetAt ==
  ASSUME NEW reg \in Registries, NEW key \in Keys, NEW alloc
  PROVE  \A k \in Keys : Set(reg, key, alloc)[k] = IF k = key THEN alloc ELSE reg[k]
BY DEF Registries, Set

LEMMA MovedAt ==
  ASSUME NEW reg \in Registries, NEW from \in Keys, NEW to \in Keys, NEW alloc
  PROVE  \A k \in Keys : Set(Remove(reg, from), to, alloc)[k] =
           IF k = to THEN alloc ELSE IF k = from THEN NoAlloc ELSE reg[k]
BY DEF Registries, Set, Remove

\* FindByDir finds entries of the directory, and finds one when there is one.
LEMMA FindByDirFinds ==
  ASSUME NEW reg, NEW dir
  PROVE  /\ \A k \in FindByDir(reg, dir) :
              k \in Registered(reg) /\ SameFile[reg[k].dir] = SameFile[dir]
         /\ FindByDir(reg, dir) = {} =>
              \A k \in Registered(reg) : SameFile[reg[k].dir] # SameFile[dir]
BY DEF FindByDir

\* The key under which a command works in a directory: the entry there, if there is
\* one, is one of this directory; and if the directory has an entry, it is this one.
LEMMA ResolveFinds ==
  ASSUME NEW reg, NEW conf, Homed(reg, conf), NEW dir,
         NEW cfg \in Configs, cfg = conf[SameFile[dir]],
         NEW instance \in Resolve(reg, cfg.project, dir)
  PROVE  LET key == <<cfg.project, instance>> IN
         /\ key \in Keys
         /\ reg[key] # NoAlloc => SameFile[reg[key].dir] = SameFile[dir]
         /\ \A k \in Registered(reg) : SameFile[reg[k].dir] = SameFile[dir] =>
              reg[key] # NoAlloc /\ (Single(reg) => k = key)
<1> DEFINE key == <<cfg.project, instance>>
           here == FindByDir(reg, dir)
           existing == FindByProject(reg, cfg.project)
<1>1. key \in Keys
  BY ResolveType, CliConstants DEF Keys
<1>2. CASE here # {}
  <2>1. PICK k \in here : instance = InstanceOf(k)
    BY <1>2 DEF Resolve
  <2>2. k \in Registered(reg) /\ SameFile[reg[k].dir] = SameFile[dir]
    BY <2>1, FindByDirFinds
  <2>3. ProjectOf(k) = cfg.project
    BY <2>2 DEF Homed
  <2>4. k = key
    BY <2>1, <2>2, <2>3 DEF Registered, Keys, ProjectOf, InstanceOf
  <2>5. reg[key] # NoAlloc /\ SameFile[reg[key].dir] = SameFile[dir] /\ key \in Registered(reg)
    BY <2>2, <2>4 DEF Registered
  <2> QED BY <1>1, <2>5 DEF Single
<1>3. CASE here = {}
  <2>1. \A k \in Registered(reg) : SameFile[reg[k].dir] # SameFile[dir]
    BY <1>3, FindByDirFinds
  <2>2. key \notin existing
    <3>1. CASE existing = {}
      BY <3>1
    <3>2. CASE existing # {}
      BY <1>3, <3>2 DEF Resolve, GenerateCode, InstanceOf
    <3> QED BY <3>1, <3>2
  <2>3. reg[key] = NoAlloc
    BY <1>1, <2>2 DEF FindByProject, Registered, ProjectOf
  <2> QED BY <1>1, <2>1, <2>3
<1> QED BY <1>2, <1>3

LEMMA UpPlaced ==
  ASSUME NEW reg \in Registries, NEW conf, Placed(reg, conf), NEW dir \in Dirs,
         NEW cfg \in Configs, cfg = conf[SameFile[dir]],
         NEW instance \in Resolve(reg, cfg.project, dir), NEW alloc, alloc.dir = dir
  PROVE  Placed(Set(reg, <<cfg.project, instance>>, alloc), conf)
<1> DEFINE key == <<cfg.project, instance>>
           after == Set(reg, key, alloc)
<1>1. /\ key \in Keys
      /\ \A k \in Registered(reg) : SameFile[reg[k].dir] = SameFile[dir] => k = key
  BY ResolveFinds DEF Placed
<1>2. \A k \in Keys : after[k] = IF k = key THEN alloc ELSE reg[k]
  BY <1>1, SetAt
<1>3. ProjectOf(key) = cfg.project
  BY DEF ProjectOf
<1> HIDE DEF key, after
<1>4. \A k \in Registered(after) : k \in Keys /\ (k # key => k \in Registered(reg) /\ after[k] = reg[k])
  BY <1>2 DEF Registered
<1>5. Homed(after, conf)
  BY <1>2, <1>3, <1>4 DEF Homed, Placed
<1>6. Single(after)
  <2> SUFFICES ASSUME NEW k \in Registered(after), NEW l \in Registered(after),
                      SameFile[after[k].dir] = SameFile[after[l].dir]
               PROVE  k = l
    BY DEF Single
  <2>1. CASE k = key
    BY <1>1, <1>2, <1>4, <2>1
  <2>2. CASE l = key
    BY <1>1, <1>2, <1>4, <2>2
  <2>3. CASE k # key /\ l # key
    BY <1>4, <2>3 DEF Placed, Single
  <2> QED BY <2>1, <2>2, <2>3
<1> QED BY <1>5, <1>6 DEF Placed, after, key

LEMMA MovePlaced ==
  ASSUME NEW reg \in Registries, NEW conf, Placed(reg, conf),
         NEW from \in Keys, reg[from] # NoAlloc, NEW to \in Keys,
         ProjectOf(to) = ProjectOf(from), NEW alloc, alloc.dir = reg[from].dir
  PROVE  Placed(Set(Remove(reg, from), to, alloc), conf)
<1> DEFINE moved == Set(Remove(reg, from), to, alloc)
<1>1. \A k \in Keys : moved[k] = IF k = to THEN alloc ELSE IF k = from THEN NoAlloc ELSE reg[k]
  BY MovedAt
<1> HIDE DEF moved
<1>2. \A k \in Registered(moved) :
        /\ k \in Keys
        /\ k # to => k \in Registered(reg) /\ moved[k] = reg[k] /\ k # from
  BY <1>1 DEF Registered
<1>3. from \in Registered(reg)
  BY DEF Registered
<1>4. Homed(moved, conf)
  BY <1>1, <1>2, <1>3 DEF Homed, Placed
<1>5. Single(moved)
  <2> SUFFICES ASSUME NEW k \in Registered(moved), NEW l \in Registered(moved),
                      SameFile[moved[k].dir] = SameFile[moved[l].dir]
               PROVE  k = l
    BY DEF Single
  <2>1. CASE k = to
    BY <1>1, <1>2, <1>3, <2>1 DEF Placed, Single
  <2>2. CASE l = to
    BY <1>1, <1>2, <1>3, <2>2 DEF Placed, Single
  <2>3. CASE k # to /\ l # to
    BY <1>2, <2>3 DEF Placed, Single
  <2> QED BY <2>1, <2>2, <2>3
<1> QED BY <1>4, <1>5 DEF Placed, moved

LEMMA ShrinkPlaced ==
  ASSUME NEW reg, NEW conf, Placed(reg, conf),
         NEW less, \A k \in Keys : less[k] \in {reg[k], NoAlloc}
  PROVE  Placed(less, conf)
BY DEF Placed, Homed, Single, Registered

-----------------------------------------------------------------------------
(* What each command starts with.                                          *)

\* The state of an up that is about to write its files, for the entry alloc.
UpLocal(dir, cmd, instance, alloc) ==
  LET cfg == ConfigAt(dir)
      key == <<cfg.project, instance>>
  IN Writing("save", cmd, dir, cfg, key,
             Set(registry, key, alloc),
             EnvWrites(dir, cfg, EnvBlock(cfg, instance, alloc.ports)))

LEMMA UpStarts ==
  ASSUME TypeInv, NEW p \in Procs, NEW dir \in Dirs, Up(p, dir, FALSE) \/ Up(p, dir, TRUE)
  PROVE  /\ ConfigAt(dir) \in Configs
         /\ \E cmd \in {"up", "force"}, instance \in Resolve(registry, ConfigAt(dir).project, dir),
               busy \in BusySets, alloc \in Allocations :
              LET cfg == ConfigAt(dir)
                  key == <<cfg.project, instance>>
              IN /\ instance \in Instances /\ key \in Keys
                 /\ alloc.dir = dir
                 /\ IsAssignment(alloc.ports, cfg, key,
                                 IF cmd = "force" THEN NoAlloc ELSE registry[key],
                                 TakenByOthers(registry, key), busy)
                 /\ \A h \in HostsOf(alloc) : ~HostnameTaken(registry, h, key)
                 /\ Start(p, UpLocal(dir, cmd, instance, alloc))
<1> PICK force \in BOOLEAN : Up(p, dir, force)
  OBVIOUS
<1> DEFINE cfg           == ConfigAt(dir)
           key(instance) == <<cfg.project, instance>>
           existing(instance) == IF force THEN NoAlloc ELSE registry[key(instance)]
           before(instance) ==
             IF existing(instance) = NoAlloc THEN {} ELSE existing(instance).approved
           approved(instance) ==
             ApprovedByUp(before(instance), NewlyApproved(cfg, before(instance)))
           alloc(instance, ports) ==
             WithApprovals(Build(cfg, instance, dir, ports), approved(instance))
<1>1. PICK instance \in Resolve(registry, cfg.project, dir), busy \in BusySets,
           ports \in [Services -> PortValues] :
        /\ IsAssignment(ports, cfg, key(instance), existing(instance),
                        TakenByOthers(registry, key(instance)), busy)
        /\ \A h \in HostsOf(alloc(instance, ports)) :
             ~HostnameTaken(registry, h, key(instance))
        /\ Start(p, Writing("save", IF force THEN "force" ELSE "up", dir, cfg, key(instance),
                            Set(registry, key(instance), alloc(instance, ports)),
                            EnvWrites(dir, cfg, EnvBlock(cfg, instance, ports))))
  BY DEF Up
<1>2. /\ cfg \in Configs
      /\ instance \in Instances
      /\ key(instance) \in Keys
      /\ registry \in Registries
  BY ResolveType, CliConstants DEF Up, TypeInv, TypeOK, Keys
<1>3. approved(instance) \in SUBSET ExtFiles
  <2>1. before(instance) \in SUBSET ExtFiles
    BY <1>2 DEF Registries, Allocations
  <2> QED BY <1>2, <2>1, CliConstants DEF ApprovedByUp, NewlyApproved
<1> HIDE DEF approved
<1>4. alloc(instance, ports) \in Allocations /\ alloc(instance, ports).ports = ports
  BY <1>2, <1>3, BuildType
<1>5. alloc(instance, ports).dir = dir
  BY DEF WithApprovals, Build
<1> HIDE DEF alloc
<1> DEFINE cmd == IF force THEN "force" ELSE "up"
<1>6. Start(p, UpLocal(dir, cmd, instance, alloc(instance, ports)))
  BY <1>1, <1>4 DEF UpLocal
<1>7. /\ cmd \in {"up", "force"}
      /\ existing(instance) = IF cmd = "force" THEN NoAlloc ELSE registry[key(instance)]
  OBVIOUS
<1> QED BY <1>1, <1>2, <1>4, <1>5, <1>6, <1>7

LEMMA DownStarts ==
  ASSUME TypeInv, NEW p \in Procs, NEW dir \in Dirs, Down(p, dir)
  PROVE  \E instance \in Resolve(registry, ConfigAt(dir).project, dir) :
           LET cfg == ConfigAt(dir)
               key == <<cfg.project, instance>>
           IN /\ cfg \in Configs /\ key \in Keys /\ registry[key] # NoAlloc
              /\ Start(p, Writing("save", "down", dir, cfg, key, Remove(registry, key),
                                  EnvWrites(dir, cfg, NoBlock)))
BY ResolveType, CliConstants DEF Down, Keys

\* rename and each half of promote give one entry another name of the same project
\* that was free, with its directory and its ports.
IsMove(reg, after) ==
  \E from, to \in Keys, alloc \in Allocations :
    /\ from # to /\ ProjectOf(from) = ProjectOf(to)
    /\ reg[from] # NoAlloc /\ reg[to] = NoAlloc
    /\ alloc.dir = reg[from].dir /\ alloc.ports = reg[from].ports
    /\ after = Set(Remove(reg, from), to, alloc)

LEMMA RekeyedMoves ==
  ASSUME NEW reg \in Registries, NEW cfg \in Configs, NEW old \in Instances,
         NEW new \in Instances, old # new,
         reg[<<cfg.project, old>>] # NoAlloc, reg[<<cfg.project, new>>] = NoAlloc
  PROVE  IsMove(reg, Set(Remove(reg, <<cfg.project, old>>), <<cfg.project, new>>,
                         Rekeyed(cfg, new, reg[<<cfg.project, old>>])))
<1> DEFINE from  == <<cfg.project, old>>
           to    == <<cfg.project, new>>
           alloc == Rekeyed(cfg, new, reg[from])
<1>1. /\ from \in Keys /\ to \in Keys /\ from # to
      /\ ProjectOf(from) = ProjectOf(to)
  BY CliConstants DEF Keys, ProjectOf
<1>2. reg[from] \in Allocations
  BY <1>1 DEF Registries
<1>3. alloc \in Allocations /\ alloc.ports = reg[from].ports
  BY <1>2, RekeyedType
<1>4. alloc.dir = reg[from].dir
  BY DEF Rekeyed, WithApprovals, Build
<1> HIDE DEF from, to, alloc
<1>5. /\ reg[from] # NoAlloc /\ reg[to] = NoAlloc
  BY DEF from, to
<1>6. IsMove(reg, Set(Remove(reg, from), to, alloc))
  BY <1>1, <1>3, <1>4, <1>5 DEF IsMove
<1> QED BY <1>6 DEF from, to, alloc

LEMMA MoveStarts ==
  ASSUME TypeInv, NEW p \in Procs, NEW dir \in Dirs,
         \/ \E old, new \in Instances : Rename(p, dir, old, new)
         \/ PromoteOnly(p, dir)
         \/ PromoteDemote(p, dir)
  PROVE  \E local : /\ local.cmd \in {"rename", "promote"}
                    /\ IsMove(registry, local.reg)
                    /\ Start(p, local)
<1> DEFINE cfg  == ConfigAt(dir)
           main == <<cfg.project, Main>>
<1>1. registry \in Registries /\ Main \in Instances
  BY RegistryConstants DEF TypeInv, TypeOK
<1>2. ASSUME NEW old \in Instances, NEW new \in Instances, Rename(p, dir, old, new)
      PROVE  \E local : /\ local.cmd \in {"rename", "promote"}
                        /\ IsMove(registry, local.reg)
                        /\ Start(p, local)
  <2> DEFINE from  == <<cfg.project, old>>
             to    == <<cfg.project, new>>
             alloc == Rekeyed(cfg, new, registry[from])
             local == Writing("save", "rename", dir, cfg, to, Set(Remove(registry, from), to, alloc),
                              EnvWrites(dir, cfg, EnvBlock(cfg, new, alloc.ports)))
  <2>1. cfg \in Configs /\ old # new /\ registry[from] # NoAlloc /\ registry[to] = NoAlloc
    BY <1>2 DEF Rename
  <2>2. IsMove(registry, Set(Remove(registry, from), to, alloc))
    BY <1>1, <2>1, RekeyedMoves
  <2>3. IsMove(registry, local.reg) /\ local.cmd = "rename"
    BY <2>2 DEF Writing
  <2>4. Start(p, local)
    BY <1>2 DEF Rename
  <2> HIDE DEF local
  <2> QED BY <2>3, <2>4
<1>3. CASE PromoteOnly(p, dir)
  <2> DEFINE given == [cfg |-> cfg, dir |-> dir, reg |-> registry]
  <2>1. PICK instance \in Resolve(registry, cfg.project, dir) \ {Main} :
          /\ cfg \in Configs
          /\ registry[<<cfg.project, instance>>] # NoAlloc
          /\ registry[main] = NoAlloc
          /\ Start(p, Promoted(given, <<cfg.project, instance>>))
    BY <1>3 DEF PromoteOnly
  <2> DEFINE key   == <<cfg.project, instance>>
             local == Promoted(given, key)
  <2>2. IsMove(registry, Set(Remove(registry, key), main, Rekeyed(cfg, Main, registry[key])))
    BY <1>1, <2>1, ResolveType, RekeyedMoves
  <2>3. IsMove(registry, local.reg) /\ local.cmd = "promote"
    BY <2>2 DEF Promoted, Writing
  <2> HIDE DEF local
  <2> QED BY <2>1, <2>3 DEF local
<1>4. CASE PromoteDemote(p, dir)
  <2> DEFINE old  == registry[main]
             used == {InstanceOf(k) : k \in FindByProject(registry, cfg.project)}
             alloc(code) == Rekeyed(cfg, code, old)
             local(instance, code) ==
               Writing("promote", "promote", dir, cfg, <<cfg.project, instance>>,
                       Set(Remove(registry, main), <<cfg.project, code>>, alloc(code)),
                       EnvWrites(old.dir, cfg, EnvBlock(cfg, code, alloc(code).ports)))
  <2>1. PICK instance \in Resolve(registry, cfg.project, dir) \ {Main}, code \in GenerateCode(used) :
          /\ cfg \in Configs
          /\ old # NoAlloc
          /\ Start(p, local(instance, code))
    BY <1>4 DEF PromoteDemote
  <2>2. code \in Instances /\ code # Main /\ code \notin used
    BY DEF GenerateCode
  <2>3. registry[<<cfg.project, code>>] = NoAlloc
    <3> SUFFICES ASSUME registry[<<cfg.project, code>>] # NoAlloc PROVE code \in used
      BY <2>2
    <3>1. <<cfg.project, code>> \in FindByProject(registry, cfg.project)
      BY <2>1, <2>2, CliConstants DEF FindByProject, Registered, Keys, ProjectOf
    <3> QED BY <3>1 DEF InstanceOf
  <2>4. IsMove(registry, Set(Remove(registry, main), <<cfg.project, code>>, alloc(code)))
    BY <1>1, <2>1, <2>2, <2>3, RekeyedMoves
  <2>5. IsMove(registry, local(instance, code).reg) /\ local(instance, code).cmd = "promote"
    BY <2>4 DEF Writing
  <2> HIDE DEF local
  <2> QED BY <2>1, <2>5
<1> QED BY <1>2, <1>3, <1>4

LEMMA RestMoves ==
  ASSUME TypeInv, NEW p \in Procs, PromoteRest(p)
  PROVE  LET local == Promoted(proc[p], proc[p].key)
         IN /\ proc' = [proc EXCEPT ![p] = local]
            /\ local.stage = "save" /\ local.cmd = "promote" /\ proc[p].cmd = "promote"
            /\ IsMove(proc[p].reg, local.reg)
<1> DEFINE cfg   == proc[p].cfg
           key   == proc[p].key
           local == Promoted(proc[p], key)
<1>1. /\ key \in Keys /\ cfg \in Configs /\ proc[p].reg \in Registries
      /\ ProjectOf(key) = cfg.project
      /\ proc[p].reg[key] # NoAlloc
      /\ proc[p].reg[<<cfg.project, Main>>] = NoAlloc
      /\ proc[p].cmd = "promote"
  BY DEF PromoteRest, TypeInv, TypeOK, PromotePending, Halfway, Running, Locals
<1>2. PICK old \in Instances : key = <<cfg.project, old>>
  BY <1>1 DEF Keys, ProjectOf
<1>3. old # Main /\ Main \in Instances
  BY <1>1, <1>2, RegistryConstants
<1>4. IsMove(proc[p].reg, Set(Remove(proc[p].reg, key), <<cfg.project, Main>>,
                              Rekeyed(cfg, Main, proc[p].reg[key])))
  BY <1>1, <1>2, <1>3, RekeyedMoves
<1> QED BY <1>1, <1>4 DEF PromoteRest, Promoted, Writing

LEMMA PruneStarts ==
  ASSUME TypeInv, NEW p \in Procs, Prune(p)
  PROVE  \E pruned \in PruneDuplicateDirs(RemoveStale(registry, StaleDirs), MissingDirs) :
           /\ pruned # registry
           /\ \A k \in Keys : pruned[k] \in {registry[k], NoAlloc}
           /\ Start(p, [stage |-> "save", cmd |-> "prune", reg |-> pruned, writes |-> {}])
<1> DEFINE fresh == RemoveStale(registry, StaleDirs)
<1>1. PICK pruned \in PruneDuplicateDirs(fresh, MissingDirs) :
        /\ pruned # registry
        /\ Start(p, [stage |-> "save", cmd |-> "prune", reg |-> pruned, writes |-> {}])
  BY DEF Prune
<1>2. \A k \in Keys : fresh[k] \in {registry[k], NoAlloc}
  BY DEF RemoveStale
<1> HIDE DEF fresh
<1>3. \A k \in Keys : pruned[k] \in {fresh[k], NoAlloc}
  BY DEF PruneDuplicateDirs
<1> QED BY <1>1, <1>2, <1>3 DEF fresh

-----------------------------------------------------------------------------
(* One entry per directory.                                                *)

LEMMA ProcPlaced ==
  ASSUME TypeInv, DirInv, NEW p \in Procs, NEW local,
         local = Idle \/ Placed(local.reg, config),
         proc' = [proc EXCEPT ![p] = local],
         registry' \in Copies, config' = config
  PROVE  DirInv'
<1>1. \A q \in Procs : proc'[q] = IF q = p THEN local ELSE proc[q]
  BY DEF TypeInv, TypeOK
<1>2. \A q \in Procs : proc[q] # Idle => Placed(proc[q].reg, config)
  BY DEF DirInv, Copies, Running
<1>3. \A q \in Procs : proc'[q] # Idle => Placed(proc'[q].reg, config')
  BY <1>1, <1>2
<1>4. Placed(registry', config')
  BY DEF DirInv
<1> QED BY <1>3, <1>4 DEF DirInv, Copies, Running

LEMMA StartPlaced ==
  ASSUME TypeInv, DirInv, NEW p \in Procs, NEW local, Placed(local.reg, config), Start(p, local)
  PROVE  DirInv'
BY ProcPlaced DEF Start, Copies

LEMMA IsMovePlaced ==
  ASSUME NEW reg \in Registries, NEW conf, Placed(reg, conf), NEW after, IsMove(reg, after)
  PROVE  Placed(after, conf)
BY MovePlaced DEF IsMove

LEMMA InvokePlaced ==
  ASSUME TypeInv, DirInv, NEW p \in Procs, Invoke(p)
  PROVE  DirInv'
<1>1. registry \in Registries /\ Placed(registry, config)
  BY DEF TypeInv, TypeOK, DirInv, Copies
<1>2. ASSUME NEW dir \in Dirs, Up(p, dir, FALSE) \/ Up(p, dir, TRUE) PROVE DirInv'
  <2> DEFINE cfg == ConfigAt(dir)
  <2>1. PICK cmd \in {"up", "force"}, instance \in Resolve(registry, ConfigAt(dir).project, dir),
             busy \in BusySets, alloc \in Allocations :
          /\ alloc.dir = dir
          /\ Start(p, UpLocal(dir, cmd, instance, alloc))
    BY <1>2, UpStarts
  <2> cfg \in Configs
    BY <1>2, UpStarts
  <2>2. Placed(Set(registry, <<cfg.project, instance>>, alloc), config)
    BY <1>1, <2>1, UpPlaced DEF ConfigAt
  <2> QED BY <2>1, <2>2, StartPlaced DEF UpLocal, Writing
<1>3. ASSUME NEW dir \in Dirs, Down(p, dir) PROVE DirInv'
  <2>1. PICK key \in Keys : \E cfg, writes :
          Start(p, Writing("save", "down", dir, cfg, key, Remove(registry, key), writes))
    BY <1>3, DownStarts
  <2>2. Placed(Remove(registry, key), config)
    BY <1>1, ShrinkPlaced DEF Remove, Registries
  <2> QED BY <2>1, <2>2, StartPlaced DEF Writing
<1>4. ASSUME NEW dir \in Dirs,
             \/ \E old, new \in Instances : Rename(p, dir, old, new)
             \/ PromoteOnly(p, dir) \/ PromoteDemote(p, dir)
      PROVE  DirInv'
  BY <1>1, <1>4, MoveStarts, IsMovePlaced, StartPlaced
<1>5. ASSUME Prune(p) PROVE DirInv'
  <2>1. PICK pruned :
          /\ \A k \in Keys : pruned[k] \in {registry[k], NoAlloc}
          /\ Start(p, [stage |-> "save", cmd |-> "prune", reg |-> pruned, writes |-> {}])
    BY <1>5, PruneStarts
  <2> QED BY <1>1, <2>1, ShrinkPlaced, StartPlaced
<1> QED BY <1>2, <1>3, <1>4, <1>5 DEF Invoke

LEMMA ProceedPlaced ==
  ASSUME TypeInv, DirInv, NEW p \in Procs, Proceed(p)
  PROVE  DirInv'
<1>1. CASE PromoteRest(p)
  <2>1. proc[p].reg \in Registries /\ Placed(proc[p].reg, config)
    BY <1>1 DEF PromoteRest, TypeInv, TypeOK, Running, Locals, DirInv, Copies
  <2>2. Placed(Promoted(proc[p], proc[p].key).reg, config)
    BY <1>1, <2>1, RestMoves, IsMovePlaced
  <2> QED BY <1>1, <2>2, ProcPlaced DEF PromoteRest, Copies
<1>2. CASE WriteEnv(p) \/ CleanSkipped(p)
  <2>1. PICK after : proc' = [proc EXCEPT ![p] = after] /\ SameCommand(proc[p], after)
    BY <1>2, FileStep
  <2>2. Running(p) /\ registry' = registry /\ config' = config
    BY <1>2 DEF WriteEnv, CleanSkipped
  <2>3. Placed(after.reg, config)
    BY <2>1, <2>2 DEF SameCommand, DirInv, Copies
  <2> QED BY <2>1, <2>2, <2>3, ProcPlaced DEF Copies
<1>3. CASE PromoteDenied(p) \/ MergeFails(p) \/ Save(p) \/ Abort(p)
  <2>1. proc' = [proc EXCEPT ![p] = Idle] /\ config' = config
    BY <1>3 DEF PromoteDenied, MergeFails, Save, Abort
  <2>2. registry' \in Copies
    BY <1>3 DEF PromoteDenied, MergeFails, Save, Abort, Copies
  <2> QED BY <2>1, <2>2, ProcPlaced
<1> QED BY <1>1, <1>2, <1>3 DEF Proceed

\* What NamesStay is for: an edit leaves every entry where it was.
LEMMA EditPlaced ==
  ASSUME NamesStay, TypeInv, DirInv, NEW r \in Roots, EditConfig(r)
  PROVE  DirInv'
<1>1. PICK to \in Configs \cup {NoConfig, Gone} :
        <<config[r], to>> \in Edits /\ config' = [config EXCEPT ![r] = to]
  BY DEF EditConfig
<1>2. to \in Configs => config[r] \in Configs /\ config[r].project = to.project
  BY <1>1 DEF NamesStay
<1>3. \A q \in Roots : config'[q] = IF q = r THEN to ELSE config[q]
  BY <1>1 DEF TypeInv, TypeOK
<1>4. \A reg \in Copies : reg \in Registries
  BY DEF Copies, TypeInv, TypeOK, Running, Locals
<1>5. ASSUME NEW reg \in Copies PROVE Placed(reg, config')
  <2>1. \A k \in Registered(reg) : SameFile[reg[k].dir] \in Roots
    BY <1>4, <1>5 DEF Registered, Registries, Allocations, Roots
  <2>2. Placed(reg, config)
    BY <1>5 DEF DirInv
  <2>3. Homed(reg, config')
    BY <1>2, <1>3, <2>1, <2>2 DEF Placed, Homed
  <2> QED BY <2>2, <2>3 DEF Placed
<1>6. Copies' = Copies
  BY DEF EditConfig, Copies, Running
<1> QED BY <1>5, <1>6 DEF DirInv

LEMMA DirectoriesInvariant ==
  ASSUME NamesStay
  PROVE  Spec => []DirInv
<1>1. Init => DirInv
  BY DEF Init, DirInv, Placed, Homed, Single, Copies, Running, EmptyRegistry, Registered
<1>2. ASSUME TypeInv, DirInv, [Next]_vars PROVE DirInv'
  <2>1. ASSUME NEW p \in Procs, Invoke(p) \/ Proceed(p) PROVE DirInv'
    BY <1>2, <2>1, InvokePlaced, ProceedPlaced
  <2>2. ASSUME NEW r \in Roots, EditConfig(r) PROVE DirInv'
    BY <1>2, <2>2, EditPlaced
  <2>3. CASE UNCHANGED vars
    BY <1>2, <2>3 DEF vars, DirInv, Copies, Running
  <2> QED BY <1>2, <2>1, <2>2, <2>3 DEF Next
<1> QED BY <1>1, <1>2, TypesInvariant, PTL DEF Spec

\* A directory never has two entries, under whatever spelling its commands run and
\* however they interleave: neither in registry.json nor in the copy a command is about
\* to save (instance.go, Resolve; registry.go, FindByDir; cmd/rename.go, promote.go).
THEOREM OneEntryEach ==
  ASSUME NamesStay
  PROVE  Spec => []OneEntryPerDirectory
<1>1. DirInv => OneEntryPerDirectory
  BY DEF DirInv, Placed, Single, OneEntryPerDirectory
<1> QED BY <1>1, DirectoriesInvariant, PTL

-----------------------------------------------------------------------------
(* One command at a time.  The registry is then still the one the command  *)
(* read when it saves, and what its copy has to do with the one becomes a  *)
(* statement about the save.  Kills, failing files and edits of the        *)
(* configs come in between as they like.                                   *)

OneAtATime == \A p, q \in Procs : p = q

\* What the copy of a command owes to the registry it was made from.
PortsKept(before, local) ==
  before[local.key] # NoAlloc => \A s \in local.cfg.svc :
    before[local.key].ports[s] # NoPort =>
      local.reg[local.key].ports[s] = before[local.key].ports[s]
DirsKept(before, after) ==
  \A k \in Registered(before) :
    after[k] # NoAlloc /\ SameFile[after[k].dir] = SameFile[before[k].dir]
AllKept(before, after) ==
  /\ Holdings(after) = Holdings(before)
  /\ Cardinality(Registered(after)) = Cardinality(Registered(before))

Pledge(before, local) ==
  /\ local.cmd = "up" => PortsKept(before, local)
  /\ NamesStay /\ local.cmd \in {"up", "force"} => DirsKept(before, local.reg)
  /\ local.cmd \in {"rename", "promote"} => AllKept(before, local.reg)
  /\ local.cmd \in {"up", "force", "down", "prune"} => Clashes(local.reg) \subseteq Clashes(before)
  /\ IsFiniteSet(Registered(local.reg))

SerialInv ==
  /\ IsFiniteSet(Registered(registry))
  /\ \A p \in Procs : Running(p) => Pledge(registry, proc[p])

\* Entries that move: one key is traded for another, the set of what is held stays.
LEMMA MoveKeeps ==
  ASSUME NEW reg \in Registries, NEW after, IsMove(reg, after), IsFiniteSet(Registered(reg))
  PROVE  AllKept(reg, after) /\ IsFiniteSet(Registered(after))
<1>1. PICK from \in Keys, to \in Keys, alloc \in Allocations :
        /\ from # to /\ reg[from] # NoAlloc /\ reg[to] = NoAlloc
        /\ alloc.dir = reg[from].dir /\ alloc.ports = reg[from].ports
        /\ after = Set(Remove(reg, from), to, alloc)
  BY DEF IsMove
<1>2. alloc # NoAlloc
  BY Sentinels
<1>3. \A k \in Keys : after[k] = IF k = to THEN alloc ELSE IF k = from THEN NoAlloc ELSE reg[k]
  BY <1>1, MovedAt
<1> DEFINE others == Registered(reg) \ {from}
<1>4. /\ Registered(after) = others \cup {to}
      /\ to \notin others /\ from \in Registered(reg)
  BY <1>1, <1>2, <1>3 DEF Registered
<1>5. /\ IsFiniteSet(others)
      /\ Cardinality(others) = Cardinality(Registered(reg)) - 1
      /\ Cardinality(Registered(reg)) \in Nat
  BY <1>4, FS_RemoveElement, FS_CardinalityType
<1> HIDE DEF others
<1>6. IsFiniteSet(Registered(after)) /\ Cardinality(Registered(after)) = Cardinality(others) + 1
  BY <1>4, <1>5, FS_AddElement
<1>7. Holdings(after) = Holdings(reg)
  <2> DEFINE held(r, k) == <<r[k].dir, r[k].ports>>
  <2>1. held(after, to) = held(reg, from)
    BY <1>1, <1>3
  <2>2. \A k \in others : held(after, k) = held(reg, k)
    BY <1>3, <1>4 DEF others, Registered
  <2>3. Registered(reg) = others \cup {from}
    BY <1>4 DEF others
  <2> HIDE DEF held
  <2>4. {held(after, k) : k \in Registered(after)} = {held(reg, k) : k \in Registered(reg)}
    BY <1>4, <2>1, <2>2, <2>3
  <2> QED BY <2>4 DEF Holdings, held
<1> QED BY <1>5, <1>6, <1>7 DEF AllKept

LEMMA ShrinkClashes ==
  ASSUME NEW reg, NEW less, \A k \in Keys : less[k] \in {reg[k], NoAlloc},
         IsFiniteSet(Registered(reg))
  PROVE  Clashes(less) \subseteq Clashes(reg) /\ IsFiniteSet(Registered(less))
<1>1. \A k \in Registered(less) : k \in Registered(reg) /\ less[k] = reg[k]
  BY DEF Registered
<1>2. Clashes(less) \subseteq Clashes(reg)
  BY <1>1 DEF Clashes
<1>3. Registered(less) \subseteq Registered(reg)
  BY <1>1
<1> QED BY <1>2, <1>3, FS_Subset

\* An entry whose names nobody has adds no clash.
LEMMA UpClashes ==
  ASSUME NEW reg \in Registries, NEW key \in Keys, NEW alloc,
         \A h \in HostsOf(alloc) : ~HostnameTaken(reg, h, key),
         IsFiniteSet(Registered(reg))
  PROVE  /\ Clashes(Set(reg, key, alloc)) \subseteq Clashes(reg)
         /\ IsFiniteSet(Registered(Set(reg, key, alloc)))
<1> DEFINE after == Set(reg, key, alloc)
<1>1. \A k \in Keys : after[k] = IF k = key THEN alloc ELSE reg[k]
  BY SetAt
<1> HIDE DEF after
<1>2. \A k \in Registered(after) : k # key => k \in Registered(reg) /\ after[k] = reg[k]
  BY <1>1 DEF Registered
<1>3. \A k \in Registered(after) : k # key => HostsOf(alloc) \cap HostsOf(after[k]) = {}
  BY <1>2 DEF HostnameTaken
<1>4. ASSUME NEW k \in Registered(after), NEW l \in Registered(after),
             k # l, HostsOf(after[k]) \cap HostsOf(after[l]) # {}
      PROVE  /\ k \in Registered(reg) /\ l \in Registered(reg)
             /\ HostsOf(reg[k]) \cap HostsOf(reg[l]) # {}
  <2>1. after[key] = alloc
    BY <1>1
  <2>2. k # key /\ l # key
    BY <1>3, <1>4, <2>1
  <2> QED BY <1>2, <1>4, <2>2
<1>5. Clashes(after) \subseteq Clashes(reg)
  BY <1>4 DEF Clashes
<1>6. Registered(after) \subseteq Registered(reg) \cup {key}
  BY <1>2
<1>7. IsFiniteSet(Registered(after))
  BY <1>6, FS_AddElement, FS_Subset
<1> QED BY <1>5, <1>7 DEF after

LEMMA AloneProc ==
  ASSUME OneAtATime, TypeInv, NEW p \in Procs, NEW local, proc' = [proc EXCEPT ![p] = local]
  PROVE  \A q \in Procs : proc'[q] = local
BY DEF OneAtATime, TypeInv, TypeOK

LEMMA StartPledge ==
  ASSUME OneAtATime, TypeInv, SerialInv, NEW p \in Procs, NEW local,
         Pledge(registry, local), Start(p, local)
  PROVE  SerialInv'
<1>1. registry' = registry /\ \A q \in Procs : proc'[q] = local
  BY AloneProc DEF Start
<1> QED BY <1>1 DEF SerialInv, Running

LEMMA UpPledge ==
  ASSUME TypeInv, NamesStay => DirInv, SerialInv, NEW p \in Procs, NEW dir \in Dirs,
         Up(p, dir, FALSE) \/ Up(p, dir, TRUE)
  PROVE  \E local : Pledge(registry, local) /\ Start(p, local)
<1> DEFINE cfg == ConfigAt(dir)
<1>1. PICK cmd \in {"up", "force"}, instance \in Resolve(registry, cfg.project, dir),
           busy \in BusySets, alloc \in Allocations :
        LET key == <<cfg.project, instance>> IN
        /\ instance \in Instances /\ key \in Keys
        /\ alloc.dir = dir
        /\ IsAssignment(alloc.ports, cfg, key,
                        IF cmd = "force" THEN NoAlloc ELSE registry[key],
                        TakenByOthers(registry, key), busy)
        /\ \A h \in HostsOf(alloc) : ~HostnameTaken(registry, h, key)
        /\ Start(p, UpLocal(dir, cmd, instance, alloc))
  BY UpStarts
<1> DEFINE key   == <<cfg.project, instance>>
           local == UpLocal(dir, cmd, instance, alloc)
           after == Set(registry, key, alloc)
<1>2. cfg \in Configs /\ key \in Keys /\ registry \in Registries /\ alloc # NoAlloc
  BY <1>1, UpStarts, Sentinels DEF TypeInv, TypeOK
<1>3. \A k \in Keys : after[k] = IF k = key THEN alloc ELSE registry[k]
  BY <1>2, SetAt
<1>4. local.cmd = cmd /\ local.reg = after /\ local.key = key /\ local.cfg = cfg
  BY DEF UpLocal, Writing
<1>5. cmd = "up" => PortsKept(registry, local)
  <2>1. cfg.svc \subseteq Services
    BY <1>2, CliConstants
  <2> SUFFICES ASSUME cmd = "up", registry[key] # NoAlloc, NEW s \in cfg.svc,
                      registry[key].ports[s] # NoPort
               PROVE  alloc.ports[s] = registry[key].ports[s]
    BY <1>2, <1>3, <1>4 DEF PortsKept
  <2>2. IsAssignment(alloc.ports, cfg, key, registry[key], TakenByOthers(registry, key), busy)
    BY <1>1
  <2> QED BY <2>1, <2>2 DEF IsAssignment
<1>6. NamesStay => DirsKept(registry, after)
  <2> SUFFICES ASSUME NamesStay PROVE DirsKept(registry, after)
    OBVIOUS
  <2>1. Homed(registry, config)
    BY DEF DirInv, Copies, Placed
  <2>2. registry[key] # NoAlloc => SameFile[registry[key].dir] = SameFile[dir]
    BY <1>2, <2>1, ResolveFinds DEF ConfigAt
  <2> HIDE DEF key, after
  <2> QED BY <1>1, <1>2, <1>3, <2>2 DEF DirsKept, Registered
<1>7. Clashes(after) \subseteq Clashes(registry) /\ IsFiniteSet(Registered(after))
  BY <1>1, <1>2, UpClashes DEF SerialInv
<1> HIDE DEF local, after
<1>8. Pledge(registry, local)
  BY <1>4, <1>5, <1>6, <1>7 DEF Pledge
<1> QED BY <1>1, <1>8 DEF local

LEMMA InvokePledge ==
  ASSUME OneAtATime, TypeInv, NamesStay => DirInv, SerialInv, NEW p \in Procs, Invoke(p)
  PROVE  SerialInv'
<1>1. registry \in Registries /\ IsFiniteSet(Registered(registry))
  BY DEF TypeInv, TypeOK, SerialInv
<1>2. ASSUME NEW dir \in Dirs, Up(p, dir, FALSE) \/ Up(p, dir, TRUE) PROVE SerialInv'
  BY <1>2, UpPledge, StartPledge
<1>3. ASSUME NEW dir \in Dirs, Down(p, dir) PROVE SerialInv'
  <2>1. PICK instance \in Resolve(registry, ConfigAt(dir).project, dir) :
          LET cfg == ConfigAt(dir)
              key == <<cfg.project, instance>>
          IN Start(p, Writing("save", "down", dir, cfg, key, Remove(registry, key),
                              EnvWrites(dir, cfg, NoBlock)))
    BY <1>3, DownStarts
  <2> DEFINE cfg   == ConfigAt(dir)
             key   == <<cfg.project, instance>>
             local == Writing("save", "down", dir, cfg, key, Remove(registry, key),
                              EnvWrites(dir, cfg, NoBlock))
  <2>2. \A k \in Keys : Remove(registry, key)[k] \in {registry[k], NoAlloc}
    BY <1>1 DEF Remove, Registries
  <2>3. local.cmd = "down" /\ local.reg = Remove(registry, key)
    BY DEF Writing
  <2> HIDE DEF local, key
  <2>4. Pledge(registry, local)
    BY <1>1, <2>2, <2>3, ShrinkClashes DEF Pledge
  <2> QED BY <2>1, <2>4, StartPledge DEF local, key
<1>4. ASSUME NEW dir \in Dirs,
             \/ \E old, new \in Instances : Rename(p, dir, old, new)
             \/ PromoteOnly(p, dir) \/ PromoteDemote(p, dir)
      PROVE  SerialInv'
  <2>1. PICK local : /\ local.cmd \in {"rename", "promote"}
                     /\ IsMove(registry, local.reg)
                     /\ Start(p, local)
    BY <1>4, MoveStarts
  <2>2. Pledge(registry, local)
    BY <1>1, <2>1, MoveKeeps DEF Pledge
  <2> QED BY <2>1, <2>2, StartPledge
<1>5. ASSUME Prune(p) PROVE SerialInv'
  <2>1. PICK pruned :
          /\ \A k \in Keys : pruned[k] \in {registry[k], NoAlloc}
          /\ Start(p, [stage |-> "save", cmd |-> "prune", reg |-> pruned, writes |-> {}])
    BY <1>5, PruneStarts
  <2>2. Pledge(registry, [stage |-> "save", cmd |-> "prune", reg |-> pruned, writes |-> {}])
    BY <1>1, <2>1, ShrinkClashes DEF Pledge
  <2> QED BY <2>1, <2>2, StartPledge
<1> QED BY <1>2, <1>3, <1>4, <1>5 DEF Invoke

LEMMA ProceedPledge ==
  ASSUME OneAtATime, TypeInv, SerialInv, NEW p \in Procs, Proceed(p)
  PROVE  SerialInv'
<1>1. CASE PromoteRest(p)
  <2> DEFINE local == Promoted(proc[p], proc[p].key)
  <2>1. /\ proc' = [proc EXCEPT ![p] = local] /\ registry' = registry
        /\ local.cmd = "promote" /\ proc[p].cmd = "promote"
        /\ IsMove(proc[p].reg, local.reg)
    BY <1>1, RestMoves DEF PromoteRest
  <2>2. proc[p].reg \in Registries /\ Pledge(registry, proc[p])
    BY <1>1 DEF PromoteRest, TypeInv, TypeOK, Running, Locals, SerialInv
  <2> HIDE DEF local
  <2>3. Pledge(registry, local)
    BY <2>1, <2>2, MoveKeeps DEF Pledge, AllKept
  <2>4. \A q \in Procs : proc'[q] = local
    BY <2>1, AloneProc
  <2> QED BY <2>1, <2>3, <2>4 DEF SerialInv, Running
<1>2. CASE WriteEnv(p) \/ CleanSkipped(p)
  <2>1. PICK after : proc' = [proc EXCEPT ![p] = after] /\ SameCommand(proc[p], after)
    BY <1>2, FileStep
  <2>2. registry' = registry /\ Pledge(registry, proc[p])
    BY <1>2 DEF WriteEnv, CleanSkipped, SerialInv
  <2>3. Pledge(registry, after)
    BY <2>1, <2>2 DEF SameCommand, Pledge, PortsKept
  <2>4. \A q \in Procs : proc'[q] = after
    BY <2>1, AloneProc
  <2> QED BY <2>2, <2>3, <2>4 DEF SerialInv, Running
<1>3. CASE PromoteDenied(p) \/ MergeFails(p) \/ Save(p) \/ Abort(p)
  <2>1. proc' = [proc EXCEPT ![p] = Idle]
    BY <1>3 DEF PromoteDenied, MergeFails, Save, Abort
  <2>2. \A q \in Procs : proc'[q] = Idle
    BY <2>1, AloneProc
  <2>3. Running(p) /\ registry' \in {registry, proc[p].reg}
    BY <1>3 DEF PromoteDenied, MergeFails, Save, Abort
  <2>4. IsFiniteSet(Registered(proc[p].reg))
    BY <2>3 DEF SerialInv, Pledge
  <2>5. IsFiniteSet(Registered(registry'))
    BY <2>3, <2>4 DEF SerialInv
  <2> QED BY <2>2, <2>5 DEF SerialInv, Running
<1> QED BY <1>1, <1>2, <1>3 DEF Proceed

LEMMA SerialStep ==
  ASSUME OneAtATime, TypeInv, NamesStay => DirInv, SerialInv, [Next]_vars
  PROVE  SerialInv'
<1>1. ASSUME NEW p \in Procs, Invoke(p) \/ Proceed(p) PROVE SerialInv'
  BY <1>1, InvokePledge, ProceedPledge
<1>2. ASSUME NEW r \in Roots, EditConfig(r) PROVE SerialInv'
  BY <1>2 DEF EditConfig, SerialInv, Running
<1>3. CASE UNCHANGED vars
  BY <1>3 DEF vars, SerialInv, Running
<1> QED BY <1>1, <1>2, <1>3 DEF Next

LEMMA SerialInvariant ==
  ASSUME OneAtATime
  PROVE  Spec => []SerialInv
<1>1. Init => SerialInv
  <2>1. Init => Registered(registry) = {}
    BY DEF Init, EmptyRegistry, Registered
  <2> QED BY <2>1, FS_EmptySet DEF Init, SerialInv, Running
<1>2. CASE NamesStay
  <2>1. TypeInv /\ DirInv /\ SerialInv /\ [Next]_vars => SerialInv'
    BY SerialStep
  <2>2. Spec => []DirInv
    BY <1>2, DirectoriesInvariant
  <2> QED BY <1>1, <2>1, <2>2, TypesInvariant, PTL DEF Spec
<1>3. CASE ~NamesStay
  <2>1. TypeInv /\ SerialInv /\ [Next]_vars => SerialInv'
    BY <1>3, SerialStep
  <2> QED BY <1>1, <2>1, TypesInvariant, PTL DEF Spec
<1> QED BY <1>2, <1>3

LEMMA SavePledge ==
  ASSUME SerialInv, NEW p \in Procs, NEW cmds, Saves(p, cmds)
  PROVE  /\ proc[p].cmd \in cmds /\ registry' = proc[p].reg
         /\ Pledge(registry, proc[p])
BY DEF Saves, Save, SerialInv

\* What up saves has the port of every service that had one and is still declared
\* (cmd/up.go, the port loop), although config edits come between its start and its save.
THEOREM UpTakesNoPortAway ==
  ASSUME OneAtATime
  PROVE  Spec => UpKeepsPorts
<1> DEFINE Good == \A p \in Procs : Saves(p, {"up"}) =>
                     LET old == registry[proc[p].key]
                         new == registry'[proc[p].key]
                     IN old # NoAlloc => \A s \in proc[p].cfg.svc :
                          old.ports[s] # NoPort => new.ports[s] = old.ports[s]
<1>1. SerialInv => Good
  BY SavePledge DEF Pledge, PortsKept
<1> QED BY <1>1, SerialInvariant, PTL DEF UpKeepsPorts

\* No up turns an entry into one of another directory or drops it, not even with --force
\* (instance.go, Resolve: the instance found for a directory is used under the project its
\* config names).
THEOREM UpTakesNoDirectory ==
  ASSUME OneAtATime, NamesStay
  PROVE  Spec => UpKeepsDirectories
<1> DEFINE Good == \A p \in Procs : Saves(p, {"up", "force"}) =>
                     \A k \in Registered(registry) :
                       /\ registry'[k] # NoAlloc
                       /\ SameFile[registry'[k].dir] = SameFile[registry[k].dir]
<1>1. SerialInv => Good
  BY SavePledge DEF Pledge, DirsKept
<1> QED BY <1>1, SerialInvariant, PTL DEF UpKeepsDirectories

\* rename and promote lose no entry, no directory and no port (cmd/rename.go, promote.go:
\* one key is deleted, one is set), also when a promote moves two entries.
THEOREM MovesLoseNothing ==
  ASSUME OneAtATime
  PROVE  Spec => MovesKeepAllocations
<1> DEFINE Good == \A p \in Procs : Saves(p, {"rename", "promote"}) =>
                     /\ Holdings(registry') = Holdings(registry)
                     /\ Cardinality(Registered(registry')) = Cardinality(Registered(registry))
<1>1. SerialInv => Good
  BY SavePledge DEF Pledge, AllKept
<1> QED BY <1>1, SerialInvariant, PTL DEF MovesKeepAllocations

\* No up, down or prune makes two instances claim one .test name that did not already
\* (cmd/up.go:113-126, FindHostname for every name; down and prune only remove).
THEOREM NamesNotTaken ==
  ASSUME OneAtATime
  PROVE  Spec => NoNewClash
<1> DEFINE Good == \A p \in Procs : Saves(p, {"up", "force", "down", "prune"}) =>
                     Clashes(registry') \subseteq Clashes(registry)
<1>1. SerialInv => Good
  BY SavePledge DEF Pledge
<1> QED BY <1>1, SerialInvariant, PTL DEF NoNewClash

-----------------------------------------------------------------------------
(* prune, with one command at a time: its prey is chosen from the configs  *)
(* of the moment it starts, and may be spared by the moment it saves.      *)

\* A directory without config does not get one (back) while prune is about to save.
ConfigsOnlyGo == \A e \in Edits : e[2] \in Configs => e[1] \in Configs

Gathered(before, after, conf) ==
  \A r \in Roots :
    /\ Cardinality(EntriesOf(after, r)) <= 1
    /\ conf[r] \in Configs /\ EntriesOf(before, r) # {} => EntriesOf(after, r) # {}

PruneInv ==
  \A p \in Procs : Running(p) /\ proc[p].cmd = "prune" =>
    Gathered(registry, proc[p].reg, config)

LEMMA PruneGathers ==
  ASSUME registry \in Registries,
         NEW pruned \in PruneDuplicateDirs(RemoveStale(registry, StaleDirs), MissingDirs)
  PROVE  Gathered(registry, pruned, config)
<1> DEFINE fresh    == RemoveStale(registry, StaleDirs)
           group(r) == {k \in Registered(fresh) :
                          fresh[k].dir \notin MissingDirs /\ SameFile[fresh[k].dir] = r}
<1>1. PICK K \in SUBSET Registered(fresh) :
        /\ \A r \in Roots : group(r) # {} =>
             \E c \in CanonicalKeys(group(r)) : K \cap group(r) = {c}
        /\ pruned = [k \in Keys |-> IF k \in K THEN fresh[k] ELSE NoAlloc]
  BY DEF PruneDuplicateDirs
<1>2. \A k \in Registered(fresh) :
        /\ k \in Registered(registry) /\ fresh[k] = registry[k]
        /\ fresh[k].dir \in Dirs /\ fresh[k].dir \notin StaleDirs
  BY DEF RemoveStale, Registered, Registries, Allocations
<1>3. MissingDirs \subseteq StaleDirs
  BY Sentinels DEF MissingDirs, StaleDirs
<1>4. \A k \in Keys : pruned[k] # NoAlloc <=> k \in K
  BY <1>1 DEF Registered
<1>5. \A r \in Roots : EntriesOf(pruned, r) = K \cap group(r)
  BY <1>1, <1>2, <1>3, <1>4 DEF EntriesOf, Registered
<1>6. ASSUME NEW r \in Roots, config[r] \in Configs, EntriesOf(registry, r) # {}
      PROVE  group(r) # {}
  <2>1. PICK k \in Registered(registry) : SameFile[registry[k].dir] = r
    BY <1>6 DEF EntriesOf
  <2>2. registry[k].dir \notin StaleDirs
    BY <1>6, <2>1 DEF StaleDirs, ConfigAt
  <2>3. k \in Registered(fresh) /\ fresh[k] = registry[k]
    BY <2>1, <2>2 DEF RemoveStale, Registered
  <2> QED BY <1>3, <2>1, <2>2, <2>3
<1> HIDE DEF fresh, group
<1>7. ASSUME NEW r \in Roots
      PROVE  /\ Cardinality(EntriesOf(pruned, r)) <= 1
             /\ group(r) # {} => EntriesOf(pruned, r) # {}
  <2>1. CASE group(r) = {}
    BY <1>5, <2>1, FS_EmptySet
  <2>2. CASE group(r) # {}
    <3>1. PICK c : EntriesOf(pruned, r) = {c}
      BY <1>1, <1>5, <2>2
    <3> QED BY <3>1, FS_Singleton
  <2> QED BY <2>1, <2>2
<1> QED BY <1>6, <1>7 DEF Gathered

LEMMA PruneStep ==
  ASSUME OneAtATime, ConfigsOnlyGo, TypeInv, PruneInv, [Next]_vars
  PROVE  PruneInv'
<1>1. ASSUME NEW p \in Procs, NEW local, Start(p, local),
             local.cmd = "prune" => Gathered(registry, local.reg, config)
      PROVE  PruneInv'
  <2>1. registry' = registry /\ config' = config /\ \A q \in Procs : proc'[q] = local
    BY <1>1, AloneProc DEF Start
  <2> QED BY <1>1, <2>1 DEF PruneInv
<1>2. ASSUME NEW p \in Procs, Invoke(p) PROVE PruneInv'
  <2>1. ASSUME NEW dir \in Dirs, Up(p, dir, FALSE) \/ Up(p, dir, TRUE) PROVE PruneInv'
    <3>1. PICK cmd \in {"up", "force"} : \E instance, alloc :
            Start(p, UpLocal(dir, cmd, instance, alloc))
      BY <2>1, UpStarts
    <3> QED BY <1>1, <3>1 DEF UpLocal, Writing
  <2>2. ASSUME NEW dir \in Dirs, Down(p, dir) PROVE PruneInv'
    <3>1. PICK cfg, key : Start(p, Writing("save", "down", dir, cfg, key, Remove(registry, key),
                                           EnvWrites(dir, cfg, NoBlock)))
      BY <2>2 DEF Down
    <3> QED BY <1>1, <3>1 DEF Writing
  <2>3. ASSUME NEW dir \in Dirs,
               \/ \E old, new \in Instances : Rename(p, dir, old, new)
               \/ PromoteOnly(p, dir) \/ PromoteDemote(p, dir)
        PROVE  PruneInv'
    <3>1. PICK local : local.cmd \in {"rename", "promote"} /\ Start(p, local)
      BY <2>3, MoveStarts
    <3> QED BY <1>1, <3>1
  <2>4. ASSUME Prune(p) PROVE PruneInv'
    <3>1. PICK pruned \in PruneDuplicateDirs(RemoveStale(registry, StaleDirs), MissingDirs) :
            Start(p, [stage |-> "save", cmd |-> "prune", reg |-> pruned, writes |-> {}])
      BY <2>4, PruneStarts
    <3> DEFINE local == [stage |-> "save", cmd |-> "prune", reg |-> pruned, writes |-> {}]
    <3>2. Gathered(registry, local.reg, config)
      BY PruneGathers DEF TypeInv, TypeOK
    <3> HIDE DEF local
    <3> QED BY <1>1, <3>1, <3>2 DEF local
  <2> QED BY <1>2, <2>1, <2>2, <2>3, <2>4 DEF Invoke
<1>3. ASSUME NEW p \in Procs, Proceed(p) PROVE PruneInv'
  <2>1. CASE PromoteRest(p)
    <3>1. \A q \in Procs : proc'[q] = Promoted(proc[p], proc[p].key)
      BY <2>1, RestMoves, AloneProc
    <3>2. Promoted(proc[p], proc[p].key).cmd = "promote"
      BY <2>1, RestMoves
    <3> QED BY <3>1, <3>2 DEF PruneInv
  <2>2. CASE WriteEnv(p) \/ CleanSkipped(p)
    <3>1. PICK after : proc' = [proc EXCEPT ![p] = after] /\ SameCommand(proc[p], after)
      BY <2>2, FileStep
    <3>2. Running(p) /\ registry' = registry /\ config' = config
      BY <2>2 DEF WriteEnv, CleanSkipped
    <3>3. \A q \in Procs : proc'[q] = after
      BY <3>1, AloneProc
    <3> QED BY <3>1, <3>2, <3>3 DEF PruneInv, SameCommand
  <2>3. CASE PromoteDenied(p) \/ MergeFails(p) \/ Save(p) \/ Abort(p)
    <3>1. proc' = [proc EXCEPT ![p] = Idle]
      BY <2>3 DEF PromoteDenied, MergeFails, Save, Abort
    <3> QED BY <3>1, AloneProc DEF PruneInv, Running
  <2> QED BY <1>3, <2>1, <2>2, <2>3 DEF Proceed
<1>4. ASSUME NEW r \in Roots, EditConfig(r) PROVE PruneInv'
  <2>1. PICK to \in Configs \cup {NoConfig, Gone} :
          <<config[r], to>> \in Edits /\ config' = [config EXCEPT ![r] = to]
    BY <1>4 DEF EditConfig
  <2>2. to \in Configs => config[r] \in Configs
    BY <2>1 DEF ConfigsOnlyGo
  <2>3. \A q \in Roots : config'[q] \in Configs => config[q] \in Configs
    BY <2>1, <2>2 DEF TypeInv, TypeOK
  <2>4. registry' = registry /\ proc' = proc
    BY <1>4 DEF EditConfig
  <2> QED BY <2>3, <2>4 DEF PruneInv, Gathered, Running
<1>5. CASE UNCHANGED vars
  BY <1>5 DEF vars, PruneInv, Running
<1> QED BY <1>2, <1>3, <1>4, <1>5 DEF Next

\* prune leaves a directory whose config is there with exactly one of its entries
\* (registry.go, PruneDuplicateDirs after RemoveStale), whichever edits remove configs and
\* directories between its choice and its save.
THEOREM PruneSparesOne ==
  ASSUME OneAtATime, ConfigsOnlyGo
  PROVE  Spec => PruneLeavesOneEach
<1> DEFINE Good == \A p \in Procs : Saves(p, {"prune"}) => \A r \in Roots :
                     /\ Cardinality(EntriesOf(registry', r)) <= 1
                     /\ config[r] \in Configs /\ EntriesOf(registry, r) # {} =>
                          EntriesOf(registry', r) # {}
<1>1. PruneInv => Good
  BY DEF Saves, Save, PruneInv, Gathered
<1>2. Init => PruneInv
  BY DEF Init, PruneInv, Running
<1>3. TypeInv /\ PruneInv /\ [Next]_vars => PruneInv'
  BY PruneStep
<1> QED BY <1>1, <1>2, <1>3, TypesInvariant, PTL DEF Spec, PruneLeavesOneEach

-----------------------------------------------------------------------------
(* What up leaves in the .env of its directory.                            *)

\* A directory that is deleted is not made again.
GoneForGood == \A e \in Edits : e[1] = Gone => e[2] = Gone

\* The managed block that stands for an entry.
BlockOf(key, alloc) ==
  [project |-> ProjectOf(key), instance |-> InstanceOf(key), ports |-> alloc.ports]

\* The block of the directory's .env is written, or about to be.
Repairing(local, conf, e) ==
  LET file  == SameFile[local.dir]
      block == BlockOf(local.key, local.reg[local.key])
  IN /\ file \in Roots
     /\ \A w \in local.writes : w[2] = block
     /\ <<file, block>> \in local.writes \/ e[file] = block \/ conf[file] = Gone

RepairInv ==
  \A p \in Procs : Running(p) /\ proc[p].cmd \in {"up", "force"} =>
    Repairing(proc[p], config, env)

\* The block of a config's services is the block of the entry when the entry has no
\* other ports.
LEMMA BlockIs ==
  ASSUME NEW cfg, NEW instance, NEW ports \in [Services -> PortValues], NEW alloc,
         alloc.ports = ports, \A s \in Services \ cfg.svc : ports[s] = NoPort
  PROVE  EnvBlock(cfg, instance, ports) = BlockOf(<<cfg.project, instance>>, alloc)
<1>1. [s \in Services |-> IF s \in cfg.svc THEN ports[s] ELSE NoPort] = ports
  OBVIOUS
<1> QED BY <1>1 DEF EnvBlock, BlockOf, ProjectOf, InstanceOf

LEMMA UpRepairing ==
  ASSUME TypeInv, NEW p \in Procs, NEW dir \in Dirs, Up(p, dir, FALSE) \/ Up(p, dir, TRUE)
  PROVE  \E local : Repairing(local, config, env) /\ Start(p, local)
<1> DEFINE cfg == ConfigAt(dir)
<1>1. PICK cmd \in {"up", "force"}, instance \in Resolve(registry, cfg.project, dir),
           busy \in BusySets, alloc \in Allocations :
        LET key == <<cfg.project, instance>> IN
        /\ instance \in Instances /\ key \in Keys
        /\ alloc.dir = dir
        /\ IsAssignment(alloc.ports, cfg, key,
                        IF cmd = "force" THEN NoAlloc ELSE registry[key],
                        TakenByOthers(registry, key), busy)
        /\ Start(p, UpLocal(dir, cmd, instance, alloc))
  BY UpStarts
<1> DEFINE key   == <<cfg.project, instance>>
           block == EnvBlock(cfg, instance, alloc.ports)
           local == UpLocal(dir, cmd, instance, alloc)
<1>2. local.reg[key] = alloc
  BY <1>1, SetAt DEF UpLocal, Writing, TypeInv, TypeOK
<1>3. local.key = key /\ local.dir = dir /\ local.writes = EnvWrites(dir, cfg, block)
  BY DEF UpLocal, Writing
<1>4. alloc.ports \in [Services -> PortValues]
      /\ \A s \in Services \ cfg.svc : alloc.ports[s] = NoPort
  BY <1>1 DEF Allocations, IsAssignment
<1>5. block = BlockOf(key, alloc)
  BY <1>4, BlockIs
<1>6. SameFile[dir] \in Roots
  BY DEF Roots
<1> HIDE DEF local, block, key
<1>7. Repairing(local, config, env)
  BY <1>2, <1>3, <1>5, <1>6 DEF Repairing, EnvWrites, FilesOf
<1> QED BY <1>1, <1>7 DEF local

LEMMA RepairStep ==
  ASSUME OneAtATime, GoneForGood, TypeInv, RepairInv, [Next]_vars
  PROVE  RepairInv'
<1>1. ASSUME NEW p \in Procs, NEW local, Start(p, local),
             local.cmd \in {"up", "force"} => Repairing(local, config, env)
      PROVE  RepairInv'
  <2>1. env' = env /\ config' = config /\ \A q \in Procs : proc'[q] = local
    BY <1>1, AloneProc DEF Start
  <2> QED BY <1>1, <2>1 DEF RepairInv
<1>2. ASSUME NEW p \in Procs, Invoke(p) PROVE RepairInv'
  <2>1. ASSUME NEW dir \in Dirs, Up(p, dir, FALSE) \/ Up(p, dir, TRUE) PROVE RepairInv'
    BY <1>1, <2>1, UpRepairing
  <2>2. ASSUME NEW dir \in Dirs, Down(p, dir) PROVE RepairInv'
    <3>1. PICK cfg, key : Start(p, Writing("save", "down", dir, cfg, key, Remove(registry, key),
                                           EnvWrites(dir, cfg, NoBlock)))
      BY <2>2 DEF Down
    <3> QED BY <1>1, <3>1 DEF Writing
  <2>3. ASSUME NEW dir \in Dirs,
               \/ \E old, new \in Instances : Rename(p, dir, old, new)
               \/ PromoteOnly(p, dir) \/ PromoteDemote(p, dir)
        PROVE  RepairInv'
    <3>1. PICK local : local.cmd \in {"rename", "promote"} /\ Start(p, local)
      BY <2>3, MoveStarts
    <3> QED BY <1>1, <3>1
  <2>4. ASSUME Prune(p) PROVE RepairInv'
    BY <1>1, <2>4, PruneStarts
  <2> QED BY <1>2, <2>1, <2>2, <2>3, <2>4 DEF Invoke
<1>3. ASSUME NEW p \in Procs, Proceed(p) PROVE RepairInv'
  <2>1. CASE PromoteRest(p)
    <3>1. \A q \in Procs : proc'[q] = Promoted(proc[p], proc[p].key)
      BY <2>1, RestMoves, AloneProc
    <3>2. Promoted(proc[p], proc[p].key).cmd = "promote"
      BY <2>1, RestMoves
    <3> QED BY <3>1, <3>2 DEF RepairInv
  <2>2. CASE WriteEnv(p) \/ CleanSkipped(p)
    <3>1. PICK w \in proc[p].writes, after \in Locals :
            /\ w \in EnvFiles \X (Blocks \cup {NoBlock})
            /\ proc' = [proc EXCEPT ![p] = after]
            /\ SameCommand(proc[p], after)
            /\ after.writes = proc[p].writes \ {w}
            /\ \/ WriteEnv(p) /\ env' = [env EXCEPT ![w[1]] = w[2]]
               \/ CleanSkipped(p)
      BY <2>2, FileStep
    <3>2. Running(p) /\ config' = config /\ \A q \in Procs : proc'[q] = after
      BY <2>2, <3>1, AloneProc DEF WriteEnv, CleanSkipped
    <3> SUFFICES ASSUME proc[p].cmd \in {"up", "force"} PROVE Repairing(after, config, env')
      BY <3>1, <3>2 DEF RepairInv, SameCommand
    <3> DEFINE file  == SameFile[proc[p].dir]
               block == BlockOf(proc[p].key, proc[p].reg[proc[p].key])
    <3>3. Repairing(proc[p], config, env)
      BY <3>2 DEF RepairInv
    <3>4. env' = [env EXCEPT ![w[1]] = w[2]] /\ w[2] = block
      BY <3>1, <3>3 DEF CleanSkipped, Repairing
    <3>5. file \in EnvFiles /\ w = <<w[1], w[2]>>
      BY <3>1, <3>3 DEF Repairing, EnvFiles
    <3>6. env'[file] = IF file = w[1] THEN block ELSE env[file]
      BY <3>4, <3>5 DEF TypeInv, TypeOK
    <3>7. <<file, block>> \in after.writes \/ env'[file] = block \/ config[file] = Gone
      BY <3>1, <3>3, <3>4, <3>5, <3>6 DEF Repairing
    <3>8. after.dir = proc[p].dir /\ after.key = proc[p].key /\ after.reg = proc[p].reg
      BY <3>1 DEF SameCommand
    <3> QED BY <3>1, <3>3, <3>7, <3>8 DEF Repairing
  <2>3. CASE PromoteDenied(p) \/ MergeFails(p) \/ Save(p) \/ Abort(p)
    <3>1. proc' = [proc EXCEPT ![p] = Idle]
      BY <2>3 DEF PromoteDenied, MergeFails, Save, Abort
    <3> QED BY <3>1, AloneProc DEF RepairInv, Running
  <2> QED BY <1>3, <2>1, <2>2, <2>3 DEF Proceed
<1>4. ASSUME NEW r \in Roots, EditConfig(r) PROVE RepairInv'
  <2>1. PICK to \in Configs \cup {NoConfig, Gone} :
          /\ <<config[r], to>> \in Edits
          /\ config' = [config EXCEPT ![r] = to]
          /\ env' = [env EXCEPT ![r] = IF to = Gone THEN NoBlock ELSE @]
    BY <1>4 DEF EditConfig
  <2>2. config[r] = Gone => to = Gone
    BY <2>1 DEF GoneForGood
  <2>3. \A q \in Roots : /\ config[q] = Gone => config'[q] = Gone
                         /\ env'[q] = env[q] \/ config'[q] = Gone
    BY <2>1, <2>2 DEF TypeInv, TypeOK, EnvFiles
  <2>4. proc' = proc
    BY <1>4 DEF EditConfig
  <2> QED BY <2>3, <2>4 DEF RepairInv, Repairing, Running
<1>5. CASE UNCHANGED vars
  BY <1>5 DEF vars, RepairInv, Running
<1> QED BY <1>2, <1>3, <1>4, <1>5 DEF Next

\* However the previous commands ended and whatever is edited meanwhile, an up that saves
\* leaves a .env that says what its entry says (cmd/up.go, mergeEnvFiles before reg.Save).
THEOREM UpLeavesItRight ==
  ASSUME OneAtATime, GoneForGood
  PROVE  Spec => UpRepairs
<1> DEFINE Good == \A p \in Procs : Saves(p, {"up", "force"}) /\ ConfigAt(proc[p].dir) # Gone =>
                     LET key == proc[p].key IN
                     env[SameFile[proc[p].dir]] =
                       [project |-> ProjectOf(key), instance |-> InstanceOf(key),
                        ports |-> registry'[key].ports]
<1>1. RepairInv => Good
  BY DEF Saves, Save, RepairInv, Repairing, BlockOf, ConfigAt
<1>2. Init => RepairInv
  BY DEF Init, RepairInv, Running
<1>3. TypeInv /\ RepairInv /\ [Next]_vars => RepairInv'
  BY RepairStep
<1> QED BY <1>1, <1>2, <1>3, TypesInvariant, PTL DEF Spec, UpRepairs


-----------------------------------------------------------------------------
(* The env files and the registry, with one command at a time; kills,      *)
(* refusals, edits, renames from elsewhere and external files come as they *)
(* like.  A command makes its copy of the registry right first and then    *)
(* the files: so until it saves, the file of registry.json agrees with the *)
(* files it has not written, and its copy with those it will not write;    *)
(* what it writes is right for the copy.                                   *)

BlockKey(block) == <<block.project, block.instance>>

\* The block an env file should hold: that of the entry its directory has, and in any
\* case one of an entry whose directory lists the file.
Right(reg, conf, f, block) ==
  /\ \A k \in EntriesOf(reg, f) : block = BlockOf(k, reg[k])
  /\ block # NoBlock =>
       /\ BlockKey(block) \in Registered(reg)
       /\ f \in Listed(conf, SameFile[reg[BlockKey(block)].dir])

\* A block a command has written or will write, judged by its copy.
Suits(local, f, block) ==
  IF f \in Roots
  THEN /\ \A k \in EntriesOf(local.reg, f) : Fits(local, k) => block = BlockOf(k, local.reg[k])
       /\ block # NoBlock => BlockKey(block) \in EntriesOf(local.reg, f)
  ELSE IF local.stage = "promote" THEN f \in local.cfg.ext
  ELSE block # NoBlock => BlockKey(block) \in EntriesOf(local.reg, SameFile[local.dir])

Pending(local) == {w[1] : w \in local.writes}

Ready(local, conf, e, wr, un) ==
  /\ \A f \in EnvFiles \ (un \cup wr \cup Pending(local) \cup Unreached(local, e)) :
       Right(local.reg, conf, f, e[f])
  /\ local.cmd # "prune" /\ ~Astray(local) =>
       /\ \A w \in local.writes : Suits(local, w[1], w[2])
       /\ \A f \in (wr \cap EnvFiles) \ Pending(local) : Suits(local, f, e[f])
  /\ local.stage = "promote" => SameFile[local.reg[local.key].dir] = SameFile[local.dir]
  /\ local.cmd = "prune" => wr = {} /\ local.writes = {}

HistInv ==
  /\ \A f \in EnvFiles \ (unsettled \cup written) : Right(registry, config, f, env[f])
  /\ Quiescent => written = {}
  /\ \A p \in Procs : Running(p) => Ready(proc[p], config, env, written, unsettled)

\* A file stays right when only entries change that are neither of its directory nor
\* named in it.
LEMMA RightElsewhere ==
  ASSUME NEW reg, NEW after, NEW conf, NEW f, NEW block, Right(reg, conf, f, block),
         NEW changed,
         \A k \in Keys \ changed : after[k] = reg[k],
         \A k \in changed : after[k] # NoAlloc => SameFile[after[k].dir] # f,
         block # NoBlock => BlockKey(block) \notin changed
  PROVE  Right(after, conf, f, block)
<1>1. \A k \in EntriesOf(after, f) : block = BlockOf(k, after[k])
  <2> SUFFICES ASSUME NEW k \in EntriesOf(after, f) PROVE block = BlockOf(k, after[k])
    OBVIOUS
  <2>1. k \in Keys /\ after[k] # NoAlloc /\ SameFile[after[k].dir] = f
    BY DEF EntriesOf, Registered
  <2>2. after[k] = reg[k]
    BY <2>1
  <2>3. k \in EntriesOf(reg, f)
    BY <2>1, <2>2 DEF EntriesOf, Registered
  <2> QED BY <2>2, <2>3 DEF Right
<1>2. ASSUME block # NoBlock
      PROVE  /\ BlockKey(block) \in Registered(after)
             /\ f \in Listed(conf, SameFile[after[BlockKey(block)].dir])
  <2>1. /\ BlockKey(block) \in Registered(reg)
        /\ f \in Listed(conf, SameFile[reg[BlockKey(block)].dir])
    BY <1>2 DEF Right
  <2>2. after[BlockKey(block)] = reg[BlockKey(block)]
    BY <1>2, <2>1 DEF Registered
  <2> QED BY <2>1, <2>2 DEF Registered
<1> QED BY <1>1, <1>2 DEF Right

\* A file that a directory does not list does not name the directory's entry.
LEMMA NamesAnother ==
  ASSUME NEW reg, NEW conf, NEW f, NEW block, Right(reg, conf, f, block), block # NoBlock,
         NEW key, f \notin Listed(conf, SameFile[reg[key].dir])
  PROVE  BlockKey(block) # key
BY DEF Right

\* The .env of a directory is listed by that directory only.
LEMMA ListedElsewhere ==
  ASSUME NEW conf, NEW f \in Roots, NEW root, f # root
  PROVE  f \notin Listed(conf, root)
BY FilesApart, CliConstants DEF Listed

LEMMA WritesOf ==
  ASSUME NEW dir, NEW cfg, NEW block, NEW local, local.writes = EnvWrites(dir, cfg, block)
  PROVE  /\ Pending(local) = {SameFile[dir]} \cup cfg.ext
         /\ \A w \in local.writes : w[1] \in {SameFile[dir]} \cup cfg.ext /\ w[2] = block
<1>1. local.writes = {<<f, block>> : f \in {SameFile[dir]} \cup cfg.ext}
  BY DEF EnvWrites, FilesOf
<1>2. \A w \in local.writes : w[1] \in {SameFile[dir]} \cup cfg.ext /\ w[2] = block
  BY <1>1
<1>3. Pending(local) \subseteq {SameFile[dir]} \cup cfg.ext
  BY <1>2 DEF Pending
<1>4. ASSUME NEW f \in {SameFile[dir]} \cup cfg.ext PROVE f \in Pending(local)
  <2>1. <<f, block>> \in local.writes /\ <<f, block>>[1] = f
    BY <1>1
  <2> QED BY <2>1 DEF Pending
<1> QED BY <1>2, <1>3, <1>4

\* rename, or a half of promote, on the files of the directory at: in the copy, the entry
\* that reg has under the name old gets the name new.
Renames(local, reg, old, new, at) ==
  LET cfg   == local.cfg
      from  == <<cfg.project, old>>
      to    == <<cfg.project, new>>
      alloc == Rekeyed(cfg, new, reg[from])
  IN /\ local.cmd \in {"rename", "promote"} /\ cfg \in Configs
     /\ reg \in Registries /\ Single(reg)
     /\ old \in Instances /\ new \in Instances /\ old # new
     /\ reg[from] # NoAlloc /\ reg[to] = NoAlloc
     /\ local.reg = Set(Remove(reg, from), to, alloc)
     /\ local.writes = EnvWrites(at, cfg, EnvBlock(cfg, new, alloc.ports))

\* What comes of it: the entry alone changes its key, with its file and its ports; the
\* blocks that are to be written are the entry's where the config fits.
Renamed(local, reg, from, to, file, at) ==
  /\ file \in Roots
  /\ SameFile[local.reg[to].dir] = file
  /\ EntriesOf(local.reg, file) = {to}
  /\ Pending(local) = {SameFile[at]} \cup local.cfg.ext
  /\ \A w \in local.writes :
       /\ w[1] \in {SameFile[at]} \cup local.cfg.ext
       /\ BlockKey(w[2]) = to
       /\ Fits(local, to) => w[2] = BlockOf(to, local.reg[to])
  /\ \A conf, f, b :
       Right(reg, conf, f, b) /\ f # file /\ (b # NoBlock => BlockKey(b) # from) =>
         Right(local.reg, conf, f, b)
  /\ \A f : f # file =>
       /\ EntriesOf(local.reg, f) = EntriesOf(reg, f)
       /\ \A k \in EntriesOf(reg, f) : local.reg[k] = reg[k]

LEMMA EntryMoves ==
  ASSUME NEW local, NEW reg, NEW old, NEW new, NEW at, Renames(local, reg, old, new, at)
  PROVE  Renamed(local, reg, <<local.cfg.project, old>>, <<local.cfg.project, new>>,
                 SameFile[reg[<<local.cfg.project, old>>].dir], at)
<1> DEFINE cfg   == local.cfg
           from  == <<cfg.project, old>>
           to    == <<cfg.project, new>>
           alloc == Rekeyed(cfg, new, reg[from])
           after == local.reg
           file  == SameFile[reg[from].dir]
           block == EnvBlock(cfg, new, alloc.ports)
<1>1. /\ from \in Keys /\ to \in Keys /\ from # to
      /\ reg[from] # NoAlloc /\ reg[to] = NoAlloc
      /\ cfg \in Configs /\ reg \in Registries /\ Single(reg) /\ new \in Instances
      /\ local.cmd \in {"rename", "promote"}
      /\ after = Set(Remove(reg, from), to, alloc)
      /\ local.writes = EnvWrites(at, cfg, block)
  BY CliConstants DEF Keys, Renames
<1>2. reg[from] \in Allocations /\ from \in Registered(reg)
  BY <1>1 DEF Registries, Registered
<1>3. /\ alloc \in Allocations /\ SameFile[alloc.dir] = file
  BY <1>1, <1>2, RekeyedType DEF Rekeyed, WithApprovals, Build
<1>4. file \in Roots
  BY <1>2 DEF Allocations, Roots
<1>5. BlockKey(block) = to
  BY DEF BlockKey, EnvBlock
<1>6. \A k \in Keys : after[k] = IF k = to THEN alloc ELSE IF k = from THEN NoAlloc ELSE reg[k]
  BY <1>1, MovedAt
<1>7. {s \in Services : alloc.ports[s] # NoPort} = cfg.svc => block = BlockOf(to, alloc)
  <2> SUFFICES ASSUME {s \in Services : alloc.ports[s] # NoPort} = cfg.svc
               PROVE  block = BlockOf(to, alloc)
    OBVIOUS
  <2>1. alloc.ports \in [Services -> PortValues]
        /\ \A s \in Services \ cfg.svc : alloc.ports[s] = NoPort
    BY <1>3 DEF Allocations
  <2> QED BY <2>1, BlockIs
<1>8. /\ Pending(local) = {SameFile[at]} \cup cfg.ext
      /\ \A w \in local.writes : w[1] \in {SameFile[at]} \cup cfg.ext /\ w[2] = block
  BY <1>1, WritesOf
<1>9. alloc # NoAlloc
  BY <1>3, Sentinels
<1>10. after[to] = alloc
  BY <1>1, <1>6
<1>11. Fits(local, to) => block = BlockOf(to, after[to])
  BY <1>1, <1>7, <1>10 DEF Fits
<1> HIDE DEF from, to, alloc, after, file, block
<1>12. \A k \in Registered(reg) : SameFile[reg[k].dir] = file => k = from
  BY <1>1, <1>2 DEF Single, file
<1>13. EntriesOf(after, file) = {to}
  <2>1. to \in EntriesOf(after, file)
    BY <1>1, <1>3, <1>9, <1>10 DEF EntriesOf, Registered
  <2>2. ASSUME NEW k \in EntriesOf(after, file), k # to PROVE FALSE
    <3>1. k \in Keys /\ after[k] # NoAlloc /\ SameFile[after[k].dir] = file
      BY <2>2 DEF EntriesOf, Registered
    <3>2. k # from /\ after[k] = reg[k]
      BY <1>6, <2>2, <3>1
    <3> QED BY <1>12, <3>1, <3>2 DEF Registered
  <2> QED BY <2>1, <2>2
<1>14. ASSUME NEW conf, NEW f, NEW b, Right(reg, conf, f, b), f # file,
              b # NoBlock => BlockKey(b) # from
       PROVE  Right(after, conf, f, b)
  <2>1. b # NoBlock => BlockKey(b) # to
    BY <1>1, <1>14 DEF Right, Registered
  <2> DEFINE changed == {from, to}
  <2>2. \A k \in changed : after[k] # NoAlloc => SameFile[after[k].dir] # f
    BY <1>1, <1>3, <1>6, <1>14
  <2>3. \A k \in Keys \ changed : after[k] = reg[k]
    BY <1>6
  <2>4. b # NoBlock => BlockKey(b) \notin changed
    BY <1>14, <2>1
  <2> HIDE DEF changed
  <2> QED BY <1>14, <2>2, <2>3, <2>4, RightElsewhere
<1>15. ASSUME NEW f, f # file
       PROVE  /\ EntriesOf(after, f) = EntriesOf(reg, f)
              /\ \A k \in EntriesOf(reg, f) : after[k] = reg[k]
  <2>1. \A k \in EntriesOf(reg, f) : k \in Keys /\ reg[k] # NoAlloc /\ SameFile[reg[k].dir] = f
    BY DEF EntriesOf, Registered
  <2>2. \A k \in EntriesOf(reg, f) : k # from /\ k # to
    BY <1>1, <1>15, <2>1 DEF file
  <2>3. \A k \in EntriesOf(reg, f) : after[k] = reg[k]
    BY <1>6, <2>1, <2>2
  <2>4. \A k \in EntriesOf(after, f) : k \in Keys /\ after[k] # NoAlloc /\ SameFile[after[k].dir] = f
    BY DEF EntriesOf, Registered
  <2>5. \A k \in EntriesOf(after, f) : after[k] = reg[k]
    BY <1>3, <1>6, <1>15, <2>4
  <2>6. EntriesOf(after, f) \subseteq EntriesOf(reg, f)
    BY <2>4, <2>5 DEF EntriesOf, Registered
  <2>7. EntriesOf(reg, f) \subseteq EntriesOf(after, f)
    BY <2>1, <2>3 DEF EntriesOf, Registered
  <2> QED BY <2>3, <2>6, <2>7
<1>16. /\ SameFile[after[to].dir] = file
       /\ \A w \in local.writes :
            /\ w[1] \in {SameFile[at]} \cup local.cfg.ext
            /\ BlockKey(w[2]) = to
            /\ Fits(local, to) => w[2] = BlockOf(to, after[to])
  BY <1>3, <1>5, <1>8, <1>10, <1>11
<1>17. Renamed(local, reg, from, to, file, at)
  BY <1>4, <1>8, <1>13, <1>14, <1>15, <1>16 DEF Renamed, after
<1> QED BY <1>17 DEF from, to, file

\* Between two commands: every settled file is right.
Settled == \A f \in EnvFiles \ unsettled : Right(registry, config, f, env[f])

\* up and down change the entry of their directory and handle all the files it lists.
LEMMA OneDirectory ==
  ASSUME TypeInv, Settled, NEW dir \in Dirs, NEW cfg \in Configs, cfg = ConfigAt(dir),
         NEW key \in Keys, registry[key] # NoAlloc => SameFile[registry[key].dir] = SameFile[dir],
         NEW block, NEW local, local.cmd \in {"up", "force", "down"}, local.stage = "save",
         local.dir = dir, local.writes = EnvWrites(dir, cfg, block),
         \A k \in Keys \ {key} : local.reg[k] = registry[k],
         local.reg[key] # NoAlloc => SameFile[local.reg[key].dir] = SameFile[dir],
         \A k \in EntriesOf(local.reg, SameFile[dir]) : block = BlockOf(k, local.reg[k]),
         block # NoBlock => BlockKey(block) \in EntriesOf(local.reg, SameFile[dir])
  PROVE  Ready(local, config, env, {}, unsettled)
<1> DEFINE root == SameFile[dir]
<1>1. /\ Pending(local) = {root} \cup cfg.ext
      /\ \A w \in local.writes : w[1] \in {root} \cup cfg.ext /\ w[2] = block
  BY WritesOf
<1>2. root \in Roots /\ cfg.ext \subseteq ExtFiles /\ Listed(config, root) = {root} \cup cfg.ext
  BY CliConstants DEF Roots, Listed, ConfigAt
<1>3. ASSUME NEW f \in EnvFiles \ (unsettled \cup Pending(local))
      PROVE  Right(local.reg, config, f, env[f])
  <2>1. Right(registry, config, f, env[f])
    BY DEF Settled
  <2>2. f # root /\ f \notin Listed(config, root)
    BY <1>1, <1>2
  <2> DEFINE changed == {key}
  <2>3. env[f] # NoBlock => BlockKey(env[f]) \notin changed
    BY <2>1, <2>2 DEF Right, Registered
  <2>4. \A k \in changed : local.reg[k] # NoAlloc => SameFile[local.reg[k].dir] # f
    BY <2>2
  <2>5. \A k \in Keys \ changed : local.reg[k] = registry[k]
    OBVIOUS
  <2> HIDE DEF changed
  <2> QED BY <2>1, <2>3, <2>4, <2>5, RightElsewhere
<1>4. ASSUME NEW w \in local.writes PROVE Suits(local, w[1], w[2])
  BY <1>1, <1>2, FilesApart DEF Suits
<1> QED BY <1>3, <1>4 DEF Ready

LEMMA UpReady ==
  ASSUME TypeInv, DirInv, Settled, NEW p \in Procs, NEW dir \in Dirs,
         Up(p, dir, FALSE) \/ Up(p, dir, TRUE)
  PROVE  \E local : Ready(local, config, env, {}, unsettled) /\ Start(p, local)
<1> DEFINE cfg == ConfigAt(dir)
<1>1. PICK cmd \in {"up", "force"}, instance \in Resolve(registry, cfg.project, dir),
           busy \in BusySets, alloc \in Allocations :
        LET key == <<cfg.project, instance>> IN
        /\ instance \in Instances /\ key \in Keys
        /\ alloc.dir = dir
        /\ IsAssignment(alloc.ports, cfg, key,
                        IF cmd = "force" THEN NoAlloc ELSE registry[key],
                        TakenByOthers(registry, key), busy)
        /\ Start(p, UpLocal(dir, cmd, instance, alloc))
  BY UpStarts
<1> DEFINE key   == <<cfg.project, instance>>
           block == EnvBlock(cfg, instance, alloc.ports)
           local == UpLocal(dir, cmd, instance, alloc)
<1>2. registry \in Registries /\ cfg \in Configs /\ Placed(registry, config)
  BY UpStarts DEF TypeInv, TypeOK, DirInv, Copies
<1>3. /\ local.cmd \in {"up", "force", "down"} /\ local.stage = "save" /\ local.dir = dir
      /\ local.reg = Set(registry, key, alloc) /\ local.writes = EnvWrites(dir, cfg, block)
  BY DEF UpLocal, Writing
<1>4. registry[key] # NoAlloc => SameFile[registry[key].dir] = SameFile[dir]
  BY <1>2, ResolveFinds DEF ConfigAt, Placed
<1>5. \A k \in Keys : local.reg[k] = IF k = key THEN alloc ELSE registry[k]
  BY <1>1, <1>2, <1>3, SetAt
<1>6. alloc.ports \in [Services -> PortValues]
      /\ \A s \in Services \ cfg.svc : alloc.ports[s] = NoPort
  BY <1>1 DEF Allocations, IsAssignment
<1>7. block = BlockOf(key, alloc) /\ BlockKey(block) = key
  BY <1>6, BlockIs DEF BlockKey, EnvBlock
<1>8. Single(local.reg)
  BY <1>1, <1>2, <1>3, UpPlaced DEF ConfigAt, Placed
<1>9. alloc # NoAlloc /\ key \in Keys
  BY <1>1, Sentinels
<1> HIDE DEF local, block, key
<1>10. key \in EntriesOf(local.reg, SameFile[dir])
  BY <1>1, <1>5, <1>9 DEF EntriesOf, Registered
<1>11. \A k \in EntriesOf(local.reg, SameFile[dir]) : k = key
  BY <1>8, <1>10 DEF Single, EntriesOf
<1>12. \A k \in EntriesOf(local.reg, SameFile[dir]) : block = BlockOf(k, local.reg[k])
  BY <1>5, <1>7, <1>9, <1>11
<1>13. /\ \A k \in Keys \ {key} : local.reg[k] = registry[k]
       /\ local.reg[key] # NoAlloc => SameFile[local.reg[key].dir] = SameFile[dir]
  BY <1>1, <1>5, <1>9
<1>14. block # NoBlock => BlockKey(block) \in EntriesOf(local.reg, SameFile[dir])
  BY <1>7, <1>10
<1> HIDE DEF cfg
<1>15. cfg = ConfigAt(dir)
  BY DEF cfg
<1>16. Ready(local, config, env, {}, unsettled)
  BY <1>2, <1>3, <1>4, <1>9, <1>12, <1>13, <1>14, <1>15, OneDirectory
<1> QED BY <1>1, <1>16 DEF local

LEMMA DownReady ==
  ASSUME TypeInv, DirInv, Settled, NEW p \in Procs, NEW dir \in Dirs, Down(p, dir)
  PROVE  \E local : Ready(local, config, env, {}, unsettled) /\ Start(p, local)
<1> DEFINE cfg == ConfigAt(dir)
<1>1. PICK instance \in Resolve(registry, cfg.project, dir) :
        LET key == <<cfg.project, instance>> IN
        /\ cfg \in Configs /\ key \in Keys /\ registry[key] # NoAlloc
        /\ Start(p, Writing("save", "down", dir, cfg, key, Remove(registry, key),
                            EnvWrites(dir, cfg, NoBlock)))
  BY DownStarts
<1> DEFINE key   == <<cfg.project, instance>>
           local == Writing("save", "down", dir, cfg, key, Remove(registry, key),
                            EnvWrites(dir, cfg, NoBlock))
<1>2. registry \in Registries /\ Placed(registry, config)
  BY DEF TypeInv, TypeOK, DirInv, Copies
<1>3. /\ SameFile[registry[key].dir] = SameFile[dir]
      /\ \A k \in Registered(registry) : SameFile[registry[k].dir] = SameFile[dir] => k = key
  BY <1>1, <1>2, ResolveFinds DEF ConfigAt, Placed
<1>4. /\ local.cmd \in {"up", "force", "down"} /\ local.stage = "save" /\ local.dir = dir
      /\ local.reg = Remove(registry, key) /\ local.writes = EnvWrites(dir, cfg, NoBlock)
  BY DEF Writing
<1>5. \A k \in Keys : local.reg[k] = IF k = key THEN NoAlloc ELSE registry[k]
  BY <1>2, <1>4 DEF Remove, Registries
<1>6. key \in Keys /\ cfg \in Configs
  BY <1>1
<1> HIDE DEF local, key
<1>7. EntriesOf(local.reg, SameFile[dir]) = {}
  BY <1>3, <1>5 DEF EntriesOf, Registered
<1>8. /\ \A k \in Keys \ {key} : local.reg[k] = registry[k]
      /\ local.reg[key] = NoAlloc
  BY <1>5, <1>6
<1> HIDE DEF cfg
<1>9. cfg = ConfigAt(dir)
  BY DEF cfg
<1>10. Ready(local, config, env, {}, unsettled)
  BY <1>3, <1>4, <1>6, <1>7, <1>8, <1>9, OneDirectory
<1> QED BY <1>1, <1>10 DEF local, key

\* prune leaves the entry of every directory that has its config, and only such
\* directories list files.
LEMMA PruneReady ==
  ASSUME TypeInv, DirInv, Settled, NEW p \in Procs, Prune(p)
  PROVE  \E local : Ready(local, config, env, {}, unsettled) /\ Start(p, local)
<1>1. PICK pruned \in PruneDuplicateDirs(RemoveStale(registry, StaleDirs), MissingDirs) :
        /\ \A k \in Keys : pruned[k] \in {registry[k], NoAlloc}
        /\ Start(p, [stage |-> "save", cmd |-> "prune", reg |-> pruned, writes |-> {}])
  BY PruneStarts
<1> DEFINE local == [stage |-> "save", cmd |-> "prune", reg |-> pruned, writes |-> {}]
<1>2. registry \in Registries /\ Single(registry) /\ Gathered(registry, pruned, config)
  BY PruneGathers DEF TypeInv, TypeOK, DirInv, Copies, Placed
<1>3. ASSUME NEW f \in EnvFiles \ unsettled PROVE Right(pruned, config, f, env[f])
  <2> DEFINE changed == {k \in Keys : pruned[k] # registry[k]}
  <2>1. Right(registry, config, f, env[f])
    BY DEF Settled
  <2>2. \A k \in changed : pruned[k] = NoAlloc
    BY <1>1
  <2>3. ASSUME env[f] # NoBlock PROVE BlockKey(env[f]) \notin changed
    <3> DEFINE key  == BlockKey(env[f])
               root == SameFile[registry[key].dir]
    <3>1. key \in Registered(registry) /\ f \in Listed(config, root)
      BY <2>1, <2>3 DEF Right
    <3>2. root \in Roots /\ config[root] \in Configs
      BY <1>2, <3>1 DEF Listed, Registered, Registries, Allocations, Roots
    <3>3. key \in EntriesOf(registry, root)
      BY <3>1 DEF EntriesOf
    <3>4. PICK k : k \in EntriesOf(pruned, root)
      BY <1>2, <3>2, <3>3 DEF Gathered
    <3>5. k \in Keys /\ pruned[k] # NoAlloc /\ SameFile[pruned[k].dir] = root
      BY <3>4 DEF EntriesOf, Registered
    <3>6. pruned[k] = registry[k]
      BY <1>1, <3>5
    <3>7. k = key
      BY <1>2, <3>1, <3>5, <3>6 DEF Single, Registered
    <3> QED BY <3>6, <3>7
  <2>4. \A k \in Keys \ changed : pruned[k] = registry[k]
    OBVIOUS
  <2> HIDE DEF changed
  <2> QED BY <2>1, <2>2, <2>3, <2>4, RightElsewhere
<1>4. Ready(local, config, env, {}, unsettled)
  BY <1>3 DEF Ready, Pending
<1> HIDE DEF local
<1> QED BY <1>1, <1>4 DEF local

\* A file that is not that of the entry's directory, and not an external one with a block of
\* its project, does not name the entry.
LEMMA NamesNoneHere ==
  ASSUME NEW reg, NEW conf, NEW f \in EnvFiles, NEW block, Right(reg, conf, f, block),
         NEW project, NEW old, f # SameFile[reg[<<project, old>>].dir],
         f \in ExtFiles /\ block # NoBlock => block.project # project
  PROVE  block # NoBlock => BlockKey(block) # <<project, old>>
<1>1. CASE f \in Roots
  BY <1>1, ListedElsewhere, NamesAnother
<1>2. CASE f \in ExtFiles
  BY <1>2 DEF BlockKey
<1> QED BY <1>1, <1>2 DEF EnvFiles

\* A move is ready when it writes the files of the entry's directory, or when that file
\* counts as one it does not reach.
LEMMA MoveReady ==
  ASSUME NEW local, NEW reg, NEW old, NEW new, NEW at, Renames(local, reg, old, new, at),
         NEW from, from = <<local.cfg.project, old>>,
         NEW file, file = SameFile[reg[from].dir],
         NEW conf, NEW e, NEW wr, NEW un,
         ~Astray(local) => SameFile[at] = file /\ (local.stage # "promote" => SameFile[local.dir] = file),
         Astray(local) => file \in Unreached(local, e),
         local.stage = "promote" => SameFile[local.reg[local.key].dir] = SameFile[local.dir],
         \A f \in EnvFiles \ (un \cup wr \cup Pending(local) \cup Unreached(local, e)) :
           /\ Right(reg, conf, f, e[f])
           /\ e[f] # NoBlock => BlockKey(e[f]) # from,
         \A f \in (wr \cap EnvFiles) \ Pending(local) :
           /\ f \in Roots
           /\ \A k \in EntriesOf(reg, f) :
                {s \in Services : reg[k].ports[s] # NoPort} = local.cfg.svc =>
                  e[f] = BlockOf(k, reg[k])
           /\ e[f] # NoBlock => BlockKey(e[f]) \in EntriesOf(reg, f)
  PROVE  Ready(local, conf, e, wr, un)
<1> DEFINE after == local.reg
           to    == <<local.cfg.project, new>>
<1>1. Renamed(local, reg, from, to, file, at)
  BY EntryMoves
<1> HIDE DEF to
<1>2. /\ file \in Roots
      /\ EntriesOf(after, file) = {to}
      /\ Pending(local) = {SameFile[at]} \cup local.cfg.ext
      /\ \A w \in local.writes :
           /\ w[1] \in {SameFile[at]} \cup local.cfg.ext
           /\ BlockKey(w[2]) = to
           /\ Fits(local, to) => w[2] = BlockOf(to, after[to])
      /\ \A f : f # file =>
           /\ EntriesOf(after, f) = EntriesOf(reg, f)
           /\ \A k \in EntriesOf(reg, f) : after[k] = reg[k]
  BY <1>1 DEF Renamed
<1>3. local.cmd \in {"rename", "promote"} /\ local.cfg.ext \subseteq ExtFiles
  BY CliConstants DEF Renames
<1>4. ASSUME NEW f \in EnvFiles \ (un \cup wr \cup Pending(local) \cup Unreached(local, e))
      PROVE  Right(after, conf, f, e[f])
  <2>1. f # file
    BY <1>2
  <2> QED BY <1>1, <2>1 DEF Renamed
<1>5. \A k : Fits(local, k) <=> {s \in Services : after[k].ports[s] # NoPort} = local.cfg.svc
  BY <1>3 DEF Fits
<1>6. ASSUME ~Astray(local), NEW w \in local.writes PROVE Suits(local, w[1], w[2])
  <2>1. CASE w[1] = file
    BY <1>2, <2>1 DEF Suits
  <2>2. CASE w[1] # file
    <3>1. w[1] \in local.cfg.ext /\ w[1] \notin Roots
      BY <1>2, <1>3, <1>6, <2>2, FilesApart
    <3>2. local.stage # "promote" => BlockKey(w[2]) \in EntriesOf(after, SameFile[local.dir])
      BY <1>2, <1>6
    <3> QED BY <3>1, <3>2 DEF Suits
  <2> QED BY <2>1, <2>2
<1>7. ASSUME ~Astray(local), NEW f \in (wr \cap EnvFiles) \ Pending(local) PROVE Suits(local, f, e[f])
  <2>1. f # file /\ f \in Roots
    BY <1>2, <1>7
  <2>2. EntriesOf(after, f) = EntriesOf(reg, f) /\ \A k \in EntriesOf(reg, f) : after[k] = reg[k]
    BY <1>2, <2>1
  <2>3. \A k \in EntriesOf(after, f) : Fits(local, k) => e[f] = BlockOf(k, after[k])
    BY <1>5, <2>2
  <2>4. e[f] # NoBlock => BlockKey(e[f]) \in EntriesOf(after, f)
    BY <2>2
  <2> QED BY <2>1, <2>3, <2>4 DEF Suits
<1> QED BY <1>3, <1>4, <1>6, <1>7 DEF Ready

LEMMA RenameReady ==
  ASSUME TypeInv, DirInv, Settled, NEW p \in Procs, NEW dir \in Dirs,
         NEW old \in Instances, NEW new \in Instances, Rename(p, dir, old, new)
  PROVE  \E local : Ready(local, config, env, {}, unsettled) /\ Start(p, local)
<1> DEFINE cfg   == ConfigAt(dir)
           from  == <<cfg.project, old>>
           to    == <<cfg.project, new>>
           alloc == Rekeyed(cfg, new, registry[from])
           block == EnvBlock(cfg, new, alloc.ports)
           local == Writing("save", "rename", dir, cfg, to, Set(Remove(registry, from), to, alloc),
                            EnvWrites(dir, cfg, block))
           file  == SameFile[registry[from].dir]
<1>1. /\ cfg \in Configs /\ old # new /\ registry[from] # NoAlloc /\ registry[to] = NoAlloc
      /\ Start(p, local)
  BY DEF Rename
<1>2. registry \in Registries /\ Single(registry)
  BY DEF TypeInv, TypeOK, DirInv, Copies, Placed
<1>3. /\ local.cmd = "rename" /\ local.stage = "save" /\ local.dir = dir /\ local.cfg = cfg
      /\ local.key = to /\ local.reg = Set(Remove(registry, from), to, alloc)
      /\ local.writes = EnvWrites(dir, cfg, block)
  BY DEF Writing
<1> HIDE DEF local
<1>4. Renames(local, registry, old, new, dir)
  <2>1. alloc = Rekeyed(cfg, new, registry[from])
    OBVIOUS
  <2> HIDE DEF alloc, cfg
  <2> QED BY <1>1, <1>2, <1>3, <2>1 DEF Renames
<1>5. /\ SameFile[local.reg[to].dir] = file /\ file \in Roots
      /\ Pending(local) = {SameFile[dir]} \cup cfg.ext
  <2>1. Renamed(local, registry, from, to, file, dir)
    BY <1>3, <1>4, EntryMoves
  <2> QED BY <1>3, <2>1 DEF Renamed
<1> HIDE DEF file, cfg
<1>6. Astray(local) <=> file # SameFile[dir]
  BY <1>3, <1>5 DEF Astray
<1>7. ASSUME NEW f \in EnvFiles \ (unsettled \cup Pending(local) \cup Unreached(local, env))
      PROVE  Right(registry, config, f, env[f]) /\ (env[f] # NoBlock => BlockKey(env[f]) # from)
  <2>1. Right(registry, config, f, env[f])
    BY DEF Settled
  <2>2. CASE Astray(local)
    <3>1. /\ f # file
          /\ f \in ExtFiles /\ env[f] # NoBlock => env[f].project # cfg.project
      BY <1>3, <1>5, <2>2 DEF Unreached
    <3> QED BY <2>1, <3>1, NamesNoneHere DEF file
  <2>3. CASE ~Astray(local)
    <3>1. f \notin Listed(config, file)
      BY <1>1, <1>5, <1>6, <2>3 DEF Listed, ConfigAt, cfg
    <3> QED BY <2>1, <3>1, NamesAnother DEF file
  <2> QED BY <2>1, <2>2, <2>3
<1>8. Astray(local) => file \in Unreached(local, env)
  BY <1>3, <1>5 DEF Unreached
<1>9. ~Astray(local) => SameFile[dir] = file /\ SameFile[local.dir] = file
  BY <1>3, <1>6
<1>10. file = SameFile[registry[from].dir]
  BY DEF file
<1>11. from = <<local.cfg.project, old>>
  BY <1>3
<1> HIDE DEF from
<1>12. Ready(local, config, env, {}, unsettled)
  BY <1>3, <1>4, <1>7, <1>8, <1>9, <1>10, <1>11, MoveReady
<1> QED BY <1>1, <1>12 DEF local, cfg, from

\* The second half of promote, from a first half that has written its files.
LEMMA PromotedReady ==
  ASSUME NEW half, half.cmd = "promote", half.stage = "promote", half.writes = {},
         half.reg \in Registries, Single(half.reg), half.cfg \in Configs,
         NEW instance \in Instances, instance # Main, half.key = <<half.cfg.project, instance>>,
         half.reg[half.key] # NoAlloc, half.reg[<<half.cfg.project, Main>>] = NoAlloc,
         NEW conf, NEW e, NEW wr, NEW un, Ready(half, conf, e, wr, un)
  PROVE  Ready(Promoted(half, half.key), conf, e, wr, un)
<1> DEFINE cfg   == half.cfg
           from  == half.key
           to    == <<cfg.project, Main>>
           alloc == Rekeyed(cfg, Main, half.reg[from])
           block == EnvBlock(cfg, Main, alloc.ports)
           local == Promoted(half, from)
           file  == SameFile[half.reg[from].dir]
<1>1. /\ local.cmd = "promote" /\ local.stage = "save" /\ local.dir = half.dir /\ local.cfg = cfg
      /\ local.reg = Set(Remove(half.reg, from), to, alloc)
      /\ local.writes = EnvWrites(half.dir, cfg, block)
  BY DEF Promoted, Writing
<1>2. /\ \A f \in EnvFiles \ (un \cup wr \cup Pending(half) \cup Unreached(half, e)) :
           Right(half.reg, conf, f, e[f])
      /\ ~Astray(half) => \A f \in (wr \cap EnvFiles) \ Pending(half) : Suits(half, f, e[f])
      /\ file = SameFile[half.dir]
  BY DEF Ready
<1>3. Pending(half) = {} /\ ~Astray(half) /\ ~Astray(local)
  BY <1>1 DEF Pending, Astray
<1>4. Unreached(half, e) = Unreached(local, e)
  BY <1>1, <1>3 DEF Unreached
<1>5. Renames(local, half.reg, instance, Main, half.dir)
  BY <1>1, RegistryConstants DEF Renames
<1>6. Pending(local) = {file} \cup cfg.ext
  BY <1>1, <1>2, WritesOf
<1> HIDE DEF local, file
<1>7. ASSUME NEW f \in EnvFiles \ (un \cup wr \cup Pending(local) \cup Unreached(local, e))
      PROVE  Right(half.reg, conf, f, e[f]) /\ (e[f] # NoBlock => BlockKey(e[f]) # from)
  <2>1. Right(half.reg, conf, f, e[f])
    BY <1>2, <1>3, <1>4
  <2>2. f # file /\ (f \in ExtFiles /\ e[f] # NoBlock => e[f].project # cfg.project)
    BY <1>1, <1>3, <1>6 DEF Unreached
  <2>3. f # SameFile[half.reg[<<cfg.project, instance>>].dir] /\ f \in EnvFiles
    BY <2>2 DEF file
  <2> HIDE DEF cfg, from
  <2>4. e[f] # NoBlock => BlockKey(e[f]) # <<cfg.project, instance>>
    BY <2>1, <2>2, <2>3, NamesNoneHere
  <2> QED BY <2>1, <2>4 DEF cfg, from
<1>8. ASSUME NEW f \in (wr \cap EnvFiles) \ Pending(local)
      PROVE  /\ f \in Roots
             /\ \A k \in EntriesOf(half.reg, f) :
                  {s \in Services : half.reg[k].ports[s] # NoPort} = cfg.svc =>
                    e[f] = BlockOf(k, half.reg[k])
             /\ e[f] # NoBlock => BlockKey(e[f]) \in EntriesOf(half.reg, f)
  <2>1. Suits(half, f, e[f]) /\ f \notin cfg.ext
    BY <1>2, <1>3, <1>6
  <2> QED BY <2>1 DEF Suits, Fits
<1>9. file = SameFile[half.reg[from].dir] /\ SameFile[local.dir] = file /\ SameFile[half.dir] = file
  BY <1>1, <1>2 DEF file
<1> HIDE DEF from
<1>10. from = <<local.cfg.project, instance>>
  BY <1>1 DEF from
<1>11. Ready(local, conf, e, wr, un)
  BY <1>1, <1>3, <1>5, <1>7, <1>8, <1>9, <1>10, MoveReady
<1> QED BY <1>11 DEF local, from

LEMMA PromoteOnlyReady ==
  ASSUME TypeInv, DirInv, Settled, NEW p \in Procs, NEW dir \in Dirs, PromoteOnly(p, dir)
  PROVE  \E local : Ready(local, config, env, {}, unsettled) /\ Start(p, local)
<1> DEFINE cfg  == ConfigAt(dir)
           main == <<cfg.project, Main>>
<1>1. PICK instance \in Resolve(registry, cfg.project, dir) \ {Main} :
        /\ cfg \in Configs
        /\ registry[<<cfg.project, instance>>] # NoAlloc
        /\ registry[main] = NoAlloc
        /\ Start(p, Promoted([cfg |-> cfg, dir |-> dir, reg |-> registry],
                             <<cfg.project, instance>>))
  BY DEF PromoteOnly
<1> DEFINE key  == <<cfg.project, instance>>
           half == Writing("promote", "promote", dir, cfg, key, registry, {})
<1>2. registry \in Registries /\ Single(registry) /\ Homed(registry, config)
  BY DEF TypeInv, TypeOK, DirInv, Copies, Placed
<1>3. SameFile[registry[key].dir] = SameFile[dir]
  BY <1>1, <1>2, ResolveFinds DEF ConfigAt
<1>4. instance \in Instances
  BY <1>1, ResolveType
<1>5. /\ half.cmd = "promote" /\ half.stage = "promote" /\ half.writes = {} /\ half.cfg = cfg
      /\ half.dir = dir /\ half.key = key /\ half.reg = registry
  BY DEF Writing
<1>6. Promoted([cfg |-> cfg, dir |-> dir, reg |-> registry], key) = Promoted(half, key)
  BY <1>5 DEF Promoted
<1> HIDE DEF half, key
<1>7. Ready(half, config, env, {}, unsettled)
  BY <1>3, <1>5 DEF Ready, Settled
<1>8. Ready(Promoted(half, half.key), config, env, {}, unsettled)
  BY <1>1, <1>2, <1>4, <1>5, <1>7, PromotedReady DEF key
<1> QED BY <1>1, <1>5, <1>6, <1>8 DEF key

LEMMA PromoteDemoteReady ==
  ASSUME TypeInv, DirInv, Settled, NEW p \in Procs, NEW dir \in Dirs, PromoteDemote(p, dir)
  PROVE  \E local : Ready(local, config, env, {}, unsettled) /\ Start(p, local)
<1> DEFINE cfg  == ConfigAt(dir)
           main == <<cfg.project, Main>>
           old  == registry[main]
           used == {InstanceOf(k) : k \in FindByProject(registry, cfg.project)}
           alloc(code) == Rekeyed(cfg, code, old)
           state(instance, code) ==
             Writing("promote", "promote", dir, cfg, <<cfg.project, instance>>,
                     Set(Remove(registry, main), <<cfg.project, code>>, alloc(code)),
                     EnvWrites(old.dir, cfg, EnvBlock(cfg, code, alloc(code).ports)))
<1>1. PICK instance \in Resolve(registry, cfg.project, dir) \ {Main}, code \in GenerateCode(used) :
        /\ cfg \in Configs
        /\ registry[<<cfg.project, instance>>] # NoAlloc
        /\ old # NoAlloc
        /\ Start(p, state(instance, code))
  BY DEF PromoteDemote
<1> DEFINE key   == <<cfg.project, instance>>
           to    == <<cfg.project, code>>
           local == state(instance, code)
           file  == SameFile[old.dir]
           moved == alloc(code)
           at    == old.dir
<1>2. registry \in Registries /\ Single(registry) /\ Homed(registry, config)
  BY DEF TypeInv, TypeOK, DirInv, Copies, Placed
<1>3. /\ code \in Instances /\ code # Main /\ code \notin used
      /\ Main \in Instances /\ instance \in Instances
  BY <1>1, ResolveType, RegistryConstants DEF GenerateCode
<1>4. key \in Keys /\ main \in Keys /\ to \in Keys
  BY <1>1, <1>3, CliConstants DEF Keys
<1>5. \A k \in FindByProject(registry, cfg.project) : k # to
  BY <1>3 DEF InstanceOf
<1>6. registry[to] = NoAlloc
  BY <1>4, <1>5 DEF FindByProject, Registered, ProjectOf
<1>7. key # main /\ key # to /\ SameFile[registry[key].dir] = SameFile[dir]
  BY <1>1, <1>2, <1>6, ResolveFinds DEF ConfigAt
<1>8. /\ local.cmd = "promote" /\ local.stage = "promote" /\ local.dir = dir /\ local.cfg = cfg
      /\ local.key = key /\ local.reg = Set(Remove(registry, main), to, moved)
      /\ local.writes = EnvWrites(at, cfg, EnvBlock(cfg, code, moved.ports))
  BY DEF Writing
<1> HIDE DEF local, at, moved
<1>9. Renames(local, registry, Main, code, at)
  <2>1. moved = Rekeyed(cfg, code, registry[main])
    BY DEF moved
  <2> HIDE DEF cfg
  <2> QED BY <1>1, <1>2, <1>3, <1>6, <1>8, <2>1 DEF Renames
<1>10. /\ SameFile[local.reg[local.key].dir] = SameFile[local.dir]
       /\ Pending(local) = {SameFile[at]} \cup cfg.ext
  <2>1. local.reg[key] = registry[key]
    BY <1>2, <1>4, <1>7, <1>8, MovedAt
  <2> QED BY <1>7, <1>8, <2>1, WritesOf
<1> HIDE DEF file, cfg, main
<1>11. /\ ~Astray(local) /\ SameFile[at] = file
       /\ main = <<local.cfg.project, Main>> /\ file = SameFile[registry[main].dir]
  BY <1>8 DEF Astray, at, file, main
<1>12. ASSUME NEW f \in EnvFiles \ (unsettled \cup Pending(local) \cup Unreached(local, env))
       PROVE  Right(registry, config, f, env[f]) /\ (env[f] # NoBlock => BlockKey(env[f]) # main)
  <2>1. Right(registry, config, f, env[f])
    BY DEF Settled
  <2>2. f # file /\ (f \in ExtFiles /\ env[f] # NoBlock => env[f].project # cfg.project)
    BY <1>8, <1>10, <1>11 DEF Unreached
  <2> QED BY <1>8, <1>11, <2>1, <2>2, NamesNoneHere
<1>13. Ready(local, config, env, {}, unsettled)
  BY <1>8, <1>9, <1>10, <1>11, <1>12, MoveReady
<1> QED BY <1>1, <1>13 DEF local, cfg, main

LEMMA HistStart ==
  ASSUME OneAtATime, TypeInv, HistInv, NEW p \in Procs, NEW local, HInvoke(p), Start(p, local),
         Ready(local, config, env, {}, unsettled)
  PROVE  HistInv'
<1>1. /\ registry' = registry /\ env' = env /\ config' = config /\ proc[p] = Idle
      /\ \A q \in Procs : proc'[q] = local
  BY AloneProc DEF Start
<1>2. written = {} /\ written' = {} /\ unsettled' = unsettled
  BY <1>1 DEF HInvoke, HistInv, Quiescent, Running, OneAtATime
<1>3. \A f \in EnvFiles \ (unsettled' \cup written') : Right(registry', config', f, env'[f])
  BY <1>1, <1>2 DEF HistInv
<1>4. \A q \in Procs : Ready(proc'[q], config', env', written', unsettled')
  BY <1>1, <1>2
<1> QED BY <1>2, <1>3, <1>4 DEF HistInv

LEMMA InvokeRight ==
  ASSUME OneAtATime, TypeInv, DirInv, HistInv, NEW p \in Procs, HInvoke(p)
  PROVE  HistInv'
<1>1. CASE proc[p] = Idle
  <2>1. written = {}
    BY <1>1 DEF HistInv, Quiescent, Running, OneAtATime
  <2>2. Settled
    BY <2>1 DEF HistInv, Settled
  <2>3. ASSUME NEW dir \in Dirs, Up(p, dir, FALSE) \/ Up(p, dir, TRUE) PROVE HistInv'
    BY <2>2, <2>3, UpReady, HistStart
  <2>4. ASSUME NEW dir \in Dirs, Down(p, dir) PROVE HistInv'
    BY <2>2, <2>4, DownReady, HistStart
  <2>5. ASSUME NEW dir \in Dirs, NEW old \in Instances, NEW new \in Instances,
               Rename(p, dir, old, new)
        PROVE  HistInv'
    BY <2>2, <2>5, RenameReady, HistStart
  <2>6. ASSUME NEW dir \in Dirs, PromoteOnly(p, dir) \/ PromoteDemote(p, dir) PROVE HistInv'
    BY <2>2, <2>6, PromoteOnlyReady, PromoteDemoteReady, HistStart
  <2>7. ASSUME Prune(p) PROVE HistInv'
    BY <2>2, <2>7, PruneReady, HistStart
  <2>8. Invoke(p)
    BY DEF HInvoke
  <2> QED BY <2>3, <2>4, <2>5, <2>6, <2>7, <2>8 DEF Invoke
<1>2. CASE proc[p] # Idle
  <2>1. \A local : ~Start(p, local)
    BY <1>2 DEF Start
  <2>2. ASSUME NEW dir \in Dirs, Up(p, dir, FALSE) \/ Up(p, dir, TRUE) PROVE FALSE
    BY <2>1, <2>2, UpStarts
  <2>3. ASSUME NEW dir \in Dirs, Down(p, dir) PROVE FALSE
    BY <2>1, <2>3, DownStarts
  <2>4. ASSUME NEW dir \in Dirs,
               \/ \E old, new \in Instances : Rename(p, dir, old, new)
               \/ PromoteOnly(p, dir) \/ PromoteDemote(p, dir)
        PROVE  FALSE
    BY <2>1, <2>4, MoveStarts
  <2>5. ~Prune(p)
    BY <2>1, PruneStarts
  <2> QED BY <2>2, <2>3, <2>4, <2>5 DEF HInvoke, Invoke
<1> QED BY <1>1, <1>2

\* The second half of promote starts when the files of the first are written.
LEMMA RestRight ==
  ASSUME OneAtATime, TypeInv, DirInv, HistInv, NEW p \in Procs, HPromoteRest(p)
  PROVE  HistInv'
<1> DEFINE half  == proc[p]
           local == Promoted(half, half.key)
<1>1. /\ PromoteRest(p) /\ Running(p) /\ half.stage = "promote" /\ half.writes = {}
      /\ written' = written /\ unsettled' = unsettled
      /\ registry' = registry /\ config' = config /\ env' = env
      /\ proc' = [proc EXCEPT ![p] = local]
  BY DEF HPromoteRest, PromoteRest, history
<1>2. /\ half.key \in Keys /\ half.cfg \in Configs /\ half.reg \in Registries /\ half.dir \in Dirs
      /\ ProjectOf(half.key) = half.cfg.project /\ half.cmd = "promote"
      /\ half.reg[half.key] # NoAlloc /\ half.reg[<<half.cfg.project, Main>>] = NoAlloc
  BY <1>1 DEF TypeInv, TypeOK, PromotePending, Halfway, Running, Locals
<1>3. PICK instance \in Instances : half.key = <<half.cfg.project, instance>>
  BY <1>2 DEF Keys, ProjectOf
<1>4. instance # Main
  BY <1>2, <1>3
<1>5. Single(half.reg) /\ Ready(half, config, env, written, unsettled)
  BY <1>1 DEF DirInv, Copies, Placed, HistInv
<1>6. \A q \in Procs : proc'[q] = local
  BY <1>1, AloneProc
<1>7. local \in Locals
  BY <1>2, PromotedFit DEF Fit
<1> HIDE DEF half
<1>8. Ready(local, config, env, written, unsettled)
  BY <1>1, <1>2, <1>3, <1>4, <1>5, PromotedReady
<1> HIDE DEF local
<1>9. ~Quiescent'
  BY <1>6, <1>7, Sentinels DEF Quiescent, Running
<1> QED BY <1>1, <1>6, <1>8, <1>9 DEF HistInv

\* One file is written, or left as it is by down.
LEMMA FileRight ==
  ASSUME OneAtATime, TypeInv, HistInv, NEW p \in Procs, HWriteEnv(p) \/ HCleanSkipped(p)
  PROVE  HistInv'
<1>1. PICK w \in proc[p].writes, after \in Locals :
        /\ w \in EnvFiles \X (Blocks \cup {NoBlock})
        /\ proc' = [proc EXCEPT ![p] = after]
        /\ SameCommand(proc[p], after)
        /\ after.writes = proc[p].writes \ {w}
        /\ \/ WriteEnv(p) /\ CanWrite(w[1]) /\ env' = [env EXCEPT ![w[1]] = w[2]]
           \/ CleanSkipped(p) /\ (Faults \/ ~CanWrite(w[1])) /\ env' = env
  BY FileStep DEF HWriteEnv, HCleanSkipped
<1> DEFINE local == proc[p]
<1>2. /\ Running(p) /\ registry' = registry /\ config' = config
      /\ \A q \in Procs : proc'[q] = after
  BY <1>1, AloneProc DEF HWriteEnv, HCleanSkipped, WriteEnv, CleanSkipped
<1>3. Ready(local, config, env, written, unsettled) /\ local \in Locals
  BY <1>2 DEF HistInv, TypeInv, TypeOK, Running
<1>4. local.cmd # "prune" /\ \A v \in local.writes : ~Astray(local) => Suits(local, v[1], v[2])
  BY <1>1, <1>3 DEF Ready
<1>5. /\ after.cfg = local.cfg /\ after.reg = local.reg /\ after.key = local.key
      /\ after.dir = local.dir /\ after.cmd = local.cmd /\ after.stage = local.stage
  BY <1>1, <1>4 DEF SameCommand
<1>6. Handled(p) = {w[1]}
  <2>1. local.writes \ proc'[p].writes = {w}
    BY <1>1, <1>2
  <2> QED BY <2>1 DEF Handled
<1>7. Pending(local) \subseteq Pending(after) \cup {w[1]}
  BY <1>1 DEF Pending
<1>8. \A f \in EnvFiles : f # w[1] => env'[f] = env[f]
  BY <1>1 DEF TypeInv, TypeOK
<1>9. Unreached(local, env) \subseteq Unreached(after, env') \cup {w[1]}
  BY <1>5, <1>8 DEF Unreached, Astray, EnvFiles
<1>10. /\ written \cup unsettled \cup {w[1]} \subseteq written' \cup unsettled'
       /\ written' \subseteq written \cup {w[1]}
       /\ w[1] \in written' => env'[w[1]] = w[2]
  <2>1. CASE HWriteEnv(p)
    <3>1. written' = written \cup {w[1]} /\ unsettled' = unsettled
      BY <1>6, <2>1 DEF HWriteEnv
    <3>2. PICK v \in local.writes : /\ env' = [env EXCEPT ![v[1]] = v[2]]
                                    /\ proc' = [proc EXCEPT ![p].writes = @ \ {v}]
      BY <2>1 DEF HWriteEnv, WriteEnv
    <3>3. proc'[p].writes = local.writes \ {v}
      BY <1>3, <3>2 DEF TypeInv, TypeOK
    <3>4. v = w
      BY <1>1, <1>2, <3>3
    <3> QED BY <1>1, <3>1, <3>2, <3>4 DEF TypeInv, TypeOK
  <2>2. CASE HCleanSkipped(p)
    BY <1>6, <2>2 DEF HCleanSkipped
  <2> QED BY <2>1, <2>2
<1> HIDE DEF local
<1>11. ASSUME NEW f \in EnvFiles \ (unsettled' \cup written' \cup Pending(after) \cup Unreached(after, env'))
       PROVE  Right(after.reg, config, f, env'[f])
  <2>1. f # w[1] /\ f \notin unsettled \cup written \cup Pending(local) \cup Unreached(local, env)
    BY <1>7, <1>9, <1>10
  <2>2. Right(local.reg, config, f, env[f])
    BY <1>3, <2>1 DEF Ready
  <2> QED BY <1>5, <1>8, <2>1, <2>2
<1>12. ASSUME NEW f, NEW b, Suits(local, f, b) PROVE Suits(after, f, b)
  BY <1>5, <1>12 DEF Suits, Fits
<1>13. ASSUME ~Astray(after), NEW f \in (written' \cap EnvFiles) \ Pending(after)
       PROVE  Suits(after, f, env'[f])
  <2>1. ~Astray(local)
    BY <1>5, <1>13 DEF Astray
  <2>2. CASE f = w[1]
    BY <1>1, <1>4, <1>10, <1>12, <2>1, <2>2 DEF local
  <2>3. CASE f # w[1]
    <3>1. f \in (written \cap EnvFiles) \ Pending(local)
      BY <1>7, <1>10, <2>3
    <3>2. Suits(local, f, env[f])
      BY <1>3, <1>4, <2>1, <3>1 DEF Ready
    <3> QED BY <1>8, <1>12, <2>3, <3>2
  <2> QED BY <2>2, <2>3
<1>14. ASSUME ~Astray(after), NEW v \in after.writes PROVE Suits(after, v[1], v[2])
  <2>1. ~Astray(local) /\ v \in local.writes
    BY <1>1, <1>5, <1>14 DEF Astray, local
  <2> QED BY <1>4, <1>12, <2>1
<1>15. after.stage = "promote" => SameFile[after.reg[after.key].dir] = SameFile[after.dir]
  BY <1>3, <1>5 DEF Ready
<1>16. Ready(after, config, env', written', unsettled')
  BY <1>4, <1>5, <1>11, <1>13, <1>14, <1>15 DEF Ready
<1>17. ASSUME NEW f \in EnvFiles \ (unsettled' \cup written') PROVE Right(registry, config, f, env'[f])
  <2>1. f # w[1] /\ f \notin unsettled \cup written
    BY <1>10
  <2> QED BY <1>8, <2>1 DEF HistInv
<1>18. ~Quiescent'
  BY <1>2, Sentinels DEF Quiescent, Running
<1> QED BY <1>2, <1>16, <1>17, <1>18 DEF HistInv

\* The command ends without saving: registry.json has not changed, and what it has
\* written is unsettled.
LEMMA GivesUpRight ==
  ASSUME OneAtATime, TypeInv, HistInv, NEW p \in Procs, HGivesUp(p)
  PROVE  HistInv'
<1>1. /\ proc' = [proc EXCEPT ![p] = Idle]
      /\ registry' = registry /\ config' = config /\ env' = env
      /\ written' = {} /\ unsettled' = unsettled \cup written
  BY DEF HGivesUp, PromoteDenied, MergeFails, Abort
<1>2. \A q \in Procs : proc'[q] = Idle
  BY <1>1, AloneProc
<1> QED BY <1>1, <1>2 DEF HistInv, Running

\* The copy becomes registry.json: it is right for the files that were not written, and
\* what was written suits it.
LEMMA SaveRight ==
  ASSUME OneAtATime, TypeInv, HistInv, NEW p \in Procs, HSave(p)
  PROVE  HistInv'
<1> DEFINE local == proc[p]
<1>1. /\ Running(p) /\ local.stage = "save" /\ local.writes = {}
      /\ proc' = [proc EXCEPT ![p] = Idle]
      /\ registry' = local.reg /\ config' = config /\ env' = env
      /\ written' = {}
      /\ unsettled' = (unsettled \ written) \cup {f \in written : ~InStep(local, f)}
                        \cup Unreached(local, env)
  BY DEF HSave, Save
<1>2. \A q \in Procs : proc'[q] = Idle
  BY <1>1, AloneProc
<1>3. Ready(local, config, env, written, unsettled) /\ local.reg \in Registries
  BY <1>1 DEF HistInv, TypeInv, TypeOK, Running, Locals
<1>4. Pending(local) = {}
  BY <1>1 DEF Pending
<1> HIDE DEF local
<1>5. ASSUME NEW f \in EnvFiles \ unsettled' PROVE Right(local.reg, config, f, env[f])
  <2>1. CASE f \notin written
    BY <1>1, <1>3, <1>4, <2>1 DEF Ready
  <2>2. CASE f \in written
    <3>1. InStep(local, f)
      BY <1>1, <2>2
    <3>2. Suits(local, f, env[f])
      BY <1>3, <1>4, <2>2, <3>1 DEF Ready, InStep
    <3>3. CASE f \in Roots
      <4>1. /\ \A k \in EntriesOf(local.reg, f) : env[f] = BlockOf(k, local.reg[k])
            /\ env[f] # NoBlock => BlockKey(env[f]) \in EntriesOf(local.reg, f)
        BY <3>1, <3>2, <3>3 DEF Suits, InStep
      <4>2. f \in Listed(config, f)
        BY <3>1, <3>3 DEF InStep
      <4> QED BY <4>1, <4>2 DEF Right, EntriesOf
    <3>4. CASE f \notin Roots
      <4>1. EntriesOf(local.reg, f) = {}
        BY <1>3, <3>4 DEF EntriesOf, Registered, Registries, Allocations, Roots
      <4>2. env[f] # NoBlock => BlockKey(env[f]) \in EntriesOf(local.reg, SameFile[local.dir])
        BY <1>1, <3>2, <3>4 DEF Suits
      <4>3. f \in Listed(config, SameFile[local.dir])
        BY <3>1, <3>4 DEF InStep
      <4> QED BY <4>1, <4>2, <4>3 DEF Right, EntriesOf
    <3> QED BY <3>3, <3>4
  <2> QED BY <2>1, <2>2
<1> QED BY <1>1, <1>2, <1>5 DEF HistInv, Running

\* An edit: what the directory no longer lists is unsettled.
LEMMA EditRight ==
  ASSUME TypeInv, HistInv, NEW r \in Roots, HEditConfig(r)
  PROVE  HistInv'
<1>1. PICK to \in Configs \cup {NoConfig, Gone} :
        /\ config' = [config EXCEPT ![r] = to]
        /\ env' = [env EXCEPT ![r] = IF to = Gone THEN NoBlock ELSE @]
        /\ registry' = registry /\ proc' = proc
  BY DEF HEditConfig, EditConfig
<1>2. written' = written \ Dropped(r) /\ unsettled' = unsettled \cup Dropped(r)
  BY DEF HEditConfig
<1>3. config'[r] = to /\ \A q : q # r => config'[q] = config[q]
  BY <1>1 DEF TypeInv, TypeOK
<1>4. \A q, f : f \in Listed(config, q) /\ f \notin Dropped(r) => f \in Listed(config', q)
  BY <1>3 DEF Listed, Dropped
<1>5. \A f \in EnvFiles : f \notin Dropped(r) => env'[f] = env[f]
  BY <1>1, <1>3, Sentinels DEF Dropped, TypeInv, TypeOK
<1>6. ASSUME NEW reg, NEW f \in EnvFiles, f \notin Dropped(r), Right(reg, config, f, env[f])
      PROVE  Right(reg, config', f, env'[f])
  BY <1>4, <1>5, <1>6 DEF Right
<1>7. ASSUME NEW p \in Procs, Running(p) PROVE Ready(proc[p], config', env', written', unsettled')
  <2> DEFINE local == proc[p]
  <2>1. Ready(local, config, env, written, unsettled)
    BY <1>7 DEF HistInv
  <2>2. Unreached(local, env') = Unreached(local, env)
    <3>1. \A f \in ExtFiles : env'[f] = env[f]
      BY <1>1, FilesApart DEF TypeInv, TypeOK, EnvFiles
    <3> QED BY <3>1 DEF Unreached
  <2> HIDE DEF local
  <2>3. ASSUME NEW f \in EnvFiles \ (unsettled' \cup written' \cup Pending(local) \cup Unreached(local, env'))
        PROVE  Right(local.reg, config', f, env'[f])
    <3>1. f \notin Dropped(r) /\ f \notin unsettled \cup written \cup Pending(local) \cup Unreached(local, env)
      BY <1>2, <2>2
    <3>2. Right(local.reg, config, f, env[f])
      BY <2>1, <3>1 DEF Ready
    <3> QED BY <1>6, <3>1, <3>2
  <2>4. ASSUME local.cmd # "prune" /\ ~Astray(local), NEW f \in (written' \cap EnvFiles) \ Pending(local)
        PROVE  Suits(local, f, env'[f])
    <3>1. f \notin Dropped(r) /\ f \in (written \cap EnvFiles) \ Pending(local)
      BY <1>2
    <3>2. Suits(local, f, env[f])
      BY <2>1, <2>4, <3>1 DEF Ready
    <3> QED BY <1>5, <3>1, <3>2
  <2>5. Ready(local, config', env', written', unsettled')
    BY <1>2, <2>1, <2>3, <2>4 DEF Ready
  <2> QED BY <2>5 DEF local
<1>8. ASSUME NEW f \in EnvFiles \ (unsettled' \cup written') PROVE Right(registry, config', f, env'[f])
  <2>1. f \notin Dropped(r) /\ f \notin unsettled \cup written
    BY <1>2
  <2> QED BY <1>6, <2>1 DEF HistInv
<1>9. Quiescent' => written' = {}
  BY <1>1, <1>2 DEF HistInv, Quiescent, Running
<1> QED BY <1>1, <1>7, <1>8, <1>9 DEF HistInv, Running

\* The history variables watch the commands and do not change what they do.
LEMMA HistoryWatches == HSpec => Spec
<1>1. HInit => Init
  BY DEF HInit
<1>2. HNext => Next
  BY DEF HNext, HInvoke, HProceed, HPromoteRest, HWriteEnv, HCleanSkipped, HGivesUp, HSave,
         HEditConfig, Next, Proceed
<1>3. UNCHANGED hvars => UNCHANGED vars
  BY DEF hvars, vars
<1>4. [HNext]_hvars => [Next]_vars
  BY <1>2, <1>3
<1> QED BY <1>1, <1>4, PTL DEF HSpec, Spec

LEMMA HistInvariant ==
  ASSUME OneAtATime, NamesStay
  PROVE  HSpec => [](TypeInv /\ HistInv)
<1>1. HInit => HistInv
  <2> SUFFICES ASSUME HInit PROVE HistInv
    OBVIOUS
  <2>1. Registered(registry) = {}
    BY DEF HInit, Init, EmptyRegistry, Registered
  <2>2. \A f \in EnvFiles : env[f] = NoBlock
    BY DEF HInit, Init
  <2> QED BY <2>1, <2>2 DEF HInit, Init, HistInv, Right, EntriesOf, Running
<1>2. ASSUME TypeInv, DirInv, HistInv, [HNext]_hvars PROVE HistInv'
  <2>1. ASSUME NEW p \in Procs, HInvoke(p) \/ HProceed(p) PROVE HistInv'
    BY <1>2, <2>1, InvokeRight, RestRight, FileRight, GivesUpRight, SaveRight DEF HProceed
  <2>2. ASSUME NEW r \in Roots, HEditConfig(r) PROVE HistInv'
    BY <1>2, <2>2, EditRight
  <2>3. CASE UNCHANGED hvars
    BY <1>2, <2>3 DEF hvars, vars, history, HistInv, Quiescent, Running
  <2> QED BY <1>2, <2>1, <2>2, <2>3 DEF HNext
<1> QED BY <1>1, <1>2, HistoryWatches, TypesInvariant, DirectoriesInvariant, PTL DEF HSpec

\* Between two commands the .env of every registered directory says what its entry says, unless
\* it is unsettled: whatever the configs declare and however they are edited, and whichever
\* commands were refused, failed or were killed before, up, down, rename, promote and prune
\* leave no other file out of step with registry.json (cmd/up.go, down.go, rename.go,
\* promote.go, system prune; mergeEnvFiles before reg.Save).
THEOREM EnvAgrees ==
  ASSUME OneAtATime, NamesStay
  PROVE  HSpec => []EnvMatchesRegistry
<1>1. TypeInv /\ HistInv => EnvMatchesRegistry
  <2> SUFFICES ASSUME TypeInv, HistInv, Quiescent, NEW k \in Registered(registry),
                      SameFile[registry[k].dir] \notin unsettled
               PROVE  env[SameFile[registry[k].dir]] = BlockOf(k, registry[k])
    BY DEF EnvMatchesRegistry, BlockOf
  <2> DEFINE f == SameFile[registry[k].dir]
  <2>1. f \in EnvFiles /\ k \in EntriesOf(registry, f)
    BY DEF TypeInv, TypeOK, Registries, Allocations, Registered, Roots, EntriesOf, EnvFiles
  <2>2. Right(registry, config, f, env[f])
    BY <2>1 DEF HistInv
  <2> QED BY <2>1, <2>2 DEF Right
<1> QED BY <1>1, HistInvariant, PTL

\* Between two commands a block in a settled env file, in a .env or in an external file that
\* several checkouts write, is that of a registered instance: no command that saves leaves
\* one of an instance it has removed or renamed (cmd/down.go, RemoveBlock; rename.go,
\* promote.go; system prune).
THEOREM NoBlockOrphaned ==
  ASSUME OneAtATime, NamesStay
  PROVE  HSpec => []NoOrphanBlocks
<1>1. HistInv => NoOrphanBlocks
  BY DEF HistInv, NoOrphanBlocks, Right, BlockKey, Registered
<1> QED BY <1>1, HistInvariant, PTL
=============================================================================
