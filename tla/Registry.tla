------------------------------ MODULE Registry ------------------------------
(***************************************************************************)
(* internal/registry: the value registry.json holds, and the in-memory     *)
(* operations of the package on it.                                        *)
(*                                                                         *)
(* A registry is a function from every key <<project, instance>> to an     *)
(* allocation, or to NoAlloc where the Go map has no entry.  An allocation *)
(* is a record                                                             *)
(*    dir       the project directory, as the path it was registered under *)
(*    ports     service -> port, NoPort for a service that has none        *)
(*    hosts     service -> its .test names, the primary and the aliases    *)
(*    approved  the external env files the developer approved              *)
(* Subdomains and EnvVars, recomputed from the config by every command,    *)
(* are left out.                                                           *)
(*                                                                         *)
(* The Go code ranges over a map, so wherever the first match of a loop is *)
(* taken the operator here returns the set of the possible results.        *)
(***************************************************************************)
EXTENDS Naturals, FiniteSets

CONSTANTS
  Projects,    \* project names
  Instances,   \* instance names; one of them is Main
  Main,        \* the instance called "main"
  Services,    \* service names, numbered in the order they sort
  Dirs,        \* directory paths
  SameFile,    \* path -> the directory it denotes (device and inode)
  KeyRank,     \* key -> its place in the lexicographic order of keys
  NoAlloc      \* no entry under a key

Keys == Projects \X Instances

ASSUME RegistryConstants ==
  /\ Main \in Instances
  /\ Services \subseteq Nat
  /\ SameFile \in [Dirs -> {SameFile[d] : d \in Dirs}]
  /\ KeyRank \in [Keys -> Nat]
  /\ \A k, l \in Keys : KeyRank[k] = KeyRank[l] => k = l

NoPort == 0

ProjectOf(key)  == key[1]
InstanceOf(key) == key[2]
Roots           == {SameFile[d] : d \in Dirs}

EmptyRegistry    == [k \in Keys |-> NoAlloc]
Registered(reg)  == {k \in Keys : reg[k] # NoAlloc}
Set(reg, key, a) == [reg EXCEPT ![key] = a]
Remove(reg, key) == [reg EXCEPT ![key] = NoAlloc]

PortsOf(alloc) == {alloc.ports[s] : s \in Services} \ {NoPort}
HostsOf(alloc) == UNION {alloc.hosts[s] : s \in Services}

UsedPorts(reg) == UNION {PortsOf(reg[k]) : k \in Registered(reg)}

FindByProject(reg, project) ==
  {k \in Registered(reg) : ProjectOf(k) = project}

\* Mutant of HostnameTaken: looks at the instances of the same project only.
HostnameTakenWithin(reg, host, exclude) ==
  \E k \in Registered(reg) \ {exclude} :
    ProjectOf(k) = ProjectOf(exclude) /\ host \in HostsOf(reg[k])

\* FindHostname: some entry other than exclude owns the name.
HostnameTaken(reg, host, exclude) ==
  \E k \in Registered(reg) \ {exclude} : host \in HostsOf(reg[k])

\* Mutant of FindByDir: paths are compared as strings only.
FindByPath(reg, dir) == {k \in Registered(reg) : reg[k].dir = dir}

\* FindByDir: an entry with exactly this path wins; failing that, an entry for
\* the same directory under another spelling, a main instance first.
FindByDir(reg, dir) ==
  LET exact == {k \in Registered(reg) : reg[k].dir = dir}
      same  == {k \in Registered(reg) : SameFile[reg[k].dir] = SameFile[dir]}
      mains == {k \in same : InstanceOf(k) = Main}
  IN IF exact # {} THEN exact
     ELSE IF mains # {} THEN mains ELSE same

\* RemoveStale with a predicate given as the set of stale paths.
RemoveStale(reg, stale) ==
  [k \in Keys |-> IF reg[k] # NoAlloc /\ reg[k].dir \in stale
                  THEN NoAlloc ELSE reg[k]]

\* canonicalKey: the entries that may be kept from a group of entries.
CanonicalKeys(group) ==
  LET mains == {k \in group : InstanceOf(k) = Main} IN
  IF mains # {} THEN mains
  ELSE {k \in group : \A l \in group : KeyRank[k] <= KeyRank[l]}

\* Mutant of PruneDuplicateDirs: entries are grouped by path.
PruneDuplicatePaths(reg, missing) ==
  LET group(d) == {k \in Registered(reg) : reg[k].dir = d}
      kept == {K \in SUBSET Registered(reg) :
                 \A d \in Dirs : group(d) # {} =>
                   IF d \in missing THEN group(d) \subseteq K
                   ELSE \E c \in CanonicalKeys(group(d)) : K \cap group(d) = {c}}
  IN {[k \in Keys |-> IF k \in K THEN reg[k] ELSE NoAlloc] : K \in kept}

\* PruneDuplicateDirs: of the entries that denote one existing directory only a
\* canonical one stays; entries whose directory is missing are left alone.
PruneDuplicateDirs(reg, missing) ==
  LET group(r) == {k \in Registered(reg) :
                     reg[k].dir \notin missing /\ SameFile[reg[k].dir] = r}
      kept == {K \in SUBSET Registered(reg) :
                 /\ \A k \in Registered(reg) : reg[k].dir \in missing => k \in K
                 /\ \A r \in Roots : group(r) # {} =>
                      \E c \in CanonicalKeys(group(r)) : K \cap group(r) = {c}}
  IN {[k \in Keys |-> IF k \in K THEN reg[k] ELSE NoAlloc] : K \in kept}
=============================================================================
