----------------------------- MODULE Allocation -----------------------------
(***************************************************************************)
(* internal/allocation and the parts of internal/config it reads: how a    *)
(* config, an instance name and a port assignment become a registry entry  *)
(* and the block written into the .env files.                              *)
(*                                                                         *)
(* A config (a loaded, validated outport.yml) is a record                  *)
(*    project  its name                                                    *)
(*    svc      the services it declares                                    *)
(*    pref     service -> preferred port, 0 for none                       *)
(*    stems    service -> hostname stems, primary and aliases              *)
(*    ext      the external env files it writes besides the directory's    *)
(*             own .env                                                    *)
(* Names that are taken apart and joined (project names, hostname stems)   *)
(* are sequences of tokens: words, "-" and ".".  A stem stands for the     *)
(* hostname without its .test suffix.                                      *)
(***************************************************************************)
EXTENDS Registry, Sequences

CONSTANT Tokens   \* the words of names, with "-" and "." among them

ASSUME NamesAreTokens ==
  /\ "-" \in Tokens
  /\ Instances \subseteq Tokens
  /\ Projects \subseteq Seq(Tokens)

\* Where name occurs in stem: the number of tokens before each occurrence.
OccurrencesOf(name, stem) ==
  {i \in 0 .. Len(stem) - Len(name) :
     \A j \in 1 .. Len(name) : stem[i + j] = name[j]}

\* The last of them, as a set of at most one.
LastOccurrence(name, stem) ==
  {i \in OccurrencesOf(name, stem) : \A j \in OccurrencesOf(name, stem) : j <= i}

\* The stem of a service's hostname for an instance: "-instance" goes after the
\* last occurrence of the project name; main keeps the stem as it is.
InstanceStem(stem, project, instance) ==
  LET last == LastOccurrence(project, stem) IN
  IF instance = Main \/ last = {} THEN stem
  ELSE LET cut == (CHOOSE i \in last : TRUE) + Len(project)
       IN SubSeq(stem, 1, cut) \o <<"-", instance>>
            \o SubSeq(stem, cut + 1, Len(stem))

\* ComputeHostnames and ComputeAliases.
ComputeHosts(cfg, instance) ==
  [s \in Services |-> {InstanceStem(h, cfg.project, instance) : h \in cfg.stems[s]}]

\* Build leaves the approvals empty: the commands fill them in.
Build(cfg, instance, dir, ports) ==
  [dir      |-> dir,
   ports    |-> ports,
   hosts    |-> ComputeHosts(cfg, instance),
   approved |-> {}]

\* The managed block mergeEnvFiles writes: the port of every declared service
\* (Go's zero for one the allocation lacks), and the instance, on which every
\* hostname and URL among the computed values depends.
EnvBlock(cfg, instance, ports) ==
  [project  |-> cfg.project,
   instance |-> instance,
   ports    |-> [s \in Services |-> IF s \in cfg.svc THEN ports[s] ELSE NoPort]]
=============================================================================
