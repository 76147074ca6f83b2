\* Two overlapping invocations, every command, faults, a growing config and one directory
\* spelled in two ways.
CONSTANTS
  MinPort = 10
  MaxPort = 12
  ReservedPorts = {11}
  Projects <- MCProjects
  Instances <- MCInstances
  Main = "main"
  Services = {1, 2}
  Dirs = {"d1", "D1", "d2"}
  SameFile <- MCSameFile
  KeyRank <- MCKeyRank
  Tokens <- MCTokens
  NoAlloc = NoAlloc
  Procs = {p1, p2}
  Configs <- MCConfigs
  InitConfigs <- MCInit
  Edits <- Grow
  ExtFiles = {}
  HashPort <- MCHashAll
  BusySets <- BusyNone
  Commands = {"up", "force", "down", "rename", "promote", "prune"}
  RenameAnywhere = FALSE
  Faults = TRUE
  MaxCommands = 3
  NoConfig = NoConfig
  Gone = Gone
  NoBlock = NoBlock
  Idle = Idle
SYMMETRY MCSymmetry
SPECIFICATION Spec
INVARIANTS TypeOK PortsDisjoint ReservedNeverGiven OneEntryPerDirectory
CHECK_DEADLOCK FALSE
