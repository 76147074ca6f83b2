\* One command at a time in checkouts with different configs; configs change, directories
\* vanish and come back, processes are killed, rename is used from elsewhere.
CONSTANTS
  MinPort = 10
  MaxPort = 12
  ReservedPorts = {11}
  Projects <- MCProjects
  Instances <- MCInstances
  Main = "main"
  Services = {1, 2}
  Dirs = {"d1", "d2"}
  SameFile <- MCSameFile
  KeyRank <- MCKeyRank
  Tokens <- MCTokens
  NoAlloc = NoAlloc
  Procs = {p1}
  Configs <- FileConfigs
  InitConfigs <- TwoAndExt
  Edits <- FileEdits
  ExtFiles = {"ext"}
  HashPort <- MCHashAll
  BusySets <- BusyNone
  Commands = {"up", "down", "rename", "promote", "prune"}
  RenameAnywhere = TRUE
  Faults = TRUE
  MaxCommands = 4
  NoConfig = NoConfig
  Gone = Gone
  NoBlock = NoBlock
  Idle = Idle
SPECIFICATION HSpec
INVARIANTS EnvMatchesRegistry NoOrphanBlocks
PROPERTIES MovesKeepAllocations UpKeepsDirectories
CHECK_DEADLOCK FALSE
