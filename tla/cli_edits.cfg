\* One command at a time; configs change, directories vanish, processes are killed.
CONSTANTS
  MinPort = 10
  MaxPort = 13
  ReservedPorts = {11}
  Projects <- MCProjects
  Instances <- MCInstances
  Main = "main"
  Services = {1, 2}
  Dirs = {"d1", "D1", "d2"}
  SameFile <- MCSameFile
  KeyRank <- MCKeyRank
  Tokens <- MCTokens
  NoAlloc = NoAlloc
  Procs = {p1}
  Configs <- FailConfigs
  InitConfigs <- OneOneExt
  Edits <- FailEdits
  ExtFiles = {"ext"}
  HashPort <- MCHashAll
  BusySets <- BusyNone
  Commands = {"up", "rename", "promote", "prune"}
  RenameAnywhere = FALSE
  Faults = TRUE
  MaxCommands = 4
  NoConfig = NoConfig
  Gone = Gone
  NoBlock = NoBlock
  Idle = Idle
SPECIFICATION Spec
PROPERTIES UpKeepsPorts UpRepairs PruneLeavesOneEach NoNewClash
CHECK_DEADLOCK FALSE
