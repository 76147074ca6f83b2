\* Allocate for every set of used ports, while other programs open and close ports.
CONSTANTS
  MinPort = 10
  MaxPort = 14
  ReservedPorts = {11, 21}
  UsedSets <- MCUsed
  Preferences = {0, 13, 20, 21}
  BusySets <- MCBusy
SPECIFICATION LoopSpec
INVARIANTS NothingSkipped MeetsItsPromise
PROPERTIES Terminates
CHECK_DEADLOCK FALSE
