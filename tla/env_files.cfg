\* Nine configs, three overrides, three edits of any kind.
SPECIFICATION Spec
CONSTANTS
  None = None
  NoFile = NoFile
  NoConfig = NoConfig
  DefaultFile = ".env"
  GoodHosts = {"app.test", "api.app.test"}
  RawConfigs <- MCRawConfigs
  Locals <- MCLocals
  Paths <- MCPaths
  FileOf <- MCFileOf
  EditedFiles = {".env"}
  Ports <- MCPorts
  Ways <- MCWays
  UserLines <- MCUserLines
  VarNames <- MCVarNames
  Templates <- MCTemplates
  MaxEdits = 3
  MaxLines = 8
INVARIANTS WrittenOnce WriteSettles
PROPERTIES OwnLinesKept
CHECK_DEADLOCK FALSE
