\* A session with two tunnels and one with one, another command, one fault.
SPECIFICATION Spec
CONSTANTS
  Sessions = {s1, s2}
  s1 = s1
  s2 = s2
  web = web
  api = api
  TunnelsOf <- MCTunnelsOf
  None = None
  MaxVer = 2
  MaxStarting = 1
  MaxCommands = 1
  MaxFaults = 1
INVARIANTS AllOrNothing RoutesBeforeTunnels UrlsTakenBack
PROPERTIES SessionsEnd
CHECK_DEADLOCK FALSE
