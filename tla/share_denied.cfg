\* One session, whose prompt is refused; nothing else happens but an edit of outport.yml.
SPECIFICATION Spec
CONSTANTS
  Sessions = {s2}
  s1 = s1
  s2 = s2
  web = web
  api = api
  TunnelsOf <- MCTunnelsOf
  None = None
  MaxVer = 1
  MaxStarting = 1
  MaxCommands = 1
  MaxFaults = 0
INVARIANTS ExternalNeedsApproval
CHECK_DEADLOCK FALSE
