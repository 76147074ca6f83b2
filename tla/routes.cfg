\* Files change and shares come and go once the daemon watches, a browser looks on, a port
\* changes its status; the daemon may restart.
CONSTANTS
  Hosts = {"app", "api.app"}
  Subs = {"x.app"}
  TunnelHosts = {"t1"}
  Parent <- MCParent
  Ports = {1, 2, 3}
  RegFiles <- MCRegFiles
  TunnelMaps <- MCTunnelMaps
  NoHost = NoHost
  NoRoute = NoRoute
  NoFile = NoFile
  QuietStart = TRUE
  MaxWrites = 2
  MaxRestarts = 1
  ChanSize = 1
  MaxVisits = 1
  MaxChanges = 1
SPECIFICATION DashSpec
INVARIANTS RoutesAgree RegistryServed TunnelsServed
PROPERTIES Uninterrupted DashboardCatchesUp
CHECK_DEADLOCK FALSE
