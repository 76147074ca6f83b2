----------------------------- MODULE RouteDaemon -----------------------------
(***************************************************************************)
(* internal/daemon/routes.go: the daemon's route table and the goroutine   *)
(* that keeps it in step with registry.json and tunnels.json               *)
(* (WatchAndRebuild), while CLI commands replace these files and shares    *)
(* start, end and crash (internal/tunnel/state.go).                        *)
(*                                                                         *)
(* Every file is read in one step and every critical section of the route  *)
(* table is one step, so files may change between a read and the update    *)
(* made from it.  That a replaced file is read whole is module             *)
(* RegistryFile.  The registry is reduced to what routes are built from:   *)
(* a set of claims, one for each name of each service of each entry,       *)
(*    host, port   the .test name, and the port it should lead to          *)
(*    wild         its subdomains are routed as well                       *)
(* A name may have several: neither rename and promote nor two services    *)
(* with the same primary hostname are checked for that.  Requests only     *)
(* read the table (Lookup).                                                *)
(***************************************************************************)
EXTENDS Naturals, Sequences

CONSTANTS
  Hosts,         \* .test names, primary ones and aliases
  Subs,          \* names below them
  TunnelHosts,   \* public names of tunnels
  Parent,        \* name -> what follows its first dot
  Ports,         \* port numbers
  RegFiles,      \* the contents registry.json may have
  TunnelMaps,    \* the hostname maps a share may write: [TunnelHosts -> Hosts \cup {NoHost}]
  NoHost, NoRoute,
  NoFile,        \* a file that is not there, or state that was not used
  QuietStart,    \* no registry write between the daemon's first read and its watch,
                 \* and no share starts before the watch
  MaxWrites,     \* bound: registry writes and share starts
  MaxRestarts    \* bound: restarts of the daemon

Names == Hosts \cup Subs \cup TunnelHosts

ASSUME RouteConstants ==
  /\ RegFiles \subseteq SUBSET [host : Hosts, port : Ports, wild : BOOLEAN]
  /\ TunnelMaps \subseteq [TunnelHosts -> Hosts \cup {NoHost}]
  /\ Hosts \cap TunnelHosts = {}
  /\ \A n \in DOMAIN Parent : Parent[n] \in Hosts
  /\ MaxWrites \in Nat /\ MaxRestarts \in Nat
  /\ NoHost \notin Hosts
  /\ NoRoute \notin [port : Ports, override : Hosts \cup {NoHost}]
  /\ NoFile \notin RegFiles /\ NoFile \notin TunnelMaps

VARIABLES
  regFile,     \* contents of registry.json, or NoFile
  tunFile,     \* contents of tunnels.json, or NoFile
  live,        \* the process that wrote tunnels.json is running
  watching,    \* the directory watch exists
  events,      \* "registry" and "tunnels", in the order fsnotify delivers them
  pc,          \* what the watcher goroutine does next
  data,        \* what it read last
  routes,      \* RouteTable.routes: name -> [port, override] or NoRoute
  wildcards,   \* RouteTable.wildcards: name -> route or NoRoute
  allocations, \* RouteTable.allocations
  writes, restarts

table == <<routes, wildcards, allocations>>
files == <<regFile, tunFile, live>>
vars  == <<files, watching, events, pc, data, table, writes, restarts>>

Empty    == [n \in Names |-> NoRoute]

\* The ports of a name.
PortsOf(claims, h) == {c.port : c \in {c \in claims : c.host = h}}

\* The last of a set of claims to each name, in the order of Go's maps, which is another one each
\* time.  Each name is chosen on its own: more outcomes than one order of entries leaves for all.
Lasts(claims) ==
  {last \in [{c.host : c \in claims} -> claims] : \A n \in DOMAIN last : last[n].host = n}
RoutesOf(last) ==
  [n \in Names |-> IF n \in DOMAIN last THEN [port |-> last[n].port, override |-> NoHost] ELSE NoRoute]

\* BuildRoutes: the tables that may come of it, the route and the wildcard of every name that of
\* its last claim and of its last wild one.
BuildRoutes(reg) ==
  {[routes |-> RoutesOf(lasts[1]), wildcards |-> RoutesOf(lasts[2])] :
     lasts \in {l \in Lasts(reg) \X Lasts({c \in reg : c.wild}) :
                 \A n \in DOMAIN l[1] : l[1][n].wild => l[2][n] = l[1][n]}}

\* BuildTunnelRoutes: a tunnel whose .test name is registered leads to the port of whichever
\* claim to the name is found first.
Tunnelled(map, allocs) == {t \in TunnelHosts : \E c \in allocs : c.host = map[t]}
BuildTunnelRoutes(map, allocs) ==
  {[t \in Tunnelled(map, allocs) |-> [port |-> first[t].port, override |-> map[t]]] :
     first \in {f \in [Tunnelled(map, allocs) -> allocs] : \A t \in DOMAIN f : f[t].host = map[t]}}

\* Lookup: the exact name first, then the wildcard of its parent.
Lookup(n) ==
  IF routes[n] # NoRoute THEN routes[n]
  ELSE IF n \in DOMAIN Parent THEN wildcards[Parent[n]] ELSE NoRoute

-----------------------------------------------------------------------------
(* The watcher goroutine.                                                  *)

\* rebuildFromFile: a missing file leaves the table alone.
ReadRegistry ==
  /\ \/ pc = "start"
     \/ pc = "idle" /\ events # <<>> /\ Head(events) = "registry"
  /\ events' = IF pc = "idle" THEN Tail(events) ELSE events
  /\ data' = regFile
  /\ pc' = "swap"
  /\ UNCHANGED <<files, watching, table, writes, restarts>>

\* Mutants of Swap: old wildcards stay; the tunnels are not added again.
SwapOldWildcards ==
  /\ pc = "swap"
  /\ IF data = NoFile THEN UNCHANGED table
     ELSE /\ \E built \in BuildRoutes(data) :
               /\ routes' = built.routes
               /\ wildcards' = [n \in Names |-> IF built.wildcards[n] # NoRoute
                                               THEN built.wildcards[n] ELSE wildcards[n]]
          /\ allocations' = data
  /\ data' = NoFile
  /\ pc' = IF watching THEN "tunnels" ELSE "watch"
  /\ UNCHANGED <<files, watching, events, writes, restarts>>
SwapWithoutTunnels ==
  /\ pc = "swap"
  /\ IF data = NoFile THEN UNCHANGED table
     ELSE /\ \E built \in BuildRoutes(data) : routes' = built.routes /\ wildcards' = built.wildcards
          /\ allocations' = data
  /\ data' = NoFile
  /\ pc' = IF watching THEN "idle" ELSE "watch"
  /\ UNCHANGED <<files, watching, events, writes, restarts>>

\* UpdateWithAllocations; the first time the watch comes next, later the tunnels.
Swap ==
  /\ pc = "swap"
  /\ IF data = NoFile THEN UNCHANGED table
     ELSE /\ \E built \in BuildRoutes(data) : routes' = built.routes /\ wildcards' = built.wildcards
          /\ allocations' = data
  /\ data' = NoFile
  /\ pc' = IF watching THEN "tunnels" ELSE "watch"
  /\ UNCHANGED <<files, watching, events, writes, restarts>>

Watch ==
  /\ pc = "watch"
  /\ watching' = TRUE
  /\ pc' = "idle"
  /\ UNCHANGED <<files, events, data, table, writes, restarts>>

\* addTunnelRoutes, its read: no file, or one whose writer is gone, is no state.
ReadTunnels ==
  /\ \/ pc = "tunnels"
     \/ pc = "idle" /\ events # <<>> /\ Head(events) = "tunnels"
  /\ events' = IF pc = "idle" THEN Tail(events) ELSE events
  /\ data' = IF live THEN tunFile ELSE NoFile
  /\ pc' = "merge"
  /\ UNCHANGED <<files, watching, table, writes, restarts>>

\* Mutant of Merge: the tunnel routes replace the table.
MergeReplacing ==
  /\ pc = "merge"
  /\ IF data = NoFile THEN UNCHANGED routes
     ELSE \E found \in BuildTunnelRoutes(data, allocations) :
            routes' = [n \in Names |-> IF n \in DOMAIN found THEN found[n] ELSE NoRoute]
  /\ data' = NoFile
  /\ pc' = "idle"
  /\ UNCHANGED <<files, watching, events, wildcards, allocations, writes, restarts>>

\* addTunnelRoutes, its update: MergeTunnelRoutes only adds and replaces.
Merge ==
  /\ pc = "merge"
  /\ IF data = NoFile THEN UNCHANGED routes
     ELSE \E found \in BuildTunnelRoutes(data, allocations) :
            routes' = [n \in Names |-> IF n \in DOMAIN found THEN found[n] ELSE routes[n]]
  /\ data' = NoFile
  /\ pc' = "idle"
  /\ UNCHANGED <<files, watching, events, wildcards, allocations, writes, restarts>>

\* The daemon ends and is started again.
Restart ==
  /\ restarts < MaxRestarts
  /\ restarts' = restarts + 1
  /\ pc' = "start" /\ watching' = FALSE /\ events' = <<>> /\ data' = NoFile
  /\ routes' = Empty /\ wildcards' = Empty /\ allocations' = {}
  /\ UNCHANGED <<files, writes>>

-----------------------------------------------------------------------------
(* The files.  A rename onto a watched name is a Create event; the removal *)
(* of a file is an event the watcher ignores.                              *)

Quiet == QuietStart => watching \/ pc = "start"

\* Mutant of Notify: an event that comes during a rebuild is dropped.
NotifyWhenIdle(event) ==
  events' = IF watching /\ pc = "idle" THEN Append(events, event) ELSE events

Notify(event) == events' = IF watching THEN Append(events, event) ELSE events

WriteRegistry ==
  /\ Quiet /\ writes < MaxWrites
  /\ regFile' \in RegFiles
  /\ writes' = writes + 1
  /\ Notify("registry")
  /\ UNCHANGED <<tunFile, live, watching, pc, data, table, restarts>>

\* outport share: WriteState.
ShareStarts ==
  /\ (QuietStart => watching) /\ writes < MaxWrites
  /\ ~live
  /\ tunFile' \in TunnelMaps
  /\ live' = TRUE
  /\ writes' = writes + 1
  /\ Notify("tunnels")
  /\ UNCHANGED <<regFile, watching, pc, data, table, restarts>>

\* It ends: RemoveState.  Or it is killed and leaves the file.
ShareEnds ==
  /\ live
  /\ live' = FALSE
  /\ tunFile' \in {NoFile, tunFile}
  /\ UNCHANGED <<regFile, watching, events, pc, data, table, writes, restarts>>

Init ==
  /\ regFile \in RegFiles \cup {NoFile}
  /\ tunFile = NoFile /\ live = FALSE
  /\ watching = FALSE /\ events = <<>>
  /\ pc = "start" /\ data = NoFile
  /\ routes = Empty /\ wildcards = Empty /\ allocations = {}
  /\ writes = 0 /\ restarts = 0

Step == ReadRegistry \/ Swap \/ Watch \/ ReadTunnels \/ Merge
Next == Step \/ Restart \/ WriteRegistry \/ ShareStarts \/ ShareEnds

\* The goroutine runs whenever it has something to do.
Spec == Init /\ [][Next]_vars /\ WF_vars(Step)

-----------------------------------------------------------------------------
Routes == [port : Ports, override : Hosts \cup {NoHost}] \cup {NoRoute}

RouteTypeOK ==
  /\ regFile \in RegFiles \cup {NoFile}
  /\ tunFile \in TunnelMaps \cup {NoFile}
  /\ live \in BOOLEAN /\ watching \in BOOLEAN
  /\ events \in Seq({"registry", "tunnels"})
  /\ pc \in {"start", "swap", "watch", "idle", "tunnels", "merge"}
  /\ pc = "swap" => data \in RegFiles \cup {NoFile}
  /\ pc = "merge" => data \in TunnelMaps \cup {NoFile}
  /\ routes \in [Names -> Routes] /\ wildcards \in [Names -> Routes]
  /\ allocations \in RegFiles \cup {{}}
  /\ writes \in 0 .. MaxWrites /\ restarts \in 0 .. MaxRestarts

\* The name whose port a request for n with route r is meant for.
Owner(n, r) ==
  IF r.override # NoHost THEN r.override
  ELSE IF n \in Hosts /\ PortsOf(allocations, n) # {} THEN n
  ELSE Parent[n]

\* Whatever the table says at any moment, also with tunnel routes merged in and
\* old ones lingering, agrees with the one registry it was built from: no request
\* is sent to a port that its name, the name its tunnel stands for, or the name it
\* is a subdomain of does not have in that registry.
RoutesAgree ==
  \A n \in Names : Lookup(n) # NoRoute =>
    Lookup(n).port \in PortsOf(allocations, Owner(n, Lookup(n)))

\* The goroutine has nothing left to do.
Settled == pc = "idle" /\ events = <<>>

\* Then the table is one of the registry that is on disk.
RegistryServed ==
  Settled /\ regFile # NoFile =>
    /\ allocations = regFile
    /\ \E built \in BuildRoutes(regFile) :
         wildcards = built.wildcards /\ \A h \in Hosts : routes[h] = built.routes[h]

\* And the tunnels of a running share lead where its file says, as long as the
\* daemon was not restarted: a new daemon does not look at tunnels.json until one
\* of the two files changes.
TunnelsServed ==
  Settled /\ live /\ restarts = 0 =>
    \E found \in BuildTunnelRoutes(tunFile, allocations) :
      \A t \in DOMAIN found : routes[t] = found[t]

\* The table is rebuilt from the registry.
Rebuilt == pc = "swap" /\ data # NoFile

KeepsRouting ==
  \A h \in Hosts :
    LET ports == PortsOf(allocations, h) IN
    ports # {} /\ PortsOf(allocations', h) = ports =>
      /\ \E p \in ports : routes'[h] = [port |-> p, override |-> NoHost]
      /\ ~Rebuilt \/ (\E p \in ports : ports = {p}) => routes'[h] = routes[h]

\* A registered name whose ports stay what they are keeps being routed: neither a
\* rebuild nor the coming and going of tunnels interrupts it for a moment.  One
\* that has one owner leads to the same port throughout; one that several claim
\* leads to a port of theirs, and may change hands with each rebuild, even if
\* nothing about it changed (routes.go:158-173), but at no other time.
Uninterrupted == [][KeepsRouting]_vars
=============================================================================
