-------------------------- MODULE RouteDaemonProofs --------------------------
(***************************************************************************)
(* Proofs about RouteDaemon, for any names, ports, registries and tunnels, *)
(* any number of file changes and restarts:                                *)
(*    TableAgrees        the route table always agrees with one registry   *)
(*    NamesUninterrupted a rebuild does not disturb a name that stays put  *)
(*    TableCatchesUp     an idle watcher serves the registry on disk       *)
(*    TunnelsCatchUp     and the tunnels of a running share                *)
(* the same of the daemon with its dashboard, and of that                  *)
(*    BrowserShowsLatest a browser is shown what is served                 *)
(***************************************************************************)
EXTENDS Dashboard, SequenceTheorems, TLAPS

Claims == [host : Hosts, port : Ports, wild : BOOLEAN]

\* Where a name may lead that is routed by its own claims.
Direct(claims, n) == {[port |-> p, override |-> NoHost] : p \in PortsOf(claims, n)}

\* The table was built from the allocations it holds, and what is a tunnel's was added since.
Built(table0, reg) ==
  /\ table0.routes \in [Names -> Routes] /\ table0.wildcards \in [Names -> Routes]
  /\ \A n \in Names : IF PortsOf(reg, n) = {} THEN table0.routes[n] = NoRoute
                                              ELSE table0.routes[n] \in Direct(reg, n)
  /\ \A n \in Names : table0.wildcards[n] # NoRoute => table0.wildcards[n] \in Direct(reg, n)

TableInv ==
  /\ allocations \in SUBSET Claims /\ allocations \in RegFiles \cup {{}}
  /\ pc = "swap" => data \in RegFiles \cup {NoFile}
  /\ pc = "merge" => data \in TunnelMaps \cup {NoFile}
  /\ regFile \in RegFiles \cup {NoFile}
  /\ tunFile \in TunnelMaps \cup {NoFile}
  /\ DOMAIN routes = Names
  /\ \E built \in BuildRoutes(allocations) :
       wildcards = built.wildcards /\ \A n \in Names \ TunnelHosts : routes[n] = built.routes[n]
  /\ \A t \in TunnelHosts : routes[t] # NoRoute =>
       /\ routes[t].override \in Hosts
       /\ routes[t].port \in PortsOf(allocations, routes[t].override)

\* What comes of any set of claims to any name: the route of one of them.
LEMMA RoutesOfOne ==
  ASSUME NEW claims \in SUBSET Claims, NEW last \in Lasts(claims)
  PROVE  /\ RoutesOf(last) \in [Names -> Routes]
         /\ \A n \in Names : IF PortsOf(claims, n) = {} THEN RoutesOf(last)[n] = NoRoute
                                                       ELSE RoutesOf(last)[n] \in Direct(claims, n)
<1>1. DOMAIN last = {c.host : c \in claims} /\ \A n \in DOMAIN last : last[n] \in claims /\ last[n].host = n
  BY DEF Lasts
<1>2. \A n : n \in DOMAIN last <=> PortsOf(claims, n) # {}
  BY <1>1 DEF PortsOf
<1>3. \A n \in DOMAIN last : last[n].port \in PortsOf(claims, n) /\ last[n].port \in Ports
  BY <1>1 DEF PortsOf, Claims
<1>4. \A n \in Names : RoutesOf(last)[n] = IF n \in DOMAIN last THEN [port |-> last[n].port, override |-> NoHost]
                                                              ELSE NoRoute
  BY DEF RoutesOf
<1>5. \A n \in DOMAIN last : [port |-> last[n].port, override |-> NoHost] \in Routes \cap Direct(claims, n)
  BY <1>3 DEF Routes, Direct
<1>6. NoRoute \in Routes
  BY DEF Routes
<1>7. RoutesOf(last) \in [Names -> Routes]
  BY <1>4, <1>5, <1>6 DEF RoutesOf
<1> QED BY <1>2, <1>4, <1>5, <1>7

LEMMA BuildRoutesBuilds ==
  ASSUME NEW reg \in SUBSET Claims, NEW built \in BuildRoutes(reg)
  PROVE  Built(built, reg)
<1> DEFINE wilds == {c \in reg : c.wild}
<1>1. PICK last \in Lasts(reg), wild \in Lasts(wilds) :
        built = [routes |-> RoutesOf(last), wildcards |-> RoutesOf(wild)]
  BY DEF BuildRoutes
<1>2. wilds \in SUBSET Claims /\ \A n : PortsOf(wilds, n) \subseteq PortsOf(reg, n)
  BY DEF PortsOf
<1>3. \A n : Direct(wilds, n) \subseteq Direct(reg, n)
  BY <1>2 DEF Direct
<1> QED BY <1>1, <1>2, <1>3, RoutesOfOne DEF Built

\* A registry without claims gives no routes.
LEMMA NothingBuilt == [routes |-> Empty, wildcards |-> Empty] \in BuildRoutes({})
<1> DEFINE nobody == [n \in {} |-> n]
<1>1. nobody \in Lasts({}) /\ DOMAIN nobody = {}
  BY DEF Lasts
<1>2. RoutesOf(nobody) = Empty
  BY <1>1 DEF RoutesOf, Empty
<1>3. {c \in {} : c.wild} = {}
  OBVIOUS
<1>4. <<nobody, nobody>> \in {l \in Lasts({}) \X Lasts({c \in {} : c.wild}) :
                            \A n \in DOMAIN l[1] : l[1][n].wild => l[2][n] = l[1][n]}
  BY <1>1, <1>3
<1> QED BY <1>2, <1>4 DEF BuildRoutes

LEMMA Apart ==
  /\ \A t \in TunnelHosts : t \in Names /\ t \notin Hosts
  /\ \A h \in Hosts : h \in Names /\ h \notin TunnelHosts
  /\ \A reg \in SUBSET Claims : \A n : PortsOf(reg, n) # {} => n \in Hosts
  /\ \A reg \in RegFiles \cup {{}} : reg \in SUBSET Claims
  /\ \A reg : \A n : \A r \in Direct(reg, n) :
       r # NoRoute => r.override = NoHost /\ r.port \in PortsOf(reg, n)
<1>1. \A reg \in SUBSET Claims : \A n : PortsOf(reg, n) # {} => n \in Hosts
  BY DEF PortsOf, Claims
<1> QED BY <1>1, RouteConstants DEF Names, Claims, Direct

LEMMA TableInit == Init => TableInv
<1> SUFFICES ASSUME Init PROVE TableInv
  OBVIOUS
<1>1. \A t \in TunnelHosts : routes[t] = NoRoute
  BY DEF Init, Empty, Names
<1>2. DOMAIN routes = Names
  BY DEF Init, Empty
<1> QED BY <1>1, <1>2, NothingBuilt DEF Init, TableInv

LEMMA TunnelRoutesFound ==
  ASSUME NEW map \in TunnelMaps, NEW reg \in SUBSET Claims, NEW found \in BuildTunnelRoutes(map, reg)
  PROVE  /\ DOMAIN found = Tunnelled(map, reg) /\ DOMAIN found \subseteq TunnelHosts
         /\ \A t \in DOMAIN found : found[t].override \in Hosts /\ found[t].port \in PortsOf(reg, found[t].override)
<1>1. PICK first \in [Tunnelled(map, reg) -> reg] :
        /\ \A t \in DOMAIN first : first[t].host = map[t]
        /\ found = [t \in Tunnelled(map, reg) |-> [port |-> first[t].port, override |-> map[t]]]
  BY DEF BuildTunnelRoutes
<1>2. \A t \in Tunnelled(map, reg) : first[t] \in reg /\ first[t].host = map[t] /\ first[t].host \in Hosts
  BY <1>1 DEF Claims
<1> QED BY <1>1, <1>2 DEF Tunnelled, PortsOf

LEMMA TableStep == TableInv /\ [Next]_vars => TableInv'
<1> SUFFICES ASSUME TableInv, [Next]_vars PROVE TableInv'
  OBVIOUS
<1> USE DEF TableInv
<1>1. CASE ReadRegistry
  BY <1>1 DEF ReadRegistry, files, table
<1>2. CASE Swap
  <2>1. CASE data = NoFile
    BY <1>2, <2>1 DEF Swap, files, table
  <2>2. CASE data # NoFile
    <3>1. PICK built \in BuildRoutes(data) : routes' = built.routes /\ wildcards' = built.wildcards
      BY <1>2, <2>2 DEF Swap
    <3>2. /\ allocations' = data /\ pc' \in {"tunnels", "watch"} /\ data \in RegFiles
          /\ data \in SUBSET Claims /\ UNCHANGED files
      BY <1>2, <2>2, Apart DEF Swap
    <3>3. Built(built, data)
      BY <3>2, BuildRoutesBuilds
    <3>4. DOMAIN routes' = Names
      BY <3>1, <3>3 DEF Built
    <3>5. \A t \in TunnelHosts : routes'[t] = NoRoute
      BY <3>1, <3>2, <3>3, Apart DEF Built
    <3> QED BY <3>1, <3>2, <3>4, <3>5 DEF files
  <2> QED BY <2>1, <2>2
<1>3. CASE Watch
  BY <1>3 DEF Watch, files, table
<1>4. CASE ReadTunnels
  BY <1>4 DEF ReadTunnels, files, table
<1>5. CASE Merge
  <2>1. /\ UNCHANGED <<files, wildcards, allocations>>
        /\ pc' = "idle"
    BY <1>5 DEF Merge
  <2>2. CASE data = NoFile
    BY <1>5, <2>1, <2>2 DEF Merge, files
  <2>3. CASE data # NoFile
    <3>1. data \in TunnelMaps
      BY <1>5, <2>3 DEF Merge
    <3>2. PICK found \in BuildTunnelRoutes(data, allocations) :
            routes' = [n \in Names |-> IF n \in DOMAIN found THEN found[n] ELSE routes[n]]
      BY <1>5, <2>3 DEF Merge
    <3>3. /\ DOMAIN found \subseteq TunnelHosts
          /\ \A t \in DOMAIN found : /\ found[t].override \in Hosts
                                     /\ found[t].port \in PortsOf(allocations, found[t].override)
      BY <3>1, TunnelRoutesFound
    <3>5. \A n \in Names \ TunnelHosts : routes'[n] = routes[n]
      BY <3>2, <3>3
    <3>6. \A t \in TunnelHosts : routes'[t] = IF t \in DOMAIN found THEN found[t] ELSE routes[t]
      BY <3>2, Apart
    <3>7. DOMAIN routes' = Names
      BY <3>2
    <3>8. \A t \in TunnelHosts : routes'[t] # NoRoute =>
            routes'[t].override \in Hosts /\ routes'[t].port \in PortsOf(allocations, routes'[t].override)
      BY <3>3, <3>6
    <3> QED BY <2>1, <3>5, <3>7, <3>8 DEF files
  <2> QED BY <2>2, <2>3
<1>6. CASE Restart
  <2>1. \A t \in TunnelHosts : routes'[t] = NoRoute
    BY <1>6 DEF Restart, Empty, Names
  <2>2. DOMAIN routes' = Names
    BY <1>6 DEF Restart, Empty
  <2> QED BY <1>6, <2>1, <2>2, NothingBuilt DEF Restart, files
<1>7. CASE WriteRegistry \/ ShareStarts \/ ShareEnds
  BY <1>7 DEF WriteRegistry, ShareStarts, ShareEnds, table
<1>8. CASE UNCHANGED vars
  BY <1>8 DEF vars, files, table
<1> QED BY <1>1, <1>2, <1>3, <1>4, <1>5, <1>6, <1>7, <1>8 DEF Next, Step

\* What the theorems use of Spec: Dashboard implements it as well.
Safety == Init /\ [][Next]_vars

LEMMA TableInvariant == Safety => []TableInv
BY TableInit, TableStep, PTL DEF Safety

\* No request is ever sent to a port that its name does not have in the registry
\* the table was built from (routes.go, Lookup, UpdateWithAllocations,
\* MergeTunnelRoutes).
THEOREM TableAgrees == Safety => []RoutesAgree
<1>1. TableInv => RoutesAgree
  <2> SUFFICES ASSUME TableInv, NEW n \in Names, Lookup(n) # NoRoute
               PROVE  Lookup(n).port \in PortsOf(allocations, Owner(n, Lookup(n)))
    BY DEF RoutesAgree
  <2>1. PICK built \in BuildRoutes(allocations) :
          wildcards = built.wildcards /\ \A m \in Names \ TunnelHosts : routes[m] = built.routes[m]
    BY DEF TableInv
  <2>2. Built(built, allocations)
    BY BuildRoutesBuilds DEF TableInv
  <2>3. CASE routes[n] # NoRoute /\ n \in TunnelHosts
    BY <2>3, RouteConstants DEF TableInv, Lookup, Owner
  <2>4. CASE routes[n] # NoRoute /\ n \notin TunnelHosts
    <3>1. Lookup(n) = built.routes[n]
      BY <2>1, <2>4 DEF Lookup
    <3>2. n \in Hosts /\ PortsOf(allocations, n) # {}
      BY <2>1, <2>2, <2>4, Apart DEF Built, TableInv
    <3>3. Lookup(n) \in Direct(allocations, n)
      BY <2>2, <3>1, <3>2 DEF Built
    <3> QED BY <3>2, <3>3 DEF Owner, Direct
  <2>5. CASE routes[n] = NoRoute
    <3>1. /\ n \in DOMAIN Parent
          /\ Lookup(n) = wildcards[Parent[n]]
      BY <2>5 DEF Lookup
    <3>2. Parent[n] \in Hosts /\ Parent[n] \in Names
      BY <3>1, RouteConstants DEF Names
    <3>3. Lookup(n) \in Direct(allocations, Parent[n])
      BY <2>1, <2>2, <3>1, <3>2 DEF Built
    <3>4. n \in Hosts => PortsOf(allocations, n) = {}
      <4> SUFFICES ASSUME n \in Hosts, PortsOf(allocations, n) # {} PROVE FALSE
        OBVIOUS
      <4>1. n \in Names \ TunnelHosts
        BY Apart
      <4>2. NoRoute \in Direct(allocations, n)
        BY <2>1, <2>2, <2>5, <4>1 DEF Built
      <4>3. Direct(allocations, n) \subseteq [port : Ports, override : Hosts \cup {NoHost}]
        BY DEF Direct, PortsOf, TableInv, Claims
      <4> QED BY <4>2, <4>3, RouteConstants
    <3> QED BY <3>3, <3>4 DEF Owner, Direct
  <2> QED BY <2>3, <2>4, <2>5
<1> QED BY <1>1, TableInvariant, PTL

\* A name with an owner is routed to one.
OwnersRouted == \A h \in Hosts : PortsOf(allocations, h) # {} => routes[h] \in Direct(allocations, h)

LEMMA OwnersRoutedInv == Safety => []OwnersRouted
<1>1. TableInv => OwnersRouted
  <2> SUFFICES ASSUME TableInv, NEW h \in Hosts, PortsOf(allocations, h) # {}
               PROVE  routes[h] \in Direct(allocations, h)
    BY DEF OwnersRouted
  <2>1. PICK built \in BuildRoutes(allocations) :
          \A n \in Names \ TunnelHosts : routes[n] = built.routes[n]
    BY DEF TableInv
  <2>2. Built(built, allocations)
    BY BuildRoutesBuilds DEF TableInv
  <2> QED BY <2>1, <2>2, Apart DEF Built
<1> QED BY <1>1, TableInvariant, PTL

\* The routes of names change in rebuilds only.
LEMMA RoutesKept ==
  ASSUME TableInv, [Next]_vars, NEW h \in Hosts, allocations' = allocations, allocations # {}, ~Rebuilt
  PROVE  routes'[h] = routes[h]
<1>1. CASE Merge
  <2>1. CASE data = NoFile
    BY <1>1, <2>1 DEF Merge
  <2>2. CASE data # NoFile
    <3>1. PICK found \in BuildTunnelRoutes(data, allocations) :
            routes' = [n \in Names |-> IF n \in DOMAIN found THEN found[n] ELSE routes[n]]
      BY <1>1, <2>2 DEF Merge
    <3>2. data \in TunnelMaps
      BY <1>1, <2>2 DEF Merge, TableInv
    <3>3. DOMAIN found \subseteq TunnelHosts
      BY <3>2, TunnelRoutesFound DEF TableInv
    <3> QED BY <3>1, <3>3, Apart
  <2> QED BY <2>1, <2>2
<1>2. CASE Swap
  BY <1>2 DEF Swap, Rebuilt, table
<1>3. CASE Restart
  BY <1>3 DEF Restart
<1> QED BY <1>1, <1>2, <1>3
        DEF Next, Step, ReadRegistry, Watch, ReadTunnels, WriteRegistry, ShareStarts, ShareEnds, vars, table

\* A registered name whose ports do not change is routed without a gap, to one of them; if it
\* has one owner, to the same, and if it has several, to the same except for the choice that
\* a rebuild makes anew (routes.go, BuildRoutes; UpdateWithAllocations swaps the whole table
\* under the lock).
THEOREM NamesUninterrupted == Safety => Uninterrupted
<1>1. TableInv /\ OwnersRouted /\ OwnersRouted' /\ [Next]_vars => KeepsRouting
  <2> SUFFICES ASSUME TableInv, OwnersRouted, OwnersRouted', [Next]_vars, NEW h \in Hosts,
                      PortsOf(allocations, h) # {}, PortsOf(allocations', h) = PortsOf(allocations, h)
               PROVE  /\ routes'[h] \in Direct(allocations, h)
                      /\ ~Rebuilt \/ (\E p \in PortsOf(allocations, h) : PortsOf(allocations, h) = {p})
                           => routes'[h] = routes[h]
    BY DEF KeepsRouting, Direct
  <2>1. routes[h] \in Direct(allocations, h)
    BY DEF OwnersRouted
  <2>2. routes'[h] \in Direct(allocations', h)
    BY DEF OwnersRouted
  <2>3. Direct(allocations', h) = Direct(allocations, h)
    BY DEF Direct
  <2>4. ASSUME NEW p, PortsOf(allocations, h) = {p} PROVE routes'[h] = routes[h]
    BY <2>1, <2>2, <2>3, <2>4 DEF Direct
  <2>5. ASSUME ~Rebuilt PROVE routes'[h] = routes[h]
    <3>1. CASE allocations' = allocations
      BY <2>5, <3>1, RoutesKept DEF PortsOf
    <3>2. CASE allocations' # allocations
      BY <2>5, <3>2
         DEF Next, Step, ReadRegistry, Swap, Watch, ReadTunnels, Merge, Restart, WriteRegistry,
             ShareStarts, ShareEnds, vars, table, Rebuilt, PortsOf
    <3> QED BY <3>1, <3>2
  <2> QED BY <2>2, <2>3, <2>4, <2>5
<1> QED BY <1>1, TableInvariant, OwnersRoutedInv, PTL DEF Uninterrupted, Safety

-----------------------------------------------------------------------------
(* What the watcher knows of the registry on disk.                         *)

UpToDate == regFile # NoFile => allocations = regFile
Queued   == \E i \in 1 .. Len(events) : events[i] = "registry"

\* A registry that is not in the table yet is about to be swapped in, or an event
\* for it waits.  Before the watch exists it is not replaced at all.
FreshInv ==
  /\ watching \in BOOLEAN
  /\ events \in Seq({"registry", "tunnels"})
  /\ pc \in {"start", "swap", "watch", "idle", "tunnels", "merge"}
  /\ ~watching => events = <<>> /\ pc \in {"start", "swap", "watch"}
  /\ pc \in {"start", "watch"} => ~watching
  /\ pc = "watch" => UpToDate
  /\ pc = "swap" => data = regFile \/ Queued
  /\ pc \in {"idle", "tunnels", "merge"} => UpToDate \/ Queued

\* An event that is queued stays queued when another comes in or leaves before it.
LEMMA QueuedAppend ==
  ASSUME NEW s \in Seq({"registry", "tunnels"}), NEW e \in {"registry", "tunnels"}, NEW x,
         e = x \/ \E i \in 1 .. Len(s) : s[i] = x
  PROVE  \E i \in 1 .. Len(Append(s, e)) : Append(s, e)[i] = x
<1>1. Append(s, e) \in Seq({"registry", "tunnels"}) /\ Len(Append(s, e)) = Len(s) + 1
  BY AppendProperties
<1>2. CASE e = x
  <2>1. Append(s, e)[Len(s) + 1] = x
    BY <1>2, AppendProperties
  <2>2. Len(s) + 1 \in 1 .. Len(Append(s, e))
    BY <1>1, LenProperties
  <2> QED BY <2>1, <2>2
<1>3. CASE \E i \in 1 .. Len(s) : s[i] = x
  <2>1. PICK i \in 1 .. Len(s) : s[i] = x
    BY <1>3
  <2>2. Append(s, e)[i] = x /\ i \in 1 .. Len(Append(s, e))
    BY <1>1, <2>1, AppendProperties, LenProperties
  <2> QED BY <2>2
<1> QED BY <1>2, <1>3

LEMMA QueuedTail ==
  ASSUME NEW s \in Seq({"registry", "tunnels"}), NEW x, s # <<>>, Head(s) # x,
         \E i \in 1 .. Len(s) : s[i] = x
  PROVE  \E i \in 1 .. Len(Tail(s)) : Tail(s)[i] = x
<1>1. PICK i \in 1 .. Len(s) : s[i] = x
  OBVIOUS
<1>2. i # 1 /\ Len(s) \in Nat
  BY <1>1, LenProperties
<1>3. i - 1 \in 1 .. Len(Tail(s)) /\ Tail(s)[i - 1] = s[i]
  BY <1>2, HeadTailProperties
<1> QED BY <1>1, <1>3

LEMMA FreshInit == Init => FreshInv
<1> SUFFICES ASSUME Init PROVE FreshInv
  OBVIOUS
<1>1. watching = FALSE /\ events = <<>> /\ pc = "start"
  BY DEF Init
<1>2. <<>> \in Seq({"registry", "tunnels"})
  OBVIOUS
<1> QED BY <1>1, <1>2 DEF FreshInv

LEMMA FreshStep == QuietStart /\ FreshInv /\ [Next]_vars => FreshInv'
<1> SUFFICES ASSUME QuietStart, FreshInv, [Next]_vars PROVE FreshInv'
  OBVIOUS
<1> USE DEF FreshInv
<1>1. CASE ReadRegistry
  <2>1. events' \in Seq({"registry", "tunnels"})
    BY <1>1, HeadTailProperties DEF ReadRegistry
  <2>2. data' = regFile' /\ pc' = "swap" /\ watching' = watching
    BY <1>1 DEF ReadRegistry, files
  <2>3. ~watching' => events' = <<>>
    BY <1>1 DEF ReadRegistry
  <2> QED BY <2>1, <2>2, <2>3
<1>2. CASE Swap
  <2>1. /\ UNCHANGED <<regFile, watching, events>>
        /\ pc' = IF watching THEN "tunnels" ELSE "watch"
    BY <1>2 DEF Swap, files
  <2>2. data = regFile => UpToDate'
    BY <1>2, <2>1 DEF Swap, UpToDate, table
  <2>3. data = regFile \/ Queued
    BY <1>2 DEF Swap
  <2>4. Queued => Queued' /\ watching
    BY <2>1 DEF Queued
  <2>5. UpToDate' \/ (Queued' /\ watching)
    BY <2>2, <2>3, <2>4
  <2>6. CASE watching = TRUE
    <3>1. watching' = TRUE /\ pc' = "tunnels" /\ events' = events
      BY <2>1, <2>6
    <3>2. UpToDate' \/ Queued'
      BY <2>5, Zenon
    <3> QED BY <3>1, <3>2
  <2>7. CASE watching = FALSE
    <3>1. watching' = FALSE /\ pc' = "watch" /\ events' = events /\ events = <<>>
      BY <2>1, <2>7
    <3>2. UpToDate'
      BY <2>5, <2>7
    <3> QED BY <3>1, <3>2
  <2> QED BY <2>6, <2>7
<1>3. CASE Watch
  <2>1. /\ UNCHANGED <<regFile, events, allocations>>
        /\ watching' = TRUE /\ pc' = "idle" /\ UpToDate
    BY <1>3 DEF Watch, files, table
  <2> QED BY <2>1 DEF UpToDate
<1>4. CASE ReadTunnels
  <2>1. UNCHANGED <<regFile, watching, allocations>> /\ pc' = "merge" /\ watching
    BY <1>4 DEF ReadTunnels, files, table
  <2>2. events' \in Seq({"registry", "tunnels"})
    BY <1>4, HeadTailProperties DEF ReadTunnels
  <2>3. Queued => Queued'
    BY <1>4, QueuedTail DEF ReadTunnels, Queued
  <2>4. UpToDate \/ Queued
    BY <1>4 DEF ReadTunnels
  <2> QED BY <2>1, <2>2, <2>3, <2>4 DEF UpToDate
<1>5. CASE Merge
  BY <1>5 DEF Merge, files, UpToDate, Queued
<1>6. CASE Restart
  <2>1. watching' = FALSE /\ events' = <<>> /\ pc' = "start"
    BY <1>6 DEF Restart
  <2>2. <<>> \in Seq({"registry", "tunnels"})
    OBVIOUS
  <2> QED BY <2>1, <2>2
<1>7. CASE WriteRegistry
  <2>1. /\ pc' = pc /\ watching' = watching /\ data' = data
        /\ events' = IF watching THEN Append(events, "registry") ELSE events
        /\ watching \/ pc = "start"
    BY <1>7 DEF WriteRegistry, Quiet, Notify
  <2>2. events' \in Seq({"registry", "tunnels"})
    BY <2>1, AppendProperties
  <2>3. watching => Queued'
    BY <2>1, QueuedAppend DEF Queued
  <2> QED BY <2>1, <2>2, <2>3
<1>8. CASE ShareStarts
  <2>1. /\ UNCHANGED <<regFile, watching, pc, data, allocations>>
        /\ watching
        /\ events' = Append(events, "tunnels")
    BY <1>8 DEF ShareStarts, Notify, table
  <2>2. events' \in Seq({"registry", "tunnels"})
    BY <2>1, AppendProperties
  <2>3. Queued => Queued'
    BY <2>1, QueuedAppend DEF Queued
  <2> QED BY <2>1, <2>2, <2>3 DEF UpToDate
<1>9. CASE ShareEnds \/ UNCHANGED vars
  BY <1>9 DEF ShareEnds, vars, files, table, UpToDate, Queued
<1> QED BY <1>1, <1>2, <1>3, <1>4, <1>5, <1>6, <1>7, <1>8, <1>9 DEF Next, Step

LEMMA FreshInvariant ==
  ASSUME QuietStart
  PROVE  Safety => []FreshInv
<1>1. FreshInv /\ [Next]_vars => FreshInv'
  BY FreshStep
<1> QED BY <1>1, FreshInit, PTL DEF Safety

\* An idle watcher with no event left serves the registry that is on disk, if no
\* command writes it between the daemon's first read and its watch (routes.go,
\* WatchAndRebuild).
THEOREM TableCatchesUp ==
  ASSUME QuietStart
  PROVE  Safety => []RegistryServed
<1>1. FreshInv /\ TableInv => RegistryServed
  <2> SUFFICES ASSUME FreshInv, TableInv, Settled, regFile # NoFile
               PROVE  /\ allocations = regFile
                      /\ \E built \in BuildRoutes(regFile) :
                           wildcards = built.wildcards /\ \A h \in Hosts : routes[h] = built.routes[h]
    BY DEF RegistryServed
  <2>1. ~Queued
    BY DEF Settled, Queued
  <2>2. allocations = regFile
    BY <2>1 DEF FreshInv, Settled, UpToDate
  <2>3. \A h \in Hosts : h \in Names \ TunnelHosts
    BY RouteConstants DEF Names
  <2> QED BY <2>2, <2>3 DEF TableInv
<1> QED BY <1>1, FreshInvariant, TableInvariant, PTL

-----------------------------------------------------------------------------
(* What the watcher knows of the tunnels of a running share.               *)

Served ==
  \E found \in BuildTunnelRoutes(tunFile, allocations) :
    \A t \in DOMAIN found : routes[t] = found[t]

Announced == \E i \in 1 .. Len(events) : events[i] = "tunnels"

\* The tunnels of a running share are in the table, or about to be merged into it, or an
\* event for them waits.  A rebuild, which drops them, is followed by a look at their file;
\* only the first rebuild of a daemon is not, and no share runs then.
ServedInv ==
  restarts = 0 /\ live =>
    /\ watching
    /\ tunFile \in TunnelMaps
    /\ pc = "merge" => data = tunFile \/ Announced
    /\ pc = "idle" => Served \/ Announced

LEMMA ServedInit == Init => ServedInv
BY DEF Init, ServedInv

LEMMA ServedStep ==
  QuietStart /\ FreshInv /\ TableInv /\ restarts \in Nat /\ ServedInv /\ [Next]_vars => ServedInv'
<1> SUFFICES ASSUME QuietStart, FreshInv, TableInv, restarts \in Nat, ServedInv, [Next]_vars,
                    restarts' = 0, live'
             PROVE  /\ watching'
                    /\ tunFile' \in TunnelMaps
                    /\ pc' = "merge" => data' = tunFile' \/ Announced'
                    /\ pc' = "idle" => Served' \/ Announced'
  BY DEF ServedInv
<1>1. CASE ReadRegistry
  BY <1>1 DEF ReadRegistry, ServedInv, files
<1>2. CASE Swap
  BY <1>2 DEF Swap, ServedInv, files
<1>3. CASE Watch
  \* No share runs before there is a watch.
  BY <1>3 DEF Watch, ServedInv, FreshInv, files
<1>4. CASE ReadTunnels
  BY <1>4 DEF ReadTunnels, ServedInv, files
<1>5. CASE Merge
  <2>1. /\ UNCHANGED <<tunFile, live, watching, events, allocations, restarts>>
        /\ pc = "merge" /\ pc' = "idle"
    BY <1>5 DEF Merge, files
  <2>2. watching /\ tunFile \in TunnelMaps /\ (data = tunFile \/ Announced)
    BY <2>1 DEF ServedInv
  <2>3. ASSUME data = tunFile PROVE Served'
    <3>1. data # NoFile
      BY <2>2, <2>3, RouteConstants
    <3>2. PICK found \in BuildTunnelRoutes(tunFile, allocations) :
            routes' = [n \in Names |-> IF n \in DOMAIN found THEN found[n] ELSE routes[n]]
      BY <1>5, <2>3, <3>1 DEF Merge
    <3>3. DOMAIN found \subseteq Names
      BY <2>2, TunnelRoutesFound DEF TableInv, Names
    <3>4. \A t \in DOMAIN found : routes'[t] = found[t]
      BY <3>2, <3>3
    <3> QED BY <2>1, <3>4 DEF Served
  <2>4. Announced => Announced'
    BY <2>1 DEF Announced
  <2> QED BY <2>1, <2>2, <2>3, <2>4
<1>6. CASE Restart
  BY <1>6 DEF Restart
<1>7. CASE WriteRegistry
  <2>1. /\ UNCHANGED <<tunFile, live, watching, pc, data, routes, allocations, restarts>>
        /\ events' = IF watching THEN Append(events, "registry") ELSE events
    BY <1>7 DEF WriteRegistry, Notify, table
  <2>2. Announced => Announced'
    BY <2>1, QueuedAppend DEF Announced, FreshInv
  <2>3. Served => Served'
    BY <2>1 DEF Served
  <2> QED BY <2>1, <2>2, <2>3 DEF ServedInv
<1>8. CASE ShareStarts
  <2>1. watching /\ watching' = watching /\ tunFile' \in TunnelMaps
        /\ events' = Append(events, "tunnels")
    BY <1>8 DEF ShareStarts, Notify
  <2>2. Announced'
    BY <2>1, QueuedAppend DEF Announced, FreshInv
  <2> QED BY <2>1, <2>2
<1>9. CASE ShareEnds
  BY <1>9 DEF ShareEnds
<1>10. CASE UNCHANGED vars
  BY <1>10 DEF vars, files, table, ServedInv, Served, Announced
<1> QED BY <1>1, <1>2, <1>3, <1>4, <1>5, <1>6, <1>7, <1>8, <1>9, <1>10 DEF Next, Step

LEMMA RestartsCounted == Safety => [](restarts \in Nat)
<1>1. Init => restarts \in Nat
  BY DEF Init
<1>2. restarts \in Nat /\ [Next]_vars => (restarts \in Nat)'
  BY DEF Next, Step, ReadRegistry, Swap, Watch, ReadTunnels, Merge, Restart, WriteRegistry,
         ShareStarts, ShareEnds, vars
<1> QED BY <1>1, <1>2, PTL DEF Safety

\* The public names of a running share lead where its file says whenever the watcher has
\* nothing left to do, although every rebuild in between starts from a table without them
\* (routes.go, addTunnelRoutes after rebuildFromFile; state.go, WriteState).
THEOREM TunnelsCatchUp ==
  ASSUME QuietStart
  PROVE  Safety => []TunnelsServed
<1>1. FreshInv /\ TableInv /\ restarts \in Nat /\ ServedInv /\ [Next]_vars => ServedInv'
  BY ServedStep
<1>2. Safety => []ServedInv
  BY <1>1, ServedInit, FreshInvariant, TableInvariant, RestartsCounted, PTL DEF Safety
<1>3. ServedInv => TunnelsServed
  <2> SUFFICES ASSUME ServedInv, Settled, live, restarts = 0 PROVE Served
    BY DEF TunnelsServed, Served
  <2>1. ~Announced
    BY DEF Settled, Announced
  <2> QED BY <2>1 DEF ServedInv, Settled
<1> QED BY <1>2, <1>3, PTL

-----------------------------------------------------------------------------
(* The dashboard reads the route table and never disturbs it: every step of *)
(* Dashboard is a step of RouteDaemon or leaves its state alone, for any    *)
(* number of visits and health changes and any size of the channel.         *)

LEMMA DashStep == [DashNext]_dvars => [Next]_vars
<1> SUFFICES ASSUME [DashNext]_dvars PROVE [Next]_vars
  OBVIOUS
<1>1. CASE UpdateStep
  <2>1. CASE Watcher
    BY <2>1 DEF Watcher, Next, Step
  <2>2. CASE RefreshCaches \/ BuildUpdate \/ SendUpdate
    BY <2>2 DEF RefreshCaches, BuildUpdate, SendUpdate
  <2> QED BY <1>1, <2>1, <2>2 DEF UpdateStep
<1>2. CASE ChangeStep \/ OnHealthChange
  BY <1>2 DEF ChangeStep, OnHealthChange, RefreshOnChange, SendChange
<1>3. CASE BrowserStep \/ Subscribe \/ Leave
  BY <1>3 DEF BrowserStep, BuildStatus, WriteSSE, Receive, Subscribe, Leave
<1>4. CASE RestartDashboard
  BY <1>4 DEF RestartDashboard, Next
<1>5. CASE Others
  BY <1>5 DEF Others, Next
<1>6. CASE UNCHANGED dvars
  BY <1>6 DEF dvars
<1> QED BY <1>1, <1>2, <1>3, <1>4, <1>5, <1>6 DEF DashNext

LEMMA DashboardImplements == DashSpec => Safety
<1>1. DashInit => Init
  BY DEF DashInit
<1> QED BY <1>1, DashStep, PTL DEF DashSpec, Safety

\* With browsers and health checks around it, the table still agrees with one registry at
\* any moment (routes.go, Lookup; the handler only calls its read methods).
THEOREM DashboardTableAgrees == DashSpec => []RoutesAgree
BY DashboardImplements, TableAgrees, PTL

\* And no name is interrupted by a rebuild that keeps its port.
THEOREM DashboardUninterrupted == DashSpec => Uninterrupted
BY DashboardImplements, NamesUninterrupted, PTL

\* And the registry on disk is served whenever the watcher has nothing left to do, although
\* the callback holds its goroutine up (routes.go, OnUpdate).
THEOREM DashboardTableCatchesUp ==
  ASSUME QuietStart
  PROVE  DashSpec => []RegistryServed
BY DashboardImplements, TableCatchesUp, PTL

\* And so are the tunnels of a running share.
THEOREM DashboardTunnelsCatchUp ==
  ASSUME QuietStart
  PROVE  DashSpec => []TunnelsServed
BY DashboardImplements, TunnelsCatchUp, PTL

-----------------------------------------------------------------------------
(* What a browser is shown: the last snapshot on its way to it is the one  *)
(* of the present table and of the tunnels of a running share, or another  *)
(* one will follow.                                                        *)

Tuns      == TunnelMaps \cup {NoFile}
Snapshots == [allocations : RegFiles \cup {{}}, tunnels : Tuns]

DashTypes ==
  /\ cachedTunnel \in Tuns
  /\ update \in [pc : {"none", "refresh", "build", "send"}, value : Snapshots \cup {NoFile}]
  /\ update.pc = "send" => update.value \in Snapshots
  /\ change \in [pc : {"none", "refresh", "send"}, value : Snapshots \cup Tuns, old : Tuns]
  /\ change.pc = "refresh" => change.value \in Tuns
  /\ change.pc = "send" => change.value \in Snapshots
  /\ browser \in [pc : {"away", "subscribed", "built", "open"}, ch : Seq(Snapshots),
                  page : Snapshots \cup {NoFile}]
  /\ browser.pc = "away" => browser.ch = <<>>
  /\ crossed \in BOOLEAN /\ missed \in BOOLEAN
  /\ live => tunFile \in TunnelMaps

\* A share has tunnels to show, and no look at them is due any more.
Wanted ==
  /\ live /\ Tunnelled(tunFile, allocations) # {}
  /\ ~Announced /\ ~(pc = "merge" /\ data = tunFile)

ReadWell(tunnels) == Wanted => tunnels = tunFile
Current(snapshot) == snapshot.allocations = allocations /\ ReadWell(snapshot.tunnels)

\* The snapshot that the browser will be shown last of those made so far.
Upcoming ==
  IF browser.ch # <<>> THEN {browser.ch[Len(browser.ch)]}
  ELSE IF browser.pc \in {"built", "open"} THEN {browser.page} ELSE {}

\* As long as the two goroutines keep out of each other's way, what each of them holds was
\* read after the last change of the table.
PageInv ==
  ~crossed =>
    /\ update.pc = "none" \/ change.pc = "none"
    /\ update.pc # "refresh" => ReadWell(cachedTunnel)
    /\ update.pc = "send" => Current(update.value)
    /\ change.pc = "refresh" => ReadWell(change.value)
    /\ change.pc = "send" => Current(change.value)
    /\ update.pc = "none" /\ ~missed => \A snapshot \in Upcoming : Current(snapshot)

\* Nothing is under way to the browser.
AtRest == Settled /\ update.pc = "none" /\ browser.ch = <<>>

LEMMA SnapshotType ==
  ASSUME TableInv, NEW tunnels \in Tuns
  PROVE  /\ Snapshot(tunnels) \in Snapshots
         /\ Snapshot(tunnels).allocations = allocations /\ Snapshot(tunnels).tunnels = tunnels
BY DEF TableInv, Snapshot, Snapshots

LEMMA ReadStateType ==
  ASSUME DashTypes
  PROVE  ReadState \in Tuns /\ ReadWell(ReadState)
BY DEF DashTypes, ReadState, Tuns, ReadWell, Wanted

LEMMA DashTypesInit == DashInit => DashTypes
<1> SUFFICES ASSUME DashInit PROVE DashTypes
  OBVIOUS
<1>1. <<>> \in Seq(Snapshots)
  OBVIOUS
<1>2. live = FALSE /\ ReadState = NoFile
  BY DEF DashInit, Init, ReadState
<1> QED BY <1>1, <1>2 DEF DashInit, DashTypes, Tuns, NoCall, NoChange, Away

\* Broadcaster.Send, what becomes of the channel.
LEMMA SendType ==
  ASSUME DashTypes, NEW event \in Snapshots, Send(event)
  PROVE  /\ browser' \in [pc : {"away", "subscribed", "built", "open"}, ch : Seq(Snapshots),
                          page : Snapshots \cup {NoFile}]
         /\ browser'.pc = browser.pc
         /\ browser'.pc = "away" => browser'.ch = <<>>
<1>1. browser' = browser \/ browser' = [browser EXCEPT !.ch = Append(@, event)]
  BY DEF Send
<1>2. browser.ch \in Seq(Snapshots)
  BY DEF DashTypes
<1>3. Append(browser.ch, event) \in Seq(Snapshots)
  BY <1>2, AppendProperties
<1>4. ~Subscribed => browser' = browser
  BY DEF Send
<1> QED BY <1>1, <1>3, <1>4 DEF DashTypes, Subscribed

LEMMA DashTypesStep ==
  ASSUME DashTypes, TableInv, [DashNext]_dvars
  PROVE  DashTypes'
<1> USE DEF DashTypes
<1>1. CASE Watcher
  <2>1. tunFile' = tunFile /\ live' = live
    BY <1>1 DEF Watcher, ReadRegistry, Watch, ReadTunnels, Swap, Merge, files
  <2>2. UNCHANGED dash \/ OnUpdate
    BY <1>1 DEF Watcher
  <2>3. CASE UNCHANGED dash
    BY <2>1, <2>3 DEF dash
  <2>4. CASE OnUpdate
    BY <2>1, <2>4 DEF OnUpdate, NoCall
  <2> QED BY <2>2, <2>3, <2>4
<1>2. CASE RefreshCaches
  <2>1. ReadState \in Tuns
    BY ReadStateType
  <2> QED BY <1>2, <2>1 DEF RefreshCaches, NoCall, vars, files
<1>3. CASE BuildUpdate
  <2>1. Snapshot(cachedTunnel) \in Snapshots
    BY SnapshotType
  <2>2. update' = [pc |-> "send", value |-> Snapshot(cachedTunnel)] \/ update' = NoCall
    BY <1>3 DEF BuildUpdate
  <2> QED BY <1>3, <2>1, <2>2 DEF BuildUpdate, NoCall, vars, files
<1>4. CASE SendUpdate
  <2>1. /\ browser' \in [pc : {"away", "subscribed", "built", "open"}, ch : Seq(Snapshots),
                         page : Snapshots \cup {NoFile}]
        /\ browser'.pc = "away" => browser'.ch = <<>>
    BY <1>4, SendType DEF SendUpdate
  <2>2. missed' \in BOOLEAN
    BY <1>4 DEF SendUpdate
  <2> QED BY <1>4, <2>1, <2>2 DEF SendUpdate, NoCall, vars, files
<1>5. CASE OnHealthChange
  <2>1. ReadState \in Tuns
    BY ReadStateType
  <2> QED BY <1>5, <2>1 DEF OnHealthChange, vars, files
<1>6. CASE RefreshOnChange
  <2>1. change.value \in Tuns /\ Snapshot(change.value) \in Snapshots
    BY <1>6, SnapshotType DEF RefreshOnChange
  <2>2. change' = [pc |-> "send", value |-> Snapshot(change.value), old |-> NoFile]
        \/ change' = NoChange
    BY <1>6 DEF RefreshOnChange, NoChange
  <2> QED BY <1>6, <2>1, <2>2 DEF RefreshOnChange, NoChange, Tuns, vars, files
<1>7. CASE SendChange
  <2>1. /\ browser' \in [pc : {"away", "subscribed", "built", "open"}, ch : Seq(Snapshots),
                         page : Snapshots \cup {NoFile}]
        /\ browser'.pc = "away" => browser'.ch = <<>>
    BY <1>7, SendType DEF SendChange
  <2> QED BY <1>7, <2>1 DEF SendChange, NoChange, Tuns, vars, files
<1>8. CASE Subscribe \/ Leave
  <2>1. <<>> \in Seq(Snapshots)
    OBVIOUS
  <2>2. UNCHANGED <<cachedTunnel, update, change, crossed, tunFile, live>> /\ missed' \in BOOLEAN
    BY <1>8 DEF Subscribe, Leave, vars, files
  <2>3. CASE Subscribe
    <3>1. browser' = [pc |-> "subscribed", ch |-> <<>>, page |-> NoFile]
      BY <2>3 DEF Subscribe, Away
    <3> QED BY <2>1, <2>2, <3>1
  <2>4. CASE Leave
    BY <2>1, <2>2, <2>4 DEF Leave, Away
  <2> QED BY <1>8, <2>3, <2>4
<1>9. CASE BuildStatus
  <2>1. Snapshot(cachedTunnel) \in Snapshots
    BY SnapshotType
  <2> QED BY <1>9, <2>1 DEF BuildStatus, vars, files
<1>10. CASE WriteSSE
  BY <1>10 DEF WriteSSE, vars, files
<1>11. CASE Receive
  <2>1. Head(browser.ch) \in Snapshots /\ Tail(browser.ch) \in Seq(Snapshots)
    BY <1>11, HeadTailProperties DEF Receive
  <2> QED BY <1>11, <2>1 DEF Receive, vars, files
<1>12. CASE RestartDashboard
  <2>1. ReadState \in Tuns /\ <<>> \in Seq(Snapshots)
    BY ReadStateType
  <2> QED BY <1>12, <2>1
          DEF RestartDashboard, Restart, NoCall, NoChange, Away, Tuns, files
<1>13. CASE Others
  BY <1>13 DEF Others, WriteRegistry, ShareStarts, ShareEnds, dash
<1>14. CASE UNCHANGED dvars
  BY <1>14 DEF dvars, dash, vars, files
<1> QED BY <1>1, <1>2, <1>3, <1>4, <1>5, <1>6, <1>7, <1>8, <1>9, <1>10, <1>11, <1>12, <1>13, <1>14
        DEF DashNext, UpdateStep, ChangeStep, BrowserStep

\* A step that leaves the dashboard alone asks for no tunnels it was not already to have.
Steady == allocations' = allocations /\ (Wanted' => Wanted /\ tunFile' = tunFile)

LEMMA UnchangedSteady == UNCHANGED vars => Steady
BY DEF Steady, Wanted, Announced, vars, files, table

LEMMA WatcherSteady ==
  ASSUME FreshInv, TableInv, DashTypes,
         \/ ReadRegistry \/ Watch \/ ReadTunnels
         \/ Swap /\ data = NoFile
         \/ Merge /\ MergesNothing
  PROVE  Steady
<1>1. CASE ReadRegistry
  <2>1. /\ UNCHANGED <<allocations, tunFile, live>> /\ pc # "merge"
        /\ events' = events \/ (events # <<>> /\ Head(events) = "registry" /\ events' = Tail(events))
    BY <1>1 DEF ReadRegistry, files, table
  <2>2. Announced => Announced'
    BY <2>1, QueuedTail DEF Announced, FreshInv
  <2> QED BY <2>1, <2>2 DEF Steady, Wanted
<1>2. CASE Watch
  BY <1>2 DEF Watch, Steady, Wanted, Announced, files, table
<1>3. CASE ReadTunnels
  \* The look that is due is taken.
  BY <1>3 DEF ReadTunnels, Steady, Wanted, files, table
<1>4. CASE Swap /\ data = NoFile
  BY <1>4 DEF Swap, Steady, Wanted, Announced, files, table
<1>5. CASE Merge /\ MergesNothing
  <2>1. UNCHANGED <<allocations, tunFile, live, events>>
    BY <1>5 DEF Merge, files
  <2>2. live /\ Tunnelled(tunFile, allocations) # {} => data # tunFile
    BY <1>5, RouteConstants DEF MergesNothing, DashTypes
  <2> QED BY <2>1, <2>2 DEF Steady, Wanted, Announced
<1> QED BY <1>1, <1>2, <1>3, <1>4, <1>5

LEMMA OthersSteady ==
  ASSUME QuietStart, FreshInv, WriteRegistry \/ ShareStarts \/ ShareEnds
  PROVE  Steady
<1>1. CASE WriteRegistry
  <2>1. /\ UNCHANGED <<allocations, tunFile, live, pc, data>>
        /\ events' = events \/ events' = Append(events, "registry")
    BY <1>1 DEF WriteRegistry, Notify, table
  <2>2. Announced => Announced'
    BY <2>1, QueuedAppend DEF Announced, FreshInv
  <2> QED BY <2>1, <2>2 DEF Steady, Wanted
<1>2. CASE ShareStarts
  <2>1. allocations' = allocations /\ events' = Append(events, "tunnels")
    BY <1>2 DEF ShareStarts, Notify, table
  <2>2. Announced'
    BY <2>1, QueuedAppend DEF Announced, FreshInv
  <2> QED BY <2>1, <2>2 DEF Steady, Wanted
<1>3. CASE ShareEnds
  BY <1>3 DEF ShareEnds, Steady, Wanted, table
<1> QED BY <1>1, <1>2, <1>3

LEMMA PageKept == PageInv /\ Steady /\ UNCHANGED dash => PageInv'
BY DEF Steady, PageInv, Upcoming, ReadWell, Current, dash

LEMMA PageInit == DashInit => PageInv
BY DEF DashInit, Init, PageInv, Upcoming, ReadWell, Wanted, ReadState, NoCall, NoChange, Away

\* Broadcaster.Send: the event is the last one in the channel, unless that is full.
LEMMA SendLast ==
  ASSUME DashTypes, NEW event \in Snapshots, Send(event)
  PROVE  \/ Upcoming' = {event}
         \/ Upcoming' = Upcoming /\ (Full \/ Upcoming = {})
<1>1. CASE Subscribed /\ ~Full
  <2>1. browser.ch \in Seq(Snapshots)
    BY DEF DashTypes
  <2>2. browser'.ch = Append(browser.ch, event)
    BY <1>1 DEF Send, DashTypes
  <2>3. browser'.ch \in Seq(Snapshots) /\ browser'.ch # <<>>
        /\ browser'.ch[Len(browser'.ch)] = event
    BY <2>1, <2>2, AppendProperties
  <2> QED BY <2>3 DEF Upcoming
<1>2. CASE ~(Subscribed /\ ~Full)
  <2>1. browser' = browser
    BY <1>2 DEF Send
  <2>2. ~Subscribed => Upcoming = {}
    BY DEF Subscribed, DashTypes, Upcoming
  <2> QED BY <1>2, <2>1, <2>2 DEF Upcoming
<1> QED BY <1>1, <1>2


LEMMA PageStep ==
  ASSUME QuietStart, FreshInv, TableInv, DashTypes, PageInv, [DashNext]_dvars
  PROVE  PageInv'
<1>1. CASE Watcher
  <2>1. \/ Steady /\ UNCHANGED dash
        \/ OnUpdate
    BY <1>1, WatcherSteady DEF Watcher
  <2>2. CASE OnUpdate
    \* What was read until now is forgotten.
    BY <2>2 DEF OnUpdate, PageInv, NoCall, DashTypes
  <2> QED BY <2>1, <2>2, PageKept
<1>2. CASE RefreshCaches
  <2>1. Steady /\ ReadWell(ReadState)
    BY <1>2, UnchangedSteady, ReadStateType DEF RefreshCaches
  <2>2. /\ UNCHANGED <<change, crossed>>
        /\ cachedTunnel' = ReadState /\ update'.pc = "build" /\ update.pc = "refresh"
    BY <1>2 DEF RefreshCaches, NoCall
  <2>3. ReadWell(cachedTunnel)'
    BY <2>1, <2>2 DEF Steady, ReadWell
  <2> QED BY <2>2, <2>3 DEF PageInv
<1>3. CASE BuildUpdate
  <2>1. Steady /\ UNCHANGED <<cachedTunnel, change, browser, crossed, missed>> /\ update.pc = "build"
    BY <1>3, UnchangedSteady DEF BuildUpdate
  <2>2. CASE Subscribed
    <3>1. update' = [pc |-> "send", value |-> Snapshot(cachedTunnel)]
      BY <1>3, <2>2 DEF BuildUpdate
    <3>2. ~crossed => Current(Snapshot(cachedTunnel))
      BY <2>1, SnapshotType DEF PageInv, Current, DashTypes
    <3> QED BY <2>1, <3>1, <3>2 DEF PageInv, Current, ReadWell, Steady
  <2>3. CASE ~Subscribed
    <3>1. update' = NoCall /\ Upcoming' = {}
      BY <1>3, <2>1, <2>3 DEF BuildUpdate, Subscribed, Upcoming, DashTypes
    <3> QED BY <2>1, <3>1 DEF PageInv, ReadWell, Steady, NoCall
  <2> QED BY <2>2, <2>3
<1>4. CASE SendUpdate
  <2>1. /\ Steady /\ UNCHANGED <<cachedTunnel, change, crossed>> /\ update.pc = "send"
        /\ update'.pc = "none" /\ missed' = (Subscribed /\ Full) /\ Send(update.value)
        /\ update.value \in Snapshots
    BY <1>4, UnchangedSteady DEF SendUpdate, NoCall, DashTypes
  <2>2. ~Subscribed => Upcoming = {}
    BY DEF Subscribed, DashTypes, Upcoming
  <2>3. ~missed' => Upcoming' \subseteq {update.value}
    BY <2>1, <2>2, SendLast
  <2> QED BY <2>1, <2>3 DEF PageInv, Current, ReadWell, Steady
<1>5. CASE OnHealthChange
  <2>1. Steady /\ ReadWell(ReadState)
    BY <1>5, UnchangedSteady, ReadStateType DEF OnHealthChange
  <2>2. /\ UNCHANGED <<cachedTunnel, update, browser, missed>>
        /\ crossed' = (crossed \/ update.pc # "none")
        /\ change'.pc = "refresh" /\ change'.value = ReadState
    BY <1>5 DEF OnHealthChange
  <2> QED BY <2>1, <2>2 DEF PageInv, Upcoming, Current, ReadWell, Steady
<1>6. CASE RefreshOnChange
  <2>1. /\ Steady /\ UNCHANGED <<update, browser, crossed, missed>>
        /\ cachedTunnel' = change.value /\ change.pc = "refresh" /\ change.value \in Tuns
        /\ change'.pc # "refresh"
        /\ change'.pc = "send" => change'.value = Snapshot(change.value)
    BY <1>6, UnchangedSteady DEF RefreshOnChange, NoChange, DashTypes
  <2>2. ~crossed => Current(Snapshot(change.value))
    BY <2>1, SnapshotType DEF PageInv, Current
  <2> QED BY <2>1, <2>2 DEF PageInv, Upcoming, Current, ReadWell, Steady
<1>7. CASE SendChange
  <2>1. /\ Steady /\ UNCHANGED <<cachedTunnel, update, crossed, missed>> /\ change.pc = "send"
        /\ change'.pc = "none" /\ Send(change.value) /\ change.value \in Snapshots
    BY <1>7, UnchangedSteady DEF SendChange, NoChange, DashTypes
  <2>2. Upcoming' = {change.value} \/ Upcoming' = Upcoming
    BY <2>1, SendLast
  <2> QED BY <2>1, <2>2 DEF PageInv, Current, ReadWell, Steady
<1>8. CASE Subscribe \/ Leave
  <2>1. /\ Steady /\ UNCHANGED <<cachedTunnel, update, change, crossed>>
        /\ browser'.ch = <<>> /\ browser'.pc \in {"subscribed", "away"}
    BY <1>8, UnchangedSteady DEF Subscribe, Leave, Away
  <2>2. Upcoming' = {}
    BY <2>1 DEF Upcoming
  <2> QED BY <2>1, <2>2 DEF PageInv, Current, ReadWell, Steady
<1>9. CASE BuildStatus
  <2>1. /\ Steady /\ UNCHANGED <<cachedTunnel, update, change, crossed, missed>>
        /\ browser'.ch = browser.ch /\ browser'.page = Snapshot(cachedTunnel)
    BY <1>9, UnchangedSteady DEF BuildStatus, DashTypes
  <2>2. Upcoming' \subseteq Upcoming \cup {Snapshot(cachedTunnel)}
    BY <2>1 DEF Upcoming
  <2>3. ~crossed /\ update.pc = "none" => Current(Snapshot(cachedTunnel))
    BY SnapshotType DEF PageInv, Current, DashTypes
  <2> QED BY <2>1, <2>2, <2>3 DEF PageInv, Current, ReadWell, Steady
<1>10. CASE WriteSSE
  <2>1. Steady /\ UNCHANGED <<cachedTunnel, update, change, crossed, missed>>
    BY <1>10, UnchangedSteady DEF WriteSSE
  <2>2. Upcoming' = Upcoming
    BY <1>10 DEF WriteSSE, Upcoming, DashTypes
  <2> QED BY <2>1, <2>2 DEF PageInv, Current, ReadWell, Steady
<1>11. CASE Receive
  <2>1. Steady /\ UNCHANGED <<cachedTunnel, update, change, crossed, missed>>
    BY <1>11, UnchangedSteady DEF Receive
  <2>2. Upcoming' = Upcoming
    <3>1. /\ browser.ch \in Seq(Snapshots) /\ browser.ch # <<>> /\ browser'.pc = "open"
          /\ browser'.ch = Tail(browser.ch) /\ browser'.page = browser.ch[1]
      BY <1>11, HeadTailProperties DEF Receive, DashTypes
    <3>2. /\ Len(browser.ch) \in Nat \ {0} /\ Len(browser'.ch) = Len(browser.ch) - 1
          /\ \A i \in 1 .. Len(browser'.ch) : browser'.ch[i] = browser.ch[i + 1]
          /\ browser'.ch \in Seq(Snapshots)
      BY <3>1, HeadTailProperties, EmptySeq, LenProperties
    <3>3. CASE browser'.ch = <<>>
      <4>1. Len(browser.ch) = 1
        BY <3>2, <3>3, EmptySeq
      <4> QED BY <3>1, <3>3, <4>1 DEF Upcoming
    <3>4. CASE browser'.ch # <<>>
      <4>1. Len(browser'.ch) \in Nat \ {0}
        BY <3>2, <3>4, EmptySeq, LenProperties
      <4>2. browser'.ch[Len(browser'.ch)] = browser.ch[Len(browser.ch)]
        <5>1. Len(browser'.ch) \in 1 .. Len(browser'.ch)
          BY <4>1
        <5>2. browser'.ch[Len(browser'.ch)] = browser.ch[Len(browser'.ch) + 1]
          BY <3>2, <5>1, Zenon
        <5>3. Len(browser'.ch) + 1 = Len(browser.ch)
          BY <3>2
        <5> QED BY <5>2, <5>3
      <4> QED BY <3>1, <3>4, <4>2 DEF Upcoming
    <3> QED BY <3>3, <3>4
  <2> QED BY <2>1, <2>2 DEF PageInv, Current, ReadWell, Steady
<1>12. CASE RestartDashboard
  <2>1. ReadWell(ReadState) /\ UNCHANGED <<tunFile, live>>
    BY <1>12, ReadStateType DEF RestartDashboard, Restart, files
  <2>2. ReadWell(cachedTunnel)'
    BY <1>12, <2>1 DEF RestartDashboard, ReadState, ReadWell, Wanted
  <2>3. /\ update'.pc = "none" /\ change'.pc = "none" /\ Upcoming' = {}
    BY <1>12 DEF RestartDashboard, NoCall, NoChange, Away, Upcoming
  <2> QED BY <2>2, <2>3 DEF PageInv
<1>13. CASE Others
  BY <1>13, OthersSteady, PageKept DEF Others
<1>14. CASE UNCHANGED dvars
  BY <1>14, UnchangedSteady, PageKept DEF dvars
<1> QED BY <1>1, <1>2, <1>3, <1>4, <1>5, <1>6, <1>7, <1>8, <1>9, <1>10, <1>11, <1>12, <1>13, <1>14
        DEF DashNext, UpdateStep, ChangeStep, BrowserStep

\* Once nothing is under way to a browser, it is shown the registry that is served and the
\* tunnels of a running share, unless an event did not fit into its channel or the two
\* goroutines that send it snapshots overlapped (handler.go, OnRegistryUpdate,
\* onHealthChange, handleSSE: the channel is known before the first snapshot is built).
\* This is what DashboardCatchesUp is about, without the promise that it comes to rest.
THEOREM BrowserShowsLatest ==
  ASSUME QuietStart
  PROVE  DashSpec => [](AtRest => ShowsLatest)
<1>1. FreshInv /\ TableInv /\ DashTypes /\ PageInv /\ [DashNext]_dvars => (DashTypes /\ PageInv)'
  BY PageStep, DashTypesStep
<1>2. DashInit => DashTypes /\ PageInv
  BY DashTypesInit, PageInit
<1>3. DashSpec => [](DashTypes /\ PageInv)
  BY <1>1, <1>2, DashboardImplements, FreshInvariant, TableInvariant, PTL DEF DashSpec
<1>4. DashTypes /\ PageInv => (AtRest => ShowsLatest)
  <2> SUFFICES ASSUME DashTypes, PageInv, AtRest, browser.pc = "open", ~missed, ~crossed
               PROVE  /\ browser.page.allocations = allocations
                      /\ live /\ Tunnelled(tunFile, allocations) # {}
                           => browser.page.tunnels = tunFile
    BY DEF ShowsLatest
  <2>1. Upcoming = {browser.page} /\ update.pc = "none"
    BY DEF AtRest, Upcoming
  <2>2. Current(browser.page)
    BY <2>1 DEF PageInv
  <2>3. ~Announced /\ pc = "idle"
    BY DEF AtRest, Settled, Announced
  <2> QED BY <2>2, <2>3 DEF Current, ReadWell, Wanted
<1> QED BY <1>3, <1>4, PTL
=============================================================================
