------------------------------ MODULE Dashboard -------------------------------
(***************************************************************************)
(* internal/dashboard in the daemon of RouteDaemon: what a browser on      *)
(* https://outport.test is shown.  The route table calls OnUpdate after    *)
(* every update, in the watcher's goroutine; it and the health checker's   *)
(* goroutine each refresh the cache of tunnels.json, build a snapshot and  *)
(* send it later into the browser's channel, which drops what does not     *)
(* fit.  When checks run is in HealthChecker; what probes find, the LAN    *)
(* address and the port index are left out.                                *)
(***************************************************************************)
EXTENDS RouteDaemon

CONSTANTS
  ChanSize,      \* room in a browser's channel (16 in the code)
  MaxVisits,     \* bound: connections of the browser
  MaxChanges     \* bound: checks that find a change

ASSUME DashboardConstants == ChanSize \in Nat \ {0} /\ MaxVisits \in Nat /\ MaxChanges \in Nat

VARIABLES
  cachedTunnel,  \* Handler.cachedTunnel
  update,        \* OnRegistryUpdate in the watcher's goroutine: step and local value
  change,        \* onHealthChange in the health checker's goroutine, and the old cache
  browser,       \* handleSSE: step, the channel, the snapshot that is built or shown
  visits, changes,
  missed,        \* history: the watcher's last event did not fit into the channel
  crossed        \* history: the two goroutines' last calls overlapped

dash  == <<cachedTunnel, update, change, browser, visits, changes, missed, crossed>>
dvars == <<vars, dash>>

NoCall   == [pc |-> "none", value |-> NoFile]
NoChange == [pc |-> "none", value |-> NoFile, old |-> NoFile]
Away     == [pc |-> "away", ch |-> <<>>, page |-> NoFile]

\* tunnel.ReadState: no file, or one whose writer is gone, is no state.
ReadState == IF live THEN tunFile ELSE NoFile

\* buildStatus.
Snapshot(tunnels) == [allocations |-> allocations, tunnels |-> tunnels]

\* Mutant for DashboardCatchesUp: the channel is made known after the first snapshot is sent.
SubscribedLate == browser.pc = "open"

\* The browser's channel is among the broadcaster's.
Subscribed == browser.pc # "away"

\* Broadcaster.Send.
Full == Len(browser.ch) = ChanSize
Send(event) ==
  browser' = IF Subscribed /\ ~Full THEN [browser EXCEPT !.ch = Append(@, event)] ELSE browser

-----------------------------------------------------------------------------
(* The watcher's goroutine: RouteDaemon's steps and the callback.           *)

OnUpdate ==
  /\ update' = [NoCall EXCEPT !.pc = "refresh"]
  /\ crossed' = (change.pc # "none")
  /\ UNCHANGED <<cachedTunnel, change, browser, visits, changes, missed>>

\* MergeTunnelRoutes is called if there are routes to merge.
MergesNothing == data = NoFile \/ Tunnelled(data, allocations) = {}

Watcher ==
  /\ update.pc = "none"
  /\ \/ (ReadRegistry \/ Watch \/ ReadTunnels) /\ UNCHANGED dash
     \/ Swap  /\ IF data = NoFile  THEN UNCHANGED dash ELSE OnUpdate
     \/ Merge /\ IF MergesNothing THEN UNCHANGED dash ELSE OnUpdate

\* What changes between the read and the assignment has an event, and so a call, of its own.
RefreshCaches ==
  /\ update.pc = "refresh"
  /\ cachedTunnel' = ReadState
  /\ update' = [NoCall EXCEPT !.pc = "build"]
  /\ UNCHANGED <<vars, change, browser, visits, changes, missed, crossed>>

\* ClientCount and buildStatus.
BuildUpdate ==
  /\ update.pc = "build"
  /\ update' = IF Subscribed THEN [pc |-> "send", value |-> Snapshot(cachedTunnel)] ELSE NoCall
  /\ UNCHANGED <<vars, cachedTunnel, change, browser, visits, changes, missed, crossed>>

SendUpdate ==
  /\ update.pc = "send"
  /\ Send(update.value)
  /\ missed' = (Subscribed /\ Full)
  /\ update' = NoCall
  /\ UNCHANGED <<vars, cachedTunnel, change, visits, changes, crossed>>

-----------------------------------------------------------------------------
(* A goroutine of the health checker that has found a change.               *)

OnHealthChange ==
  /\ change.pc = "none" /\ visits > 0 /\ changes < MaxChanges
  /\ changes' = changes + 1
  /\ change' = [pc |-> "refresh", value |-> ReadState, old |-> cachedTunnel]
  /\ crossed' = (crossed \/ update.pc # "none")
  /\ UNCHANGED <<vars, cachedTunnel, update, browser, visits, missed>>

\* A snapshot only if there are tunnels now and there were none, or the reverse: the two
\* maps have one entry each.
TunnelChanged == (change.old = NoFile) # (change.value = NoFile)
RefreshOnChange ==
  /\ change.pc = "refresh"
  /\ cachedTunnel' = change.value
  /\ change' = IF TunnelChanged
               THEN [NoChange EXCEPT !.pc = "send", !.value = Snapshot(change.value)]
               ELSE NoChange
  /\ UNCHANGED <<vars, update, browser, visits, changes, missed, crossed>>

SendChange ==
  /\ change.pc = "send"
  /\ Send(change.value)
  /\ change' = NoChange
  /\ UNCHANGED <<vars, cachedTunnel, update, visits, changes, missed, crossed>>

-----------------------------------------------------------------------------
(* handleSSE for a browser.                                                 *)

Subscribe ==
  /\ browser.pc = "away" /\ visits < MaxVisits
  /\ browser' = [Away EXCEPT !.pc = "subscribed"]
  /\ visits' = visits + 1
  /\ missed' = FALSE
  /\ UNCHANGED <<vars, cachedTunnel, update, change, changes, crossed>>

BuildStatus ==
  /\ browser.pc = "subscribed"
  /\ browser' = [browser EXCEPT !.pc = "built", !.page = Snapshot(cachedTunnel)]
  /\ UNCHANGED <<vars, cachedTunnel, update, change, visits, changes, missed, crossed>>

WriteSSE ==
  /\ browser.pc = "built"
  /\ browser' = [browser EXCEPT !.pc = "open"]
  /\ UNCHANGED <<vars, cachedTunnel, update, change, visits, changes, missed, crossed>>

Receive ==
  /\ browser.pc = "open" /\ browser.ch # <<>>
  /\ browser' = [browser EXCEPT !.page = Head(browser.ch), !.ch = Tail(@)]
  /\ UNCHANGED <<vars, cachedTunnel, update, change, visits, changes, missed, crossed>>

Leave ==
  /\ browser.pc = "open"
  /\ browser' = Away
  /\ UNCHANGED <<vars, cachedTunnel, update, change, visits, changes, missed, crossed>>

-----------------------------------------------------------------------------
\* NewHandler reads tunnels.json.  The connection of a browser ends with the daemon.
RestartDashboard ==
  /\ Restart
  /\ cachedTunnel' = ReadState
  /\ update' = NoCall /\ change' = NoChange /\ browser' = Away
  /\ missed' = FALSE /\ crossed' = FALSE
  /\ UNCHANGED <<visits, changes>>

Others == (WriteRegistry \/ ShareStarts \/ ShareEnds) /\ UNCHANGED dash

DashInit ==
  /\ Init
  /\ cachedTunnel = ReadState
  /\ update = NoCall /\ change = NoChange /\ browser = Away
  /\ visits = 0 /\ changes = 0 /\ missed = FALSE /\ crossed = FALSE

UpdateStep  == Watcher \/ RefreshCaches \/ BuildUpdate \/ SendUpdate
ChangeStep  == RefreshOnChange \/ SendChange
BrowserStep == BuildStatus \/ WriteSSE \/ Receive
DashNext ==
  UpdateStep \/ ChangeStep \/ BrowserStep \/ OnHealthChange \/ Subscribe \/ Leave
    \/ RestartDashboard \/ Others

\* Goroutines run on, and a browser that is connected reads.
DashSpec ==
  DashInit /\ [][DashNext]_dvars
    /\ WF_dvars(UpdateStep) /\ WF_dvars(ChangeStep) /\ WF_dvars(BrowserStep)

-----------------------------------------------------------------------------
(* Properties.                                                              *)

\* The browser is shown the registry that is served and the tunnels of a running share,
\* unless its channel was full or the two goroutines got in each other's way: the older
\* snapshot may then be sent last (handler.go:286-334).
ShowsLatest ==
  browser.pc = "open" /\ ~missed /\ ~crossed =>
    /\ browser.page.allocations = allocations
    /\ live /\ Tunnelled(tunFile, allocations) # {} => browser.page.tunnels = tunFile

\* Once files and browsers come to rest, so does the daemon, with the table of the registry
\* on disk, and what a browser is shown is that: no update is lost between its first
\* snapshot and the events that follow (handler.go:250-258).
DashboardCatchesUp == <>[](Settled /\ update.pc = "none" /\ ShowsLatest)
=============================================================================
