---------------------------- MODULE ShareSession -----------------------------
(***************************************************************************)
(* outport share (cmd/share.go) with the tunnel manager and the cloudflare *)
(* provider.  A session starts one cloudflared per host name, at the same  *)
(* time and under one timeout, tells the daemon (tunnels.json), writes the *)
(* tunnel URLs into the project's .env files, waits for a signal and takes *)
(* everything back in a deferred clean-up.  Sessions of one project run    *)
(* next to each other and to up, down and edits of outport.yml, whose own  *)
(* interleavings OutportCli has.                                           *)
(*                                                                         *)
(* A value of the registry is the version of the instance's ports and its  *)
(* approval of the one env file outside the project directory; a managed   *)
(* block is that version and whose tunnel URLs it holds.                   *)
(***************************************************************************)
EXTENDS Naturals, FiniteSets

CONSTANTS
  Sessions,     \* share processes
  TunnelsOf,    \* session -> the labels StartAll is given, cut at max_tunnels
  None,
  MaxVer,       \* bound: versions of the instance's ports
  MaxStarting,  \* bound: sessions starting their tunnels at a time; they share nothing then
  MaxCommands,  \* bound: ups, downs and edits by others
  MaxFaults     \* bound: failed writes, kills and exits of cloudflared

ASSUME NoneAssumption == None \notin Sessions
ASSUME BoundAssumption == MaxVer \in Nat \ {0} /\ MaxStarting \in Nat /\ MaxCommands \in Nat /\ MaxFaults \in Nat

VARIABLES
  reg,          \* registry entry: ver (0: none) and approved
  listed,       \* the env files that outport.yml names
  env,          \* file -> its block: ver (0: no block) and url
  state,        \* tunnels.json: the session that wrote it, None if there is none
  sess,         \* session -> its locals; sig: it has got SIGINT or SIGTERM
  proc,         \* session, tunnel -> the cloudflared process
  res,          \* session, tunnel -> the result of Provider.Start
  granted,      \* history: the user has allowed the external file
  commands,     \* how many other commands there were
  faults

vars == <<reg, listed, env, state, sess, proc, res, granted, commands, faults>>

Files == {"own", "ext"}
Steps == {"off", "starting", "undoing", "telling", "asking", "writing", "saving",
          "sharing", "cleaning", "stopping", "restoring", "ended", "dead"}
NoEntry == [ver |-> 0, approved |-> FALSE]
NoBlock == [ver |-> 0, url |-> None]
Fault == faults < MaxFaults /\ faults' = faults + 1

At(s, step) == sess[s].pc = step
Goto(s, step) == sess' = [sess EXCEPT ![s].pc = step]
\* A process that has not started, and with nothing but its end when it is over.
Fresh == [pc |-> "off", entry |-> NoEntry, files |-> {},
         newly |-> FALSE, late |-> FALSE, sig |-> FALSE, warned |-> FALSE]
Over(s, step, warned) == sess' = [sess EXCEPT ![s] = [Fresh EXCEPT !.pc = step, !.warned = warned]]
Running(s) == sess[s].pc \notin {"off", "ended", "dead"}

\* What confirmation finds unapproved, for the files of a config and an entry.
NeedsApproval(files, entry) == "ext" \in files /\ ~entry.approved

\* loadProjectContext and Get: the config and the entry the session works with.
Launch(s) ==
  /\ At(s, "off") /\ reg.ver # 0
  /\ Cardinality({u \in Sessions : sess[u].pc \in {"starting", "undoing"}}) < MaxStarting
  /\ sess' = [sess EXCEPT ![s] = [@ EXCEPT !.pc = "starting", !.entry = reg, !.files = listed]]
  /\ UNCHANGED <<reg, listed, env, state, proc, res, granted, commands, faults>>

-----------------------------------------------------------------------------
(* Starting: a goroutine of StartAll for every tunnel.                       *)

Spawn(s, t) ==
  /\ At(s, "starting") /\ proc[s][t] = "none" /\ res[s][t] = "pending"
  /\ \/ proc' = [proc EXCEPT ![s][t] = "quiet"] /\ UNCHANGED <<res, commands, faults>>
     \/ Fault /\ res' = [res EXCEPT ![s][t] = "failed"] /\ UNCHANGED proc
  /\ UNCHANGED <<reg, listed, env, state, sess, granted, commands>>

\* The deadline, or the signal whose context it was derived from.
CancelledBySignal(s) == sess[s].sig  \* for the mutant: the context has no deadline
Cancelled(s) == sess[s].late \/ sess[s].sig

Timeout(s) ==
  /\ At(s, "starting") /\ ~sess[s].late
  /\ sess' = [sess EXCEPT ![s].late = TRUE]
  /\ UNCHANGED <<reg, listed, env, state, proc, res, granted, commands, faults>>

\* select in Start: a URL, the end of the output, or the end of the context,
\* whichever of those that are ready.
GotUrl(s, t) ==
  /\ proc[s][t] \in {"ready", "died"}
  /\ res' = [res EXCEPT ![s][t] = "up"] /\ UNCHANGED proc
GaveUpWaiting(s, t) ==  \* for the mutant: the process is left to itself
  /\ proc[s][t] = "exited" \/ (proc[s][t] # "none" /\ Cancelled(s))
  /\ res' = [res EXCEPT ![s][t] = "failed"] /\ UNCHANGED proc
GaveUp(s, t) ==
  /\ proc[s][t] = "exited" \/ (proc[s][t] # "none" /\ Cancelled(s))
  /\ res' = [res EXCEPT ![s][t] = "failed"]
  /\ proc' = [proc EXCEPT ![s][t] = "gone"]

Select(s, t) ==
  /\ At(s, "starting") /\ res[s][t] = "pending"
  /\ GotUrl(s, t) \/ GaveUp(s, t)
  /\ UNCHANGED <<reg, listed, env, state, sess, granted, commands, faults>>

\* All or nothing: one failure stops the tunnels that did start.
Outcome(s) == IF \E t \in TunnelsOf[s] : res[s][t] = "failed" THEN "undoing" ELSE "telling"
Collect(s) ==
  /\ At(s, "starting") /\ \A t \in TunnelsOf[s] : res[s][t] # "pending"
  /\ sess' = [sess EXCEPT ![s] = [@ EXCEPT !.pc = Outcome(s), !.late = FALSE]]
  /\ UNCHANGED <<reg, listed, env, state, proc, res, granted, commands, faults>>

-----------------------------------------------------------------------------
(* Stopping, one tunnel after the other: SIGTERM and, three seconds later,   *)
(* SIGKILL; the stop function returns when the process has been waited for.  *)

Started(s) == {t \in TunnelsOf[s] : res[s][t] = "up"}
Stop(s, t) ==
  /\ At(s, "undoing") \/ At(s, "stopping")
  /\ t \in Started(s) /\ proc[s][t] = "ready"
  /\ \A u \in TunnelsOf[s] : proc[s][u] # "terminating"
  /\ proc' = [proc EXCEPT ![s][t] = "terminating"]
  /\ UNCHANGED <<reg, listed, env, state, sess, res, granted, commands, faults>>

Reap(s, t) ==
  /\ proc[s][t] = "terminating"
  /\ proc' = [proc EXCEPT ![s][t] = "gone"]
  /\ UNCHANGED <<reg, listed, env, state, sess, res, granted, commands, faults>>

Stopped(s) ==
  /\ \A t \in Started(s) : proc[s][t] \in {"died", "gone"}
  /\ \/ At(s, "undoing") /\ Over(s, "ended", FALSE)
     \/ At(s, "stopping") /\ Goto(s, "restoring")
  /\ UNCHANGED <<reg, listed, env, state, proc, res, granted, commands, faults>>

\* cloudflared prints its URL, and may exit at any time.
Announce(s, t) ==
  /\ proc[s][t] = "quiet"
  /\ proc' = [proc EXCEPT ![s][t] = "ready"]
  /\ UNCHANGED <<reg, listed, env, state, sess, res, granted, commands, faults>>
Exit(s, t) ==
  /\ Fault
  /\ \/ proc[s][t] = "quiet" /\ proc' = [proc EXCEPT ![s][t] = "exited"]
     \/ proc[s][t] = "ready" /\ proc' = [proc EXCEPT ![s][t] = "died"]
  /\ UNCHANGED <<reg, listed, env, state, sess, res, granted, commands>>

-----------------------------------------------------------------------------
(* Sharing.                                                                  *)

\* WriteState: the file then speaks of this session alone; a failure is ignored.
WriteState(s) ==
  /\ At(s, "telling")
  /\ Goto(s, "asking")
  /\ \/ state' = s /\ UNCHANGED faults
     \/ Fault /\ UNCHANGED state
  /\ UNCHANGED <<reg, listed, env, proc, res, granted, commands>>

StartWriting(s, newly) == sess' = [sess EXCEPT ![s] = [@ EXCEPT !.pc = "writing", !.newly = newly]]
Confirm(s) ==
  /\ At(s, "asking") /\ ~NeedsApproval(sess[s].files, sess[s].entry)
  /\ StartWriting(s, FALSE)
  /\ UNCHANGED <<reg, listed, env, state, proc, res, granted, commands, faults>>
\* The user types y, or gave --yes.
Approve(s) ==
  /\ At(s, "asking") /\ NeedsApproval(sess[s].files, sess[s].entry)
  /\ StartWriting(s, TRUE)
  /\ granted' = TRUE
  /\ UNCHANGED <<reg, listed, env, state, proc, res, commands, faults>>
\* The user types anything else, or there is no terminal.
Deny(s) ==
  /\ At(s, "asking") /\ NeedsApproval(sess[s].files, sess[s].entry)
  /\ Goto(s, "cleaning")
  /\ UNCHANGED <<reg, listed, env, state, proc, res, granted, commands, faults>>

\* mergeEnvFiles: every file, or those before the one that cannot be written.
Merge(s, files, url) ==
  env' = [f \in Files |-> IF f \in files THEN [ver |-> sess[s].entry.ver, url |-> url] ELSE env[f]]
WriteUrls(s) ==
  /\ At(s, "writing")
  /\ \/ /\ Merge(s, sess[s].files, s) /\ UNCHANGED faults
        /\ Goto(s, IF sess[s].newly THEN "saving" ELSE "sharing")
     \/ /\ \E some \in SUBSET sess[s].files \ {sess[s].files} : Merge(s, some, s)
        /\ Fault /\ Goto(s, "cleaning")
  /\ UNCHANGED <<reg, listed, state, proc, res, granted, commands>>

\* The registry as the session loaded it, with the approval.
Save(s) ==
  /\ At(s, "saving")
  /\ \/ reg' = [sess[s].entry EXCEPT !.approved = TRUE] /\ Goto(s, "sharing") /\ UNCHANGED faults
     \/ Fault /\ Goto(s, "cleaning") /\ UNCHANGED reg
  /\ UNCHANGED <<listed, env, state, proc, res, granted, commands>>

\* <-sigCtx.Done(), or the output fails before it.
Unblock(s) ==
  /\ At(s, "sharing")
  /\ \/ sess[s].sig /\ UNCHANGED faults
     \/ Fault
  /\ Goto(s, "cleaning")
  /\ UNCHANGED <<reg, listed, env, state, proc, res, granted, commands>>

\* The deferred function: RemoveState, whoever wrote it, then StopAll ...
CleanedStateKept == state  \* for the mutant: the state file is removed last
CleanedState == None
CleanUp(s) ==
  /\ At(s, "cleaning")
  /\ state' = CleanedState
  /\ Goto(s, "stopping")
  /\ UNCHANGED <<reg, listed, env, proc, res, granted, commands, faults>>
\* ... and writeEnvFiles without URLs, approving whatever is unapproved.
FilesListed(s) == listed  \* for the mutant: the clean-up reads outport.yml again
FilesToRestore(s) == sess[s].files
Restore(s) ==
  /\ At(s, "restoring")
  /\ \/ Merge(s, FilesToRestore(s), None) /\ Over(s, "ended", FALSE) /\ UNCHANGED faults
     \/ /\ \E some \in SUBSET FilesToRestore(s) \ {FilesToRestore(s)} : Merge(s, some, None)
        /\ Fault /\ Over(s, "ended", TRUE)
  /\ UNCHANGED <<reg, listed, state, proc, res, granted, commands>>

-----------------------------------------------------------------------------
(* The surroundings: the user, the system and the other commands.            *)

Signal(s) ==
  /\ Running(s) /\ ~sess[s].sig
  /\ sess' = [sess EXCEPT ![s].sig = TRUE]
  /\ UNCHANGED <<reg, listed, env, state, proc, res, granted, commands, faults>>

\* The process dies without its clean-up; its tunnels go on, and nobody stops them.
Kill(s) ==
  /\ Running(s) /\ Fault
  /\ Over(s, "dead", FALSE)
  /\ proc' = [proc EXCEPT ![s] = [t \in TunnelsOf[s] |->
                IF @[t] \in {"quiet", "ready", "terminating"} THEN "orphan" ELSE @[t]]]
  /\ UNCHANGED <<reg, listed, env, state, res, granted, commands>>

\* up keeps the ports or (--force, a changed config) takes new ones; the entry it
\* saves has an approval only if this up asked for it.
Command == commands < MaxCommands /\ commands' = commands + 1
Up ==
  /\ Command
  /\ \E v \in {reg.ver, reg.ver + 1} \cap 1..MaxVer :
       /\ reg' = [ver |-> v, approved |-> NeedsApproval(listed, reg)]
       /\ env' = [f \in Files |-> IF f \in listed THEN [ver |-> v, url |-> None] ELSE env[f]]
  /\ granted' = (granted \/ NeedsApproval(listed, reg))
  /\ UNCHANGED <<listed, state, sess, proc, res, faults>>
Down ==
  /\ Command /\ reg.ver # 0
  /\ reg' = NoEntry
  /\ env' = [f \in Files |-> IF f \in listed THEN NoBlock ELSE env[f]]
  /\ granted' = (granted \/ NeedsApproval(listed, reg))
  /\ UNCHANGED <<listed, state, sess, proc, res, faults>>
EditConfig ==
  /\ Command
  /\ listed' = IF "ext" \in listed THEN {"own"} ELSE Files
  /\ UNCHANGED <<reg, env, state, sess, proc, res, granted, faults>>

\* After an up, which asked about the external file if the config had it.
Init ==
  /\ listed \in {{"own"}, Files}
  /\ reg = [ver |-> 1, approved |-> "ext" \in listed]
  /\ env = [f \in Files |-> IF f \in listed THEN [ver |-> 1, url |-> None] ELSE NoBlock]
  /\ state = None
  /\ sess = [s \in Sessions |-> Fresh]
  /\ proc = [s \in Sessions |-> [t \in TunnelsOf[s] |-> "none"]]
  /\ res = [s \in Sessions |-> [t \in TunnelsOf[s] |-> "pending"]]
  /\ granted = reg.approved /\ commands = 0 /\ faults = 0

Goroutine(s, t) == Spawn(s, t) \/ Select(s, t)
Main(s) ==
  Collect(s) \/ Stopped(s) \/ (\E t \in TunnelsOf[s] : Stop(s, t)) \/ WriteState(s) \/ Confirm(s)
    \/ WriteUrls(s) \/ Save(s) \/ Unblock(s) \/ CleanUp(s) \/ Restore(s)
Cloudflared(s, t) == Announce(s, t) \/ Exit(s, t)
Next ==
  \/ \E s \in Sessions :
       \/ Launch(s) \/ Main(s) \/ Approve(s) \/ Deny(s) \/ Timeout(s) \/ Signal(s) \/ Kill(s)
       \/ \E t \in TunnelsOf[s] : Goroutine(s, t) \/ Reap(s, t) \/ Cloudflared(s, t)
  \/ Up \/ Down \/ EditConfig

\* Goroutines and the main function run, the deadline comes, and a process that
\* was told to stop is waited for: after three seconds it is killed.  Nobody
\* has to send a signal or answer a prompt, and no cloudflared has to print.
Fairness ==
  \A s \in Sessions :
    /\ WF_vars(Main(s)) /\ WF_vars(Timeout(s))
    /\ \A t \in TunnelsOf[s] : WF_vars(Goroutine(s, t)) /\ WF_vars(Reap(s, t))

Spec == Init /\ [][Next]_vars /\ Fairness

-----------------------------------------------------------------------------
(* Properties.                                                               *)

ShareTypeOK ==
  /\ reg \in [ver : 0..MaxVer, approved : BOOLEAN] /\ listed \subseteq Files
  /\ env \in [Files -> [ver : 0..MaxVer, url : Sessions \cup {None}]]
  /\ state \in Sessions \cup {None}
  /\ sess \in [Sessions ->
       [pc : Steps, entry : [ver : 0..MaxVer, approved : BOOLEAN], files : SUBSET Files,
        newly : BOOLEAN, late : BOOLEAN, sig : BOOLEAN, warned : BOOLEAN]]
  /\ \A s \in Sessions :
       /\ proc[s] \in [TunnelsOf[s] ->
            {"none", "quiet", "ready", "exited", "died", "terminating", "gone", "orphan"}]
       /\ res[s] \in [TunnelsOf[s] -> {"pending", "up", "failed"}]
  /\ granted \in BOOLEAN /\ commands \in 0..MaxCommands /\ faults \in 0..MaxFaults

\* All or nothing (manager.go): whichever of URL, exit, deadline and signal comes
\* first for each tunnel, a session that ended by itself leaves no cloudflared
\* running, and one that goes on has a URL for every tunnel.
AllOrNothing ==
  \A s \in Sessions :
    /\ At(s, "ended") => \A t \in TunnelsOf[s] : proc[s][t] \in {"none", "died", "gone"}
    /\ sess[s].pc \in {"telling", "asking", "writing", "saving", "sharing"}
         => Started(s) = TunnelsOf[s]

\* While the daemon serves the hosts of tunnels.json (ReadState: the writer is
\* alive), that session has not begun to stop its tunnels.
Advertised == IF state # None /\ Running(state) THEN {state} ELSE {}
RoutesBeforeTunnels ==
  \A s \in Advertised : \A t \in TunnelsOf[s] : proc[s][t] \in {"ready", "died"}

\* A session that ended by itself and did not warn of it leaves none of its URLs
\* in an env file, through failed writes, edits of the config and other sessions.
UrlsTakenBack ==
  \A s \in Sessions : At(s, "ended") /\ ~sess[s].warned => \A f \in Files : env[f].url # s

\* StartAll returns even if a cloudflared hangs, and after a signal a session comes
\* to its end: the only places where it may stay are its prompt and the wait for a
\* signal that was not sent.
AtRest(s) ==
  \/ ~Running(s)
  \/ At(s, "sharing") /\ ~sess[s].sig
  \/ At(s, "asking") /\ NeedsApproval(sess[s].files, sess[s].entry)
SessionsEnd == \A s \in Sessions : []<>AtRest(s)

\* The external file is written only after somebody allowed it
\* (docs/reference/configuration.md: "require explicit approval").
ExternalNeedsApproval == env["ext"].ver # 0 => granted
=============================================================================
