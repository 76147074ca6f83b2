-------------------------- MODULE ShareSessionProofs -------------------------
(***************************************************************************)
(* Proofs about ShareSession, for any number of sessions and tunnels, of   *)
(* other commands, kills and failed writes.                                *)
(***************************************************************************)
EXTENDS ShareSession, TLAPS

ProcStates == {"none", "quiet", "ready", "exited", "died", "terminating", "gone", "orphan"}
Entry == [ver : 0..MaxVer, approved : BOOLEAN]
Block == [ver : 0..MaxVer, url : Sessions \cup {None}]
Local == [pc : Steps, entry : Entry, files : SUBSET Files,
          newly : BOOLEAN, late : BOOLEAN, sig : BOOLEAN, warned : BOOLEAN]

RestType ==
  /\ reg \in Entry /\ listed \in SUBSET Files /\ env \in [Files -> Block]
  /\ state \in Sessions \cup {None} /\ granted \in BOOLEAN
  /\ commands \in 0..MaxCommands /\ faults \in 0..MaxFaults
SessType == sess \in [Sessions -> Local]
TunnelType ==
  /\ DOMAIN proc = Sessions /\ DOMAIN res = Sessions
  /\ \A s \in Sessions : /\ proc[s] \in [TunnelsOf[s] -> ProcStates]
                         /\ res[s] \in [TunnelsOf[s] -> {"pending", "up", "failed"}]

\* Where the tunnels of a session are, at each of its steps.
Serving == {"telling", "asking", "writing", "saving", "sharing", "cleaning"}
TunnelInvOf(pc, p, r) ==
  /\ pc = "off" => p = "none" /\ r = "pending"
  /\ pc = "starting" =>
       /\ r = "pending" => p \in {"none", "quiet", "ready", "exited", "died"}
       /\ r = "up" => p \in {"ready", "died"}
       /\ r = "failed" => p \in {"none", "gone"}
  /\ pc \in Serving => r = "up" /\ p \in {"ready", "died"}
  /\ pc \in {"undoing", "stopping"} =>
       /\ r = "up" => p \in {"ready", "died", "terminating", "gone"}
       /\ r # "up" => r = "failed" /\ p \in {"none", "gone"}
  /\ pc \in {"restoring", "ended"} => p \in {"none", "died", "gone"}
TunnelInv ==
  \A s \in Sessions : \A t \in TunnelsOf[s] : TunnelInvOf(sess[s].pc, proc[s][t], res[s][t])

LEMMA SessStep == SessType /\ ShareTypeOK /\ [Next]_vars => SessType'
<1> SUFFICES ASSUME SessType, ShareTypeOK, [Next]_vars PROVE SessType'
  OBVIOUS
<1>0. reg \in Entry /\ listed \in SUBSET Files /\ Fresh \in Local
  BY BoundAssumption DEF ShareTypeOK, Fresh, NoEntry, Local, Entry, Steps
<1> USE <1>0 DEF SessType
<1>1. ASSUME NEW s \in Sessions, Launch(s) PROVE SessType'
  BY <1>1 DEF Launch, Local, Steps
<1>2. ASSUME NEW s \in Sessions, NEW step \in Steps, Goto(s, step) PROVE SessType'
  BY <1>2 DEF Goto, Local
<1>3. ASSUME NEW s \in Sessions, NEW step \in Steps, NEW w \in BOOLEAN, Over(s, step, w)
      PROVE  SessType'
  <2>1. [Fresh EXCEPT !.pc = step, !.warned = w] \in Local
    BY DEF Local
  <2> QED BY <1>3, <2>1 DEF Over
<1>4. ASSUME NEW s \in Sessions, Main(s) PROVE SessType'
  <2>1. CASE Collect(s)
    <3>1. Outcome(s) \in Steps
      BY DEF Outcome, Steps
    <3> QED BY <2>1, <3>1 DEF Collect, Local
  <2>2. CASE Stopped(s)
    BY <2>2, <1>2, <1>3 DEF Stopped, Steps
  <2>3. CASE \E t \in TunnelsOf[s] : Stop(s, t)
    BY <2>3 DEF Stop
  <2>4. CASE WriteState(s) \/ Unblock(s) \/ CleanUp(s)
    BY <2>4, <1>2 DEF WriteState, Unblock, CleanUp, Steps
  <2>5. CASE Confirm(s)
    BY <2>5 DEF Confirm, StartWriting, Local, Steps
  <2>6. CASE WriteUrls(s) \/ Save(s)
    BY <2>6, <1>2 DEF WriteUrls, Save, Steps
  <2>7. CASE Restore(s)
    BY <2>7, <1>3 DEF Restore, Steps
  <2> QED BY <1>4, <2>1, <2>2, <2>3, <2>4, <2>5, <2>6, <2>7 DEF Main
<1>5. ASSUME NEW s \in Sessions, Approve(s) \/ Deny(s) \/ Timeout(s) \/ Signal(s) \/ Kill(s)
      PROVE  SessType'
  <2>1. CASE Approve(s)
    <3>1. StartWriting(s, TRUE)
      BY <2>1 DEF Approve
    <3>2. [sess[s] EXCEPT !.pc = "writing", !.newly = TRUE] \in Local
      <4>1. sess[s] \in Local /\ "writing" \in Steps
        BY DEF Steps
      <4> QED BY <4>1 DEF Local
    <3> QED BY <3>1, <3>2 DEF StartWriting
  <2>2. CASE Deny(s)
    BY <2>2, <1>2 DEF Deny, Steps
  <2>3. CASE Timeout(s) \/ Signal(s)
    <3>1. CASE Timeout(s)
      BY <2>3, <3>1 DEF Timeout, Local
    <3>2. CASE Signal(s)
      BY <2>3, <3>2 DEF Signal, Local
    <3> QED BY <2>3, <3>1, <3>2
  <2>4. CASE Kill(s)
    BY <2>4, <1>3 DEF Kill, Steps
  <2> QED BY <1>5, <2>1, <2>2, <2>3, <2>4
<1>6. ASSUME NEW s \in Sessions, NEW t \in TunnelsOf[s],
             Goroutine(s, t) \/ Reap(s, t) \/ Cloudflared(s, t)
      PROVE  SessType'
  BY <1>6 DEF Goroutine, Spawn, Select, Reap, Cloudflared, Announce, Exit
<1>7. CASE Up \/ Down \/ EditConfig \/ UNCHANGED vars
  BY <1>7 DEF Up, Down, EditConfig, vars
<1> QED BY <1>1, <1>4, <1>5, <1>6, <1>7 DEF Next

-----------------------------------------------------------------------------
(* The rest of the state.                                                    *)

LEMMA FaultCounts == ASSUME RestType, Fault PROVE faults' \in 0..MaxFaults
BY BoundAssumption DEF Fault, RestType

LEMMA CommandCounts == ASSUME RestType, Command PROVE commands' \in 0..MaxCommands
BY BoundAssumption DEF Command, RestType

LEMMA MergeType ==
  ASSUME RestType, SessType, NEW s \in Sessions, NEW files, NEW url \in Sessions \cup {None},
         Merge(s, files, url)
  PROVE  env' \in [Files -> Block]
<1>1. [ver |-> sess[s].entry.ver, url |-> url] \in Block
  <2>1. sess[s].entry \in Entry
    BY DEF SessType, Local
  <2> QED BY <2>1 DEF Entry, Block
<1> QED BY <1>1 DEF Merge, RestType

LEMMA RestStep == RestType /\ SessType /\ [Next]_vars => RestType'
<1> SUFFICES ASSUME RestType, SessType, [Next]_vars PROVE RestType'
  OBVIOUS
<1>1. ASSUME NEW s \in Sessions, Main(s) PROVE RestType'
  <2>1. CASE Collect(s) \/ Stopped(s) \/ Confirm(s) \/ \E t \in TunnelsOf[s] : Stop(s, t)
    BY <2>1 DEF Collect, Stopped, Confirm, Stop, RestType
  <2>2. CASE WriteState(s) \/ Unblock(s) \/ CleanUp(s)
    BY <2>2, FaultCounts DEF WriteState, Unblock, CleanUp, CleanedState, RestType
  <2>3. CASE WriteUrls(s)
    <3>1. env' \in [Files -> Block]
      BY <2>3, MergeType DEF WriteUrls
    <3> QED BY <2>3, <3>1, FaultCounts DEF WriteUrls, RestType
  <2>4. CASE Save(s)
    <3>1. [sess[s].entry EXCEPT !.approved = TRUE] \in Entry
      BY DEF SessType, Local, Entry
    <3> QED BY <2>4, <3>1, FaultCounts DEF Save, RestType
  <2>5. CASE Restore(s)
    <3>1. env' \in [Files -> Block]
      BY <2>5, MergeType DEF Restore
    <3> QED BY <2>5, <3>1, FaultCounts DEF Restore, RestType
  <2> QED BY <1>1, <2>1, <2>2, <2>3, <2>4, <2>5 DEF Main
<1>2. ASSUME NEW s \in Sessions,
             Launch(s) \/ Approve(s) \/ Deny(s) \/ Timeout(s) \/ Signal(s) \/ Kill(s)
      PROVE  RestType'
  BY <1>2, FaultCounts DEF Launch, Approve, Deny, Timeout, Signal, Kill, RestType
<1>3. ASSUME NEW s \in Sessions, NEW t \in TunnelsOf[s],
             Goroutine(s, t) \/ Reap(s, t) \/ Cloudflared(s, t)
      PROVE  RestType'
  BY <1>3, FaultCounts DEF Goroutine, Spawn, Select, Reap, Cloudflared, Announce, Exit, RestType
<1>4. CASE Up
  <2>1. PICK v \in {reg.ver, reg.ver + 1} \cap 1..MaxVer :
          /\ reg' = [ver |-> v, approved |-> NeedsApproval(listed, reg)]
          /\ env' = [f \in Files |-> IF f \in listed THEN [ver |-> v, url |-> None] ELSE env[f]]
    BY <1>4 DEF Up
  <2>2. v \in 0..MaxVer
    BY BoundAssumption DEF RestType, Entry
  <2>3. NeedsApproval(listed, reg) \in BOOLEAN
    BY DEF NeedsApproval
  <2>4. reg' \in Entry
    BY <2>1, <2>2, <2>3 DEF Entry
  <2>5. [ver |-> v, url |-> None] \in Block
    BY <2>2 DEF Block
  <2>6. env' \in [Files -> Block]
    BY <2>1, <2>5 DEF RestType
  <2> QED BY <1>4, <2>3, <2>4, <2>6, CommandCounts DEF Up, RestType
<1>5. CASE Down
  <2>1. NeedsApproval(listed, reg) \in BOOLEAN
    BY DEF NeedsApproval
  <2>2. NoEntry \in Entry /\ NoBlock \in Block
    BY BoundAssumption DEF NoEntry, NoBlock, Entry, Block
  <2>3. env' \in [Files -> Block]
    BY <1>5, <2>2 DEF Down, RestType
  <2> QED BY <1>5, <2>1, <2>2, <2>3, CommandCounts DEF Down, RestType
<1>6. CASE EditConfig
  BY <1>6, CommandCounts DEF EditConfig, RestType, Files
<1>7. CASE UNCHANGED vars
  BY <1>7 DEF vars, RestType
<1> QED BY <1>1, <1>2, <1>3, <1>4, <1>5, <1>6, <1>7 DEF Next
-----------------------------------------------------------------------------
(* The tunnels.                                                              *)

ResStates == {"pending", "up", "failed"}
\* A step changes the process, or the result, of no other tunnel.
OnlyProc(s, t) == \A u \in Sessions : \A x \in TunnelsOf[u] :
                    u # s \/ x # t => proc'[u][x] = proc[u][x]
OnlyRes(s, t) == \A u \in Sessions : \A x \in TunnelsOf[u] :
                   u # s \/ x # t => res'[u][x] = res[u][x]

LEMMA ProcIs ==
  ASSUME TunnelType, NEW s \in Sessions, NEW t \in TunnelsOf[s], NEW p \in ProcStates,
         proc' = [proc EXCEPT ![s][t] = p]
  PROVE  /\ DOMAIN proc' = Sessions
         /\ \A u \in Sessions : proc'[u] \in [TunnelsOf[u] -> ProcStates]
         /\ proc'[s][t] = p
         /\ OnlyProc(s, t)
<1>1. proc[s] \in [TunnelsOf[s] -> ProcStates] /\ DOMAIN proc = Sessions
  BY DEF TunnelType
<1>2. proc'[s] = [proc[s] EXCEPT ![t] = p] /\ DOMAIN proc' = Sessions
  BY <1>1
<1>3. \A u \in Sessions : u # s => proc'[u] = proc[u]
  BY <1>1
<1>4. proc'[s] \in [TunnelsOf[s] -> ProcStates]
  BY <1>1, <1>2
<1>5. proc'[s][t] = p /\ \A x \in TunnelsOf[s] : x # t => proc'[s][x] = proc[s][x]
  BY <1>1, <1>2
<1> QED BY <1>2, <1>3, <1>4, <1>5 DEF TunnelType, OnlyProc

LEMMA ResIs ==
  ASSUME TunnelType, NEW s \in Sessions, NEW t \in TunnelsOf[s], NEW r \in ResStates,
         res' = [res EXCEPT ![s][t] = r]
  PROVE  /\ DOMAIN res' = Sessions
         /\ \A u \in Sessions : res'[u] \in [TunnelsOf[u] -> ResStates]
         /\ res'[s][t] = r
         /\ OnlyRes(s, t)
<1>1. res[s] \in [TunnelsOf[s] -> ResStates] /\ DOMAIN res = Sessions
  BY DEF TunnelType, ResStates
<1>2. res'[s] = [res[s] EXCEPT ![t] = r] /\ DOMAIN res' = Sessions
  BY <1>1
<1>3. \A u \in Sessions : u # s => res'[u] = res[u]
  BY <1>1
<1>4. res'[s] \in [TunnelsOf[s] -> ResStates]
  BY <1>1, <1>2
<1>5. res'[s][t] = r /\ \A x \in TunnelsOf[s] : x # t => res'[s][x] = res[s][x]
  BY <1>1, <1>2
<1> QED BY <1>2, <1>3, <1>4, <1>5 DEF TunnelType, ResStates, OnlyRes

\* What a kill makes of a session's processes.
LEMMA KillIs ==
  ASSUME TunnelType, NEW s \in Sessions, Kill(s)
  PROVE  /\ DOMAIN proc' = Sessions
         /\ \A u \in Sessions : proc'[u] \in [TunnelsOf[u] -> ProcStates]
         /\ \A u \in Sessions : u # s => proc'[u] = proc[u]
         /\ res' = res
<1> DEFINE Left == [t \in TunnelsOf[s] |->
             IF proc[s][t] \in {"quiet", "ready", "terminating"} THEN "orphan" ELSE proc[s][t]]
<1>1. proc' = [proc EXCEPT ![s] = Left] /\ res' = res
  BY DEF Kill
<1>2. Left \in [TunnelsOf[s] -> ProcStates]
  BY DEF TunnelType, ProcStates
<1> HIDE DEF Left
<1> QED BY <1>1, <1>2 DEF TunnelType

LEMMA TunnelTypeStep == TunnelType /\ [Next]_vars => TunnelType'
<1> SUFFICES ASSUME TunnelType, [Next]_vars PROVE TunnelType'
  OBVIOUS
<1>1. ASSUME NEW s \in Sessions, NEW t \in TunnelsOf[s], NEW p \in ProcStates,
             proc' = [proc EXCEPT ![s][t] = p],
             res' = res \/ \E r \in ResStates : res' = [res EXCEPT ![s][t] = r]
      PROVE  TunnelType'
  BY <1>1, ProcIs, ResIs DEF TunnelType, ResStates
<1>2. ASSUME NEW s \in Sessions, NEW t \in TunnelsOf[s], NEW r \in ResStates,
             res' = [res EXCEPT ![s][t] = r], proc' = proc
      PROVE  TunnelType'
  BY <1>2, ResIs DEF TunnelType, ResStates
<1>3. ASSUME NEW s \in Sessions, NEW t \in TunnelsOf[s], Goroutine(s, t) PROVE TunnelType'
  <2>1. CASE Spawn(s, t)
    BY <2>1, <1>1, <1>2 DEF Spawn, ProcStates, ResStates
  <2>2. CASE Select(s, t) /\ GotUrl(s, t)
    BY <2>2, <1>2 DEF GotUrl, ResStates
  <2>3. CASE Select(s, t) /\ GaveUp(s, t)
    BY <2>3, <1>1 DEF GaveUp, ProcStates, ResStates
  <2> QED BY <1>3, <2>1, <2>2, <2>3 DEF Goroutine, Select
<1>4. ASSUME NEW s \in Sessions, NEW t \in TunnelsOf[s],
             Reap(s, t) \/ Cloudflared(s, t) \/ Stop(s, t)
      PROVE  TunnelType'
  BY <1>4, <1>1 DEF Reap, Cloudflared, Announce, Exit, Stop, ProcStates
<1>5. ASSUME NEW s \in Sessions, Main(s) PROVE TunnelType'
  <2>1. CASE \E t \in TunnelsOf[s] : Stop(s, t)
    BY <2>1, <1>4
  <2>2. CASE Collect(s) \/ Stopped(s) \/ WriteState(s) \/ Confirm(s) \/ WriteUrls(s)
               \/ Save(s) \/ Unblock(s) \/ CleanUp(s) \/ Restore(s)
    BY <2>2 DEF Collect, Stopped, WriteState, Confirm, WriteUrls, Save, Unblock, CleanUp,
                Restore, TunnelType
  <2> QED BY <1>5, <2>1, <2>2 DEF Main
<1>6. ASSUME NEW s \in Sessions, Kill(s) PROVE TunnelType'
  BY <1>6, KillIs DEF TunnelType
<1>7. ASSUME NEW s \in Sessions,
             Launch(s) \/ Approve(s) \/ Deny(s) \/ Timeout(s) \/ Signal(s)
      PROVE  TunnelType'
  BY <1>7 DEF Launch, Approve, Deny, Timeout, Signal, TunnelType
<1>8. CASE Up \/ Down \/ EditConfig \/ UNCHANGED vars
  BY <1>8 DEF Up, Down, EditConfig, vars, TunnelType
<1> QED BY <1>3, <1>4, <1>5, <1>6, <1>7, <1>8 DEF Next
\* What the steps of a process make of its locals.
Others(s) == \A u \in Sessions : u # s => sess'[u] = sess[u]

LEMMA GotoIs ==
  ASSUME SessType, NEW s \in Sessions, NEW step \in Steps, Goto(s, step)
  PROVE  /\ Others(s) /\ sess'[s].pc = step /\ sess'[s].files = sess[s].files
         /\ sess'[s].warned = sess[s].warned
BY DEF SessType, Local, Goto, Others

LEMMA OverIs ==
  ASSUME SessType, NEW s \in Sessions, NEW step \in Steps, NEW w \in BOOLEAN, Over(s, step, w)
  PROVE  Others(s) /\ sess'[s].pc = step /\ sess'[s].warned = w
<1>1. sess' = [sess EXCEPT ![s] = [Fresh EXCEPT !.pc = step, !.warned = w]]
  BY DEF Over
<1>2. [Fresh EXCEPT !.pc = step, !.warned = w].pc = step
  BY DEF Fresh
<1>3. [Fresh EXCEPT !.pc = step, !.warned = w].warned = w
  BY DEF Fresh
<1> QED BY <1>1, <1>2, <1>3 DEF SessType, Others

LEMMA StartWritingIs ==
  ASSUME SessType, NEW s \in Sessions, NEW newly \in BOOLEAN, StartWriting(s, newly)
  PROVE  /\ Others(s) /\ sess'[s].pc = "writing" /\ sess'[s].files = sess[s].files
         /\ sess'[s].warned = sess[s].warned
<1>1. sess' = [sess EXCEPT ![s] = [sess[s] EXCEPT !.pc = "writing", !.newly = newly]]
  BY DEF StartWriting
<1>2. sess[s] \in Local
  BY DEF SessType
<1>3. /\ [sess[s] EXCEPT !.pc = "writing", !.newly = newly].pc = "writing"
      /\ [sess[s] EXCEPT !.pc = "writing", !.newly = newly].files = sess[s].files
      /\ [sess[s] EXCEPT !.pc = "writing", !.newly = newly].warned = sess[s].warned
  BY <1>2 DEF Local
<1> QED BY <1>1, <1>3 DEF SessType, Others

LEMMA CollectIs ==
  ASSUME SessType, NEW s \in Sessions, Collect(s)
  PROVE  /\ Others(s) /\ sess'[s].pc = Outcome(s) /\ sess'[s].files = sess[s].files
         /\ sess'[s].warned = sess[s].warned
<1>1. sess' = [sess EXCEPT ![s] = [sess[s] EXCEPT !.pc = Outcome(s), !.late = FALSE]]
  BY DEF Collect
<1>2. sess[s] \in Local
  BY DEF SessType
<1> DEFINE o == Outcome(s)
<1> HIDE DEF o
<1>3. /\ [sess[s] EXCEPT !.pc = o, !.late = FALSE].pc = o
      /\ [sess[s] EXCEPT !.pc = o, !.late = FALSE].files = sess[s].files
      /\ [sess[s] EXCEPT !.pc = o, !.late = FALSE].warned = sess[s].warned
  BY <1>2 DEF Local
<1> QED BY <1>1, <1>3 DEF SessType, Others, o

LEMMA LaunchIs ==
  ASSUME SessType, NEW s \in Sessions, Launch(s)
  PROVE  Others(s) /\ sess'[s].pc = "starting"
<1>1. sess' = [sess EXCEPT ![s] = [sess[s] EXCEPT !.pc = "starting", !.entry = reg, !.files = listed]]
  BY DEF Launch
<1>2. sess[s] \in Local
  BY DEF SessType
<1>3. [sess[s] EXCEPT !.pc = "starting", !.entry = reg, !.files = listed].pc = "starting"
  BY <1>2 DEF Local
<1> QED BY <1>1, <1>3 DEF SessType, Others

LEMMA NoticeIs ==
  ASSUME SessType, NEW s \in Sessions, Timeout(s) \/ Signal(s)
  PROVE  /\ Others(s) /\ sess'[s].pc = sess[s].pc /\ sess'[s].files = sess[s].files
         /\ sess'[s].warned = sess[s].warned
<1>1. CASE Timeout(s)
  BY <1>1 DEF Timeout, SessType, Local, Others
<1>2. CASE Signal(s)
  BY <1>2 DEF Signal, SessType, Local, Others
<1> QED BY <1>1, <1>2

\* The step a session takes after one of its own, and no tunnel with it.
Moves(s) ==
  \/ sess'[s].pc = sess[s].pc
  \/ sess[s].pc = "off" /\ sess'[s].pc = "starting"
  \/ sess[s].pc \in Serving /\ sess'[s].pc \in Serving
  \/ sess[s].pc = "cleaning" /\ sess'[s].pc = "stopping"
  \/ sess[s].pc = "restoring" /\ sess'[s].pc = "ended"

LEMMA OwnMoves ==
  ASSUME SessType, NEW s \in Sessions,
         \/ Launch(s) \/ Approve(s) \/ Deny(s) \/ Timeout(s) \/ Signal(s) \/ WriteState(s)
         \/ Confirm(s) \/ WriteUrls(s) \/ Save(s) \/ Unblock(s) \/ CleanUp(s) \/ Restore(s)
  PROVE  Others(s) /\ Moves(s) /\ proc' = proc /\ res' = res
<1>0. {"asking", "cleaning", "sharing", "saving", "stopping", "ended"} \subseteq Steps
  BY DEF Steps
<1>1. CASE Launch(s)
  BY <1>1, LaunchIs DEF Launch, At, Moves
<1>2. CASE Approve(s) \/ Confirm(s)
  BY <1>2, StartWritingIs DEF Approve, Confirm, At, Moves, Serving
<1>3. CASE Deny(s) \/ WriteState(s) \/ WriteUrls(s) \/ Save(s) \/ Unblock(s) \/ CleanUp(s)
  BY <1>0, <1>3, GotoIs
     DEF Deny, WriteState, WriteUrls, Save, Unblock, CleanUp, At, Moves, Serving
<1>4. CASE Timeout(s) \/ Signal(s)
  BY <1>4, NoticeIs DEF Timeout, Signal, Moves
<1>5. CASE Restore(s)
  BY <1>0, <1>5, OverIs DEF Restore, At, Moves
<1> QED BY <1>1, <1>2, <1>3, <1>4, <1>5

LEMMA TunnelStep == SessType /\ TunnelType /\ TunnelInv /\ [Next]_vars => TunnelInv'
<1> SUFFICES ASSUME SessType, TunnelType, TunnelInv, [Next]_vars PROVE TunnelInv'
  OBVIOUS
<1>1. ASSUME NEW s \in Sessions, Others(s), Moves(s), proc' = proc, res' = res
      PROVE  TunnelInv'
  BY <1>1 DEF Others, Moves, TunnelInv, TunnelInvOf, Serving
<1>2. ASSUME NEW s \in Sessions, NEW t \in TunnelsOf[s], sess' = sess,
             \A u \in Sessions : \A x \in TunnelsOf[u] :
               u # s \/ x # t => proc'[u][x] = proc[u][x] /\ res'[u][x] = res[u][x],
             TunnelInvOf(sess[s].pc, proc'[s][t], res'[s][t])
      PROVE  TunnelInv'
  BY <1>2 DEF TunnelInv
<1>p. ASSUME NEW s \in Sessions, NEW t \in TunnelsOf[s], NEW p \in ProcStates,
             sess' = sess, res' = res, proc' = [proc EXCEPT ![s][t] = p],
             TunnelInvOf(sess[s].pc, p, res[s][t])
      PROVE  TunnelInv'
  <2>1. /\ proc'[s][t] = p
        /\ OnlyProc(s, t)
    BY <1>p, ProcIs
  <2> QED BY <1>2, <1>p, <2>1 DEF OnlyProc
<1>r. ASSUME NEW s \in Sessions, NEW t \in TunnelsOf[s], NEW r \in ResStates,
             sess' = sess, res' = [res EXCEPT ![s][t] = r], proc' = proc,
             TunnelInvOf(sess[s].pc, proc[s][t], r)
      PROVE  TunnelInv'
  <2>1. /\ res'[s][t] = r
        /\ OnlyRes(s, t)
    BY <1>r, ResIs
  <2> QED BY <1>2, <1>r, <2>1 DEF OnlyRes
<1>b. ASSUME NEW s \in Sessions, NEW t \in TunnelsOf[s], sess' = sess,
             NEW p \in ProcStates, proc' = [proc EXCEPT ![s][t] = p],
             NEW r \in ResStates, res' = [res EXCEPT ![s][t] = r],
             TunnelInvOf(sess[s].pc, p, r)
      PROVE  TunnelInv'
  <2>1. /\ proc'[s][t] = p
        /\ OnlyProc(s, t)
    BY <1>b, ProcIs
  <2>2. /\ res'[s][t] = r
        /\ OnlyRes(s, t)
    BY <1>b, ResIs
  <2> QED BY <1>2, <1>b, <2>1, <2>2 DEF OnlyProc, OnlyRes
<1>s. {"quiet", "ready", "exited", "died", "terminating", "gone"} \subseteq ProcStates
      /\ {"up", "failed"} \subseteq ResStates
  BY DEF ProcStates, ResStates
<1>3. ASSUME NEW s \in Sessions, NEW t \in TunnelsOf[s], Goroutine(s, t) PROVE TunnelInv'
  <2>0. TunnelInvOf(sess[s].pc, proc[s][t], res[s][t])
    BY DEF TunnelInv
  <2>1. CASE Spawn(s, t)
    <3>1. sess' = sess /\ sess[s].pc = "starting" /\ res[s][t] = "pending" /\ proc[s][t] = "none"
      BY <2>1 DEF Spawn, At
    <3>2. /\ TunnelInvOf("starting", "quiet", res[s][t])
          /\ TunnelInvOf("starting", proc[s][t], "failed")
      BY <3>1 DEF TunnelInvOf, Serving
    <3>3. \/ proc' = [proc EXCEPT ![s][t] = "quiet"] /\ res' = res
          \/ res' = [res EXCEPT ![s][t] = "failed"] /\ proc' = proc
      BY <2>1 DEF Spawn
    <3> QED BY <1>p, <1>r, <1>s, <3>1, <3>2, <3>3
  <2>2. CASE Select(s, t) /\ GotUrl(s, t)
    <3>1. sess' = sess /\ sess[s].pc = "starting" /\ proc[s][t] \in {"ready", "died"}
          /\ res' = [res EXCEPT ![s][t] = "up"] /\ proc' = proc
      BY <2>2 DEF Select, GotUrl, At
    <3>2. TunnelInvOf("starting", proc[s][t], "up")
      BY <3>1 DEF TunnelInvOf, Serving
    <3> QED BY <1>r, <1>s, <3>1, <3>2
  <2>3. CASE Select(s, t) /\ GaveUp(s, t)
    <3>1. sess' = sess /\ sess[s].pc = "starting"
          /\ res' = [res EXCEPT ![s][t] = "failed"] /\ proc' = [proc EXCEPT ![s][t] = "gone"]
      BY <2>3 DEF Select, GaveUp, At
    <3>2. TunnelInvOf("starting", "gone", "failed")
      BY DEF TunnelInvOf, Serving
    <3> QED BY <1>b, <1>s, <3>1, <3>2
  <2> QED BY <1>3, <2>1, <2>2, <2>3 DEF Goroutine, Select
<1>4. ASSUME NEW s \in Sessions, NEW t \in TunnelsOf[s],
             Reap(s, t) \/ Cloudflared(s, t) \/ Stop(s, t)
      PROVE  TunnelInv'
  <2>0. TunnelInvOf(sess[s].pc, proc[s][t], res[s][t])
    BY DEF TunnelInv
  <2>1. sess' = sess /\ res' = res
    BY <1>4 DEF Reap, Cloudflared, Announce, Exit, Stop
  <2>2. ASSUME NEW p \in ProcStates, proc' = [proc EXCEPT ![s][t] = p],
               \/ proc[s][t] = "terminating" /\ p = "gone"
               \/ proc[s][t] = "quiet" /\ p \in {"ready", "exited"}
               \/ proc[s][t] = "ready" /\ p = "died"
        PROVE  TunnelInv'
    <3>1. TunnelInvOf(sess[s].pc, p, res[s][t])
      BY <2>0, <2>2 DEF TunnelInvOf, Serving
    <3> QED BY <1>p, <2>1, <2>2, <3>1
  <2>3. CASE Stop(s, t)
    <3>1. /\ sess[s].pc \in {"undoing", "stopping"} /\ res[s][t] = "up"
          /\ proc' = [proc EXCEPT ![s][t] = "terminating"]
      BY <2>3 DEF Stop, Started, At
    <3>2. TunnelInvOf(sess[s].pc, "terminating", res[s][t])
      BY <3>1 DEF TunnelInvOf, Serving
    <3> QED BY <1>p, <1>s, <2>1, <3>1, <3>2
  <2>4. CASE Reap(s, t)
    BY <1>s, <2>2, <2>4 DEF Reap
  <2>5. CASE Cloudflared(s, t)
    BY <1>s, <2>2, <2>5 DEF Cloudflared, Announce, Exit
  <2> QED BY <1>4, <2>3, <2>4, <2>5
<1>5. ASSUME NEW s \in Sessions, Collect(s) PROVE TunnelInv'
  <2>1. /\ Others(s) /\ proc' = proc /\ res' = res
        /\ sess[s].pc = "starting" /\ sess'[s].pc = Outcome(s)
    BY <1>5, CollectIs DEF Collect, At
  <2>2. \A t \in TunnelsOf[s] : res[s][t] \in {"up", "failed"}
    BY <1>5 DEF Collect, TunnelType
  <2>3. ASSUME NEW t \in TunnelsOf[s] PROVE TunnelInvOf(Outcome(s), proc[s][t], res[s][t])
    <3>1. TunnelInvOf("starting", proc[s][t], res[s][t])
      BY <2>1 DEF TunnelInv
    <3> QED BY <2>2, <3>1 DEF TunnelInvOf, Outcome, Serving
  <2> QED BY <2>1, <2>3 DEF TunnelInv, Others
<1>6. ASSUME NEW s \in Sessions, Stopped(s) PROVE TunnelInv'
  <2>1. /\ Others(s) /\ proc' = proc /\ res' = res
        /\ sess[s].pc \in {"undoing", "stopping"} /\ sess'[s].pc \in {"ended", "restoring"}
    BY <1>6, GotoIs, OverIs DEF Stopped, At, Steps
  <2>2. ASSUME NEW t \in TunnelsOf[s] PROVE proc[s][t] \in {"none", "died", "gone"}
    <3>1. TunnelInvOf(sess[s].pc, proc[s][t], res[s][t])
      BY DEF TunnelInv
    <3>2. res[s][t] = "up" => proc[s][t] \in {"died", "gone"}
      BY <1>6 DEF Stopped, Started
    <3> QED BY <2>1, <3>1, <3>2 DEF TunnelInvOf
  <2> QED BY <2>1, <2>2 DEF TunnelInv, TunnelInvOf, Others, Serving
<1>7. ASSUME NEW s \in Sessions, Kill(s) PROVE TunnelInv'
  <2>1. Others(s) /\ sess'[s].pc = "dead"
    BY <1>7, OverIs DEF Kill, Steps
  <2>2. res' = res /\ \A u \in Sessions : u # s => proc'[u] = proc[u]
    BY <1>7, KillIs
  <2> QED BY <2>1, <2>2 DEF TunnelInv, TunnelInvOf, Others, Serving
<1>8. ASSUME NEW s \in Sessions, Main(s) PROVE TunnelInv'
  BY <1>8, <1>1, <1>4, <1>5, <1>6, OwnMoves DEF Main
<1>9. ASSUME NEW s \in Sessions,
             Launch(s) \/ Approve(s) \/ Deny(s) \/ Timeout(s) \/ Signal(s)
      PROVE  TunnelInv'
  BY <1>9, <1>1, OwnMoves
<1>10. CASE Up \/ Down \/ EditConfig \/ UNCHANGED vars
  BY <1>10 DEF Up, Down, EditConfig, vars, TunnelInv
<1> QED BY <1>3, <1>4, <1>7, <1>8, <1>9, <1>10 DEF Next
-----------------------------------------------------------------------------
(* The state file and the URLs in the env files.                             *)

\* Whoever is named in tunnels.json has not removed it yet, or cannot any more.
RoutesInv ==
  \A s \in Sessions :
    state = s => sess[s].pc \in {"asking", "writing", "saving", "sharing", "cleaning", "dead"}

\* A session knows every file that holds a URL of its, until it is over.
UrlInv ==
  \A s \in Sessions : \A f \in Files : env[f].url = s =>
    \/ /\ f \in sess[s].files
       /\ sess[s].pc \in {"saving", "sharing", "cleaning", "stopping", "restoring"}
    \/ sess[s].pc = "dead" \/ (sess[s].pc = "ended" /\ sess[s].warned)

LEMMA RoutesStep == SessType /\ RoutesInv /\ [Next]_vars => RoutesInv'
<1> SUFFICES ASSUME SessType, RoutesInv, [Next]_vars PROVE RoutesInv'
  OBVIOUS
<1> DEFINE Named == {"asking", "writing", "saving", "sharing", "cleaning", "dead"}
<1>1. ASSUME NEW s \in Sessions, Others(s), state' \in {state, None},
             state' = s => sess'[s].pc \in Named
      PROVE  RoutesInv'
  BY <1>1, NoneAssumption DEF RoutesInv, Others
<1>2. ASSUME NEW s \in Sessions, Others(s), state' = state,
             sess[s].pc \in Named => sess'[s].pc \in Named
      PROVE  RoutesInv'
  BY <1>2, <1>1 DEF RoutesInv
<1>3. ASSUME NEW s \in Sessions, WriteState(s) PROVE RoutesInv'
  <2>1. Others(s) /\ sess'[s].pc = "asking"
    BY <1>3, GotoIs DEF WriteState, Steps
  <2>2. state' \in {s, state}
    BY <1>3 DEF WriteState
  <2> QED BY <2>1, <2>2 DEF RoutesInv, Others
<1>4. ASSUME NEW s \in Sessions, CleanUp(s) PROVE RoutesInv'
  <2>1. Others(s) /\ state' = None
    BY <1>4, GotoIs DEF CleanUp, CleanedState, Steps
  <2> QED BY <2>1, NoneAssumption DEF RoutesInv
<1>5. ASSUME NEW s \in Sessions, Launch(s) PROVE RoutesInv'
  BY <1>5, <1>2, LaunchIs DEF Launch, At
<1>6. ASSUME NEW s \in Sessions, Collect(s) \/ Stopped(s) \/ Restore(s) PROVE RoutesInv'
  <2>1. Others(s) /\ state' = state /\ sess[s].pc \notin Named
    BY <1>6, CollectIs, GotoIs, OverIs DEF Collect, Stopped, Restore, At, Steps
  <2> QED BY <2>1, <1>2
<1>7. ASSUME NEW s \in Sessions, Approve(s) \/ Confirm(s) PROVE RoutesInv'
  BY <1>7, <1>2, StartWritingIs DEF Approve, Confirm
<1>8. ASSUME NEW s \in Sessions, Deny(s) \/ WriteUrls(s) \/ Save(s) \/ Unblock(s) PROVE RoutesInv'
  <2>1. Others(s) /\ state' = state /\ sess'[s].pc \in Named
    BY <1>8, GotoIs DEF Deny, WriteUrls, Save, Unblock, Steps
  <2> QED BY <2>1, <1>2
<1>9. ASSUME NEW s \in Sessions, Timeout(s) \/ Signal(s) \/ Kill(s) PROVE RoutesInv'
  <2>1. CASE Timeout(s) \/ Signal(s)
    BY <2>1, <1>2, NoticeIs DEF Timeout, Signal
  <2>2. CASE Kill(s)
    BY <2>2, <1>2, OverIs DEF Kill, Steps
  <2> QED BY <1>9, <2>1, <2>2
<1>10. ASSUME NEW s \in Sessions, NEW t \in TunnelsOf[s],
              Stop(s, t) \/ Goroutine(s, t) \/ Reap(s, t) \/ Cloudflared(s, t)
       PROVE  RoutesInv'
  BY <1>10 DEF Stop, Goroutine, Spawn, Select, Reap, Cloudflared, Announce, Exit, RoutesInv
<1>11. CASE Up \/ Down \/ EditConfig \/ UNCHANGED vars
  BY <1>11 DEF Up, Down, EditConfig, vars, RoutesInv
<1> QED
  <2>1. ASSUME NEW s \in Sessions, Main(s) PROVE RoutesInv'
    BY <2>1, <1>3, <1>4, <1>6, <1>7, <1>8, <1>10 DEF Main
  <2> QED BY <2>1, <1>5, <1>7, <1>8, <1>9, <1>10, <1>11 DEF Next

LEMMA UrlStep == SessType /\ RestType /\ UrlInv /\ [Next]_vars => UrlInv'
<1> SUFFICES ASSUME SessType, RestType, UrlInv, [Next]_vars PROVE UrlInv'
  OBVIOUS
<1> DEFINE Holding == {"saving", "sharing", "cleaning", "stopping", "restoring"}
<1>1. ASSUME NEW s \in Sessions, Others(s), env' = env,
             \A f \in Files : env[f].url = s =>
               \/ f \in sess'[s].files /\ sess'[s].pc \in Holding
               \/ sess'[s].pc = "dead" \/ (sess'[s].pc = "ended" /\ sess'[s].warned)
      PROVE  UrlInv'
  BY <1>1 DEF UrlInv, Others
<1>2. ASSUME NEW s \in Sessions, Others(s), env' = env,
             sess[s].pc \notin Holding \cup {"dead", "ended"}
      PROVE  UrlInv'
  BY <1>1, <1>2 DEF UrlInv
<1>3. ASSUME NEW s \in Sessions, Others(s), env' = env, sess[s].pc \notin {"dead", "ended"},
             sess'[s].files = sess[s].files,
             sess[s].pc \in Holding => sess'[s].pc \in Holding
      PROVE  UrlInv'
  BY <1>1, <1>3 DEF UrlInv
<1>4. ASSUME NEW s \in Sessions,
             Launch(s) \/ Collect(s) \/ WriteState(s) \/ Approve(s) \/ Confirm(s) \/ Deny(s)
      PROVE  UrlInv'
  <2>1. Others(s) /\ env' = env
    BY <1>4, OwnMoves, CollectIs DEF Launch, Collect, WriteState, Approve, Confirm, Deny
  <2>2. sess[s].pc \in {"off", "starting", "telling", "asking"}
    BY <1>4 DEF Launch, Collect, WriteState, Approve, Confirm, Deny, At
  <2> QED BY <2>1, <2>2, <1>2
<1>5. ASSUME NEW s \in Sessions, Save(s) \/ Unblock(s) \/ CleanUp(s) PROVE UrlInv'
  <2>1. /\ Others(s) /\ env' = env /\ sess'[s].files = sess[s].files
        /\ sess[s].pc \in Holding /\ sess'[s].pc \in Holding
    BY <1>5, GotoIs DEF Save, Unblock, CleanUp, At, Steps
  <2> QED BY <2>1, <1>3
<1>6. ASSUME NEW s \in Sessions, Stopped(s) PROVE UrlInv'
  <2>1. CASE At(s, "undoing")
    <3>1. Others(s) /\ env' = env /\ sess[s].pc = "undoing"
      BY <1>6, <2>1, OverIs DEF Stopped, At, Steps
    <3> QED BY <3>1, <1>2
  <2>2. CASE At(s, "stopping")
    <3>1. /\ Others(s) /\ env' = env /\ sess'[s].files = sess[s].files
          /\ sess[s].pc = "stopping" /\ sess'[s].pc = "restoring"
      BY <1>6, <2>2, GotoIs DEF Stopped, At, Steps
    <3> QED BY <3>1, <1>3
  <2> QED BY <1>6, <2>1, <2>2 DEF Stopped
<1>7. ASSUME NEW s \in Sessions, Kill(s) PROVE UrlInv'
  <2>1. Others(s) /\ env' = env /\ sess'[s].pc = "dead"
    BY <1>7, OverIs DEF Kill, Steps
  <2> QED BY <2>1, <1>1
<1>8. ASSUME NEW s \in Sessions, Timeout(s) \/ Signal(s) PROVE UrlInv'
  <2>1. /\ Others(s) /\ env' = env /\ sess'[s].pc = sess[s].pc
        /\ sess'[s].files = sess[s].files /\ sess'[s].warned = sess[s].warned
    BY <1>8, NoticeIs DEF Timeout, Signal
  <2> QED BY <2>1 DEF UrlInv, Others
<1>9. ASSUME NEW s \in Sessions, NEW url \in Sessions \cup {None}, NEW files,
             Merge(s, files, url), NEW f \in Files
      PROVE  env'[f].url = IF f \in files THEN url ELSE env[f].url
  BY <1>9 DEF Merge
<1>10. ASSUME NEW s \in Sessions, WriteUrls(s) PROVE UrlInv'
  <2>1. PICK files \in SUBSET sess[s].files : Merge(s, files, s)
    BY <1>10 DEF WriteUrls
  <2>2. /\ Others(s) /\ sess'[s].files = sess[s].files
        /\ sess[s].pc = "writing" /\ sess'[s].pc \in {"saving", "sharing", "cleaning"}
    BY <1>10, GotoIs DEF WriteUrls, At, Steps
  <2>3. ASSUME NEW u \in Sessions, NEW f \in Files, env'[f].url = u, u # s
        PROVE  env[f].url = u
    BY <2>1, <2>3, <1>9
  <2>4. ASSUME NEW f \in Files, env'[f].url = s PROVE f \in sess[s].files
    BY <2>1, <2>2, <2>4, <1>9 DEF UrlInv
  <2> QED BY <2>2, <2>3, <2>4 DEF UrlInv, Others
<1>11. ASSUME NEW s \in Sessions, Restore(s) PROVE UrlInv'
  <2>1. PICK files \in SUBSET sess[s].files :
          /\ Merge(s, files, None)
          /\ \/ files = sess[s].files
             \/ Over(s, "ended", TRUE)
    BY <1>11 DEF Restore, FilesToRestore
  <2>2. Others(s) /\ sess[s].pc = "restoring" /\ sess'[s].pc = "ended"
    BY <1>11, OverIs DEF Restore, At, Steps
  <2>3. ASSUME NEW u \in Sessions, NEW f \in Files, env'[f].url = u
        PROVE  env[f].url = u /\ f \notin files
    BY <2>1, <2>3, <1>9, NoneAssumption
  <2>4. ASSUME NEW f \in Files, env'[f].url = s PROVE sess'[s].warned
    <3>1. f \in sess[s].files
      BY <2>2, <2>3, <2>4 DEF UrlInv
    <3>2. Over(s, "ended", TRUE)
      BY <2>1, <2>3, <2>4, <3>1
    <3> QED BY <3>2, OverIs DEF Steps
  <2> QED BY <2>2, <2>3, <2>4 DEF UrlInv, Others
<1>12. ASSUME NEW s \in Sessions, NEW t \in TunnelsOf[s],
              Stop(s, t) \/ Goroutine(s, t) \/ Reap(s, t) \/ Cloudflared(s, t)
       PROVE  UrlInv'
  BY <1>12 DEF Stop, Goroutine, Spawn, Select, Reap, Cloudflared, Announce, Exit, UrlInv
<1>13. CASE Up \/ Down
  <2>1. ASSUME NEW f \in Files, NEW u \in Sessions, env'[f].url = u PROVE env[f].url = u
    BY <1>13, <2>1, NoneAssumption DEF Up, Down, NoBlock
  <2>2. sess' = sess
    BY <1>13 DEF Up, Down
  <2> QED BY <2>1, <2>2 DEF UrlInv
<1>14. CASE EditConfig \/ UNCHANGED vars
  BY <1>14 DEF EditConfig, vars, UrlInv
<1> QED
  <2>1. ASSUME NEW s \in Sessions, Main(s) PROVE UrlInv'
    BY <2>1, <1>4, <1>5, <1>6, <1>10, <1>11, <1>12 DEF Main
  <2> QED BY <2>1, <1>4, <1>7, <1>8, <1>12, <1>13, <1>14 DEF Next
-----------------------------------------------------------------------------
(* The theorems.                                                             *)

SType == RestType /\ SessType /\ TunnelType
SInv == SType /\ TunnelInv /\ RoutesInv /\ UrlInv

LEMMA TypesAgree == SType => ShareTypeOK
BY DEF SType, RestType, SessType, TunnelType, ShareTypeOK, Local, Entry, Block, ProcStates

LEMMA InitInv == Init => SInv
<1> SUFFICES ASSUME Init PROVE SInv
  OBVIOUS
<1>1. Fresh \in Local /\ Fresh.pc = "off"
  BY BoundAssumption DEF Fresh, NoEntry, Local, Entry, Steps
<1>2. RestType
  <2>1. 0 \in 0..MaxVer /\ 1 \in 0..MaxVer /\ 0 \in 0..MaxCommands /\ 0 \in 0..MaxFaults
    BY BoundAssumption
  <2>2. ("ext" \in listed) \in BOOLEAN
    OBVIOUS
  <2>3. reg \in Entry /\ granted \in BOOLEAN
    BY <2>1, <2>2 DEF Init, Entry
  <2>4. [ver |-> 1, url |-> None] \in Block /\ NoBlock \in Block
    BY <2>1 DEF Block, NoBlock
  <2>5. env \in [Files -> Block]
    BY <2>4 DEF Init
  <2> QED BY <2>1, <2>3, <2>5 DEF Init, RestType, Files
<1>3. SessType
  BY <1>1 DEF Init, SessType
<1>4. TunnelType
  BY DEF Init, TunnelType, ProcStates
<1>5. \A s \in Sessions : sess[s].pc = "off"
  BY <1>1 DEF Init
<1>6. TunnelInv
  BY <1>5 DEF Init, TunnelInv, TunnelInvOf, Serving
<1>7. RoutesInv
  BY NoneAssumption DEF Init, RoutesInv
<1>8. UrlInv
  BY NoneAssumption DEF Init, UrlInv, NoBlock
<1> QED BY <1>2, <1>3, <1>4, <1>6, <1>7, <1>8 DEF SInv, SType

LEMMA StepInv == SInv /\ [Next]_vars => SInv'
<1> SUFFICES ASSUME SInv, [Next]_vars PROVE SInv'
  OBVIOUS
<1>1. SType /\ TunnelInv /\ RoutesInv /\ UrlInv /\ ShareTypeOK
  BY TypesAgree DEF SInv
<1>2. SType'
  BY <1>1, RestStep, SessStep, TunnelTypeStep DEF SType
<1> QED BY <1>1, <1>2, TunnelStep, RoutesStep, UrlStep DEF SType, SInv

LEMMA Invariant == Spec => []SInv
BY InitInv, StepInv, PTL DEF Spec

\* The state has its type throughout, however many sessions there are.
THEOREM ShareTypeCorrect == Spec => []ShareTypeOK
<1>1. SInv => ShareTypeOK
  BY TypesAgree DEF SInv
<1> QED BY <1>1, Invariant, PTL

\* StartAll is all or nothing: whatever comes first for each tunnel, its URL,
\* its end, the deadline or a signal.
THEOREM StartsAllOrNothing == Spec => []AllOrNothing
<1>1. SInv => AllOrNothing
  <2> SUFFICES ASSUME SInv, NEW s \in Sessions
               PROVE  /\ At(s, "ended") =>
                            \A t \in TunnelsOf[s] : proc[s][t] \in {"none", "died", "gone"}
                      /\ sess[s].pc \in {"telling", "asking", "writing", "saving", "sharing"}
                            => Started(s) = TunnelsOf[s]
    BY DEF AllOrNothing
  <2>1. \A t \in TunnelsOf[s] : TunnelInvOf(sess[s].pc, proc[s][t], res[s][t])
    BY DEF SInv, TunnelInv
  <2> QED BY <2>1 DEF TunnelInvOf, At, Started, Serving
<1> QED BY <1>1, Invariant, PTL

\* The daemon is never told of tunnels that their session has begun to stop.
THEOREM RoutesEndFirst == Spec => []RoutesBeforeTunnels
<1>1. SInv => RoutesBeforeTunnels
  <2> SUFFICES ASSUME SInv, NEW s \in Advertised, NEW t \in TunnelsOf[s]
               PROVE  proc[s][t] \in {"ready", "died"}
    BY DEF RoutesBeforeTunnels
  <2>1. s \in Sessions /\ state = s /\ Running(s)
    BY DEF Advertised, SInv, SType, RestType
  <2>2. sess[s].pc \in Serving
    BY <2>1 DEF SInv, RoutesInv, Running, Serving
  <2> QED BY <2>1, <2>2 DEF SInv, TunnelInv, TunnelInvOf
<1> QED BY <1>1, Invariant, PTL

\* A session that ended without a warning left none of its URLs behind.
THEOREM UrlsAreTakenBack == Spec => []UrlsTakenBack
<1>1. SInv => UrlsTakenBack
  BY DEF SInv, UrlInv, UrlsTakenBack, At
<1> QED BY <1>1, Invariant, PTL
=============================================================================
