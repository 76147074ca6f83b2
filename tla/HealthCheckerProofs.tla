------------------------- MODULE HealthCheckerProofs -------------------------
(***************************************************************************)
(* Proofs about HealthChecker, for any number of browsers and of visits:   *)
(*    NoGoroutineLost     whatever a goroutine waits on is or gets closed  *)
(*    ChecksWhileWatched  checks run iff somebody watches, as long as      *)
(*                        browsers come and go one after the other         *)
(***************************************************************************)
EXTENDS HealthChecker, FiniteSetTheorems, TLAPS

\* Every stop channel but that of a running checker is closed; a goroutine has seen
\* channels and tickers that exist; the newest one of a running checker is alive and
\* has seen nothing but its own.
Newest(r) ==
  /\ Alive(r) /\ runner[r].since = r
  /\ Waiting(r) => runner[r].ch = r /\ runner[r].tk = r

RunInv ==
  /\ \A k \in 1 .. stopCh : k \in closed \/ (running /\ k = stopCh)
  /\ running => stopCh \in 1 .. stopCh /\ stopCh \notin closed
  /\ \A r \in DOMAIN runner : Alive(r) => runner[r].since \in 1 .. stopCh
  /\ \A r \in DOMAIN runner : Waiting(r) =>
       runner[r].ch \in 1 .. stopCh /\ runner[r].tk \in 1 .. stopCh
  /\ \A r \in DOMAIN runner : running /\ r = stopCh => Newest(r)

\* What the one client that comes or goes has found, or will make of it.
Turn(c) ==
  /\ pc[c] \in {"counting", "unsubscribing"} => (running <=> subs # {c})
  /\ pc[c] = "starting" => subs = {c} /\ ~running
  /\ pc[c] = "leaving" => running
  /\ pc[c] = "stopping" => subs = {c} /\ running

WatchInv ==
  /\ subs = {c \in Clients : pc[c] # "off"}
  /\ ~crowded =>
       /\ \A c, d \in Passing : c = d
       /\ Passing = {} => (running <=> subs # {})
       /\ \A c \in Clients : Turn(c)

-----------------------------------------------------------------------------
(* Types.                                                                  *)

LEMMA RunnerType ==
  ASSUME NEW step \in RunnerSteps, NEW since \in Nat, NEW ch \in Nat, NEW tk \in Nat
  PROVE  Runner(step, since, ch, tk) \in Runners
BY DEF Runner, Runners

LEMMA Replace ==
  ASSUME NEW S, NEW s \in Seq(S), NEW i \in DOMAIN s, NEW x \in S
  PROVE  /\ [s EXCEPT ![i] = x] \in Seq(S)
         /\ Len([s EXCEPT ![i] = x]) = Len(s)
         /\ DOMAIN [s EXCEPT ![i] = x] = DOMAIN s
         /\ \A j \in DOMAIN s : [s EXCEPT ![i] = x][j] = IF j = i THEN x ELSE s[j]
OBVIOUS

LEMMA Extend ==
  ASSUME NEW S, NEW s \in Seq(S), NEW x \in S
  PROVE  /\ Append(s, x) \in Seq(S)
         /\ Len(Append(s, x)) = Len(s) + 1
         /\ DOMAIN Append(s, x) = 1 .. Len(s) + 1
         /\ \A j \in 1 .. Len(s) + 1 : Append(s, x)[j] = IF j = Len(s) + 1 THEN x ELSE s[j]
OBVIOUS

\* A step of a goroutine replaces its record by another one.
LEMMA RunType ==
  ASSUME HealthTypeOK, NEW r \in DOMAIN runner, Run(r)
  PROVE  \E x \in Runners : runner' = [runner EXCEPT ![r] = x]
<1> USE DEF HealthTypeOK
<1>1. runner[r] \in Runners /\ runner[r].since \in Nat
  <2>1. runner[r] \in Runners
    OBVIOUS
  <2> QED BY <2>1 DEF Runners
<1>2. CASE Check(r)
  BY <1>1, <1>2, RunnerType DEF Check, RunnerSteps
<1>3. CASE Select(r)
  <2>1. PICK ch, tk \in runner[r].since .. stopCh :
          runner' = [runner EXCEPT ![r] = Runner("waiting", runner[r].since, ch, tk)]
    BY <1>3 DEF Select
  <2>2. ch \in Nat /\ tk \in Nat
    BY <1>1
  <2> QED BY <1>1, <2>1, <2>2, RunnerType DEF RunnerSteps
<1>4. CASE Tick(r)
  BY <1>1, <1>4, RunnerType DEF Tick, RunnerSteps
<1>5. CASE Return(r)
  BY <1>1, <1>5, RunnerType DEF Return, RunnerSteps
<1> QED BY <1>2, <1>3, <1>4, <1>5 DEF Run

\* Every variable keeps its type: there is one goroutine for each stop channel.
THEOREM HealthTypeCorrect == Spec => []HealthTypeOK
<1>1. Init => HealthTypeOK
  <2> SUFFICES ASSUME Init PROVE HealthTypeOK
    OBVIOUS
  <2>1. runner \in Seq(Runners) /\ Len(runner) = stopCh
    BY DEF Init
  <2>2. pc \in [Clients -> ClientSteps]
    BY DEF Init, ClientSteps
  <2>3. stopCh \in Nat /\ closed \subseteq 0 .. stopCh /\ visits \in 0 .. MaxVisits
    BY VisitsAssumption DEF Init
  <2>4. subs \subseteq Clients /\ running \in BOOLEAN /\ crowded \in BOOLEAN
    BY DEF Init
  <2> QED BY <2>1, <2>2, <2>3, <2>4 DEF HealthTypeOK
<1>2. HealthTypeOK /\ [Next]_vars => HealthTypeOK'
  <2> SUFFICES ASSUME HealthTypeOK, [Next]_vars PROVE HealthTypeOK'
    OBVIOUS
  <2> USE DEF HealthTypeOK
  <2>1. ASSUME NEW c \in Clients, Start(c) PROVE HealthTypeOK'
    <3>1. CASE running
      BY <2>1, <3>1 DEF Start, Move, ClientSteps
    <3>2. CASE ~running
      <4>1. runner' = Append(runner, Runner("check", stopCh', 0, 0)) /\ stopCh' = stopCh + 1
        BY <2>1, <3>2 DEF Start
      <4>2. Runner("check", stopCh', 0, 0) \in Runners
        BY <4>1, RunnerType DEF RunnerSteps
      <4>3. runner' \in Seq(Runners) /\ Len(runner') = stopCh'
        BY <4>1, <4>2, Extend
      <4> QED BY <2>1, <3>2, <4>3 DEF Start, Move, ClientSteps
    <3> QED BY <3>1, <3>2
  <2>2. ASSUME NEW c \in Clients, Subscribe(c) PROVE HealthTypeOK'
    BY <2>2, VisitsAssumption DEF Subscribe, Move, ClientSteps
  <2>3. ASSUME NEW c \in Clients, CountConnected(c) \/ Leave(c) \/ CountLeaving(c) PROVE HealthTypeOK'
    BY <2>3 DEF CountConnected, Leave, CountLeaving, Move, ClientSteps
  <2>4. ASSUME NEW c \in Clients, Stop(c) \/ Unsubscribe(c) PROVE HealthTypeOK'
    <3>1. closed' \subseteq 0 .. stopCh /\ stopCh' = stopCh
      <4>1. stopCh' = stopCh /\ (closed' = closed \/ closed' = closed \cup {stopCh})
        BY <2>4 DEF Stop, Unsubscribe
      <4>2. closed \subseteq 0 .. stopCh /\ stopCh \in 0 .. stopCh
        OBVIOUS
      <4> HIDE DEF HealthTypeOK
      <4>3. closed \cup {stopCh} \subseteq 0 .. stopCh
        BY <4>2, Zenon
      <4> QED BY <4>1, <4>2, <4>3
    <3>2. pc' \in [Clients -> ClientSteps]
      BY <2>4 DEF Stop, Unsubscribe, Move, ClientSteps
    <3>3. subs' \subseteq Clients /\ running' \in BOOLEAN
      BY <2>4 DEF Stop, Unsubscribe
    <3>4. UNCHANGED <<runner, visits, crowded>>
      BY <2>4 DEF Stop, Unsubscribe
    <3> QED BY <3>1, <3>2, <3>3, <3>4
  <2>5. ASSUME NEW r \in DOMAIN runner, Run(r) PROVE HealthTypeOK'
    <3>1. PICK x \in Runners : runner' = [runner EXCEPT ![r] = x]
      BY <2>5, RunType
    <3>2. runner' \in Seq(Runners) /\ Len(runner') = stopCh
      BY <3>1, Replace
    <3>3. UNCHANGED <<pc, subs, running, stopCh, closed, visits, crowded>>
      BY <2>5 DEF Run, Check, Select, Tick, Return
    <3> QED BY <3>2, <3>3
  <2>6. CASE UNCHANGED vars
    BY <2>6 DEF vars
  <2> QED BY <2>1, <2>2, <2>3, <2>4, <2>5, <2>6 DEF Next, Handler
<1> QED BY <1>1, <1>2, PTL DEF Spec

-----------------------------------------------------------------------------
(* Goroutines and their channels.                                          *)

LEMMA RunStart ==
  ASSUME HealthTypeOK, RunInv, NEW c \in Clients, Start(c)
  PROVE  RunInv'
<1> USE DEF HealthTypeOK
<1>1. CASE running
  BY <1>1 DEF Start, RunInv, Newest, Alive, Waiting, At
<1>2. CASE ~running
  <2>0. PICK n \in Nat : n = stopCh + 1
    OBVIOUS
  <2> DEFINE new == Runner("check", n, 0, 0)
  <2>1. /\ runner' = Append(runner, new) /\ stopCh' = n /\ running' = TRUE
        /\ closed' = closed
    BY <1>2, <2>0 DEF Start
  <2>2. new \in Runners /\ new.pc = "check" /\ new.since = n
    BY RunnerType DEF RunnerSteps, Runner
  <2>3. /\ DOMAIN runner = 1 .. stopCh /\ DOMAIN runner' = 1 .. n
        /\ \A j \in 1 .. n : runner'[j] = IF j = n THEN new ELSE runner[j]
    BY <2>0, <2>1, <2>2, Extend
  <2>4. \A k \in 1 .. n : k \in closed \/ k = n
    BY <1>2, <2>0 DEF RunInv
  <2>5. n \in 1 .. n /\ n \notin closed
    BY <2>0
  <2>6. Alive(n)' /\ ~Waiting(n)' /\ runner'[n].since = n
    BY <2>2, <2>3, <2>5 DEF Alive, Waiting, At
  <2>7. \A r \in 1 .. stopCh : (Alive(r)' <=> Alive(r)) /\ (Waiting(r)' <=> Waiting(r)) /\ runner'[r] = runner[r]
    BY <2>0, <2>3 DEF Alive, Waiting, At
  <2>8. ASSUME NEW r \in 1 .. n
        PROVE  /\ Alive(r)' => runner'[r].since \in 1 .. n
               /\ Waiting(r)' => runner'[r].ch \in 1 .. n /\ runner'[r].tk \in 1 .. n
    <3>1. CASE r = n
      BY <2>5, <2>6, <3>1
    <3>2. CASE r # n
      <4>1. r \in 1 .. stopCh
        BY <2>0, <3>2
      <4>2. 1 .. stopCh \subseteq 1 .. n
        BY <2>0
      <4> QED BY <2>3, <2>7, <4>1, <4>2 DEF RunInv
    <3> QED BY <3>1, <3>2
  <2> HIDE DEF new
  <2>9. Newest(n)'
    BY <2>6 DEF Newest
  <2> QED BY <2>1, <2>3, <2>4, <2>5, <2>8, <2>9 DEF RunInv
<1> QED BY <1>1, <1>2

LEMMA RunRun ==
  ASSUME HealthTypeOK, RunInv, NEW r \in DOMAIN runner, Run(r)
  PROVE  RunInv'
<1> USE DEF HealthTypeOK
<1>1. PICK x \in Runners : runner' = [runner EXCEPT ![r] = x]
  BY RunType
<1>2. /\ DOMAIN runner' = DOMAIN runner
      /\ \A j \in DOMAIN runner : runner'[j] = IF j = r THEN x ELSE runner[j]
  BY <1>1, Replace
<1>3. UNCHANGED <<running, stopCh, closed>>
  BY DEF Run, Check, Select, Tick, Return
<1>4. r \in 1 .. stopCh /\ DOMAIN runner = 1 .. stopCh /\ runner[r] \in Runners
  OBVIOUS
<1>5. Alive(r) /\ runner[r].since \in 1 .. stopCh
  BY DEF RunInv, Run, Check, Select, Tick, Return, Alive
<1>6. /\ x.pc # "done" => x.since \in {runner[r].since, stopCh}
      /\ x.pc = "waiting" => x.ch \in runner[r].since .. stopCh /\ x.tk \in runner[r].since .. stopCh
      /\ x.pc = "waiting" => x.since = runner[r].since
      /\ x.pc = "done" => Waiting(r) /\ runner[r].ch \in closed
  <2>1. runner'[r] = x
    BY <1>2
  <2>2. CASE Check(r)
    BY <1>1, <2>1, <2>2 DEF Check, Runner
  <2>3. CASE Select(r)
    BY <1>1, <2>1, <2>3 DEF Select, Runner
  <2>4. CASE Tick(r)
    BY <1>1, <2>1, <2>4 DEF Tick, Runner
  <2>5. CASE Return(r)
    BY <1>1, <2>1, <2>5 DEF Return, Runner, Waiting
  <2> QED BY <2>2, <2>3, <2>4, <2>5 DEF Run
<1>7. x.pc \in RunnerSteps
  BY DEF Runners
<1>8. ASSUME NEW q \in DOMAIN runner, q # r
      PROVE  (Alive(q)' <=> Alive(q)) /\ (Waiting(q)' <=> Waiting(q)) /\ runner'[q] = runner[q]
  BY <1>2, <1>8 DEF Alive, Waiting, At
<1>9. /\ (Alive(r)' <=> x.pc # "done") /\ (Waiting(r)' <=> x.pc = "waiting") /\ runner'[r] = x
  BY <1>2, <1>7 DEF Alive, Waiting, At, RunnerSteps
<1>10. \A q \in DOMAIN runner' : Alive(q)' => runner'[q].since \in 1 .. stopCh
  BY <1>2, <1>4, <1>5, <1>6, <1>8, <1>9 DEF RunInv
<1>11. \A q \in DOMAIN runner' : Waiting(q)' => runner'[q].ch \in 1 .. stopCh /\ runner'[q].tk \in 1 .. stopCh
  <2>1. x.pc = "waiting" => x.ch \in 1 .. stopCh /\ x.tk \in 1 .. stopCh
    BY <1>5, <1>6
  <2> QED BY <1>2, <1>8, <1>9, <2>1 DEF RunInv
<1>12. ASSUME NEW q \in DOMAIN runner, running, q = stopCh
       PROVE  Newest(q)'
  <2>1. Newest(q) /\ q \notin closed
    BY <1>12 DEF RunInv
  <2>2. CASE q # r
    BY <1>8, <2>1, <2>2 DEF Newest
  <2>3. CASE q = r
    <3>1. x.pc # "done"
      BY <1>6, <2>1, <2>3 DEF Newest
    <3>2. x.since = q
      BY <1>6, <1>12, <2>1, <2>3, <3>1 DEF Newest
    <3>3. x.pc = "waiting" => x.ch = q /\ x.tk = q
      BY <1>6, <1>12, <2>1, <2>3 DEF Newest
    <3> QED BY <1>9, <2>3, <3>1, <3>2, <3>3 DEF Newest
  <2> QED BY <2>2, <2>3
<1> QED BY <1>2, <1>3, <1>10, <1>11, <1>12 DEF RunInv

LEMMA RunStop ==
  ASSUME HealthTypeOK, RunInv, NEW c \in Clients, Stop(c)
  PROVE  RunInv'
<1>1. running' = FALSE /\ UNCHANGED <<stopCh, runner>>
  BY DEF Stop
<1>2. \A k \in 1 .. stopCh : k \in closed'
  BY DEF Stop, RunInv
<1> QED BY <1>1, <1>2 DEF RunInv, Newest, Alive, Waiting, At

LEMMA RunInvariant == Spec => [](HealthTypeOK /\ RunInv)
<1>1. Init => RunInv
  <2> SUFFICES ASSUME Init PROVE RunInv
    OBVIOUS
  <2>1. DOMAIN runner = {} /\ stopCh = 0 /\ running = FALSE
    BY DEF Init
  <2> QED BY <2>1 DEF RunInv
<1>2. HealthTypeOK /\ RunInv /\ [Next]_vars => RunInv'
  <2> SUFFICES ASSUME HealthTypeOK, RunInv, [Next]_vars PROVE RunInv'
    OBVIOUS
  <2>1. ASSUME NEW c \in Clients, Start(c) PROVE RunInv'
    BY <2>1, RunStart
  <2>2. ASSUME NEW c \in Clients, Stop(c) PROVE RunInv'
    BY <2>2, RunStop
  <2>3. ASSUME NEW r \in DOMAIN runner, Run(r) PROVE RunInv'
    BY <2>3, RunRun
  <2>4. CASE UNCHANGED <<running, stopCh, closed, runner>>
    BY <2>4 DEF RunInv, Newest, Alive, Waiting, At
  <2>5. ASSUME NEW c \in Clients,
               Subscribe(c) \/ CountConnected(c) \/ Leave(c) \/ CountLeaving(c) \/ Unsubscribe(c)
        PROVE  UNCHANGED <<running, stopCh, closed, runner>>
    BY <2>5 DEF Subscribe, CountConnected, Leave, CountLeaving, Unsubscribe
  <2>6. UNCHANGED vars => UNCHANGED <<running, stopCh, closed, runner>>
    BY DEF vars
  <2> QED BY <2>1, <2>2, <2>3, <2>4, <2>5, <2>6 DEF Next, Handler
<1> QED BY <1>1, <1>2, HealthTypeCorrect, PTL DEF Spec

\* Whatever stale channel a goroutine of the health checker waits on, that channel is
\* closed or will be by the next Stop (health.go:59, read without the mutex), and no
\* Stop closes a channel twice.
THEOREM NoGoroutineLost == Spec => []NoneLost
<1>1. HealthTypeOK /\ RunInv => NoneLost
  BY DEF HealthTypeOK, RunInv, NoneLost
<1> QED BY <1>1, RunInvariant, PTL

-----------------------------------------------------------------------------
(* Browsers that come and go one after the other.                          *)

LEMMA Alone ==
  ASSUME HealthTypeOK, NEW c \in subs, Cardinality(subs) \in {0, 1}
  PROVE  subs = {c}
<1>1. IsFiniteSet(subs)
  BY ClientsAssumption, FS_Subset DEF HealthTypeOK
<1>2. Cardinality(subs) = 1
  BY <1>1, FS_EmptySet
<1> QED BY <1>1, <1>2, FS_Singleton

LEMMA Counted ==
  ASSUME HealthTypeOK, NEW c \in subs
  PROVE  /\ Cardinality(subs) = 1 <=> subs = {c}
         /\ Cardinality(subs) <= 1 <=> subs = {c}
<1>1. IsFiniteSet(subs)
  BY ClientsAssumption, FS_Subset DEF HealthTypeOK
<1>2. Cardinality(subs) \in Nat /\ Cardinality({c}) = 1
  BY <1>1, FS_CardinalityType, FS_Singleton
<1>3. Cardinality(subs) <= 1 => subs = {c}
  BY <1>2, Alone
<1> QED BY <1>2, <1>3

\* With a client that comes or goes alone, the others stream or are off.
LEMMA WatchStep ==
  ASSUME HealthTypeOK, WatchInv, NEW c \in Clients, Handler(c)
  PROVE  WatchInv'
<1> USE DEF HealthTypeOK
<1>1. PICK to \in ClientSteps : pc' = [pc EXCEPT ![c] = to]
  BY DEF Handler, Subscribe, CountConnected, Start, Leave, CountLeaving, Stop, Unsubscribe,
         Move, ClientSteps
<1>2. pc'[c] = to /\ \A d \in Clients : d # c => pc'[d] = pc[d]
  BY <1>1
<1>3. subs' = {d \in Clients : pc'[d] # "off"}
  <2> USE <1>2 DEF WatchInv, Move
  <2>1. CASE Subscribe(c)
    BY <2>1 DEF Subscribe
  <2>2. CASE CountConnected(c)
    BY <2>2 DEF CountConnected
  <2>3. CASE Start(c)
    BY <2>3 DEF Start
  <2>4. CASE Leave(c)
    BY <2>4 DEF Leave
  <2>5. CASE CountLeaving(c)
    BY <2>5 DEF CountLeaving
  <2>6. CASE Stop(c)
    BY <2>6 DEF Stop
  <2>7. CASE Unsubscribe(c)
    BY <2>7 DEF Unsubscribe
  <2> QED BY <2>1, <2>2, <2>3, <2>4, <2>5, <2>6, <2>7 DEF Handler
<1>4. SUFFICES ASSUME ~crowded'
      PROVE  /\ \A d, e \in Passing' : d = e
             /\ Passing' = {} => (running' <=> subs' # {})
             /\ \A d \in Clients : Turn(d)'
  BY <1>3 DEF WatchInv
<1>5. /\ ~crowded /\ Passing \subseteq {c}
      /\ Passing = {} => (running <=> subs # {})
      /\ Turn(c)
      /\ c \in subs <=> pc[c] # "off"
  BY <1>4 DEF Handler, Subscribe, CountConnected, Start, Leave, CountLeaving, Stop, Unsubscribe,
              Move, WatchInv, Passing
<1>6. Passing' \subseteq {c} /\ (Passing' = {} <=> to \in {"off", "streaming"})
  BY <1>2, <1>5 DEF Passing
<1>7. \A d \in Clients : d # c => Turn(d)'
  BY <1>2, <1>5 DEF Turn, Passing
<1>8. Turn(c)' /\ (to \in {"off", "streaming"} => (running' <=> subs' # {}))
  <2> USE <1>2 DEF Turn, Move
  <2>1. CASE Subscribe(c)
    <3>1. Passing = {} /\ to = "counting" /\ c \notin subs /\ subs' = subs \cup {c} /\ running' = running
      BY <1>5, <2>1 DEF Subscribe, Passing
    <3>2. subs # {} <=> subs' # {c}
      BY <3>1
    <3> QED BY <1>5, <3>1, <3>2
  <2>2. CASE CountConnected(c)
    <3>1. Cardinality(subs) = 1 <=> subs = {c}
      BY <1>5, <2>2, Counted DEF CountConnected
    <3> QED BY <1>5, <2>2, <3>1 DEF CountConnected
  <2>3. CASE Start(c)
    BY <1>5, <2>3 DEF Start
  <2>4. CASE Leave(c)
    <3>1. Passing = {} /\ c \in subs
      BY <1>5, <2>4 DEF Leave, Passing
    <3> QED BY <1>5, <2>4, <3>1 DEF Leave
  <2>5. CASE CountLeaving(c)
    <3>1. Cardinality(subs) <= 1 <=> subs = {c}
      BY <1>5, <2>5, Counted DEF CountLeaving
    <3> QED BY <1>5, <2>5, <3>1 DEF CountLeaving
  <2>6. CASE Stop(c)
    BY <1>5, <2>6 DEF Stop
  <2>7. CASE Unsubscribe(c)
    <3>1. /\ subs' = subs \ {c} /\ c \in subs /\ to = "off" /\ running' = running
          /\ running <=> subs # {c}
      BY <1>5, <2>7 DEF Unsubscribe
    <3>2. subs # {c} <=> subs' # {}
      BY <3>1
    <3> QED BY <3>1, <3>2
  <2> QED BY <2>1, <2>2, <2>3, <2>4, <2>5, <2>6, <2>7 DEF Handler
<1> QED BY <1>6, <1>7, <1>8

\* As long as browsers come and go one after the other, checks run exactly while one
\* is connected, and then some goroutine waits for the present ticker or will
\* (handler.go:253 and 266 decide, under another lock than health.go:34 and 47 act).
THEOREM ChecksWhileWatched == Spec => []CheckedIffWatched
<1>1. Init => WatchInv
  BY DEF Init, WatchInv, Passing, Turn
<1>2. HealthTypeOK /\ WatchInv /\ [Next]_vars => WatchInv'
  <2> SUFFICES ASSUME HealthTypeOK, WatchInv, [Next]_vars PROVE WatchInv'
    OBVIOUS
  <2>1. ASSUME NEW c \in Clients, Handler(c) PROVE WatchInv'
    BY <2>1, WatchStep
  <2>2. ASSUME NEW r \in DOMAIN runner, Run(r) PROVE UNCHANGED <<pc, subs, running, crowded>>
    BY <2>2 DEF Run, Check, Select, Tick, Return
  <2>3. UNCHANGED vars => UNCHANGED <<pc, subs, running, crowded>>
    BY DEF vars
  <2>4. CASE UNCHANGED <<pc, subs, running, crowded>>
    BY <2>4 DEF WatchInv, Passing, Turn
  <2> QED BY <2>1, <2>2, <2>3, <2>4 DEF Next
<1>3. HealthTypeOK /\ RunInv /\ WatchInv => CheckedIffWatched
  <2> SUFFICES ASSUME HealthTypeOK, RunInv, WatchInv, ~crowded, Passing = {}, subs # {}
      PROVE  running /\ \E r \in DOMAIN runner :
               /\ Alive(r) /\ runner[r].since = stopCh
               /\ Waiting(r) => runner[r].ch = stopCh /\ runner[r].tk = stopCh
    BY DEF CheckedIffWatched, WatchInv
  <2>1. running
    BY DEF WatchInv
  <2>2. stopCh \in DOMAIN runner
    BY <2>1 DEF HealthTypeOK, RunInv
  <2>3. Newest(stopCh)
    BY <2>1, <2>2 DEF RunInv
  <2> QED BY <2>1, <2>2, <2>3 DEF Newest
<1> QED BY <1>1, <1>2, <1>3, RunInvariant, HealthTypeCorrect, PTL DEF Spec
=============================================================================
