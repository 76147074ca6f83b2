---------------------------- MODULE HealthChecker ----------------------------
(***************************************************************************)
(* internal/dashboard: the health checker (health.go), which probes the    *)
(* ports of all instances, and the handlers of browsers that switch it on  *)
(* and off as they connect and leave (handler.go handleSSE, with the       *)
(* client list of broadcaster.go).                                         *)
(*                                                                         *)
(* There is one handler per browser and one run() goroutine per effective  *)
(* Start.  One step is one critical section or one access to shared state  *)
(* without a lock.  Start k makes stop channel k and ticker k.  run()      *)
(* evaluates h.stopCh and h.ticker without the mutex that guards their     *)
(* assignment: it may see any value assigned since it last held the mutex, *)
(* and not the same for both.                                              *)
(*                                                                         *)
(* What the probes find and the events sent are left out: neither changes  *)
(* who runs.                                                               *)
(***************************************************************************)
EXTENDS Naturals, Sequences, FiniteSets

CONSTANTS
  Clients,      \* browsers
  MaxVisits     \* bound: connections made

ASSUME ClientsAssumption == IsFiniteSet(Clients)
ASSUME VisitsAssumption == MaxVisits \in Nat

VARIABLES
  pc,           \* client -> where its handler is
  subs,         \* Broadcaster.clients
  running,      \* HealthChecker.running
  stopCh,       \* HealthChecker.stopCh and ticker: by which Start, 0 for nil
  closed,       \* the stop channels that are closed
  runner,       \* the run() goroutines, in the order of their Starts
  visits,
  crowded       \* history: a client came or left while another was coming or leaving

vars == <<pc, subs, running, stopCh, closed, runner, visits, crowded>>

\* A goroutine at a step of run, with what stopCh was when it last held the mutex and
\* the operands of its select.
Runner(step, since, ch, tk) == [pc |-> step, since |-> since, ch |-> ch, tk |-> tk]

Move(c, from, to) == pc[c] = from /\ pc' = [pc EXCEPT ![c] = to]

\* Clients between a change of the client list and what they make of it.
Passing == {c \in Clients : pc[c] \notin {"off", "streaming"}}

-----------------------------------------------------------------------------
(* handleSSE: subscribe, count, perhaps start the checks, stream; count     *)
(* again, perhaps stop the checks, unsubscribe.                             *)

Subscribe(c) ==
  /\ Move(c, "off", "counting")
  /\ visits < MaxVisits
  /\ visits' = visits + 1
  /\ subs' = subs \cup {c}
  /\ crowded' = (crowded \/ Passing # {})
  /\ UNCHANGED <<running, stopCh, closed, runner>>

CountConnected(c) ==
  /\ Move(c, "counting", IF Cardinality(subs) = 1 THEN "starting" ELSE "streaming")
  /\ UNCHANGED <<subs, running, stopCh, closed, runner, visits, crowded>>

\* Mutant of Start: a checker that runs already is started again.
StartAgain(c) ==
  /\ Move(c, "starting", "streaming")
  /\ running' = TRUE
  /\ stopCh' = stopCh + 1
  /\ runner' = Append(runner, Runner("check", stopCh', 0, 0))
  /\ UNCHANGED <<subs, closed, visits, crowded>>

\* HealthChecker.Start.
Start(c) ==
  /\ Move(c, "starting", "streaming")
  /\ IF running THEN UNCHANGED <<running, stopCh, runner>>
     ELSE /\ running' = TRUE
          /\ stopCh' = stopCh + 1
          /\ runner' = Append(runner, Runner("check", stopCh', 0, 0))
  /\ UNCHANGED <<subs, closed, visits, crowded>>

\* The request's context ends: the browser is gone.
Leave(c) ==
  /\ Move(c, "streaming", "leaving")
  /\ crowded' = (crowded \/ Passing # {})
  /\ UNCHANGED <<subs, running, stopCh, closed, runner, visits>>

\* Mutant of CountLeaving: the client that leaves does not count itself.
CountOthers(c) ==
  /\ Move(c, "leaving", IF subs = {} THEN "stopping" ELSE "unsubscribing")
  /\ UNCHANGED <<subs, running, stopCh, closed, runner, visits, crowded>>

CountLeaving(c) ==
  /\ Move(c, "leaving", IF Cardinality(subs) <= 1 THEN "stopping" ELSE "unsubscribing")
  /\ UNCHANGED <<subs, running, stopCh, closed, runner, visits, crowded>>

\* Mutant of Stop: the ticker is stopped, the channel stays open.
StopTicker(c) ==
  /\ Move(c, "stopping", "unsubscribing")
  /\ running' = FALSE
  /\ UNCHANGED <<subs, stopCh, closed, runner, visits, crowded>>

\* HealthChecker.Stop.
Stop(c) ==
  /\ Move(c, "stopping", "unsubscribing")
  /\ running' = FALSE
  /\ closed' = IF running THEN closed \cup {stopCh} ELSE closed
  /\ UNCHANGED <<subs, stopCh, runner, visits, crowded>>

\* The deferred call.
Unsubscribe(c) ==
  /\ Move(c, "unsubscribing", "off")
  /\ subs' = subs \ {c}
  /\ UNCHANGED <<running, stopCh, closed, runner, visits, crowded>>

Handler(c) ==
  \/ Subscribe(c) \/ CountConnected(c) \/ Start(c)
  \/ Leave(c) \/ CountLeaving(c) \/ Stop(c) \/ Unsubscribe(c)

-----------------------------------------------------------------------------
(* HealthChecker.run.                                                      *)

At(r, step) == r \in DOMAIN runner /\ runner[r].pc = step

\* check takes the mutex, unless there is no port to probe; its callback may
\* take it once more.
Check(r) ==
  /\ At(r, "check")
  /\ \E s \in {runner[r].since, stopCh} :
       runner' = [runner EXCEPT ![r] = Runner("select", s, 0, 0)]
  /\ UNCHANGED <<pc, subs, running, stopCh, closed, visits, crowded>>

\* The operands of select are evaluated.
Select(r) ==
  /\ At(r, "select")
  /\ \E ch, tk \in runner[r].since .. stopCh :
       runner' = [runner EXCEPT ![r] = Runner("waiting", @.since, ch, tk)]
  /\ UNCHANGED <<pc, subs, running, stopCh, closed, visits, crowded>>

\* The present ticker ticks while the checker runs; one that was stopped does not.
Tick(r) ==
  /\ At(r, "waiting")
  /\ running /\ runner[r].tk = stopCh
  /\ runner' = [runner EXCEPT ![r] = Runner("check", @.since, 0, 0)]
  /\ UNCHANGED <<pc, subs, running, stopCh, closed, visits, crowded>>

Return(r) ==
  /\ At(r, "waiting")
  /\ runner[r].ch \in closed
  /\ runner' = [runner EXCEPT ![r] = Runner("done", 0, 0, 0)]
  /\ UNCHANGED <<pc, subs, running, stopCh, closed, visits, crowded>>

Run(r) == Check(r) \/ Select(r) \/ Tick(r) \/ Return(r)

-----------------------------------------------------------------------------
Init ==
  /\ pc = [c \in Clients |-> "off"]
  /\ subs = {}
  /\ running = FALSE /\ stopCh = 0 /\ closed = {}
  /\ runner = <<>>
  /\ visits = 0
  /\ crowded = FALSE

Next ==
  \/ \E c \in Clients : Handler(c)
  \/ \E r \in DOMAIN runner : Run(r)

\* The goroutines of the health checker are scheduled, and tickers tick.  Nothing is
\* assumed about browsers.
Spec == Init /\ [][Next]_vars /\ \A r \in 1 .. MaxVisits : WF_vars(Run(r))

-----------------------------------------------------------------------------
ClientSteps == {"off", "counting", "starting", "streaming", "leaving", "stopping", "unsubscribing"}
RunnerSteps == {"check", "select", "waiting", "done"}

Runners == [pc : RunnerSteps, since : Nat, ch : Nat, tk : Nat]

\* Where handlers and goroutines are: one goroutine for each stop channel, and no
\* channel is closed before it is made.
HealthTypeOK ==
  /\ pc \in [Clients -> ClientSteps]
  /\ subs \subseteq Clients
  /\ running \in BOOLEAN
  /\ stopCh \in Nat
  /\ closed \subseteq 0 .. stopCh
  /\ runner \in Seq(Runners)
  /\ Len(runner) = stopCh
  /\ visits \in 0 .. MaxVisits
  /\ crowded \in BOOLEAN

Alive(r)   == At(r, "check") \/ At(r, "select") \/ At(r, "waiting")
Waiting(r) == At(r, "waiting")

\* No goroutine of the health checker is lost: one that waits does so on a channel
\* that is closed, or on the one the next effective Stop will close.  This holds
\* although run() reads stopCh without the mutex and a Start may have replaced it
\* since; and that Stop never closes a channel twice, which would end the daemon.
NoneLost ==
  /\ \A r \in DOMAIN runner : Waiting(r) =>
       runner[r].ch \in closed \/ (running /\ runner[r].ch = stopCh)
  /\ running => stopCh \notin closed

\* As long as clients come and go one after the other, ports are checked exactly
\* while somebody watches: with a client streaming there is a goroutine that waits
\* for the present ticker, or will; without a client there is no ticker.
CheckedIffWatched ==
  ~crowded /\ Passing = {} =>
    IF subs = {} THEN ~running
    ELSE running /\ \E r \in DOMAIN runner :
           /\ Alive(r) /\ runner[r].since = stopCh
           /\ Waiting(r) => runner[r].ch = stopCh /\ runner[r].tk = stopCh

\* Once checks are stopped for good, all their goroutines return.
RunnersEnd == <>[](~running) => <>[](\A r \in DOMAIN runner : ~Alive(r))
=============================================================================
