--------------------------- MODULE AllocatorLoop ---------------------------
(***************************************************************************)
(* internal/allocator, Allocate: one call, as the loop that computes the   *)
(* port, while other programs open and close ports.  Allocator!IsAllocated *)
(* is what the call promises; the commands of OutportCli rely on that.     *)
(*                                                                         *)
(* One step is one evaluation of the closure "unavailable" together with   *)
(* the assignments up to the next one.                                     *)
(***************************************************************************)
EXTENDS Allocator

CONSTANTS
  UsedSets,      \* what the caller may pass as usedPorts
  Preferences,   \* what it may pass as preferred, 0 for none
  BusySets       \* the sets of ports other programs may hold

VARIABLES
  pc,          \* "preferred", "probe", "done" (port returned) or "failed" (error)
  start,       \* the hash
  preferred, used,
  port,        \* the port looked at, and the result
  busy,        \* the ports other programs hold
  ever         \* history: the ports they held at some time during the call

loopVars == <<pc, start, preferred, used, port, busy, ever>>

ASSUME LoopConstants ==
  /\ UsedSets \subseteq SUBSET Nat
  /\ Preferences \subseteq Nat
  /\ BusySets \subseteq SUBSET Nat

Unavailable(p) == p \in used \cup ReservedPorts \cup busy

LoopInit ==
  /\ pc = "preferred"
  /\ start \in AllocPorts
  /\ preferred \in Preferences
  /\ used \in UsedSets
  /\ port = start
  /\ busy \in BusySets
  /\ ever = busy

Inputs == <<start, preferred, used>>

TryPreferred ==
  /\ pc = "preferred"
  /\ IF preferred > 0 /\ ~Unavailable(preferred)
     THEN pc' = "done" /\ port' = preferred
     ELSE pc' = "probe" /\ port' = start
  /\ UNCHANGED <<Inputs, busy, ever>>

\* Mutant of Following: back to the wrong port.
FollowingOffByOne(p) == IF p + 1 > MaxPort THEN MinPort + 1 ELSE p + 1

Following(p) == IF p + 1 > MaxPort THEN MinPort ELSE p + 1

Advance ==
  /\ pc = "probe"
  /\ Unavailable(port)
  /\ port' = Following(port)
  /\ pc' = IF port' = start THEN "failed" ELSE "probe"
  /\ UNCHANGED <<Inputs, busy, ever>>

Take ==
  /\ pc = "probe"
  /\ ~Unavailable(port)
  /\ pc' = "done"
  /\ UNCHANGED <<Inputs, port, busy, ever>>

Returned == pc \in {"done", "failed"}

\* Environment: other programs open and close ports during the call.
OthersMove ==
  /\ ~Returned
  /\ busy' \in BusySets
  /\ ever' = ever \cup busy'
  /\ UNCHANGED <<pc, Inputs, port>>

Step == TryPreferred \/ Advance \/ Take
LoopNext == Step \/ OthersMove

\* The call runs on: it is a loop without a wait.
LoopSpec == LoopInit /\ [][LoopNext]_loopVars /\ WF_loopVars(Step)

-----------------------------------------------------------------------------
LoopTypeOK ==
  /\ pc \in {"preferred", "probe", "done", "failed"}
  /\ start \in AllocPorts
  /\ preferred \in Preferences
  /\ used \in UsedSets
  /\ port \in AllocPorts \cup Preferences
  /\ busy \in BusySets
  /\ ever \in SUBSET Nat

\* Whatever other programs do meanwhile, every port that the call passed over,
\* the preferred one included, was used, reserved or busy at some time during the
\* call, and so was every port of the range when the call reports that none is
\* left; the port it returns is none that was used or reserved.
NothingSkipped ==
  LET taken == used \cup ReservedPorts \cup ever IN
  /\ pc = "done" =>
       /\ port \notin used \cup ReservedPorts
       /\ preferred > 0 /\ port # preferred => preferred \in taken
       /\ port # preferred =>
            \A q \in AllocPorts : Steps(start, q) < Steps(start, port) => q \in taken
  /\ pc = "failed" => AllocPorts \subseteq taken

\* When the set of busy ports stays what it was, the call returns the port that
\* IsAllocated describes, and fails only when there is none.
MeetsItsPromise ==
  ever = busy =>
    /\ pc = "done" => IsAllocated(port, start, preferred, used, busy)
    /\ pc = "failed" => \A p \in AllocPorts \cup {preferred} :
                          ~IsAllocated(p, start, preferred, used, busy)

\* The call returns, however the busy ports change: the loop comes round to the
\* hash after at most as many steps as the range has ports.
Terminates == <>Returned
=============================================================================
