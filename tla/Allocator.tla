----------------------------- MODULE Allocator -----------------------------
(***************************************************************************)
(* internal/allocator: which port a service is given.                      *)
(*                                                                         *)
(* A port is a number.  HashPort is kept abstract: all the code relies on  *)
(* is that it is a function into MinPort..MaxPort, so the FNV-32a hash is  *)
(* a CONSTANT of the modules that use this one.  Allocate is given as the  *)
(* relation between its arguments and its result; the loop that computes   *)
(* it is module AllocatorLoop.                                             *)
(***************************************************************************)
EXTENDS Integers

CONSTANTS
  MinPort,        \* the lowest port the allocator probes
  MaxPort,        \* the highest port the allocator probes
  ReservedPorts   \* ports never given to a service (the daemon's DNS port)

ASSUME PortBounds ==
  /\ MinPort \in Nat \ {0}
  /\ MaxPort \in Nat
  /\ MinPort <= MaxPort
  /\ ReservedPorts \subseteq Nat

AllocPorts == MinPort .. MaxPort
PortRange  == MaxPort - MinPort + 1

\* How many steps upwards, wrapping from MaxPort to MinPort, lead from start to p.
Steps(start, p) == IF p >= start THEN p - start ELSE p - start + PortRange

\* p is the first port, probing upwards from start, that is not unavailable.
IsFirstFree(p, start, unavailable) ==
  /\ p \in AllocPorts \ unavailable
  /\ \A q \in AllocPorts \ unavailable : Steps(start, p) <= Steps(start, q)

\* Mutant of IsAllocated: the probe forgets the reserved ports.
IsAllocatedReserved(p, start, preferred, used, busy) ==
  LET unavailable == used \cup busy IN
  IF preferred > 0 /\ preferred \notin unavailable \cup ReservedPorts
  THEN p = preferred
  ELSE IsFirstFree(p, start, unavailable)

\* Allocate returns p: the preferred port when the config names one and it is
\* available, else the first free port from the hash.  No p satisfies this when
\* every port is unavailable; that is the code's error return.
IsAllocated(p, start, preferred, used, busy) ==
  LET unavailable == used \cup ReservedPorts \cup busy IN
  IF preferred > 0 /\ preferred \notin unavailable
  THEN p = preferred
  ELSE IsFirstFree(p, start, unavailable)
=============================================================================
