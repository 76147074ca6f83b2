----------------------------- MODULE AtomicFile -----------------------------
(***************************************************************************)
(* What the commands and the daemon take registry.json and tunnels.json    *)
(* for: a value that a save replaces at one moment or not at all, and that *)
(* a reader gets as it was at one moment.  Modules OutportCli (its Save    *)
(* and Abort) and RouteDaemon (its reads) are written against this; module *)
(* RegistryFile shows under which condition the files behave like it.      *)
(***************************************************************************)
CONSTANTS
  Writers, Readers,
  Values,   \* what may be saved
  Nothing   \* no file; no save or read in progress

VARIABLES
  value,    \* what the file holds
  pending,  \* writer -> what it is about to save
  seen      \* reader -> what it gets

vars == <<value, pending, seen>>

Init ==
  /\ value \in Values \cup {Nothing}
  /\ pending = [w \in Writers |-> Nothing]
  /\ seen = [r \in Readers |-> Nothing]

Begin(w) ==
  /\ pending[w] = Nothing
  /\ \E v \in Values : pending' = [pending EXCEPT ![w] = v]
  /\ UNCHANGED <<value, seen>>

\* The save takes effect.
Commit(w) ==
  /\ pending[w] # Nothing
  /\ value' = pending[w]
  /\ pending' = [pending EXCEPT ![w] = Nothing]
  /\ UNCHANGED seen

\* It fails, or its process is killed.
Abandon(w) ==
  /\ pending[w] # Nothing
  /\ pending' = [pending EXCEPT ![w] = Nothing]
  /\ UNCHANGED <<value, seen>>

Read(r) ==
  /\ seen[r] = Nothing
  /\ seen' = [seen EXCEPT ![r] = value]
  /\ UNCHANGED <<value, pending>>

Forget(r) ==
  /\ seen' = [seen EXCEPT ![r] = Nothing]
  /\ UNCHANGED <<value, pending>>

Next ==
  \/ \E w \in Writers : Begin(w) \/ Commit(w) \/ Abandon(w)
  \/ \E r \in Readers : Read(r) \/ Forget(r)

Spec == Init /\ [][Next]_vars
=============================================================================
