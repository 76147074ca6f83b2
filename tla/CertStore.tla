------------------------------ MODULE CertStore -------------------------------
(***************************************************************************)
(* internal/certmanager in the daemon: GetCertificate answers each TLS     *)
(* handshake from memory, from the pair of files in the cache directory or *)
(* with a new certificate signed by the CA that the daemon loaded          *)
(* (store.go, cert.go).  Handshakes run concurrently; time passes; the     *)
(* daemon is killed between any two steps, started again, perhaps with     *)
(* another CA, and the cache directory is deleted under it.                *)
(*                                                                         *)
(* A certificate has the identity of its key: a pair matches when they are *)
(* equal.  A file is opened (and emptied) and written in one step; a kill  *)
(* or a failed write may leave it empty, a file that does not load: None.  *)
(***************************************************************************)
EXTENDS Naturals

CONSTANTS
  Hosts,        \* names in the handshakes
  Handshakes,   \* goroutines of the TLS server
  CAs, Keys,    \* identities of CA key pairs, and of server key pairs (bound: enough of them)
  None,
  Validity,     \* how long a new certificate is good, and
  Window,       \* the renewalWindow
  MaxNow,       \* bound: time
  MaxFaults     \* bound: kills, failed writes and deletions of the cache

ASSUME TimeAssumption == Window \in Nat \ {0} /\ Validity \in Nat /\ Window < Validity
ASSUME BoundAssumption == MaxNow \in Nat /\ MaxFaults \in Nat
ASSUME NoneAssumption == None \notin Keys \cup CAs \cup Handshakes
ASSUME EntryAssumption ==
  None \notin [cert : [key : Keys, ca : CAs, expires : Nat], since : Nat]

VARIABLES
  ca,           \* the CA's certificate and key files
  loaded,       \* the CA that the daemon has loaded, None while it is down
  disk,         \* host -> certificate file and key file
  dir,          \* the cache directory exists
  mem,          \* CertStore.certs, with the time of the entry
  lock,         \* who holds CertStore.mu for writing
  hs,           \* handshake -> step, host, and the certificate it has made
  now, faults,
  served        \* history: host -> certificates answered since the daemon started

vars == <<ca, loaded, disk, dir, mem, lock, hs, now, faults, served>>

Idle == [pc |-> "idle", host |-> None, made |-> None]
Goto(t, step) == hs' = [hs EXCEPT ![t].pc = step]
At(t, step) == hs[t].pc = step
Answer(t, h, cert) ==
  /\ hs' = [hs EXCEPT ![t] = Idle]
  /\ served' = [served EXCEPT ![h] = @ \cup {cert.key}]
Fault == faults < MaxFaults /\ faults' = faults + 1
NoFiles == [h \in Hosts |-> [cert |-> None, key |-> None]]

\* Mutant for AnswersGood: the certificate of another CA is taken.
UsableAnyCA(h) ==
  LET cert == disk[h].cert IN
  /\ cert # None /\ disk[h].key = cert.key
  /\ cert.expires >= now + Window

\* loadCertFromDisk: both files load and match, not within the window, signed by our CA.
Usable(h) ==
  LET cert == disk[h].cert IN
  /\ cert # None /\ disk[h].key = cert.key
  /\ cert.expires >= now + Window
  /\ cert.ca = loaded.cert

\* A key pair nobody has.
Unused(k) ==
  /\ \A h \in Hosts : /\ disk[h].key # k /\ k \notin served[h]
                      /\ disk[h].cert # None => disk[h].cert.key # k
  /\ \A t \in Handshakes : hs[t].made # None => hs[t].made.key # k
NewKey == CHOOSE k \in Keys : Unused(k)

-----------------------------------------------------------------------------
(* GetCertificate.                                                          *)

Hello(t, h) ==
  /\ loaded # None /\ At(t, "idle")
  /\ hs' = [hs EXCEPT ![t] = [pc |-> "read", host |-> h, made |-> None]]
  /\ UNCHANGED <<ca, loaded, disk, dir, mem, lock, now, faults, served>>

ReadMemory(t) ==
  /\ At(t, "read") /\ lock = None
  /\ LET h == hs[t].host IN
     IF mem[h] # None THEN Answer(t, h, mem[h].cert) ELSE Goto(t, "lock") /\ UNCHANGED served
  /\ UNCHANGED <<ca, loaded, disk, dir, mem, lock, now, faults>>

\* Mutant for OneCertPerLife: no second look.
LockOnly(t) ==
  /\ At(t, "lock") /\ lock = None
  /\ Goto(t, "disk") /\ lock' = t
  /\ UNCHANGED <<ca, loaded, disk, dir, mem, now, faults, served>>

\* The write lock, and the second look at the memory.
Lock(t) ==
  /\ At(t, "lock") /\ lock = None
  /\ LET h == hs[t].host IN
     IF mem[h] # None
     THEN Answer(t, h, mem[h].cert) /\ UNCHANGED lock
     ELSE Goto(t, "disk") /\ lock' = t /\ UNCHANGED served
  /\ UNCHANGED <<ca, loaded, disk, dir, mem, now, faults>>

Store(t, cert) ==
  LET h == hs[t].host IN
  /\ mem' = [mem EXCEPT ![h] = [cert |-> cert, since |-> now]]
  /\ lock' = None
  /\ Answer(t, h, cert)

LoadFromDisk(t) ==
  /\ At(t, "disk")
  /\ LET h == hs[t].host IN
     IF Usable(h)
     THEN Store(t, disk[h].cert)
     ELSE Goto(t, "generate") /\ UNCHANGED <<mem, lock, served>>
  /\ UNCHANGED <<ca, loaded, disk, dir, now, faults>>

\* CreateCertificate refuses a CA key that is not the CA certificate's.
Generate(t) ==
  /\ At(t, "generate") /\ loaded.cert = loaded.key
  /\ \E k \in Keys : Unused(k)
  /\ LET h == hs[t].host
         cert == [key |-> NewKey, ca |-> loaded.cert, expires |-> now + Validity]
     IN /\ hs' = [hs EXCEPT ![t].pc = "key", ![t].made = cert]
        /\ disk' = [disk EXCEPT ![h].cert = cert]
  /\ dir' = TRUE
  /\ UNCHANGED <<ca, loaded, mem, lock, now, faults, served>>

WriteKey(t) ==
  /\ At(t, "key") /\ dir
  /\ disk' = [disk EXCEPT ![hs[t].host].key = hs[t].made.key]
  /\ Store(t, hs[t].made)
  /\ UNCHANGED <<ca, loaded, dir, now, faults>>

\* What may be left of the file that was about to be written.
TornFile(t) ==
  LET h == hs[t].host IN
  CASE At(t, "generate") -> [disk EXCEPT ![h].cert = None]
    [] At(t, "key")      -> [disk EXCEPT ![h].key = None]
    [] OTHER             -> disk

\* Mutant for HandshakesEnd: an error is retried.
RefuseRetrying(t) ==
  /\ \/ At(t, "generate") /\ loaded.cert # loaded.key /\ UNCHANGED <<disk, faults>>
     \/ At(t, "key") /\ ~dir /\ UNCHANGED <<disk, faults>>
     \/ hs[t].pc \in {"generate", "key"} /\ Fault /\ disk' \in {disk, TornFile(t)}
  /\ Goto(t, "lock")
  /\ lock' = None
  /\ UNCHANGED <<ca, loaded, dir, mem, now, served>>

\* The handshake fails: no certificate can be signed or saved.
Refuse(t) ==
  /\ \/ At(t, "generate") /\ loaded.cert # loaded.key /\ UNCHANGED <<disk, faults>>
     \/ At(t, "key") /\ ~dir /\ UNCHANGED <<disk, faults>>
     \/ hs[t].pc \in {"generate", "key"} /\ Fault /\ disk' \in {disk, TornFile(t)}
  /\ hs' = [hs EXCEPT ![t] = Idle]
  /\ lock' = None
  /\ UNCHANGED <<ca, loaded, dir, mem, now, served>>

-----------------------------------------------------------------------------
(* The daemon's life, the CA and the clock.                                 *)

Kill ==
  /\ loaded # None /\ Fault
  /\ loaded' = None
  /\ disk' \in {disk} \cup {TornFile(t) : t \in Handshakes}
  /\ mem' = [h \in Hosts |-> None] /\ lock' = None
  /\ hs' = [t \in Handshakes |-> Idle]
  /\ served' = [h \in Hosts |-> {}]
  /\ UNCHANGED <<ca, dir, now>>

\* runDaemon, NewCertStore.
Boot ==
  /\ loaded = None
  /\ loaded' = ca
  /\ UNCHANGED <<ca, disk, dir, mem, lock, hs, now, faults, served>>

\* uninstall and start while the daemon is down; killed between the CA's two files it leaves
\* a certificate with the key of another CA.
ReplaceCA ==
  /\ loaded = None
  /\ \E c \in CAs \ {ca.cert}, whole \in BOOLEAN :
       ca' = [cert |-> c, key |-> IF whole THEN c ELSE ca.key]
  /\ UNCHANGED <<loaded, disk, dir, mem, lock, hs, now, faults, served>>

\* An uninstall whose unload failed does this under a running daemon.
DeleteCertCache ==
  /\ dir /\ Fault
  /\ disk' = NoFiles /\ dir' = FALSE
  /\ UNCHANGED <<ca, loaded, mem, lock, hs, now, served>>

\* Days pass; a certificate is made in milliseconds.
Tick ==
  /\ now < MaxNow /\ lock = None
  /\ now' = now + 1
  /\ UNCHANGED <<ca, loaded, disk, dir, mem, lock, hs, faults, served>>

Init ==
  /\ \E c \in CAs : ca = [cert |-> c, key |-> c]
  /\ loaded = None /\ dir = FALSE /\ disk = NoFiles
  /\ mem = [h \in Hosts |-> None] /\ lock = None
  /\ hs = [t \in Handshakes |-> Idle]
  /\ now = 0 /\ faults = 0
  /\ served = [h \in Hosts |-> {}]

Handle(t) == ReadMemory(t) \/ Lock(t) \/ LoadFromDisk(t) \/ Generate(t) \/ WriteKey(t) \/ Refuse(t)

Next ==
  \/ \E t \in Handshakes : Handle(t) \/ \E h \in Hosts : Hello(t, h)
  \/ Kill \/ Boot \/ ReplaceCA \/ DeleteCertCache \/ Tick

\* A goroutine that can go on does; sync.RWMutex lets no waiting writer starve.
Fairness ==
  \A t \in Handshakes : /\ WF_vars(LoadFromDisk(t) \/ Generate(t) \/ WriteKey(t) \/ Refuse(t))
                        /\ SF_vars(ReadMemory(t)) /\ SF_vars(Lock(t))

Spec == Init /\ [][Next]_vars /\ Fairness

-----------------------------------------------------------------------------
(* Properties.                                                              *)

CertTypeOK ==
  LET Cert == [key : Keys, ca : CAs, expires : 0 .. MaxNow + Validity]
      CA == [cert : CAs, key : CAs]
  IN
  /\ ca \in CA /\ loaded \in CA \cup {None} /\ dir \in BOOLEAN
  /\ disk \in [Hosts -> [cert : Cert \cup {None}, key : Keys \cup {None}]]
  /\ mem \in [Hosts -> [cert : Cert, since : 0 .. MaxNow] \cup {None}]
  /\ lock \in Handshakes \cup {None}
  /\ hs \in [Handshakes -> [pc : {"idle", "read", "lock", "disk", "generate", "key"},
                            host : Hosts \cup {None}, made : Cert \cup {None}]]
  /\ now \in 0 .. MaxNow /\ faults \in 0 .. MaxFaults
  /\ served \in [Hosts -> SUBSET Keys]

\* What the daemon answers with is signed by the CA it loaded and is good for at least the
\* renewal window from when it entered the memory, whatever kills, CA changes and empty files
\* have left in the cache (cert.go:54-77).
AnswersGood ==
  \A h \in Hosts : mem[h] # None =>
    /\ mem[h].cert.ca = loaded.cert
    /\ mem[h].cert.expires >= mem[h].since + Window

\* All handshakes of a host are answered with one certificate for as long as the daemon lives,
\* however they overlap (the double check of store.go:50-56).
OneCertPerLife ==
  \A h \in Hosts : served[h] # {} => mem[h] # None /\ served[h] = {mem[h].cert.key}

\* Every handshake ends: each path through store.go:51-66 releases the lock.
HandshakesEnd == \A t \in Handshakes : ~At(t, "idle") ~> At(t, "idle")
=============================================================================
