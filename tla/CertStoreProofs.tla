--------------------------- MODULE CertStoreProofs ---------------------------
(***************************************************************************)
(* Proofs about CertStore, for any number of hosts, handshakes, CAs, kills *)
(* and deletions, and for any validity longer than the renewal window.     *)
(***************************************************************************)
EXTENDS CertStore, TLAPS

Cert   == [key : Keys, ca : CAs, expires : 0 .. MaxNow + Validity]
CA     == [cert : CAs, key : CAs]
Pair   == [cert : Cert \cup {None}, key : Keys \cup {None}]
Entry  == [cert : Cert, since : 0 .. MaxNow]
Locked == {"disk", "generate", "key"}
Local  == [pc : {"idle", "read", "lock"} \cup Locked, host : Hosts \cup {None},
           made : Cert \cup {None}]

MachineType == ca \in CA /\ loaded \in CA \cup {None} /\ dir \in BOOLEAN
                 /\ now \in 0 .. MaxNow /\ faults \in 0 .. MaxFaults
DiskType   == disk \in [Hosts -> Pair]
MemType    == mem \in [Hosts -> Entry \cup {None}]
LockType   == lock \in Handshakes \cup {None}
HsType     == hs \in [Handshakes -> Local]
ServedType == served \in [Hosts -> SUBSET Keys]
TypeInv    == MachineType /\ DiskType /\ MemType /\ LockType /\ HsType /\ ServedType

\* Who holds the lock works on the files, for a host; without a daemon nobody does anything.
LockInv ==
  /\ \A t \in Handshakes : /\ hs[t].pc \in Locked => lock = t
                           /\ hs[t].pc # "idle" => hs[t].host \in Hosts
                           /\ loaded = None => hs[t].pc = "idle"
                           /\ hs[t].pc = "key" => hs[t].made \in Cert
  /\ loaded = None => \A h \in Hosts : mem[h] = None /\ served[h] = {}

\* The memory has no entry for a host that someone works on under the lock, and what is made
\* is made now, with the loaded CA.
MemInv ==
  /\ AnswersGood
  /\ OneCertPerLife
  /\ \A t \in Handshakes :
       /\ hs[t].pc \in Locked => mem[hs[t].host] = None
       /\ hs[t].pc = "key" => /\ hs[t].made.ca = loaded.cert
                              /\ hs[t].made.expires = now + Validity

LEMMA EntryIsNotNone == \A e \in Entry : e # None
BY EntryAssumption, TimeAssumption, BoundAssumption DEF Entry, Cert

LEMMA TypeInvIsType == TypeInv => CertTypeOK
BY DEF TypeInv, CertTypeOK, MachineType, DiskType, MemType, LockType, HsType, ServedType,
       Cert, CA, Pair, Entry, Local, Locked

LEMMA TypeInit == Init => TypeInv /\ LockInv /\ MemInv
<1> SUFFICES ASSUME Init PROVE TypeInv /\ LockInv /\ MemInv
  OBVIOUS
<1>1. MachineType
  <2>1. ca \in CA
    BY DEF Init, CA
  <2>2. now \in 0 .. MaxNow /\ faults \in 0 .. MaxFaults
    BY BoundAssumption DEF Init
  <2> QED BY <2>1, <2>2 DEF Init, MachineType
<1>2. DiskType /\ MemType /\ LockType /\ ServedType
  BY DEF Init, DiskType, MemType, LockType, ServedType, NoFiles, Pair
<1>3. HsType
  BY DEF Init, HsType, Idle, Local
<1>4. \A t \in Handshakes : hs[t].pc = "idle"
  BY DEF Init, Idle
<1>5. LockInv
  BY <1>4 DEF Init, LockInv, Locked
<1>6. MemInv
  BY <1>4 DEF Init, MemInv, AnswersGood, OneCertPerLife, Locked
<1> QED BY <1>1, <1>2, <1>3, <1>5, <1>6 DEF TypeInv

LEMMA MadeType ==
  ASSUME TypeInv, NEW k \in Keys, Unused(k), loaded \in CA
  PROVE  [key |-> NewKey, ca |-> loaded.cert, expires |-> now + Validity] \in Cert
<1>1. NewKey \in Keys
  BY DEF NewKey
<1>2. now + Validity \in 0 .. MaxNow + Validity
  BY TimeAssumption, BoundAssumption DEF TypeInv, MachineType
<1> QED BY <1>1, <1>2 DEF Cert, CA

LEMMA FaultType == MachineType /\ Fault => faults' \in 0 .. MaxFaults
BY BoundAssumption DEF MachineType, Fault

LEMMA TypeStep == TypeInv /\ LockInv /\ [Next]_vars => TypeInv'
<1> SUFFICES ASSUME TypeInv, LockInv, [Next]_vars PROVE TypeInv'
  OBVIOUS
<1>0. /\ MachineType /\ DiskType /\ MemType /\ LockType /\ HsType /\ ServedType
      /\ Idle \in Local
  BY DEF TypeInv, Idle, Local
<1> USE <1>0
<1>1. ASSUME NEW t \in Handshakes, NEW h \in Hosts, Hello(t, h) PROVE TypeInv'
  <2>1. [pc |-> "read", host |-> h, made |-> None] \in Local
    BY DEF Local
  <2> QED BY <1>1, <2>1
       DEF Hello, TypeInv, MachineType, DiskType, MemType, LockType, HsType, ServedType
<1>2. ASSUME NEW t \in Handshakes, Handle(t) PROVE TypeInv'
  <2>1. CASE ReadMemory(t) \/ Lock(t)
    <3> DEFINE h == hs[t].host
    <3>1. h \in Hosts
      BY <2>1 DEF ReadMemory, Lock, At, LockInv
    <3>2. mem[h] # None => mem[h].cert.key \in Keys
      BY <3>1 DEF MemType, Entry, Cert
    <3>3. UNCHANGED <<ca, loaded, disk, dir, mem, now, faults>> /\ LockType'
      BY <2>1 DEF ReadMemory, Lock, LockType
    <3>4. HsType' /\ ServedType'
      BY <2>1, <3>1, <3>2 DEF ReadMemory, Lock, Goto, Answer, HsType, ServedType, Local, Locked
    <3> QED BY <3>3, <3>4 DEF TypeInv, MachineType, DiskType, MemType
  <2>2. CASE LoadFromDisk(t)
    <3> DEFINE h == hs[t].host
    <3>1. h \in Hosts
      BY <2>2 DEF LoadFromDisk, At, LockInv, Locked
    <3>2. CASE Usable(h)
      <4>1. disk[h].cert \in Cert
        BY <3>1, <3>2 DEF Usable, DiskType, Pair
      <4>2. [cert |-> disk[h].cert, since |-> now] \in Entry /\ disk[h].cert.key \in Keys
        BY <4>1 DEF Entry, MachineType, Cert
      <4> QED BY <2>2, <3>1, <3>2, <4>2
           DEF LoadFromDisk, Store, Answer, TypeInv, MachineType, DiskType, MemType, LockType,
               HsType, ServedType
    <3>3. CASE ~Usable(h)
      BY <2>2, <3>3
         DEF LoadFromDisk, Goto, TypeInv, MachineType, DiskType, MemType, LockType, HsType,
             ServedType, Local, Locked
    <3> QED BY <3>2, <3>3
  <2>3. CASE Generate(t)
    <3> DEFINE cert == [key |-> NewKey, ca |-> loaded.cert, expires |-> now + Validity]
    <3>1. cert \in Cert /\ hs[t].host \in Hosts
      BY <2>3, MadeType DEF Generate, At, LockInv, MachineType
    <3>2. HsType'
      BY <2>3, <3>1 DEF Generate, HsType, Local, Locked
    <3>3. DiskType'
      BY <2>3, <3>1 DEF Generate, DiskType, Pair
    <3> QED BY <2>3, <3>2, <3>3 DEF Generate, TypeInv, MachineType, MemType, LockType, ServedType
  <2>4. CASE WriteKey(t)
    <3>1. hs[t].host \in Hosts /\ hs[t].made \in Cert
      BY <2>4 DEF WriteKey, At, LockInv
    <3>2. [cert |-> hs[t].made, since |-> now] \in Entry /\ hs[t].made.key \in Keys
      BY <3>1 DEF Entry, MachineType, Cert
    <3>3. DiskType'
      BY <2>4, <3>1, <3>2 DEF WriteKey, DiskType, Pair
    <3> QED BY <2>4, <3>1, <3>2, <3>3
         DEF WriteKey, Store, Answer, TypeInv, MachineType, MemType, LockType, HsType, ServedType
  <2>5. CASE Refuse(t)
    <3>1. faults' \in 0 .. MaxFaults
      BY <2>5, FaultType DEF Refuse, MachineType
    <3>2. DiskType'
      BY <2>5 DEF Refuse, TornFile, DiskType, Pair
    <3>3. HsType' /\ LockType'
      BY <2>5 DEF Refuse, HsType, LockType
    <3>4. UNCHANGED <<ca, loaded, dir, mem, now, served>>
      BY <2>5 DEF Refuse
    <3> QED BY <3>1, <3>2, <3>3, <3>4 DEF TypeInv, MachineType, MemType, ServedType
  <2> QED BY <1>2, <2>1, <2>2, <2>3, <2>4, <2>5 DEF Handle
<1>3. CASE Kill
  <2>1. faults' \in 0 .. MaxFaults
    BY <1>3, FaultType DEF Kill
  <2>2. DiskType'
    <3>1. disk' = disk \/ \E t \in Handshakes : disk' = TornFile(t)
      BY <1>3 DEF Kill
    <3>2. \A t \in Handshakes : TornFile(t) \in [Hosts -> Pair]
      BY DEF TornFile, DiskType, Pair
    <3> QED BY <3>1, <3>2 DEF DiskType
  <2>3. MemType' /\ LockType'
    BY <1>3 DEF Kill, MemType, LockType
  <2>5. HsType' /\ ServedType'
    BY <1>3 DEF Kill, HsType, ServedType
  <2>4. UNCHANGED <<ca, dir, now>> /\ loaded' = None
    BY <1>3 DEF Kill
  <2> QED BY <2>1, <2>2, <2>3, <2>4, <2>5 DEF TypeInv, MachineType
<1>4. CASE Boot \/ ReplaceCA \/ UNCHANGED vars
  BY <1>4 DEF Boot, ReplaceCA, vars, TypeInv, MachineType, DiskType, MemType, LockType, HsType,
              ServedType, CA
<1>5. CASE DeleteCertCache
  <2>1. faults' \in 0 .. MaxFaults
    BY <1>5, FaultType DEF DeleteCertCache
  <2> QED BY <1>5, <2>1 DEF DeleteCertCache, TypeInv, MachineType, DiskType, MemType, LockType, HsType,
              ServedType, NoFiles, Pair
<1>6. CASE Tick
  BY <1>6, BoundAssumption
     DEF Tick, TypeInv, MachineType, DiskType, MemType, LockType, HsType, ServedType
<1> QED BY <1>1, <1>2, <1>3, <1>4, <1>5, <1>6 DEF Next

LEMMA LockStep == TypeInv /\ LockInv /\ [Next]_vars => LockInv'
<1> SUFFICES ASSUME TypeInv, LockInv, [Next]_vars PROVE LockInv'
  OBVIOUS
<1>0. hs \in [Handshakes -> Local] /\ mem \in [Hosts -> Entry \cup {None}]
      /\ served \in [Hosts -> SUBSET Keys] /\ None \notin Handshakes
  BY NoneAssumption DEF TypeInv, HsType, MemType, ServedType
<1> USE <1>0 DEF LockInv, At, Local, Locked
<1>1. ASSUME NEW t \in Handshakes, NEW h \in Hosts, Hello(t, h) PROVE LockInv'
  BY <1>1 DEF Hello
<1>2. ASSUME NEW t \in Handshakes, Handle(t) PROVE LockInv'
  <2>0. loaded # None
    BY <1>2 DEF Handle, ReadMemory, Lock, LoadFromDisk, Generate, WriteKey, Refuse
  <2>1. CASE ReadMemory(t) \/ Lock(t)
    BY <2>0, <2>1 DEF ReadMemory, Lock, Goto, Answer, Idle
  <2>2. CASE LoadFromDisk(t)
    BY <2>0, <2>2 DEF LoadFromDisk, Store, Goto, Answer, Idle
  <2>3. CASE Generate(t)
    <3>1. loaded \in CA
      BY <2>0 DEF TypeInv, MachineType
    <3>2. [key |-> NewKey, ca |-> loaded.cert, expires |-> now + Validity] \in Cert
      BY <2>3, <3>1, MadeType DEF Generate
    <3> QED BY <2>0, <2>3, <3>2 DEF Generate
  <2>4. CASE WriteKey(t)
    BY <2>0, <2>4 DEF WriteKey, Store, Answer, Idle
  <2>5. CASE Refuse(t)
    <3>1. hs[t].pc \in Locked /\ lock' = None /\ hs' = [hs EXCEPT ![t] = Idle]
          /\ loaded' = loaded
      BY <2>5 DEF Refuse
    <3> QED BY <2>0, <3>1 DEF Idle
  <2> QED BY <1>2, <2>1, <2>2, <2>3, <2>4, <2>5 DEF Handle
<1>3. CASE Kill
  BY <1>3 DEF Kill, Idle
<1>4. CASE Boot \/ ReplaceCA \/ DeleteCertCache \/ Tick \/ UNCHANGED vars
  BY <1>4 DEF Boot, ReplaceCA, DeleteCertCache, Tick, vars
<1> QED BY <1>1, <1>2, <1>3, <1>4 DEF Next

LEMMA MemStep == TypeInv /\ LockInv /\ MemInv /\ [Next]_vars => MemInv'
<1> SUFFICES ASSUME TypeInv, LockInv, MemInv, [Next]_vars PROVE MemInv'
  OBVIOUS
<1>0. hs \in [Handshakes -> Local] /\ mem \in [Hosts -> Entry \cup {None}]
      /\ served \in [Hosts -> SUBSET Keys] /\ None \notin Handshakes
  BY NoneAssumption DEF TypeInv, HsType, MemType, ServedType
<1> USE <1>0 DEF MemInv, AnswersGood, OneCertPerLife, At, Local, Locked
\* An entry for a host that had none, of the loaded CA and good from now on.
<1>1. ASSUME NEW t \in Handshakes, NEW cert \in Cert, hs[t].pc \in Locked, Store(t, cert),
             cert.ca = loaded.cert, cert.expires >= now + Window,
             loaded' = loaded, now' = now
      PROVE  MemInv'
  <2> DEFINE h == hs[t].host
             entry == [cert |-> cert, since |-> now]
  <2>1. h \in Hosts /\ mem[h] = None /\ served[h] = {}
    BY <1>1 DEF LockInv
  <2>2. entry # None
    BY EntryIsNotNone, <1>1 DEF TypeInv, MachineType, Entry
  <2>3. mem' = [mem EXCEPT ![h] = entry] /\ served' = [served EXCEPT ![h] = {cert.key}]
        /\ hs' = [hs EXCEPT ![t] = Idle]
    BY <1>1, <2>1 DEF Store, Answer
  <2>4. \A u \in Handshakes : hs'[u].pc \notin Locked
    BY <1>1, <2>3 DEF LockInv, Idle
  <2>5. AnswersGood' /\ OneCertPerLife'
    BY <1>1, <2>1, <2>2, <2>3
  <2> QED BY <2>4, <2>5
<1>2. ASSUME NEW t \in Handshakes, NEW h \in Hosts, Hello(t, h) PROVE MemInv'
  BY <1>2 DEF Hello
<1>3. ASSUME NEW t \in Handshakes, ReadMemory(t) \/ Lock(t) PROVE MemInv'
  <2>1. hs[t].host \in Hosts
    BY <1>3 DEF ReadMemory, Lock, LockInv
  <2>2. UNCHANGED <<loaded, mem, now>>
    BY <1>3 DEF ReadMemory, Lock
  <2>3. CASE mem[hs[t].host] # None
    BY <1>3, <2>1, <2>2, <2>3 DEF ReadMemory, Lock, Answer, Idle
  <2>4. CASE mem[hs[t].host] = None
    BY <1>3, <2>1, <2>2, <2>4 DEF ReadMemory, Lock, Goto
  <2> QED BY <2>3, <2>4
<1>4. ASSUME NEW t \in Handshakes, LoadFromDisk(t) PROVE MemInv'
  <2> DEFINE h == hs[t].host
  <2>1. h \in Hosts /\ disk \in [Hosts -> Pair]
    BY <1>4 DEF LoadFromDisk, LockInv, TypeInv, DiskType
  <2>2. CASE Usable(h)
    <3>1. disk[h].cert \in Cert /\ disk[h].cert.ca = loaded.cert
          /\ disk[h].cert.expires >= now + Window
      BY <2>1, <2>2 DEF Usable, Pair
    <3> QED BY <1>1, <1>4, <2>2, <3>1 DEF LoadFromDisk
  <2>3. CASE ~Usable(h)
    BY <1>4, <2>3 DEF LoadFromDisk, Goto
  <2> QED BY <2>2, <2>3
<1>5. ASSUME NEW t \in Handshakes, Generate(t) PROVE MemInv'
  <2> DEFINE cert == [key |-> NewKey, ca |-> loaded.cert, expires |-> now + Validity]
  <2>1. hs' = [hs EXCEPT ![t].pc = "key", ![t].made = cert] /\ UNCHANGED <<mem, loaded, now, served>>
        /\ hs[t].pc = "generate"
    BY <1>5 DEF Generate
  <2> QED BY <2>1
<1>6. ASSUME NEW t \in Handshakes, WriteKey(t) PROVE MemInv'
  <2>1. hs[t].made \in Cert /\ hs[t].made.ca = loaded.cert /\ hs[t].made.expires = now + Validity
    BY <1>6 DEF WriteKey, LockInv
  <2>2. hs[t].made.expires >= now + Window
    BY <2>1, TimeAssumption DEF TypeInv, MachineType
  <2> QED BY <1>1, <1>6, <2>1, <2>2 DEF WriteKey
<1>7. ASSUME NEW t \in Handshakes, Refuse(t) PROVE MemInv'
  <2>1. hs' = [hs EXCEPT ![t] = Idle] /\ UNCHANGED <<mem, loaded, now, served>>
    BY <1>7 DEF Refuse
  <2> QED BY <2>1 DEF Idle
<1>8. CASE Kill
  BY <1>8 DEF Kill, Idle
<1>9. CASE Boot
  BY <1>9 DEF Boot, LockInv
<1>10. CASE Tick
  <2>1. \A t \in Handshakes : hs[t].pc \notin Locked
    BY <1>10 DEF Tick, LockInv
  <2>2. UNCHANGED <<mem, loaded, hs, served>>
    BY <1>10 DEF Tick
  <2> QED BY <2>1, <2>2
<1>11. CASE ReplaceCA \/ DeleteCertCache \/ UNCHANGED vars
  BY <1>11 DEF ReplaceCA, DeleteCertCache, vars
<1> QED BY <1>2, <1>3, <1>4, <1>5, <1>6, <1>7, <1>8, <1>9, <1>10, <1>11 DEF Next, Handle

LEMMA CertInvariant == Spec => [](TypeInv /\ LockInv /\ MemInv)
<1>1. TypeInv /\ LockInv /\ MemInv /\ [Next]_vars => (TypeInv /\ LockInv /\ MemInv)'
  BY TypeStep, LockStep, MemStep
<1> QED BY <1>1, TypeInit, PTL DEF Spec

\* Files, memory, lock and handshakes have their types.
THEOREM CertTypeCorrect == Spec => []CertTypeOK
BY CertInvariant, TypeInvIsType, PTL

\* What the daemon answers with is signed by the CA it loaded and is good for at least the
\* renewal window from when it entered the memory, whatever kills, CA changes and empty files
\* have left in the cache (cert.go:54-77).
THEOREM AnswersAreGood == Spec => []AnswersGood
<1>1. MemInv => AnswersGood
  BY DEF MemInv
<1> QED BY <1>1, CertInvariant, PTL

\* All handshakes of a host get one certificate for as long as the daemon lives, however many
\* there are and however they overlap (the second look of store.go:50-56).
THEOREM OneCertificate == Spec => []OneCertPerLife
<1>1. MemInv => OneCertPerLife
  BY DEF MemInv
<1> QED BY <1>1, CertInvariant, PTL
=============================================================================
