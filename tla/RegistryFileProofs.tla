-------------------------- MODULE RegistryFileProofs --------------------------
(***************************************************************************)
(* Proofs about RegistryFile when saves do not overlap, for any number of  *)
(* processes, values and kills:                                            *)
(*    LoadsAreWhole   what is read to the end is what one save wrote       *)
(*    SavesAreAtomic  the file implements AtomicFile                       *)
(***************************************************************************)
EXTENDS RegistryFile, TLAPS

\* The bytes of a file of which a save of v has written n slots.
Part(v, n) == [i \in Slots |-> IF i <= n THEN <<v, i>> ELSE Nothing]

Whole(f) == \E v \in Values : content[f] = File(v)

\* The saving process is alone, and has the file under the other name to itself.
SaveInv ==
  /\ \A w \in Writers : saving[w] # Nothing =>
       /\ tmp # Nothing /\ wfd[w] = tmp
       /\ wpos[w] <= Size[saving[w]]
       /\ content[tmp] = Part(saving[w], wpos[w])
  /\ \A w \in Writers : saving[w] = Nothing => wfd[w] = Nothing
  /\ \A w, u \in Writers : saving[w] # Nothing /\ saving[u] # Nothing => w = u

\* A file that may be read is whole, and no save can reach it.
LoadInv ==
  /\ path # Nothing => path # tmp /\ Whole(path)
  /\ \A r \in Readers : rfd[r] # Nothing =>
       /\ rfd[r] # tmp /\ Whole(rfd[r])
       /\ \A i \in Slots : got[r][i] = IF i <= rpos[r] THEN content[rfd[r]][i] ELSE Nothing
  /\ \A r \in Readers : rfd[r] = Nothing => rpos[r] = 0 /\ got[r] = Blank

FileInv == FileTypeOK /\ SaveInv /\ LoadInv

LEMMA FileTypes ==
  /\ Blank \in Files
  /\ \A v \in Values : File(v) \in Files /\ File(v) # Blank /\ File(v) = Part(v, Size[v])
  /\ \A v \in Values : Part(v, 0) = Blank
<1> USE FileConstants DEF Files, Slots
<1>1. Blank \in Files
  BY DEF Blank
<1>2. ASSUME NEW v \in Values PROVE File(v) \in Files /\ File(v) # Blank
  <2>1. Size[v] \in 1 .. MaxSize
    OBVIOUS
  <2>2. File(v) \in Files
    BY <2>1 DEF File
  <2>3. File(v)[1] = <<v, 1>> /\ Blank[1] = Nothing /\ <<v, 1>> # Nothing
    BY <2>1 DEF File, Blank
  <2> QED BY <2>2, <2>3
<1>3. \A v \in Values : File(v) = Part(v, Size[v]) /\ Part(v, 0) = Blank
  BY DEF File, Part, Blank
<1> QED BY <1>1, <1>2, <1>3

LEMMA FileOne ==
  ASSUME NEW v \in Values, NEW u \in Values, File(v) = File(u)
  PROVE  v = u
<1>1. 1 \in Slots /\ 1 <= Size[v] /\ 1 <= Size[u]
  BY FileConstants DEF Slots
<1>2. File(v)[1] = <<v, 1>> /\ File(u)[1] = <<u, 1>>
  BY <1>1 DEF File
<1> QED BY <1>2

LEMMA InitInv == Init => FileInv
<1> SUFFICES ASSUME Init PROVE FileInv
  OBVIOUS
<1> USE FileConstants, FileTypes
<1>1. FileTypeOK
  BY DEF Init, FileTypeOK
<1>2. SaveInv
  BY DEF Init, SaveInv
<1>3. path # Nothing => Whole(path)
  BY DEF Init, Whole
<1>4. LoadInv
  BY <1>3 DEF Init, LoadInv
<1> QED BY <1>1, <1>2, <1>4 DEF FileInv

LEMMA TypeStep == FileInv /\ [Next]_vars => FileTypeOK'
<1> SUFFICES ASSUME FileInv, [Next]_vars PROVE FileTypeOK'
  OBVIOUS
<1> USE FileConstants, FileTypes DEF FileInv, FileTypeOK, names, writing, loading
<1>1. ASSUME NEW w \in Writers, OpenTmp(w) PROVE FileTypeOK'
  BY <1>1 DEF OpenTmp
<1>2. ASSUME NEW w \in Writers, Write(w) PROVE FileTypeOK'
  <2>1. /\ saving[w] \in Values /\ wfd[w] \in Inodes
        /\ wpos[w] + 1 \in Slots
    BY <1>2 DEF Write, SaveInv, Slots
  <2>2. content' \in [Inodes -> Files]
    BY <1>2, <2>1 DEF Write, Files
  <2>3. wpos' \in [Writers -> 0 .. MaxSize]
    BY <1>2, <2>1 DEF Write, Slots
  <2> QED BY <1>2, <2>2, <2>3 DEF Write
<1>3. ASSUME NEW w \in Writers, Rename(w) PROVE FileTypeOK'
  BY <1>3 DEF Rename, StopSaving
<1>4. ASSUME NEW w \in Writers, Fail(w) PROVE FileTypeOK'
  BY <1>4 DEF Fail, StopSaving
<1>5. ASSUME NEW r \in Readers, OpenPath(r) PROVE FileTypeOK'
  BY <1>5 DEF OpenPath
<1>6. ASSUME NEW r \in Readers, ReadSlot(r) PROVE FileTypeOK'
  <2>1. rfd[r] \in Inodes /\ rpos[r] + 1 \in Slots
    BY <1>6 DEF ReadSlot, AtEnd, Slots
  <2>2. got' \in [Readers -> Files]
    BY <1>6, <2>1 DEF ReadSlot, Files
  <2>3. rpos' \in [Readers -> 0 .. MaxSize]
    BY <1>6, <2>1 DEF ReadSlot, Slots
  <2> QED BY <1>6, <2>2, <2>3 DEF ReadSlot
<1>7. ASSUME NEW r \in Readers, CloseRead(r) PROVE FileTypeOK'
  BY <1>7 DEF CloseRead
<1>8. CASE UNCHANGED vars
  BY <1>8 DEF vars
<1> QED BY <1>1, <1>2, <1>3, <1>4, <1>5, <1>6, <1>7, <1>8 DEF Next

\* No step changes a file that is being read or that the registry's name denotes.
Readable(f) == f \in Inodes /\ (f = path \/ \E r \in Readers : rfd[r] = f)

LEMMA ReadableKept ==
  ASSUME FileInv, [Next]_vars, NEW f, Readable(f)
  PROVE  content'[f] = content[f]
<1> USE FileConstants DEF FileInv, FileTypeOK, LoadInv, SaveInv, Readable
<1>1. f # tmp /\ ~Free(f)
  BY DEF Free
<1>2. ASSUME NEW w \in Writers, OpenTmp(w) PROVE content'[f] = content[f]
  <2>1. PICK g \in Inodes : /\ IF tmp # Nothing THEN g = tmp ELSE Free(g)
                            /\ content' = [content EXCEPT ![g] = Blank]
    BY <1>2 DEF OpenTmp
  <2> QED BY <1>1, <2>1
<1>3. ASSUME NEW w \in Writers, Write(w) PROVE content'[f] = content[f]
  <2>1. wfd[w] = tmp
    BY <1>3 DEF Write
  <2> QED BY <1>1, <1>3, <2>1 DEF Write
<1> QED BY <1>2, <1>3 DEF Next, Rename, Fail, OpenPath, ReadSlot, CloseRead,
                            vars, names, writing, loading

LEMMA SaveStep == Exclusive /\ FileInv /\ [Next]_vars => SaveInv'
<1> SUFFICES ASSUME Exclusive, FileInv, [Next]_vars PROVE SaveInv'
  OBVIOUS
<1> USE FileConstants, FileTypes DEF FileInv, SaveInv, FileTypeOK, names, writing, loading
<1>1. ASSUME NEW w \in Writers, OpenTmp(w) PROVE SaveInv'
  <2>1. PICK v \in Values, f \in Inodes :
          /\ tmp' = f
          /\ content' = [content EXCEPT ![f] = Blank]
          /\ saving' = [saving EXCEPT ![w] = v]
          /\ wfd' = [wfd EXCEPT ![w] = f]
    BY <1>1 DEF OpenTmp
  <2>2. wpos' = [wpos EXCEPT ![w] = 0] /\ \A u \in Writers : saving[u] = Nothing
    BY <1>1 DEF OpenTmp
  <2>3. /\ saving'[w] = v /\ wfd'[w] = tmp' /\ tmp' # Nothing /\ wpos'[w] = 0
        /\ content'[tmp'] = Part(v, 0)
    BY <2>1, <2>2
  <2>4. \A u \in Writers : u # w => saving'[u] = Nothing /\ wfd'[u] = Nothing
    BY <2>1, <2>2
  <2>5. 0 <= Size[v] /\ v # Nothing
    BY DEF Slots
  <2> QED BY <2>3, <2>4, <2>5
<1>2. ASSUME NEW w \in Writers, Write(w) PROVE SaveInv'
  <2> DEFINE n == wpos[w]
             v == saving[w]
  <2>a. v \in Values /\ wfd[w] = tmp /\ tmp \in Inodes
    BY <1>2 DEF Write
  <2>b. n \in Nat /\ n < Size[v] /\ Size[v] \in Slots
    BY <1>2, <2>a DEF Write
  <2>1. /\ v \in Values /\ wfd[w] = tmp /\ tmp \in Inodes
        /\ n \in Nat /\ n + 1 <= Size[v]
        /\ content[tmp] = Part(v, n)
        /\ content' = [content EXCEPT ![tmp][n + 1] = <<v, n + 1>>]
        /\ wpos' = [wpos EXCEPT ![w] = n + 1]
        /\ UNCHANGED <<tmp, saving, wfd>>
    BY <1>2, <2>a, <2>b DEF Write, Slots
  <2>2. content'[tmp] = Part(v, n + 1)
    <3> HIDE DEF n, v
    <3>1. content'[tmp] = [content[tmp] EXCEPT ![n + 1] = <<v, n + 1>>]
      BY <2>1
    <3>2. content'[tmp] = [i \in Slots |-> IF i = n + 1 THEN <<v, i>> ELSE Part(v, n)[i]]
      BY <2>1, <3>1 DEF Part
    <3>3. \A i \in Slots : (IF i = n + 1 THEN <<v, i>> ELSE Part(v, n)[i])
                             = IF i <= n + 1 THEN <<v, i>> ELSE Nothing
      <4> SUFFICES ASSUME NEW i \in Slots
                   PROVE  (IF i = n + 1 THEN <<v, i>> ELSE Part(v, n)[i])
                             = IF i <= n + 1 THEN <<v, i>> ELSE Nothing
        OBVIOUS
      <4>1. Part(v, n)[i] = IF i <= n THEN <<v, i>> ELSE Nothing
        BY DEF Part
      <4> QED BY <2>1, <4>1 DEF Slots
    <3> QED BY <3>2, <3>3 DEF Part
  <2>3. \A u \in Writers : u # w => saving[u] = Nothing
    BY <2>1
  <2>4. wpos'[w] = n + 1
    BY <2>1
  <2> HIDE DEF n, v
  <2> QED BY <2>1, <2>2, <2>3, <2>4 DEF v
<1>3. ASSUME NEW w \in Writers, Rename(w) \/ Fail(w) PROVE SaveInv'
  <2>1. /\ saving' = [saving EXCEPT ![w] = Nothing]
        /\ wfd' = [wfd EXCEPT ![w] = Nothing]
    BY <1>3 DEF Rename, Fail, StopSaving
  <2>2. saving[w] # Nothing
    BY <1>3 DEF Rename, Fail
  <2>3. \A u \in Writers : saving'[u] = Nothing /\ wfd'[u] = Nothing
    BY <2>1, <2>2
  <2> QED BY <2>3
<1>4. ASSUME NEW r \in Readers, OpenPath(r) \/ ReadSlot(r) \/ CloseRead(r) PROVE SaveInv'
  BY <1>4 DEF OpenPath, ReadSlot, CloseRead
<1>5. CASE UNCHANGED vars
  BY <1>5 DEF vars
<1> QED BY <1>1, <1>2, <1>3, <1>4, <1>5 DEF Next

LEMMA LoadStep == Exclusive /\ FileInv /\ [Next]_vars => LoadInv'
<1> SUFFICES ASSUME Exclusive, FileInv, [Next]_vars PROVE LoadInv'
  OBVIOUS
<1> USE FileConstants, FileTypes DEF FileInv, FileTypeOK, names, writing, loading
<1>k. \A f : Readable(f) => content'[f] = content[f]
  BY ReadableKept
<1>p. path # Nothing => Readable(path) /\ Whole(path) /\ path # tmp
  BY DEF Readable, LoadInv
<1>r. \A r \in Readers : rfd[r] # Nothing => Readable(rfd[r]) /\ Whole(rfd[r]) /\ rfd[r] # tmp
  BY DEF Readable, LoadInv
<1>1. ASSUME NEW w \in Writers, OpenTmp(w) \/ Write(w) \/ Fail(w) PROVE LoadInv'
  <2>1. UNCHANGED <<path, rfd, rpos, got>>
    BY <1>1 DEF OpenTmp, Write, Fail
  <2>2. \A f : Readable(f) /\ f # tmp => f # tmp'
    BY <1>1 DEF OpenTmp, Write, Fail, Free, Readable
  <2> QED BY <1>k, <1>p, <1>r, <2>1, <2>2 DEF LoadInv, Whole
<1>2. ASSUME NEW w \in Writers, Rename(w) PROVE LoadInv'
  <2>1. /\ path' = tmp /\ tmp' = Nothing /\ tmp # Nothing
        /\ saving[w] \in Values /\ wpos[w] = Size[saving[w]]
        /\ UNCHANGED <<content, rfd, rpos, got>>
    BY <1>2 DEF Rename
  <2>2. content[tmp] = File(saving[w])
    BY <2>1 DEF SaveInv
  <2> QED BY <2>1, <2>2 DEF LoadInv, Whole
<1>3. ASSUME NEW r \in Readers, OpenPath(r) PROVE LoadInv'
  <2>1. /\ path # Nothing /\ rfd' = [rfd EXCEPT ![r] = path]
        /\ UNCHANGED <<path, tmp, content, rpos, got>>
        /\ rfd[r] = Nothing
    BY <1>3 DEF OpenPath
  <2>2. \A i \in Slots : got[r][i] = IF i <= rpos[r] THEN content[path][i] ELSE Nothing
    BY <2>1 DEF LoadInv, Blank, Slots
  <2> QED BY <1>p, <2>1, <2>2 DEF LoadInv, Whole
<1>4. ASSUME NEW r \in Readers, ReadSlot(r) PROVE LoadInv'
  <2> DEFINE n == rpos[r] + 1
  <2>1. /\ rfd[r] # Nothing /\ got' = [got EXCEPT ![r][n] = content[rfd[r]][n]]
        /\ rpos' = [rpos EXCEPT ![r] = n]
        /\ UNCHANGED <<path, tmp, content, rfd>>
    BY <1>4 DEF ReadSlot
  <2>2. n \in Nat /\ rpos[r] \in Nat /\ got[r] \in Files
    OBVIOUS
  <2>3. \A i \in Slots : got'[r][i] = IF i <= n THEN content[rfd[r]][i] ELSE Nothing
    BY <2>1, <2>2 DEF LoadInv, Slots, Files
  <2>4. rpos'[r] = n /\ \A s \in Readers : s # r => rpos'[s] = rpos[s] /\ got'[s] = got[s]
    BY <2>1
  <2> HIDE DEF n
  <2> QED BY <1>p, <1>r, <2>1, <2>3, <2>4 DEF LoadInv, Whole
<1>5. ASSUME NEW r \in Readers, CloseRead(r) PROVE LoadInv'
  BY <1>5 DEF CloseRead, LoadInv, Whole
<1>6. CASE UNCHANGED vars
  BY <1>6 DEF vars, LoadInv, Whole
<1> QED BY <1>1, <1>2, <1>3, <1>4, <1>5, <1>6 DEF Next

LEMMA FileInvariant == ASSUME Exclusive PROVE Spec => []FileInv
<1>1. FileInv /\ [Next]_vars => FileInv'
  BY TypeStep, SaveStep, LoadStep DEF FileInv
<1> QED BY <1>1, InitInv, PTL DEF Spec

\* A command or the daemon never reads a torn or mixed registry (registry.go, Save
\* and Load; routes.go, rebuildFromFile), if saves do not overlap.
THEOREM LoadsAreWhole ==
  ASSUME Exclusive
  PROVE  Spec => []ReadsWhole
<1>1. FileInv => ReadsWhole
  <2> SUFFICES ASSUME FileInv, NEW r \in Readers, rfd[r] # Nothing, AtEnd(r)
               PROVE  \E v \in Values : got[r] = File(v)
    BY DEF ReadsWhole
  <2>1. PICK v \in Values : content[rfd[r]] = File(v)
    BY DEF FileInv, LoadInv, Whole
  <2>2. got[r] \in Files /\ content[rfd[r]] \in Files
    BY DEF FileInv, FileTypeOK
  <2>3. \A i \in Slots : got[r][i] = content[rfd[r]][i]
    <3>1. rpos[r] \in Nat /\ \A i \in Slots : i \in Nat
      BY FileConstants DEF FileInv, FileTypeOK, Slots
    <3> QED BY <3>1 DEF FileInv, LoadInv, AtEnd
  <2>4. got[r] = content[rfd[r]]
    <3> HIDE <2>1
    <3> QED BY <2>2, <2>3 DEF Files
  <2> QED BY <2>1, <2>4
<1> QED BY <1>1, FileInvariant, PTL

-----------------------------------------------------------------------------
(* The refinement: every step is one of AtomicFile or none.                *)

LEMMA HeldFile == \A v \in Values : Held(File(v)) = v
BY FileOne DEF Held

LEMMA HeldValue == \A bytes : Held(bytes) \in Values \cup {Nothing}
BY DEF Held

Seen == [r \in Readers |-> ValueOf(rfd[r])]

LEMMA MapsInit == Init => Atomic!Init
<1> SUFFICES ASSUME Init PROVE Atomic!Init
  OBVIOUS
<1>1. ValueOf(path) \in Values \cup {Nothing}
  BY HeldValue DEF ValueOf
<1>2. \A r \in Readers : ValueOf(rfd[r]) = Nothing
  BY DEF Init, ValueOf
<1> QED BY <1>1, <1>2 DEF Init, Atomic!Init

LEMMA MapsStep ==
  Exclusive /\ FileInv /\ [Next]_vars => [Atomic!Next]_(Atomic!vars)
<1> SUFFICES ASSUME Exclusive, FileInv, [Next]_vars PROVE [Atomic!Next]_(Atomic!vars)
  OBVIOUS
<1> USE DEF names, writing, loading
<1>k. \A f : Readable(f) => content'[f] = content[f]
  BY ReadableKept
<1>p. path' = path => ValueOf(path)' = ValueOf(path)
  <2>1. path # Nothing => content'[path] = content[path]
    BY <1>k DEF Readable, FileInv, FileTypeOK
  <2> QED BY <2>1 DEF ValueOf
<1>r. ASSUME NEW r \in Readers, rfd'[r] = rfd[r]
      PROVE  ValueOf(rfd[r])' = ValueOf(rfd[r])
  <2>1. rfd[r] # Nothing => content'[rfd[r]] = content[rfd[r]]
    BY <1>k DEF Readable, FileInv, FileTypeOK
  <2> QED BY <1>r, <2>1 DEF ValueOf
<1>s. rfd' = rfd => Seen' = Seen
  BY <1>r DEF Seen
<1>1. ASSUME NEW w \in Writers, OpenTmp(w) PROVE Atomic!Begin(w)
  BY <1>1, <1>p, <1>s DEF OpenTmp, Atomic!Begin, Seen
<1>2. ASSUME NEW w \in Writers, Write(w) PROVE UNCHANGED Atomic!vars
  BY <1>2, <1>p, <1>s DEF Write, Atomic!vars, Seen
<1>3. ASSUME NEW w \in Writers, Rename(w) PROVE Atomic!Commit(w)
  <2>1. /\ path' = tmp /\ tmp # Nothing /\ saving[w] \in Values
        /\ saving[w] # Nothing /\ wpos[w] = Size[saving[w]]
        /\ content' = content /\ rfd' = rfd
    BY <1>3 DEF Rename, FileInv, FileTypeOK
  <2>2. content'[path'] = File(saving[w])
    BY <2>1, FileTypes DEF FileInv, SaveInv
  <2>3. ValueOf(path)' = saving[w]
    BY <2>1, <2>2, HeldFile DEF ValueOf
  <2> QED BY <1>3, <1>s, <2>1, <2>3 DEF Rename, StopSaving, Atomic!Commit, Seen
<1>4. ASSUME NEW w \in Writers, Fail(w) PROVE Atomic!Abandon(w)
  BY <1>4, <1>p, <1>s DEF Fail, StopSaving, Atomic!Abandon, Seen
<1>5. ASSUME NEW r \in Readers, OpenPath(r) PROVE Atomic!Read(r)
  <2>1. /\ rfd[r] = Nothing /\ rfd' = [rfd EXCEPT ![r] = path]
        /\ UNCHANGED <<path, content, saving>>
    BY <1>5 DEF OpenPath
  <2>2. Seen[r] = Nothing
    BY <2>1 DEF Seen, ValueOf
  <2>3. Seen' = [Seen EXCEPT ![r] = ValueOf(path)]
    BY <2>1 DEF Seen, ValueOf, FileInv, FileTypeOK
  <2> QED BY <1>p, <2>1, <2>2, <2>3 DEF Atomic!Read, Seen
<1>6. ASSUME NEW r \in Readers, ReadSlot(r) PROVE UNCHANGED Atomic!vars
  BY <1>6, <1>p, <1>s DEF ReadSlot, Atomic!vars, Seen
<1>7. ASSUME NEW r \in Readers, CloseRead(r) PROVE Atomic!Forget(r)
  <2>1. /\ rfd' = [rfd EXCEPT ![r] = Nothing]
        /\ UNCHANGED <<path, content, saving>>
    BY <1>7 DEF CloseRead
  <2>2. Seen' = [Seen EXCEPT ![r] = Nothing]
    BY <2>1 DEF Seen, ValueOf, FileInv, FileTypeOK
  <2> QED BY <1>p, <2>1, <2>2 DEF Atomic!Forget, Seen
<1>8. CASE UNCHANGED vars
  BY <1>8, <1>p, <1>s DEF vars, Atomic!vars, Seen
<1> QED BY <1>1, <1>2, <1>3, <1>4, <1>5, <1>6, <1>7, <1>8 DEF Next, Atomic!Next

\* If saves do not overlap, registry.json behaves like one value that saves replace
\* at one moment or not at all, though processes are killed at any point of a save
\* and readers read while the file is replaced (registry.go, Save and Load).
THEOREM SavesAreAtomic ==
  ASSUME Exclusive
  PROVE  Spec => AtomicSaves
<1>1. FileInv /\ [Next]_vars => [Atomic!Next]_(Atomic!vars)
  BY MapsStep
<1> QED BY <1>1, MapsInit, FileInvariant, PTL DEF Spec, AtomicSaves, Atomic!Spec
=============================================================================
