---------------------------- MODULE RegistryFile ----------------------------
(***************************************************************************)
(* How a registry gets onto the disk and back (registry.go Save and Load,  *)
(* the daemon's rebuildFromFile; tunnels.json is written and read the same *)
(* way, tunnel/state.go): a save truncates or creates <path>.tmp, the same *)
(* name in every process, writes its bytes and renames it to <path>; a     *)
(* load opens <path> and reads until the end of the file.  Each of these   *)
(* system calls is a step, and a process may be killed between any two.    *)
(*                                                                         *)
(* A file is a number of slots, blocks of bytes; a saved value fills the   *)
(* first Size[value] of them.  Bytes stay in the file a process has opened,*)
(* also when its name goes to another file or nowhere.                     *)
(***************************************************************************)
EXTENDS Naturals

CONSTANTS
  Writers,     \* processes that save
  Readers,     \* processes that load
  Values,      \* the registries that are saved
  Size,        \* value -> how many slots it takes
  MaxSize,     \* the slots of a file
  Inodes,      \* the files there may be at one time
  Exclusive,   \* no two saves overlap
  Nothing      \* no file, no value; a slot past the end of the file

Slots == 1 .. MaxSize

ASSUME FileConstants ==
  /\ MaxSize \in Nat \ {0}
  /\ Size \in [Values -> Slots]
  /\ Nothing \notin Values \cup Inodes \cup (Values \X Slots)

VARIABLES
  path, tmp,   \* the files the two names denote
  content,     \* file -> slot -> bytes
  saving,      \* writer -> the value it saves
  wfd, wpos,   \* writer -> the file it has open, the slots it has written
  rfd, rpos,   \* reader -> the file it has open, the slots it has read
  got          \* reader -> the bytes it has read

names   == <<path, tmp, content>>
writing == <<saving, wfd, wpos>>
loading == <<rfd, rpos, got>>
vars    == <<names, writing, loading>>

\* The bytes of a file that holds exactly v.
File(v) == [i \in Slots |-> IF i <= Size[v] THEN <<v, i>> ELSE Nothing]
Blank   == [i \in Slots |-> Nothing]

\* A file nobody can reach.
Free(f) ==
  /\ f \notin {path, tmp}
  /\ \A w \in Writers : wfd[w] # f
  /\ \A r \in Readers : rfd[r] # f

-----------------------------------------------------------------------------
(* Save: os.WriteFile(tmp), os.Rename(tmp, path).                          *)

\* Mutant of OpenTmp: what the file holds is not cut off.
OpenTmpKeeping(w) ==
  /\ saving[w] = Nothing
  /\ Exclusive => \A u \in Writers : saving[u] = Nothing
  /\ \E v \in Values, f \in Inodes :
       /\ IF tmp # Nothing THEN f = tmp ELSE Free(f)
       /\ tmp' = f
       /\ content' = IF tmp = Nothing THEN [content EXCEPT ![f] = Blank] ELSE content
       /\ saving' = [saving EXCEPT ![w] = v]
       /\ wfd' = [wfd EXCEPT ![w] = f]
  /\ wpos' = [wpos EXCEPT ![w] = 0]
  /\ UNCHANGED <<path, loading>>

\* Mutant of OpenTmp: the registry file itself is opened.
OpenTmpInPlace(w) ==
  /\ saving[w] = Nothing
  /\ Exclusive => \A u \in Writers : saving[u] = Nothing
  /\ \E v \in Values, f \in Inodes :
       /\ IF path # Nothing THEN f = path ELSE Free(f)
       /\ tmp' = f
       /\ content' = [content EXCEPT ![f] = Blank]
       /\ saving' = [saving EXCEPT ![w] = v]
       /\ wfd' = [wfd EXCEPT ![w] = f]
  /\ wpos' = [wpos EXCEPT ![w] = 0]
  /\ UNCHANGED <<path, loading>>

\* Open <path>.tmp: an existing file is truncated, else a new one is created.
OpenTmp(w) ==
  /\ saving[w] = Nothing
  /\ Exclusive => \A u \in Writers : saving[u] = Nothing
  /\ \E v \in Values, f \in Inodes :
       /\ IF tmp # Nothing THEN f = tmp ELSE Free(f)
       /\ tmp' = f
       /\ content' = [content EXCEPT ![f] = Blank]
       /\ saving' = [saving EXCEPT ![w] = v]
       /\ wfd' = [wfd EXCEPT ![w] = f]
  /\ wpos' = [wpos EXCEPT ![w] = 0]
  /\ UNCHANGED <<path, loading>>

Write(w) ==
  /\ saving[w] # Nothing
  /\ wpos[w] < Size[saving[w]]
  /\ content' = [content EXCEPT ![wfd[w]][wpos[w] + 1] = <<saving[w], wpos[w] + 1>>]
  /\ wpos' = [wpos EXCEPT ![w] = @ + 1]
  /\ UNCHANGED <<path, tmp, saving, wfd, loading>>

StopSaving(w) ==
  /\ saving' = [saving EXCEPT ![w] = Nothing]
  /\ wfd' = [wfd EXCEPT ![w] = Nothing]
  /\ wpos' = [wpos EXCEPT ![w] = 0]

Rename(w) ==
  /\ saving[w] # Nothing
  /\ wpos[w] = Size[saving[w]]
  /\ tmp # Nothing
  /\ path' = tmp /\ tmp' = Nothing
  /\ StopSaving(w)
  /\ UNCHANGED <<content, loading>>

\* A write or the rename fails (there may be nothing left to rename), or the
\* process is killed; <path>.tmp stays as it is.
Fail(w) ==
  /\ saving[w] # Nothing
  /\ StopSaving(w)
  /\ UNCHANGED <<names, loading>>

-----------------------------------------------------------------------------
(* Load: os.ReadFile(path); without the file there is nothing to read.     *)

OpenPath(r) ==
  /\ rfd[r] = Nothing
  /\ path # Nothing
  /\ rfd' = [rfd EXCEPT ![r] = path]
  /\ UNCHANGED <<names, writing, rpos, got>>

AtEnd(r) == \A i \in Slots : i > rpos[r] => content[rfd[r]][i] = Nothing

ReadSlot(r) ==
  /\ rfd[r] # Nothing
  /\ ~AtEnd(r)
  /\ got' = [got EXCEPT ![r][rpos[r] + 1] = content[rfd[r]][rpos[r] + 1]]
  /\ rpos' = [rpos EXCEPT ![r] = @ + 1]
  /\ UNCHANGED <<names, writing, rfd>>

\* The end of the file, or of the process.
CloseRead(r) ==
  /\ rfd[r] # Nothing
  /\ rfd' = [rfd EXCEPT ![r] = Nothing]
  /\ rpos' = [rpos EXCEPT ![r] = 0]
  /\ got' = [got EXCEPT ![r] = Blank]
  /\ UNCHANGED <<names, writing>>

-----------------------------------------------------------------------------
Init ==
  /\ tmp = Nothing
  /\ path \in Inodes \cup {Nothing}
  /\ content \in [Inodes -> {Blank} \cup {File(v) : v \in Values}]
  /\ path # Nothing => content[path] # Blank
  /\ \A f \in Inodes : f # path => content[f] = Blank
  /\ saving = [w \in Writers |-> Nothing]
  /\ wfd = [w \in Writers |-> Nothing] /\ wpos = [w \in Writers |-> 0]
  /\ rfd = [r \in Readers |-> Nothing] /\ rpos = [r \in Readers |-> 0]
  /\ got = [r \in Readers |-> Blank]

Next ==
  \/ \E w \in Writers : OpenTmp(w) \/ Write(w) \/ Rename(w) \/ Fail(w)
  \/ \E r \in Readers : OpenPath(r) \/ ReadSlot(r) \/ CloseRead(r)

Spec == Init /\ [][Next]_vars

-----------------------------------------------------------------------------
Files == [Slots -> (Values \X Slots) \cup {Nothing}]

FileTypeOK ==
  /\ path \in Inodes \cup {Nothing} /\ tmp \in Inodes \cup {Nothing}
  /\ content \in [Inodes -> Files]
  /\ saving \in [Writers -> Values \cup {Nothing}]
  /\ wfd \in [Writers -> Inodes \cup {Nothing}] /\ wpos \in [Writers -> 0 .. MaxSize]
  /\ rfd \in [Readers -> Inodes \cup {Nothing}] /\ rpos \in [Readers -> 0 .. MaxSize]
  /\ got \in [Readers -> Files]

\* What is read to the end is a registry that one save wrote as a whole, also when
\* the file was replaced, or a save was killed half way, while it was read.
ReadsWhole ==
  \A r \in Readers : rfd[r] # Nothing /\ AtEnd(r) =>
    \E v \in Values : got[r] = File(v)

\* The value that some bytes are, Nothing when they are none as a whole.
Held(bytes) ==
  IF \E v \in Values : bytes = File(v) THEN CHOOSE v \in Values : bytes = File(v) ELSE Nothing
ValueOf(f) == IF f = Nothing THEN Nothing ELSE Held(content[f])

\* A save is pending from its first system call to the rename; a load sees the
\* value the name denotes when it is opened.
Atomic == INSTANCE AtomicFile WITH
  value   <- ValueOf(path),
  pending <- saving,
  seen    <- [r \in Readers |-> ValueOf(rfd[r])]

\* Saves that do not overlap are atomic, whatever processes are killed.
AtomicSaves == Atomic!Spec
=============================================================================
