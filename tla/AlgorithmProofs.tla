-------------------------- MODULE AlgorithmProofs ---------------------------
(***************************************************************************)
(* Proofs about what one call computes: Allocate (AllocatorLoop) and the   *)
(* managed block of an .env file (Dotenv, EnvFiles).                       *)
(***************************************************************************)
EXTENDS AllocatorLoop, EnvFiles, SequenceTheorems, FiniteSetTheorems, WellFoundedInduction,
        TLAPS

-----------------------------------------------------------------------------
(* Allocate, for any port range, reserved ports, used ports and busy ports. *)

Taken == used \cup ReservedPorts \cup ever

\* The loop invariant: the ports between the hash and the port looked at were all
\* unavailable when it was their turn.
LoopInv ==
  /\ LoopTypeOK
  /\ busy \subseteq ever
  /\ pc = "preferred" => port = start
  /\ pc = "probe" =>
       /\ port \in AllocPorts
       /\ preferred > 0 => preferred \in Taken
       /\ \A q \in AllocPorts : Steps(start, q) < Steps(start, port) => q \in Taken
  /\ pc = "done" =>
       /\ port \notin used \cup ReservedPorts \cup busy
       /\ \/ preferred > 0 /\ port = preferred
          \/ /\ port \in AllocPorts
             /\ preferred > 0 => preferred \in Taken
             /\ \A q \in AllocPorts : Steps(start, q) < Steps(start, port) => q \in Taken
  /\ pc = "failed" =>
       /\ AllocPorts \subseteq Taken
       /\ preferred > 0 => preferred \in Taken

\* Steps counts the ports from the hash: one more for the next port, unless the
\* probe has come round.
LEMMA StepsNext ==
  ASSUME NEW s \in AllocPorts, NEW p \in AllocPorts
  PROVE  /\ Following(p) \in AllocPorts
         /\ \A q \in AllocPorts : Steps(s, q) \in Nat
         /\ Following(p) # s =>
              \A q \in AllocPorts :
                Steps(s, q) < Steps(s, Following(p)) => q = p \/ Steps(s, q) < Steps(s, p)
         /\ Following(p) = s =>
              \A q \in AllocPorts : q = p \/ Steps(s, q) < Steps(s, p)
BY PortBounds DEF Following, Steps, AllocPorts, PortRange

\* No port is less than no step from the hash.
LEMMA StepsZero ==
  ASSUME NEW s \in AllocPorts
  PROVE  \A q \in AllocPorts : ~(Steps(s, q) < Steps(s, s))
BY PortBounds DEF Steps, AllocPorts, PortRange

\* The loop invariant holds at first ...
LEMMA LoopInvInit == LoopInit => LoopInv
BY PortBounds, LoopConstants DEF LoopInit, LoopInv, LoopTypeOK, AllocPorts

\* ... and every step keeps it, whatever other programs open and close.
LEMMA LoopInvStep == LoopInv /\ [LoopNext]_loopVars => LoopInv'
<1> SUFFICES ASSUME LoopInv, [LoopNext]_loopVars PROVE LoopInv'
  OBVIOUS
<1> USE DEF LoopInv, LoopTypeOK, Taken
<1>1. CASE TryPreferred
  <2>1. start \in Nat /\ preferred \in Nat
    BY PortBounds, LoopConstants DEF AllocPorts
  <2>2. CASE preferred > 0 /\ ~Unavailable(preferred)
    BY <1>1, <2>1, <2>2 DEF TryPreferred, Unavailable, Inputs
  <2>3. CASE ~(preferred > 0 /\ ~Unavailable(preferred))
    BY <1>1, <2>1, <2>3, StepsZero DEF TryPreferred, Unavailable, Inputs
  <2> QED BY <2>2, <2>3
<1>2. CASE Advance
  <2>1. port \in AllocPorts /\ port \in Taken
    BY <1>2 DEF Advance, Unavailable
  <2>2. CASE Following(port) = start
    BY <1>2, <2>1, <2>2, StepsNext DEF Advance, Inputs
  <2>3. CASE Following(port) # start
    BY <1>2, <2>1, <2>3, StepsNext DEF Advance, Inputs
  <2> QED BY <2>2, <2>3
<1>3. CASE Take
  BY <1>3 DEF Take, Unavailable, Inputs
<1>4. CASE OthersMove
  BY <1>4, LoopConstants DEF OthersMove, Returned, Inputs
<1>5. CASE UNCHANGED loopVars
  BY <1>5 DEF loopVars
<1> QED BY <1>1, <1>2, <1>3, <1>4, <1>5 DEF LoopNext, Step

LEMMA LoopInvariant == LoopSpec => []LoopInv
BY LoopInvInit, LoopInvStep, PTL DEF LoopSpec

\* Allocate passes over no port that was free all the time, and reports that none
\* is left only when none was (allocator.go, Allocate).
THEOREM AllocateSkipsNothing == LoopSpec => []NothingSkipped
<1>1. LoopInv => NothingSkipped
  BY DEF LoopInv, NothingSkipped, Taken
<1> QED BY <1>1, LoopInvariant, PTL

\* With the busy ports at rest, the loop computes IsAllocated, which is what the
\* commands of OutportCli take Allocate for.
THEOREM AllocateMeetsItsPromise == LoopSpec => []MeetsItsPromise
<1>1. LoopInv => MeetsItsPromise
  <2> SUFFICES ASSUME LoopInv, ever = busy PROVE
        /\ pc = "done" => IsAllocated(port, start, preferred, used, busy)
        /\ pc = "failed" => \A p \in AllocPorts \cup {preferred} :
                              ~IsAllocated(p, start, preferred, used, busy)
    BY DEF MeetsItsPromise
  <2>1. start \in AllocPorts /\ preferred \in Nat
    BY LoopConstants DEF LoopInv, LoopTypeOK
  <2>2. CASE pc = "done"
    <3>1. CASE preferred > 0 /\ port = preferred
      BY <2>2, <3>1 DEF LoopInv, IsAllocated
    <3>2. CASE ~(preferred > 0 /\ port = preferred)
      <4>1. /\ port \in AllocPorts /\ port \notin used \cup ReservedPorts \cup busy
            /\ preferred > 0 => preferred \in used \cup ReservedPorts \cup busy
            /\ \A q \in AllocPorts :
                 Steps(start, q) < Steps(start, port) => q \in used \cup ReservedPorts \cup busy
        BY <2>2, <3>2 DEF LoopInv, Taken
      <4>2. \A q \in AllocPorts : Steps(start, q) \in Int
        BY <2>1, PortBounds DEF Steps, AllocPorts, PortRange
      <4> QED BY <2>2, <4>1, <4>2 DEF IsAllocated, IsFirstFree
    <3> QED BY <3>1, <3>2
  <2>3. CASE pc = "failed"
    BY <2>3 DEF LoopInv, Taken, IsAllocated, IsFirstFree
  <2> QED BY <2>2, <2>3
<1> QED BY <1>1, LoopInvariant, PTL

-----------------------------------------------------------------------------
(* Induction, over sets: every nonempty set of natural numbers has a least  *)
(* element.                                                                *)

\* The well-ordering of the natural numbers.
LEMMA Least ==
  ASSUME NEW T \in SUBSET Nat, T # {}
  PROVE  \E m \in T : \A k \in T : m <= k
<1>1. PICK m \in T : \A k \in T : <<k, m>> \notin OpToRel(<, Nat)
  BY WFMin, NatLessThanWellFounded, Zenon
<1>2. \A k \in T : ~(k < m)
  BY <1>1, Zenon DEF OpToRel
<1> QED BY <1>2

\* Induction on a natural number.
LEMMA Induct ==
  ASSUME NEW T, 0 \in T, \A n \in Nat : n \in T => n + 1 \in T
  PROVE  Nat \subseteq T
<1> DEFINE Rest == Nat \ T
<1> SUFFICES ASSUME Rest # {} PROVE FALSE
  OBVIOUS
<1>1. PICK m \in Rest : \A k \in Rest : m <= k
  <2>1. Rest \in SUBSET Nat
    OBVIOUS
  <2> HIDE DEF Rest
  <2> QED BY <2>1, Least
<1>2. m \in Nat /\ m # 0 /\ m - 1 \in Nat /\ m - 1 \notin Rest
  BY <1>1
<1> QED BY <1>1, <1>2

\* Induction on a sequence, grown at its end.
LEMMA SeqInduct ==
  ASSUME NEW S, NEW P, <<>> \in P,
         \A s \in Seq(S), e \in S : s \in P => Append(s, e) \in P
  PROVE  Seq(S) \subseteq P
<1> DEFINE T == {n \in Nat : \A s \in Seq(S) : Len(s) = n => s \in P}
<1>1. 0 \in T
  BY EmptySeq
<1>2. ASSUME NEW n \in Nat, n \in T PROVE n + 1 \in T
  <2> SUFFICES ASSUME NEW s \in Seq(S), Len(s) = n + 1 PROVE s \in P
    OBVIOUS
  <2>1. s # <<>>
    BY EmptySeq
  <2>2. PICK r \in Seq(S), e \in S : s = Append(r, e)
    BY <2>1, SequenceEmptyOrAppend, Zenon
  <2>3. Len(r) = n
    BY <2>2, AppendProperties, LenProperties
  <2> QED BY <1>2, <2>2, <2>3
<1>3. Nat \subseteq T
  <2> HIDE DEF T
  <2> QED BY <1>1, <1>2, Induct
<1>4. \A s \in Seq(S) : Len(s) \in Nat
  BY LenProperties
<1> QED BY <1>3, <1>4

-----------------------------------------------------------------------------
(* Keep.                                                                   *)

\* k is the function that the recursion of Keep defines, up to n.
KeepsTo(s, S, n, k) ==
  k = [i \in 0 .. n |->
         IF i = 0 THEN <<>> ELSE IF s[i] \in S THEN Append(k[i - 1], s[i]) ELSE k[i - 1]]

\* The recursion defines one.
LEMMA KeepExists ==
  ASSUME NEW s, NEW S
  PROVE  \A n \in Nat : \E k : KeepsTo(s, S, n, k)
<1> DEFINE T == {n \in Nat : \E k : KeepsTo(s, S, n, k)}
<1>1. 0 \in T
  <2>1. KeepsTo(s, S, 0, [i \in 0 .. 0 |-> <<>>])
    BY DEF KeepsTo
  <2> QED BY <2>1
<1>2. ASSUME NEW n \in Nat, n \in T PROVE n + 1 \in T
  <2>1. PICK k : KeepsTo(s, S, n, k)
    BY <1>2
  <2> DEFINE m    == n + 1
             next == IF s[m] \in S THEN Append(k[m - 1], s[m]) ELSE k[m - 1]
             more == [i \in 0 .. m |-> IF i = m THEN next ELSE k[i]]
  <2>2. \A i \in 0 .. n : k[i] =
          IF i = 0 THEN <<>> ELSE IF s[i] \in S THEN Append(k[i - 1], s[i]) ELSE k[i - 1]
    BY <2>1 DEF KeepsTo
  <2>3. \A i \in 0 .. m : more[i] =
          IF i = 0 THEN <<>> ELSE IF s[i] \in S THEN Append(more[i - 1], s[i]) ELSE more[i - 1]
    BY <2>2
  <2>4. KeepsTo(s, S, m, more)
    BY <2>3 DEF KeepsTo
  <2> QED BY <2>4
<1> HIDE DEF T
<1>3. Nat \subseteq T
  BY <1>1, <1>2, Induct
<1> QED BY <1>3 DEF T

\* Keep is the last value of such a function.
LEMMA KeepDef ==
  ASSUME NEW s, NEW S, Len(s) \in Nat
  PROVE  \E k : KeepsTo(s, S, Len(s), k) /\ Keep(s, S) = k[Len(s)]
<1> DEFINE kk == CHOOSE k : KeepsTo(s, S, Len(s), k)
<1>1. KeepsTo(s, S, Len(s), kk)
  BY KeepExists, Zenon
<1>2. Keep(s, S) = kk[Len(s)]
  BY Zenon DEF Keep, KeepsTo
<1> QED BY <1>1, <1>2, Zenon

\* Keep on the empty sequence ...
LEMMA KeepEmpty == \A S : Keep(<<>>, S) = <<>>
<1> SUFFICES ASSUME NEW S PROVE Keep(<<>>, S) = <<>>
  OBVIOUS
<1>1. Len(<<>>) = 0
  BY EmptySeq
<1>2. PICK k : KeepsTo(<<>>, S, 0, k) /\ Keep(<<>>, S) = k[0]
  BY <1>1, KeepDef
<1> QED BY <1>2 DEF KeepsTo

\* ... and on a longer one: with these two, Keep is what its recursion says.
LEMMA KeepAppend ==
  ASSUME NEW T, NEW s \in Seq(T), NEW e \in T, NEW S
  PROVE  Keep(Append(s, e), S) = IF e \in S THEN Append(Keep(s, S), e) ELSE Keep(s, S)
<1> DEFINE a == Append(s, e)
           n == Len(s)
<1>1. n \in Nat /\ Len(a) = n + 1 /\ a[n + 1] = e /\ \A i \in 1 .. n : a[i] = s[i]
  BY AppendProperties, LenProperties
<1> HIDE DEF a, n
<1>2. PICK k : KeepsTo(s, S, n, k) /\ Keep(s, S) = k[n]
  BY <1>1, KeepDef DEF n
<1>3. PICK l : KeepsTo(a, S, n + 1, l) /\ Keep(a, S) = l[n + 1]
  <2>1. Len(a) \in Nat
    BY <1>1
  <2>2. \E l : KeepsTo(a, S, Len(a), l) /\ Keep(a, S) = l[Len(a)]
    BY <2>1, KeepDef
  <2> QED BY <1>1, <2>2
<1>4. \A i \in 0 .. n : k[i] =
        IF i = 0 THEN <<>> ELSE IF s[i] \in S THEN Append(k[i - 1], s[i]) ELSE k[i - 1]
  BY <1>2 DEF KeepsTo
<1>5. \A i \in 0 .. n + 1 : l[i] =
        IF i = 0 THEN <<>> ELSE IF a[i] \in S THEN Append(l[i - 1], a[i]) ELSE l[i - 1]
  BY <1>3 DEF KeepsTo
<1> DEFINE Same == {i \in Nat : i <= n => k[i] = l[i]}
<1>6. 0 \in Same
  BY <1>1, <1>4, <1>5
<1>7. ASSUME NEW i \in Nat, i \in Same PROVE i + 1 \in Same
  <2> SUFFICES ASSUME i + 1 <= n PROVE k[i + 1] = l[i + 1]
    OBVIOUS
  <2>1. k[i] = l[i] /\ a[i + 1] = s[i + 1]
    BY <1>1, <1>7
  <2>2. k[i + 1] = IF s[i + 1] \in S THEN Append(k[i], s[i + 1]) ELSE k[i]
    BY <1>1, <1>4
  <2>3. l[i + 1] = IF a[i + 1] \in S THEN Append(l[i], a[i + 1]) ELSE l[i]
    BY <1>1, <1>5
  <2> QED BY <2>1, <2>2, <2>3
<1>8. n \in Same
  <2> HIDE DEF Same
  <2>1. Nat \subseteq Same
    BY <1>6, <1>7, Induct
  <2> QED BY <1>1, <2>1
<1>9. k[n] = l[n]
  BY <1>1, <1>8
<1>10. l[n + 1] = IF e \in S THEN Append(l[n], e) ELSE l[n]
  BY <1>1, <1>5
<1> QED BY <1>2, <1>3, <1>9, <1>10 DEF a

\* What Keep returns is made of kept elements ...
LEMMA KeepType ==
  ASSUME NEW T, NEW S
  PROVE  \A s \in Seq(T) : Keep(s, S) \in Seq(T \cap S)
<1> DEFINE P == {s \in Seq(T) : Keep(s, S) \in Seq(T \cap S)}
<1>1. <<>> \in P
  BY KeepEmpty, EmptySeq
<1>2. ASSUME NEW s \in Seq(T), NEW e \in T, s \in P PROVE Append(s, e) \in P
  <2>1. Append(s, e) \in Seq(T)
    BY AppendProperties
  <2>2. CASE e \in S
    <3>1. Append(Keep(s, S), e) \in Seq(T \cap S)
      BY <1>2, <2>2, AppendProperties
    <3>2. Keep(Append(s, e), S) = Append(Keep(s, S), e)
      BY <2>2, KeepAppend
    <3> QED BY <2>1, <3>1, <3>2
  <2>3. CASE e \notin S
    BY <1>2, <2>1, <2>3, KeepAppend
  <2> QED BY <2>2, <2>3
<1>3. Seq(T) \subseteq P
  <2> HIDE DEF P
  <2> QED BY <1>1, <1>2, SeqInduct
<1> QED BY <1>3

\* ... of the sequence.
LEMMA KeepSeq ==
  ASSUME NEW T, NEW S
  PROVE  \A s \in Seq(T) : Keep(s, S) \in Seq(T)
<1>1. \A q \in Seq(T \cap S) : q \in Seq(T)
  BY T \cap S \subseteq T, SeqMonotonic
<1> QED BY <1>1, KeepType

\* Appending to the second part appends to the whole.
LEMMA CatAppend ==
  ASSUME NEW T, NEW s \in Seq(T), NEW t \in Seq(T), NEW e \in T
  PROVE  s \o Append(t, e) = Append(s \o t, e)
<1>1. /\ Append(t, e) = t \o <<e>> /\ <<e>> \in Seq(T)
      /\ s \o t \in Seq(T) /\ Append(s \o t, e) = (s \o t) \o <<e>>
  BY AppendIsConcat, ConcatProperties
<1> QED BY <1>1, ConcatAssociative

\* Keep goes through concatenation ...
LEMMA KeepCat ==
  ASSUME NEW T, NEW S, NEW s \in Seq(T)
  PROVE  \A t \in Seq(T) : Keep(s \o t, S) = Keep(s, S) \o Keep(t, S)
<1> DEFINE P == {t \in Seq(T) : Keep(s \o t, S) = Keep(s, S) \o Keep(t, S)}
<1>0. Keep(s, S) \in Seq(T)
  BY KeepSeq
<1>1. <<>> \in P
  <2>1. s \o <<>> = s /\ Keep(s, S) \o <<>> = Keep(s, S)
    BY <1>0, ConcatEmptySeq
  <2> QED BY <2>1, KeepEmpty, EmptySeq
<1>2. ASSUME NEW t \in Seq(T), NEW e \in T, t \in P PROVE Append(t, e) \in P
  <2>1. /\ Append(t, e) \in Seq(T) /\ s \o t \in Seq(T) /\ s \o Append(t, e) = Append(s \o t, e)
    BY AppendProperties, ConcatProperties, CatAppend
  <2>2. Keep(t, S) \in Seq(T)
    BY KeepSeq
  <2>3. CASE e \in S
    <3>1. Keep(s \o Append(t, e), S) = Append(Keep(s, S) \o Keep(t, S), e)
      BY <1>2, <2>1, <2>3, KeepAppend
    <3>2. Keep(s, S) \o Append(Keep(t, S), e) = Append(Keep(s, S) \o Keep(t, S), e)
      BY <1>0, <2>2, CatAppend
    <3>3. Keep(Append(t, e), S) = Append(Keep(t, S), e)
      BY <2>3, KeepAppend
    <3> QED BY <2>1, <3>1, <3>2, <3>3
  <2>4. CASE e \notin S
    <3>1. Keep(s \o Append(t, e), S) = Keep(s \o t, S)
      BY <2>1, <2>4, KeepAppend
    <3>2. Keep(Append(t, e), S) = Keep(t, S)
      BY <2>4, KeepAppend
    <3> QED BY <1>2, <2>1, <3>1, <3>2
  <2> QED BY <2>3, <2>4
<1>3. Seq(T) \subseteq P
  <2> HIDE DEF P
  <2> QED BY <1>1, <1>2, SeqInduct
<1> QED BY <1>3

\* ... and twice Keep is Keep of the intersection.
LEMMA KeepKeep ==
  ASSUME NEW T, NEW A, NEW B
  PROVE  \A s \in Seq(T) : Keep(Keep(s, A), B) = Keep(s, A \cap B)
<1> DEFINE P == {s \in Seq(T) : Keep(Keep(s, A), B) = Keep(s, A \cap B)}
<1>1. <<>> \in P
  BY KeepEmpty, EmptySeq
<1>2. ASSUME NEW s \in Seq(T), NEW e \in T, s \in P PROVE Append(s, e) \in P
  <2>1. Append(s, e) \in Seq(T) /\ Keep(s, A) \in Seq(T)
    BY AppendProperties, KeepSeq
  <2>2. Keep(Append(s, e), A) = IF e \in A THEN Append(Keep(s, A), e) ELSE Keep(s, A)
    BY KeepAppend
  <2>3. Keep(Append(s, e), A \cap B)
          = IF e \in A \cap B THEN Append(Keep(s, A \cap B), e) ELSE Keep(s, A \cap B)
    BY KeepAppend, Zenon
  <2>4. Keep(Append(Keep(s, A), e), B)
          = IF e \in B THEN Append(Keep(Keep(s, A), B), e) ELSE Keep(Keep(s, A), B)
    BY <2>1, KeepAppend
  <2>5. CASE e \in A
    <3>1. Keep(Append(s, e), A) = Append(Keep(s, A), e)
      BY <2>2, <2>5
    <3>2. Keep(Keep(s, A), B) = Keep(s, A \cap B) /\ (e \in A \cap B <=> e \in B)
      BY <1>2, <2>5
    <3>3. Keep(Keep(Append(s, e), A), B) = Keep(Append(s, e), A \cap B)
      BY <2>3, <2>4, <3>1, <3>2, Zenon
    <3> QED BY <2>1, <3>3
  <2>6. CASE e \notin A
    BY <1>2, <2>1, <2>2, <2>3, <2>6
  <2> QED BY <2>5, <2>6
<1>3. Seq(T) \subseteq P
  <2> HIDE DEF P
  <2> QED BY <1>1, <1>2, SeqInduct
<1> QED BY <1>3

\* Keep changes nothing when all elements stay ...
LEMMA KeepAll ==
  ASSUME NEW T, NEW S, T \subseteq S
  PROVE  \A s \in Seq(T) : Keep(s, S) = s
<1> DEFINE P == {s \in Seq(T) : Keep(s, S) = s}
<1>1. <<>> \in P
  BY KeepEmpty, EmptySeq
<1>2. ASSUME NEW s \in Seq(T), NEW e \in T, s \in P PROVE Append(s, e) \in P
  <2>1. Append(s, e) \in Seq(T) /\ Keep(Append(s, e), S) = Append(Keep(s, S), e)
    BY AppendProperties, KeepAppend
  <2> QED BY <1>2, <2>1
<1>3. Seq(T) \subseteq P
  <2> HIDE DEF P
  <2> QED BY <1>1, <1>2, SeqInduct
<1> QED BY <1>3

\* ... and leaves nothing when none does.
LEMMA KeepNone ==
  ASSUME NEW T, NEW S, T \cap S = {}
  PROVE  \A s \in Seq(T) : Keep(s, S) = <<>>
<1> SUFFICES ASSUME NEW s \in Seq(T) PROVE Keep(s, S) = <<>>
  OBVIOUS
<1>1. Keep(s, S) \in Seq({})
  BY KeepType
<1>2. \A q \in Seq({}) : q = <<>>
  <2> SUFFICES ASSUME NEW q \in Seq({}), q # <<>> PROVE FALSE
    OBVIOUS
  <2>1. Head(q) \in {}
    BY HeadTailProperties
  <2> QED BY <2>1
<1> QED BY <1>1, <1>2

\* Only what S says of the elements that may occur matters.
LEMMA KeepSame ==
  ASSUME NEW T, NEW A, NEW B, T \cap A = T \cap B
  PROVE  \A s \in Seq(T) : Keep(s, A) = Keep(s, B)
<1> SUFFICES ASSUME NEW s \in Seq(T) PROVE Keep(s, A) = Keep(s, B)
  OBVIOUS
<1>1. Keep(s, T) = s
  BY KeepAll
<1>2. Keep(Keep(s, T), A) = Keep(s, T \cap A) /\ Keep(Keep(s, T), B) = Keep(s, T \cap B)
  BY KeepKeep
<1> QED BY <1>1, <1>2

\* A sequence is one of its own elements.
LEMMA InElements ==
  ASSUME NEW T, NEW s \in Seq(T)
  PROVE  s \in Seq(ToSet(s)) /\ ToSet(s) \subseteq T
<1>1. Len(s) \in Nat /\ DOMAIN s = 1 .. Len(s) /\ \A i \in 1 .. Len(s) : s[i] \in T
  BY LenProperties, ElementOfSeq
<1>2. \A i \in 1 .. Len(s) : s[i] \in ToSet(s)
  BY <1>1 DEF ToSet
<1>3. SubSeq(s, 1, Len(s)) \in Seq(ToSet(s))
  BY <1>1, <1>2, SubSeqProperties
<1>4. SubSeq(s, 1, Len(s)) = s
  BY SubSeqFull
<1> QED BY <1>1, <1>3, <1>4 DEF ToSet

\* Keep returns the one element that is kept when it occurs once.
LEMMA KeepOnce ==
  ASSUME NEW T, NEW S
  PROVE  \A s \in Seq(T) : \A i \in DOMAIN s :
           s[i] \in S /\ (\A j \in DOMAIN s : j # i => s[j] \notin S) => Keep(s, S) = <<s[i]>>
<1> DEFINE Only(s, i) == s[i] \in S /\ \A j \in DOMAIN s : j # i => s[j] \notin S
           P == {s \in Seq(T) : \A i \in DOMAIN s : Only(s, i) => Keep(s, S) = <<s[i]>>}
<1>1. <<>> \in P
  BY EmptySeq
<1>2. ASSUME NEW s \in Seq(T), NEW e \in T, s \in P PROVE Append(s, e) \in P
  <2> DEFINE a == Append(s, e)
             n == Len(s) + 1
  <2>1. /\ a \in Seq(T) /\ Len(s) \in Nat /\ DOMAIN s = 1 .. Len(s) /\ DOMAIN a = 1 .. n
        /\ a[n] = e /\ \A j \in 1 .. Len(s) : a[j] = s[j]
    BY AppendProperties, LenProperties
  <2>2. Keep(a, S) = IF e \in S THEN Append(Keep(s, S), e) ELSE Keep(s, S)
    BY KeepAppend
  <2> SUFFICES ASSUME NEW i \in DOMAIN a, Only(a, i) PROVE Keep(a, S) = <<a[i]>>
    BY <2>1
  <2> HIDE DEF a
  <2>3. CASE i = n
    <3>1. \A j \in DOMAIN s : s[j] \notin S
      BY <2>1, <2>3
    <3>2. ToSet(s) \cap S = {}
      BY <3>1 DEF ToSet
    <3>3. Keep(s, S) = <<>>
      BY <3>2, InElements, KeepNone
    <3>4. Append(<<>>, e) = <<e>>
      OBVIOUS
    <3> QED BY <2>1, <2>2, <2>3, <3>3, <3>4
  <2>4. CASE i # n
    <3>1. i \in DOMAIN s /\ e \notin S /\ a[i] = s[i]
      BY <2>1, <2>4
    <3>2. Only(s, i)
      BY <2>1, <3>1
    <3> QED BY <1>2, <2>2, <3>1, <3>2
  <2> QED BY <2>3, <2>4
<1>3. Seq(T) \subseteq P
  <2> HIDE DEF P
  <2> QED BY <1>1, <1>2, SeqInduct
<1> QED BY <1>3

\* No element twice.
Distinct(s) == \A i, j \in DOMAIN s : s[i] = s[j] => i = j

\* Keep loses no kept element and repeats none.
LEMMA KeepDistinct ==
  ASSUME NEW T, NEW S
  PROVE  \A s \in Seq(T) : /\ ToSet(Keep(s, S)) = ToSet(s) \cap S
                           /\ Distinct(s) => Distinct(Keep(s, S))
<1> DEFINE P == {s \in Seq(T) : /\ ToSet(Keep(s, S)) = ToSet(s) \cap S
                                /\ Distinct(s) => Distinct(Keep(s, S))}
<1>1. <<>> \in P
  <2>1. ToSet(<<>>) = {}
    BY EmptySeq DEF ToSet
  <2> QED BY <2>1, KeepEmpty, EmptySeq
<1>2. ASSUME NEW s \in Seq(T), NEW e \in T, s \in P PROVE Append(s, e) \in P
  <2>0. Append(s, e) \in Seq(T)
    BY AppendProperties
  <2>1. ASSUME NEW r \in Seq(T)
        PROVE  /\ ToSet(Append(r, e)) = ToSet(r) \cup {e}
               /\ Distinct(Append(r, e)) <=> Distinct(r) /\ e \notin ToSet(r)
    <3> DEFINE a == Append(r, e)
               n == Len(r) + 1
    <3>1. /\ Len(r) \in Nat /\ DOMAIN r = 1 .. Len(r) /\ DOMAIN a = 1 .. n
          /\ a[n] = e /\ \A j \in 1 .. Len(r) : a[j] = r[j]
      BY AppendProperties, LenProperties
    <3> HIDE DEF a
    <3>2. ToSet(a) = ToSet(r) \cup {e}
      BY <3>1 DEF ToSet
    <3>3. ASSUME Distinct(a) PROVE Distinct(r) /\ e \notin ToSet(r)
      BY <3>1, <3>3 DEF Distinct, ToSet
    <3>4. ASSUME Distinct(r), e \notin ToSet(r) PROVE Distinct(a)
      <4> SUFFICES ASSUME NEW i \in DOMAIN a, NEW j \in DOMAIN a, a[i] = a[j] PROVE i = j
        BY DEF Distinct
      <4>1. \A k \in 1 .. Len(r) : r[k] # e
        BY <3>1, <3>4 DEF ToSet
      <4>2. CASE i # n /\ j # n
        BY <3>1, <3>4, <4>2 DEF Distinct
      <4> QED BY <3>1, <4>1, <4>2
    <3>5. Distinct(a) <=> Distinct(r) /\ e \notin ToSet(r)
      BY <3>3, <3>4, Zenon
    <3> QED BY <3>2, <3>5, Zenon DEF a
  <2>2. Keep(s, S) \in Seq(T)
    BY KeepSeq
  <2>3. CASE e \in S
    <3>1. Keep(Append(s, e), S) = Append(Keep(s, S), e)
      BY <2>3, KeepAppend
    <3>2. ToSet(Keep(Append(s, e), S)) = ToSet(Append(s, e)) \cap S
      BY <1>2, <2>1, <2>2, <2>3, <3>1
    <3>3. ASSUME Distinct(Append(s, e)) PROVE Distinct(Keep(Append(s, e), S))
      <4>1. Distinct(Keep(s, S)) /\ e \notin ToSet(Keep(s, S))
        BY <1>2, <2>1, <3>3
      <4>2. Distinct(Append(Keep(s, S), e))
        BY <2>1, <2>2, <4>1
      <4> QED BY <3>1, <4>2
    <3> QED BY <2>0, <3>2, <3>3
  <2>4. CASE e \notin S
    <3>1. Keep(Append(s, e), S) = Keep(s, S)
      BY <2>4, KeepAppend
    <3> QED BY <1>2, <2>0, <2>1, <2>4, <3>1
  <2> QED BY <2>3, <2>4
<1>3. Seq(T) \subseteq P
  <2> HIDE DEF P
  <2> QED BY <1>1, <1>2, SeqInduct
<1> QED BY <1>3

\* The maximum of a nonempty set of positions.
LEMMA MaxIs ==
  ASSUME NEW n \in Nat, NEW S \in SUBSET (1 .. n), S # {}
  PROVE  Max(S) \in S /\ \A k \in S : k <= Max(S)
<1> DEFINE T == {n - k : k \in S}
<1>1. T \in SUBSET Nat /\ T # {}
  OBVIOUS
<1>2. PICK m \in T : \A k \in T : m <= k
  <2> HIDE DEF T
  <2> QED BY <1>1, Least
<1>3. PICK x \in S : m = n - x
  BY <1>2
<1>4. \A y \in S : n - x <= n - y
  BY <1>2, <1>3
<1>5. \A y \in S : x >= y
  BY <1>4
<1>6. Max(S) \in S /\ \A y \in S : Max(S) >= y
  BY <1>5, Zenon DEF Max
<1> QED BY <1>6

-----------------------------------------------------------------------------
(* Markers, and blank lines at the end.                                    *)

\* LastMark is the position of the last marker, 0 without one.
LEMMA LastMarkIs ==
  ASSUME NEW T, NEW s \in Seq(T), NEW m
  PROVE  /\ LastMark(s, m) \in 0 .. Len(s)
         /\ LastMark(s, m) # 0 => s[LastMark(s, m)] = m
         /\ \A i \in 1 .. Len(s) : s[i] = m => i <= LastMark(s, m)
<1>1. Len(s) \in Nat /\ DOMAIN s = 1 .. Len(s)
  BY LenProperties
<1>2. Marks(s, m) = {i \in 1 .. Len(s) : s[i] = m}
  BY <1>1 DEF Marks
<1>3. CASE Marks(s, m) = {}
  <2>1. LastMark(s, m) = 0
    BY <1>3 DEF LastMark
  <2> QED BY <1>1, <1>2, <1>3, <2>1
<1>4. CASE Marks(s, m) # {}
  <2>1. Marks(s, m) \in SUBSET (1 .. Len(s))
    BY <1>2
  <2>2. Max(Marks(s, m)) \in Marks(s, m) /\ \A k \in Marks(s, m) : k <= Max(Marks(s, m))
    BY <1>1, <1>4, <2>1, MaxIs
  <2>3. LastMark(s, m) = Max(Marks(s, m))
    BY <1>4 DEF LastMark
  <2> QED BY <1>1, <1>2, <2>2, <2>3
<1> QED BY <1>3, <1>4

\* What splitBlock returns is made of lines of the file.
LEMMA SplitSeqs ==
  ASSUME NEW T, NEW s \in Seq(T)
  PROVE  SplitBlock(s).before \in Seq(T) /\ SplitBlock(s).after \in Seq(T)
<1> DEFINE b == LastMark(s, BeginMarker)
           e == LastMark(s, EndMarker)
<1>1. /\ Len(s) \in Nat /\ <<>> \in Seq(T) /\ \A i \in 1 .. Len(s) : s[i] \in T
      /\ b \in 0 .. Len(s) /\ e \in 0 .. Len(s)
  BY LastMarkIs, LenProperties, ElementOfSeq, EmptySeq
<1>2. CASE b = 0 \/ e <= b
  <2>1. SplitBlock(s) = [before |-> s, after |-> <<>>]
    BY <1>2 DEF SplitBlock
  <2> QED BY <1>1, <2>1
<1>3. CASE ~(b = 0 \/ e <= b)
  <2>1. SplitBlock(s) = [before |-> SubSeq(s, 1, b - 1), after |-> SubSeq(s, e + 1, Len(s))]
    BY <1>3 DEF SplitBlock
  <2> HIDE DEF b, e
  <2>2. SubSeq(s, 1, b - 1) \in Seq(T)
    <3>1. \A i \in 1 .. b - 1 : s[i] \in T
      BY <1>1, <1>3
    <3> QED BY <1>1, <3>1, SubSeqProperties
  <2>3. SubSeq(s, e + 1, Len(s)) \in Seq(T)
    <3>1. \A i \in e + 1 .. Len(s) : s[i] \in T
      BY <1>1, <1>3
    <3> QED BY <1>1, <3>1, SubSeqProperties
  <2> QED BY <2>1, <2>2, <2>3
<1> QED BY <1>2, <1>3

\* Sequences of blank lines, and those that do not end with one.
Blanks == Seq({Blank})
EndsSolid(s) == s = <<>> \/ s[Len(s)] # Blank

\* What Trim returns, and that nothing else is like that.
LEMMA TrimIs ==
  ASSUME NEW T, NEW s \in Seq(T)
  PROVE  /\ Trim(s) \in Seq(T) /\ EndsSolid(Trim(s))
         /\ \E r \in Seq(T) : r \in Blanks /\ s = Trim(s) \o r
<1> DEFINE Solid == {i \in DOMAIN s : s[i] # Blank}
<1>1. Len(s) \in Nat /\ DOMAIN s = 1 .. Len(s) /\ \A i \in 1 .. Len(s) : s[i] \in T
  BY LenProperties, ElementOfSeq
<1>2. PICK k \in 0 .. Len(s) : /\ Trim(s) = SubSeq(s, 1, k)
                               /\ k # 0 => s[k] # Blank
                               /\ \A i \in 1 .. Len(s) : s[i] # Blank => i <= k
  <2>0. Trim(s) = SubSeq(s, 1, IF Solid = {} THEN 0 ELSE Max(Solid))
    BY Zenon DEF Trim
  <2>1. CASE Solid = {}
    BY <1>1, <2>0, <2>1
  <2>2. CASE Solid # {}
    <3>1. Solid \in SUBSET (1 .. Len(s))
      BY <1>1
    <3>2. Max(Solid) \in Solid /\ \A j \in Solid : j <= Max(Solid)
      <4> HIDE DEF Solid
      <4> QED BY <1>1, <2>2, <3>1, MaxIs
    <3>3. Trim(s) = SubSeq(s, 1, Max(Solid))
      BY <2>0, <2>2
    <3>4. /\ Max(Solid) \in 0 .. Len(s) /\ s[Max(Solid)] # Blank
          /\ \A i \in 1 .. Len(s) : s[i] # Blank => i <= Max(Solid)
      BY <1>1, <3>2
    <3> HIDE DEF Solid
    <3> QED BY <3>3, <3>4
  <2> QED BY <2>1, <2>2
<1> HIDE DEF Solid
<1>3. k \in Int /\ 0 <= k /\ k <= Len(s)
  BY <1>1, <1>2
<1>4. Trim(s) \in Seq(T) /\ Len(Trim(s)) = k /\ \A i \in 1 .. k : Trim(s)[i] = s[i]
  <2>1. \A i \in 1 .. k : s[i] \in T
    BY <1>1, <1>2
  <2> QED BY <1>1, <1>2, <1>3, <2>1, SubSeqProperties
<1>5. EndsSolid(Trim(s))
  <2>1. CASE k = 0
    BY <1>4, <2>1, EmptySeq DEF EndsSolid
  <2>2. CASE k # 0
    BY <1>2, <1>4, <2>2 DEF EndsSolid
  <2> QED BY <2>1, <2>2
<1>6. SubSeq(s, k + 1, Len(s)) \in Seq(T) /\ SubSeq(s, k + 1, Len(s)) \in Blanks
  <2>1. \A i \in k + 1 .. Len(s) : s[i] \in T /\ s[i] \in {Blank}
    BY <1>1, <1>2
  <2>2. k + 1 \in Int /\ Len(s) \in Int
    BY <1>1, <1>2
  <2> QED BY <2>1, <2>2, SubSeqProperties DEF Blanks
<1>7. SubSeq(s, 1, k) \o SubSeq(s, k + 1, Len(s)) = SubSeq(s, 1, Len(s))
  <2>1. 1 \in 1 .. Len(s) + 1 /\ k \in 1 - 1 .. Len(s) /\ Len(s) \in k .. Len(s)
    BY <1>1, <1>3
  <2> QED BY <2>1, ConcatAdjacentSubSeq
<1>8. SubSeq(s, 1, Len(s)) = s
  BY SubSeqFull
<1> QED BY <1>2, <1>4, <1>5, <1>6, <1>7, <1>8

\* Only the blank lines at the end are cut: Trim finds s in s followed by blanks.
LEMMA TrimOnly ==
  ASSUME NEW T, NEW s \in Seq(T), NEW r \in Seq(T), EndsSolid(s), r \in Blanks
  PROVE  Trim(s \o r) = s
<1> DEFINE a == s \o r
<1>1. /\ a \in Seq(T) /\ Len(s) \in Nat /\ Len(r) \in Nat /\ Len(a) = Len(s) + Len(r)
      /\ \A i \in 1 .. Len(a) : a[i] = IF i <= Len(s) THEN s[i] ELSE r[i - Len(s)]
      /\ \A i \in 1 .. Len(r) : r[i] = Blank
  <2>1. \A i \in 1 .. Len(r) : r[i] \in {Blank}
    BY ElementOfSeq DEF Blanks
  <2> QED BY <2>1, ConcatProperties, LenProperties
<1> HIDE DEF a
<1>2. PICK t \in Seq(T) : t \in Blanks /\ a = Trim(a) \o t
  BY <1>1, TrimIs
<1> DEFINE u == Trim(a)
<1>3. u \in Seq(T) /\ EndsSolid(u)
  BY <1>1, TrimIs
<1> HIDE DEF u
<1>4. /\ Len(u) \in Nat /\ Len(t) \in Nat /\ Len(a) = Len(u) + Len(t)
      /\ \A i \in 1 .. Len(a) : a[i] = IF i <= Len(u) THEN u[i] ELSE t[i - Len(u)]
      /\ \A i \in 1 .. Len(t) : t[i] = Blank
  <2>1. \A i \in 1 .. Len(t) : t[i] \in {Blank}
    BY <1>2, ElementOfSeq DEF Blanks
  <2>2. a = u \o t
    BY <1>2 DEF u
  <2> QED BY <1>3, <2>1, <2>2, ConcatProperties, LenProperties
<1>5. (Len(s) # 0 => s[Len(s)] # Blank) /\ (Len(u) # 0 => u[Len(u)] # Blank)
  BY <1>3, EmptySeq DEF EndsSolid
<1>6. ~(Len(s) < Len(u))
  <2> SUFFICES ASSUME Len(s) < Len(u) PROVE FALSE
    OBVIOUS
  <2>1. Len(u) \in 1 .. Len(a) /\ Len(u) - Len(s) \in 1 .. Len(r)
    BY <1>1, <1>4
  <2>2. a[Len(u)] = u[Len(u)]
    BY <1>4, <2>1
  <2>3. a[Len(u)] = Blank
    BY <1>1, <1>4, <2>1
  <2> QED BY <1>1, <1>5, <2>1, <2>2, <2>3
<1>7. ~(Len(u) < Len(s))
  <2> SUFFICES ASSUME Len(u) < Len(s) PROVE FALSE
    OBVIOUS
  <2>1. Len(s) \in 1 .. Len(a) /\ Len(s) - Len(u) \in 1 .. Len(t)
    BY <1>1, <1>4
  <2>2. a[Len(s)] = s[Len(s)]
    BY <1>1, <2>1
  <2>3. a[Len(s)] = Blank
    <3>1. ~(Len(s) <= Len(u)) /\ Len(s) \in 1 .. Len(a)
      BY <1>1, <1>4, <2>1
    <3>2. a[Len(s)] = t[Len(s) - Len(u)]
      BY <1>4, <3>1
    <3> QED BY <1>4, <2>1, <3>2
  <2> QED BY <1>4, <1>5, <2>1, <2>2, <2>3
<1>8. Len(u) = Len(s)
  BY <1>1, <1>4, <1>6, <1>7
<1>9. \A i \in 1 .. Len(u) : u[i] = s[i]
  <2> TAKE i \in 1 .. Len(u)
  <2>1. i \in 1 .. Len(a) /\ i <= Len(u) /\ i <= Len(s)
    BY <1>4, <1>8
  <2>2. a[i] = u[i]
    BY <1>4, <2>1
  <2>3. a[i] = s[i]
    BY <1>1, <2>1
  <2> QED BY <2>2, <2>3
<1>10. u = s
  BY <1>3, <1>8, <1>9, SeqEqual
<1> QED BY <1>10 DEF u, a

\* The line break that writeLines leaves out makes no difference to readLines.
LEMMA WriteTrim ==
  ASSUME NEW T, NEW s \in Seq(T)
  PROVE  WriteLines(s) \in Seq(T) /\ Trim(WriteLines(s)) = Trim(s)
<1>1. CASE s # <<>> /\ Last(s) = Blank
  <2>1. PICK r \in Seq(T), e \in T : s = Append(r, e)
    BY <1>1, SequenceEmptyOrAppend, Zenon
  <2>2. Len(r) \in Nat /\ Len(s) = Len(r) + 1 /\ s[Len(r) + 1] = e
    BY <2>1, AppendProperties, LenProperties
  <2>3. e = Blank
    BY <1>1, <2>2 DEF Last
  <2>4. WriteLines(s) = r
    <3>1. \A i \in 1 .. Len(r) : s[i] = r[i] /\ r[i] \in T
      BY <2>1, AppendProperties, ElementOfSeq
    <3>2. Front(s) = SubSeq(s, 1, Len(r))
      BY <2>2 DEF Front
    <3>3. /\ SubSeq(s, 1, Len(r)) \in Seq(T) /\ Len(SubSeq(s, 1, Len(r))) = Len(r)
          /\ \A i \in 1 .. Len(r) : SubSeq(s, 1, Len(r))[i] = s[i]
      <4>1. \A i \in 1 .. Len(r) : s[i] \in T
        BY <3>1
      <4> QED BY <2>2, <4>1, SubSeqProperties
    <3>4. SubSeq(s, 1, Len(r)) = r
      BY <3>1, <3>3, SeqEqual
    <3> QED BY <1>1, <3>2, <3>4 DEF WriteLines
  <2>5. PICK t \in Seq(T) : t \in Blanks /\ r = Trim(r) \o t
    BY TrimIs
  <2>6. Trim(r) \in Seq(T) /\ EndsSolid(Trim(r))
    BY TrimIs
  <2>7. Append(t, e) \in Seq(T) /\ Append(t, e) \in Blanks
    <3>1. t \in Seq({Blank}) /\ e \in {Blank}
      BY <2>3, <2>5 DEF Blanks
    <3> QED BY <3>1, AppendProperties DEF Blanks
  <2>8. s = Trim(r) \o Append(t, e)
    <3>1. Trim(r) \o Append(t, e) = Append(Trim(r) \o t, e)
      BY <2>6, CatAppend
    <3> QED BY <2>1, <2>5, <3>1
  <2>9. Trim(s) = Trim(r)
    BY <2>6, <2>7, <2>8, TrimOnly
  <2> QED BY <2>4, <2>9
<1>2. CASE ~(s # <<>> /\ Last(s) = Blank)
  <2>1. WriteLines(s) = s
    BY <1>2 DEF WriteLines
  <2> QED BY <2>1
<1> QED BY <1>1, <1>2

\* Trim matters to no line but blank ones.
LEMMA TrimKeep ==
  ASSUME NEW T, NEW s \in Seq(T), NEW S, Blank \notin S
  PROVE  Keep(Trim(s), S) = Keep(s, S)
<1>1. PICK r \in Seq(T) : r \in Blanks /\ s = Trim(s) \o r
  BY TrimIs
<1>2. Trim(s) \in Seq(T)
  BY TrimIs
<1>3. Keep(r, S) = <<>>
  BY <1>1, KeepNone DEF Blanks
<1>4. Keep(s, S) = Keep(Trim(s), S) \o Keep(r, S)
  BY <1>1, <1>2, KeepCat
<1>5. Keep(Trim(s), S) \o <<>> = Keep(Trim(s), S)
  BY <1>2, KeepSeq, ConcatEmptySeq
<1> QED BY <1>3, <1>4, <1>5

-----------------------------------------------------------------------------
(* The lines of a file, and of what Merge makes of it.                     *)

\* The kinds of lines differ.
LEMMA Kinds ==
  /\ BeginMarker # EndMarker /\ BeginMarker # Blank /\ EndMarker # Blank
  /\ VarName(BeginMarker) = "" /\ VarName(EndMarker) = "" /\ VarName(Blank) = ""
  /\ \A n, v : /\ VarName(Assign(n, v)) = n /\ Assign(n, v)[3] = v /\ Assign(n, v) # Blank
               /\ Assign(n, v) # BeginMarker /\ Assign(n, v) # EndMarker
BY DEF BeginMarker, EndMarker, Blank, VarName, Assign

\* What an env file may hold, and the variables that up and share may write.
Texts == Seq(Line) \cup {NoFile}
Fits(defs) == /\ DOMAIN defs \subseteq ToSet(VarNames)
              /\ \A n \in DOMAIN defs : Assign(n, defs[n]) \in Line

\* The markers and the blank line are lines of a file.
LEMMA MarkersAreLines ==
  BeginMarker \in Line /\ EndMarker \in Line /\ Blank \in Line
BY DEF Line

\* What readLines returns.
LEMMA LinesOf ==
  \A file \in Texts : Lines(file) \in Seq(Line) /\ (file # NoFile => Lines(file) = Trim(file))
<1> SUFFICES ASSUME NEW file \in Texts
             PROVE  Lines(file) \in Seq(Line) /\ (file # NoFile => Lines(file) = Trim(file))
  OBVIOUS
<1>1. CASE file = NoFile
  <2>1. Lines(file) = <<>>
    BY <1>1 DEF Lines
  <2> QED BY <1>1, <2>1, EmptySeq
<1>2. CASE file # NoFile
  <2>1. file \in Seq(Line) /\ Lines(file) = Trim(file)
    BY <1>2 DEF Lines, Texts
  <2> QED BY <2>1, TrimIs
<1> QED BY <1>1, <1>2

\* The lines that Merge leaves to the user, and those that give n a value.
Unmanaged(names) == {line \in Line : VarName(line) \notin names \ {""}}
Defining(n) == {line \in Line : VarName(line) = n}

\* removeVars is Keep over all lines, whatever the file holds.
LEMMA RemoveVarsIs ==
  ASSUME NEW s \in Seq(Line), NEW names
  PROVE  RemoveVars(s, names) = Keep(s, Unmanaged(names))
<1> DEFINE A == {line \in ToSet(s) : VarName(line) \notin names \ {""}}
<1>1. s \in Seq(ToSet(s)) /\ ToSet(s) \subseteq Line
  BY InElements
<1>2. ToSet(s) \cap A = ToSet(s) \cap Unmanaged(names)
  BY <1>1 DEF Unmanaged
<1>3. Keep(s, A) = Keep(s, Unmanaged(names))
  <2> HIDE DEF A
  <2> QED BY <1>1, <1>2, KeepSame
<1> QED BY <1>3, Zenon DEF RemoveVars

\* The block has each variable once, with its value, and no marker.
LEMMA BlockIs ==
  ASSUME NEW defs, Fits(defs)
  PROVE  /\ BlockLines(defs) \in Seq(Line)
         /\ \A n \in DOMAIN defs : Keep(BlockLines(defs), Defining(n)) = <<Assign(n, defs[n])>>
         /\ \A i \in DOMAIN BlockLines(defs) :
              BlockLines(defs)[i] # BeginMarker /\ BlockLines(defs)[i] # EndMarker
<1> DEFINE names == Keep(VarNames, DOMAIN defs)
           block == BlockLines(defs)
<1>1. /\ names \in Seq(ToSet(VarNames)) /\ Distinct(names)
      /\ ToSet(names) = DOMAIN defs
  <2>1. VarNames \in Seq(ToSet(VarNames)) /\ Distinct(VarNames)
    BY NamesOnce DEF Distinct
  <2>2. names \in Seq(ToSet(VarNames))
    BY <2>1, KeepSeq
  <2>3. Distinct(names) /\ ToSet(names) = ToSet(VarNames) \cap DOMAIN defs
    BY <2>1, KeepDistinct
  <2> QED BY <2>2, <2>3 DEF Fits
<1>2. block = [i \in DOMAIN names |-> Assign(names[i], defs[names[i]])]
  BY Zenon DEF BlockLines
<1> HIDE DEF names, block
<1>3. Len(names) \in Nat /\ DOMAIN names = 1 .. Len(names)
  BY <1>1, LenProperties
<1>4. \A i \in DOMAIN names : names[i] \in DOMAIN defs
  BY <1>1 DEF ToSet
<1>5. block \in Seq(Line)
  <2>1. \A i \in 1 .. Len(names) : Assign(names[i], defs[names[i]]) \in Line
    BY <1>3, <1>4 DEF Fits
  <2> QED BY <1>2, <1>3, <2>1
<1>6. ASSUME NEW n \in DOMAIN defs PROVE Keep(block, Defining(n)) = <<Assign(n, defs[n])>>
  <2>1. PICK i \in DOMAIN names : names[i] = n
    BY <1>1 DEF ToSet
  <2>2. DOMAIN block = DOMAIN names /\ block[i] = Assign(n, defs[n])
    BY <1>2, <2>1
  <2>3. block[i] \in Defining(n)
    <3>1. block[i] \in Line
      BY <2>2 DEF Fits
    <3> QED BY <2>2, <3>1, Kinds DEF Defining
  <2>4. \A j \in DOMAIN block : j # i => block[j] \notin Defining(n)
    <3> SUFFICES ASSUME NEW j \in DOMAIN block, j # i PROVE block[j] \notin Defining(n)
      OBVIOUS
    <3>1. names[j] # n
      BY <1>1, <2>1, <2>2 DEF Distinct
    <3>2. VarName(block[j]) = names[j]
      BY <1>2, <2>2, Kinds
    <3> QED BY <3>1, <3>2 DEF Defining
  <2> QED BY <1>5, <2>2, <2>3, <2>4, KeepOnce
<1>7. \A i \in DOMAIN block : block[i] # BeginMarker /\ block[i] # EndMarker
  BY <1>2, Kinds
<1> QED BY <1>5, <1>6, <1>7 DEF block

\* The file before writeLines.
Body(before, after, defs) ==
  before \o Gap(before) \o <<BeginMarker>> \o BlockLines(defs) \o <<EndMarker>> \o after

\* Merge writes the body between the lines it keeps.
LEMMA MergeIs ==
  ASSUME NEW file \in Texts, NEW defs, DOMAIN defs # {}
  PROVE  \E before, after \in Seq(Line) :
           /\ before = Keep(SplitBlock(Lines(file)).before, Unmanaged(DOMAIN defs))
           /\ after = Keep(SplitBlock(Lines(file)).after, Unmanaged(DOMAIN defs))
           /\ Merge(file, defs) = WriteLines(Body(before, after, defs))
<1> DEFINE split == SplitBlock(Lines(file))
<1>1. split.before \in Seq(Line) /\ split.after \in Seq(Line)
  BY LinesOf, SplitSeqs
<1>2. /\ RemoveVars(split.before, DOMAIN defs) = Keep(split.before, Unmanaged(DOMAIN defs))
      /\ RemoveVars(split.after, DOMAIN defs) = Keep(split.after, Unmanaged(DOMAIN defs))
  BY <1>1, RemoveVarsIs
<1>3. /\ RemoveVars(split.before, DOMAIN defs) \in Seq(Line)
      /\ RemoveVars(split.after, DOMAIN defs) \in Seq(Line)
  BY <1>1, <1>2, KeepSeq
<1>4. Merge(file, defs)
        = WriteLines(Body(RemoveVars(split.before, DOMAIN defs), RemoveVars(split.after, DOMAIN defs), defs))
  BY Zenon DEF Merge, Body
<1> QED BY <1>2, <1>3, <1>4

\* The gap is blank.
LEMMA GapIs ==
  ASSUME NEW before \in Seq(Line)
  PROVE  Gap(before) \in Seq(Line) /\ Gap(before) \in Blanks
<1>1. <<>> \in Seq(Line) /\ <<>> \in Blanks
  BY EmptySeq DEF Blanks
<1>2. <<Blank>> \in Seq(Line) /\ <<Blank>> \in Blanks
  BY MarkersAreLines DEF Blanks
<1> QED BY <1>1, <1>2 DEF Gap

\* The body is made of lines.
LEMMA BodyIs ==
  ASSUME NEW before \in Seq(Line), NEW after \in Seq(Line), NEW defs, Fits(defs)
  PROVE  Body(before, after, defs) \in Seq(Line)
<1>1. <<BeginMarker>> \in Seq(Line) /\ <<EndMarker>> \in Seq(Line)
  BY MarkersAreLines
<1>2. Gap(before) \in Seq(Line) /\ BlockLines(defs) \in Seq(Line)
  BY GapIs, BlockIs
<1> QED BY <1>1, <1>2, ConcatProperties DEF Body

\* The same for lines, with the quantifiers that Zenon instantiates.
LEMMA LinesCat == \A S : \A s, t \in Seq(Line) : Keep(s \o t, S) = Keep(s, S) \o Keep(t, S)
BY KeepCat

\* A part of which nothing is kept does not matter.
LEMMA KeepCatNone ==
  ASSUME NEW T, NEW S, NEW s \in Seq(T), NEW t \in Seq(T), Keep(t, S) = <<>>
  PROVE  Keep(s \o t, S) = Keep(s, S)
<1>1. Keep(s \o t, S) = Keep(s, S) \o Keep(t, S)
  BY KeepCat
<1>2. Keep(s, S) \in Seq(T)
  BY KeepSeq
<1>3. Keep(s, S) \o <<>> = Keep(s, S)
  BY <1>2, ConcatEmptySeq
<1> QED BY <1>1, <1>3

\* What is kept of the body, markers and gap aside, is what is kept of its three parts.
LEMMA BodyKeep ==
  ASSUME NEW before \in Seq(Line), NEW after \in Seq(Line), NEW defs, Fits(defs), NEW S,
         BeginMarker \notin S, EndMarker \notin S, Blank \notin S
  PROVE  Keep(Body(before, after, defs), S)
           = Keep(before, S) \o Keep(BlockLines(defs), S) \o Keep(after, S)
<1> DEFINE b == <<BeginMarker>>
           e == <<EndMarker>>
           g == Gap(before)
           k == BlockLines(defs)
<1>1. b \in Seq(Line) /\ e \in Seq(Line) /\ g \in Seq(Line) /\ k \in Seq(Line)
  BY MarkersAreLines, GapIs, BlockIs
<1>2. Keep(b, S) = <<>> /\ Keep(e, S) = <<>> /\ Keep(g, S) = <<>>
  <2>1. b \in Seq({BeginMarker}) /\ e \in Seq({EndMarker}) /\ g \in Seq({Blank})
    BY GapIs DEF Blanks
  <2> HIDE DEF b, e, g
  <2> QED BY <2>1, KeepNone
<1>3. Body(before, after, defs) = ((((before \o g) \o b) \o k) \o e) \o after
  BY DEF Body
<1> HIDE DEF b, e, g, k
<1>4. /\ before \o g \in Seq(Line) /\ (before \o g) \o b \in Seq(Line)
      /\ ((before \o g) \o b) \o k \in Seq(Line) /\ (((before \o g) \o b) \o k) \o e \in Seq(Line)
  BY <1>1, ConcatProperties
<1>5. /\ Keep(before, S) \in Seq(Line) /\ Keep(k, S) \in Seq(Line) /\ Keep(after, S) \in Seq(Line)
      /\ Keep(before, S) \o Keep(k, S) \in Seq(Line)
  BY <1>1, KeepSeq, ConcatProperties
<1> DEFINE c2 == before \o g
           c3 == c2 \o b
           c4 == c3 \o k
           c5 == c4 \o e
<1> HIDE DEF c2, c3, c4, c5
<1>6. c2 \in Seq(Line) /\ c3 \in Seq(Line) /\ c4 \in Seq(Line) /\ c5 \in Seq(Line)
  BY <1>4 DEF c2, c3, c4, c5
<1>7. Keep(c2, S) = Keep(before, S)
  BY <1>1, <1>2, KeepCatNone DEF c2
<1>8. Keep(c3, S) = Keep(c2, S)
  BY <1>1, <1>2, <1>6, KeepCatNone DEF c3
<1>9. Keep(c4, S) = Keep(c3, S) \o Keep(k, S)
  BY <1>1, <1>6, LinesCat, Zenon DEF c4
<1>10. Keep(c5, S) = Keep(c4, S)
  BY <1>1, <1>2, <1>6, KeepCatNone DEF c5
<1>11. Keep(c5 \o after, S) = Keep(c5, S) \o Keep(after, S)
  BY <1>6, LinesCat, Zenon
<1>12. Body(before, after, defs) = c5 \o after
  BY <1>3 DEF c2, c3, c4, c5
<1> QED BY <1>7, <1>8, <1>9, <1>10, <1>11, <1>12 DEF k

\* After Merge a file gives every variable of the block its value, once.
LEMMA MergeValues ==
  ASSUME NEW file \in Texts, NEW defs, Fits(defs), NEW n \in DOMAIN defs
  PROVE  Merge(file, defs) \in Seq(Line) /\ Values(Merge(file, defs), n) = <<defs[n]>>
<1> DEFINE U == Unmanaged(DOMAIN defs)
           D == Defining(n)
           new == Merge(file, defs)
<1>1. PICK before, after \in Seq(Line) :
        /\ before = Keep(SplitBlock(Lines(file)).before, U)
        /\ after = Keep(SplitBlock(Lines(file)).after, U)
        /\ new = WriteLines(Body(before, after, defs))
  BY MergeIs
<1>2. n # ""
  BY NamesOnce DEF Fits
<1>3. U \cap D = {} /\ Blank \notin D /\ BeginMarker \notin D /\ EndMarker \notin D
  BY <1>2, Kinds DEF Unmanaged, Defining
<1> HIDE DEF U, D
<1>4. Keep(before, D) = <<>> /\ Keep(after, D) = <<>>
  <2>1. before \in Seq(Line \cap U) /\ after \in Seq(Line \cap U)
    BY <1>1, LinesOf, SplitSeqs, KeepType
  <2> QED BY <1>3, <2>1, KeepNone
<1>5. Body(before, after, defs) \in Seq(Line)
  BY BodyIs
<1>6. new \in Seq(Line) /\ Trim(new) = Trim(Body(before, after, defs))
  BY <1>1, <1>5, WriteTrim
<1>7. Lines(new) = Trim(new) /\ Lines(new) \in Seq(Line)
  BY <1>6, EnvConstants, LinesOf DEF Texts
<1>8. Keep(Body(before, after, defs), D) = <<Assign(n, defs[n])>>
  <2>1. Keep(BlockLines(defs), D) = <<Assign(n, defs[n])>>
    BY BlockIs DEF D
  <2>2. Keep(Body(before, after, defs), D) = <<>> \o <<Assign(n, defs[n])>> \o <<>>
    BY <1>3, <1>4, <2>1, BodyKeep
  <2> QED BY <2>2
<1>9. Keep(Lines(new), D) = <<Assign(n, defs[n])>>
  BY <1>3, <1>5, <1>6, <1>7, <1>8, TrimKeep
<1>10. Keep(Lines(new), {line \in ToSet(Lines(new)) : VarName(line) = n}) = <<Assign(n, defs[n])>>
  <2> DEFINE A == {line \in ToSet(Lines(new)) : VarName(line) = n}
  <2>1. Lines(new) \in Seq(ToSet(Lines(new))) /\ ToSet(Lines(new)) \subseteq Line
    BY <1>7, InElements
  <2>2. ToSet(Lines(new)) \cap A = ToSet(Lines(new)) \cap D
    BY <2>1 DEF Defining, D
  <2> HIDE DEF A
  <2>3. Keep(Lines(new), A) = Keep(Lines(new), D)
    BY <2>1, <2>2, KeepSame
  <2> QED BY <1>9, <2>3 DEF A
<1> DEFINE found == Keep(Lines(new), {line \in ToSet(Lines(new)) : VarName(line) = n})
<1>11. Values(new, n) = [i \in DOMAIN found |-> found[i][3]]
  BY Zenon DEF Values
<1>12. found = <<Assign(n, defs[n])>>
  BY <1>10
<1> HIDE DEF found, new
<1>13. [i \in DOMAIN found |-> found[i][3]] = <<defs[n]>>
  <2>0. DOMAIN found = 1 .. 1 /\ found[1] = Assign(n, defs[n])
    BY <1>12
  <2>1. DOMAIN found = 1 .. 1 /\ found[1][3] = defs[n]
    <3>1. Assign(n, defs[n])[3] = defs[n]
      BY Kinds
    <3> QED BY <2>0, <3>1
  <2>2. \A i \in DOMAIN found : found[i][3] = defs[n]
    BY <2>1
  <2> QED BY <2>1, <2>2
<1> QED BY <1>6, <1>11, <1>13 DEF new

-----------------------------------------------------------------------------
(* What up and share write.                                                *)

\* A config that loads passed the checks of validate (config.go).
LEMMA LoadedIsValid ==
  \A cfg \in Loaded : EnvVarsUnique(cfg) /\ ComputedValid(cfg)
<1> SUFFICES ASSUME NEW rawConfig \in RawConfigs, NEW override \in Locals \cup {None},
                    Load(rawConfig, override) # NoConfig
             PROVE  Validate(Load(rawConfig, override))
  BY DEF Loaded, Validate
<1> DEFINE merged == IF override = None THEN rawConfig ELSE MergeLocal(rawConfig, override)
           ok == /\ override # None => LocalFits(rawConfig, override)
                 /\ DOMAIN rawConfig.services # {}
                 /\ Validate(Normalize(merged))
<1>1. Load(rawConfig, override) = IF ok THEN Normalize(merged) ELSE NoConfig
  BY Zenon DEF Load
<1>2. ok
  BY <1>1, Zenon
<1>3. Load(rawConfig, override) = Normalize(merged)
  BY <1>1, <1>2, Zenon
<1> QED BY <1>2, <1>3, Zenon

\* So did the one that up or share write from.
LEMMA SourceIs ==
  ASSUME NEW w \in Sources
  PROVE  /\ w.cfg \in Loaded /\ EnvVarsUnique(w.cfg) /\ ComputedValid(w.cfg)
         /\ \A s \in DOMAIN w.cfg.services :
              /\ w.cfg.services[s].env_var \in ToSet(VarNames)
              /\ w.cfg.services[s].files \subseteq ToSet(Paths)
         /\ \A n \in DOMAIN w.cfg.computed :
              n \in ToSet(VarNames) /\ DOMAIN w.cfg.computed[n].files \subseteq ToSet(Paths)
<1>1. w.cfg \in Loaded
  BY DEF Sources
<1> QED BY <1>1, LoadedIsValid, EnvConstants

\* The computed values, and those that go to p.
Resolved(w) == ResolveComputed(w.cfg, TemplateVars(w.cfg, Ports, w.https, w.tunnels))
ComputedIn(w, p) == {n \in DOMAIN Resolved(w) : p \in DOMAIN Resolved(w)[n]}

\* resolveComputed expands the template of every computed value.
LEMMA ResolvedIs ==
  ASSUME NEW w
  PROVE  /\ DOMAIN Resolved(w) = DOMAIN w.cfg.computed
         /\ \A n \in DOMAIN w.cfg.computed :
              /\ DOMAIN Resolved(w)[n] = DOMAIN w.cfg.computed[n].files
              /\ \A p \in DOMAIN w.cfg.computed[n].files :
                   Resolved(w)[n][p] = ExpandVars(Template(w.cfg.computed[n], p),
                                                  TemplateVars(w.cfg, Ports, w.https, w.tunnels))
BY DEF Resolved, ResolveComputed

\* What a path gets: the computed values, and the ports under the other names.
LEMMA VarsAre ==
  ASSUME NEW w, NEW p
  PROVE  EnvFileVars(w, p)
           = [n \in DOMAIN ServiceVars(w.cfg, p) \cup ComputedIn(w, p) |->
                IF n \in ComputedIn(w, p) THEN Resolved(w)[n][p] ELSE ServiceVars(w.cfg, p)[n]]
BY Zenon DEF EnvFileVars, Resolved, ComputedIn

\* The names of the services that write p ...
LEMMA ServicesWrite ==
  ASSUME NEW cfg, NEW p, NEW n
  PROVE  n \in DOMAIN ServiceVars(cfg, p)
           <=> \E s \in DOMAIN cfg.services :
                 p \in cfg.services[s].files /\ cfg.services[s].env_var = n
<1> DEFINE writers == {s \in DOMAIN cfg.services : p \in cfg.services[s].files}
<1>1. DOMAIN ServiceVars(cfg, p) = {cfg.services[s].env_var : s \in writers}
  BY DEF ServiceVars
<1> QED BY <1>1

\* ... and the paths that are visited.
LEMMA CollectIs ==
  ASSUME NEW cfg, NEW p
  PROVE  p \in CollectEnvFiles(cfg)
           <=> \/ \E s \in DOMAIN cfg.services : p \in cfg.services[s].files
               \/ \E n \in DOMAIN cfg.computed : p \in DOMAIN cfg.computed[n].files
<1> DEFINE S == UNION {cfg.services[s].files : s \in DOMAIN cfg.services}
           C == UNION {DOMAIN cfg.computed[n].files : n \in DOMAIN cfg.computed}
<1>1. p \in S <=> \E s \in DOMAIN cfg.services : p \in cfg.services[s].files
  OBVIOUS
<1>2. p \in C <=> \E n \in DOMAIN cfg.computed : p \in DOMAIN cfg.computed[n].files
  OBVIOUS
<1>3. CollectEnvFiles(cfg) = S \cup C
  BY Zenon DEF CollectEnvFiles
<1> HIDE DEF S, C
<1> QED BY <1>1, <1>2, <1>3

\* What up and share write fits a file, and each path they visit gets something.
LEMMA VarsFit ==
  ASSUME NEW w \in Sources, NEW p \in ToSet(Paths)
  PROVE  /\ Fits(EnvFileVars(w, p))
         /\ p \in CollectEnvFiles(w.cfg) => DOMAIN EnvFileVars(w, p) # {}
<1> DEFINE defs == EnvFileVars(w, p)
<1>1. DOMAIN defs = DOMAIN ServiceVars(w.cfg, p) \cup ComputedIn(w, p)
  BY VarsAre
<1>2. DOMAIN ServiceVars(w.cfg, p) \subseteq ToSet(VarNames)
  <2> SUFFICES ASSUME NEW n \in DOMAIN ServiceVars(w.cfg, p) PROVE n \in ToSet(VarNames)
    OBVIOUS
  <2> QED BY ServicesWrite, SourceIs
<1>3. ComputedIn(w, p) \subseteq ToSet(VarNames)
  BY ResolvedIs, SourceIs DEF ComputedIn
<1>4. ASSUME NEW n \in DOMAIN defs PROVE Assign(n, defs[n]) \in Line
  <2>1. Assign(n, defs[n]) \in WrittenLines(w, p)
    BY DEF WrittenLines
  <2>2. WrittenLines(w, p) \subseteq UNION {WrittenLines(x, g) : x \in Sources, g \in ToSet(Paths)}
    OBVIOUS
  <2> QED BY <2>1, <2>2 DEF Line
<1>5. ASSUME p \in CollectEnvFiles(w.cfg) PROVE DOMAIN defs # {}
  <2>1. CASE \E s \in DOMAIN w.cfg.services : p \in w.cfg.services[s].files
    <3>1. PICK s \in DOMAIN w.cfg.services : p \in w.cfg.services[s].files
      BY <2>1
    <3>2. w.cfg.services[s].env_var \in DOMAIN ServiceVars(w.cfg, p)
      BY <3>1, ServicesWrite
    <3> QED BY <1>1, <3>2
  <2>2. CASE \E n \in DOMAIN w.cfg.computed : p \in DOMAIN w.cfg.computed[n].files
    <3>1. ComputedIn(w, p) # {}
      BY <2>2, ResolvedIs DEF ComputedIn
    <3> QED BY <1>1, <3>1
  <2> QED BY <1>5, <2>1, <2>2, CollectIs
<1> QED BY <1>1, <1>2, <1>3, <1>4, <1>5 DEF Fits

\* A service's variable has its port: no other writes it to the file.
LEMMA ServiceValue ==
  ASSUME NEW w \in Sources, NEW s \in DOMAIN w.cfg.services, NEW p \in w.cfg.services[s].files
  PROVE  LET n == w.cfg.services[s].env_var IN
         /\ p \in ToSet(Paths) /\ p \in CollectEnvFiles(w.cfg)
         /\ n \in DOMAIN EnvFileVars(w, p) /\ EnvFileVars(w, p)[n] = <<Ports[s]>>
<1> DEFINE n == w.cfg.services[s].env_var
           writers == {t \in DOMAIN w.cfg.services : p \in w.cfg.services[t].files}
           same == {t \in writers : w.cfg.services[t].env_var = n}
           only == CHOOSE t \in writers : w.cfg.services[t].env_var = n
<1>1. p \in ToSet(Paths) /\ p \in CollectEnvFiles(w.cfg)
  BY SourceIs, CollectIs
<1>2. n \in DOMAIN ServiceVars(w.cfg, p)
  BY ServicesWrite
<1>3. ServiceVars(w.cfg, p)[n] = <<Ports[only]>>
  BY <1>2 DEF ServiceVars
<1>4. only \in writers /\ w.cfg.services[only].env_var = n
  BY Zenon
<1>5. only = s
  <2> HIDE DEF only
  <2> QED BY <1>4, SourceIs DEF EnvVarsUnique
<1>6. n \notin ComputedIn(w, p)
  <2>1. \A m \in DOMAIN w.cfg.computed : m # n
    BY SourceIs DEF ComputedValid, NoClash
  <2> QED BY <2>1, ResolvedIs DEF ComputedIn
<1>7. EnvFileVars(w, p)[n] = ServiceVars(w.cfg, p)[n]
  BY <1>2, <1>6, VarsAre
<1>8. n \in DOMAIN EnvFileVars(w, p)
  BY <1>2, VarsAre
<1> HIDE DEF only
<1> QED BY <1>1, <1>3, <1>5, <1>7, <1>8

\* A computed value has what its template says.
LEMMA ComputedValue ==
  ASSUME NEW w \in Sources, NEW n \in DOMAIN w.cfg.computed,
         NEW p \in DOMAIN w.cfg.computed[n].files
  PROVE  /\ p \in ToSet(Paths) /\ p \in CollectEnvFiles(w.cfg)
         /\ n \in DOMAIN EnvFileVars(w, p)
         /\ EnvFileVars(w, p)[n] = ExpandVars(Template(w.cfg.computed[n], p),
                                              TemplateVars(w.cfg, Ports, w.https, w.tunnels))
<1>1. p \in ToSet(Paths) /\ p \in CollectEnvFiles(w.cfg)
  BY SourceIs, CollectIs
<1>2. n \in ComputedIn(w, p)
  BY ResolvedIs DEF ComputedIn
<1>3. n \in DOMAIN EnvFileVars(w, p) /\ EnvFileVars(w, p)[n] = Resolved(w)[n][p]
  BY <1>2, VarsAre
<1> QED BY <1>1, <1>3, ResolvedIs

\* The paths of a file that a command visits.
LEMMA SpellingsAre ==
  ASSUME NEW cfg, NEW f
  PROVE  /\ Spellings(cfg, f) \in Seq(ToSet(Paths))
         /\ ToSet(Spellings(cfg, f)) = {p \in ToSet(Paths) \cap CollectEnvFiles(cfg) : FileOf[p] = f}
<1> DEFINE S == {p \in CollectEnvFiles(cfg) : FileOf[p] = f}
<1>1. Spellings(cfg, f) = Keep(Paths, S)
  BY Zenon DEF Spellings
<1>2. Paths \in Seq(ToSet(Paths))
  BY PathsOnce
<1> HIDE DEF S
<1>3. Keep(Paths, S) \in Seq(ToSet(Paths)) /\ ToSet(Keep(Paths, S)) = ToSet(Paths) \cap S
  BY <1>2, KeepSeq, KeepDistinct
<1> QED BY <1>1, <1>3 DEF S

\* What each of them gets.
LEMMA SpelledFits ==
  ASSUME NEW w \in Sources, NEW f, NEW i \in 1 .. Len(Spellings(w.cfg, f))
  PROVE  /\ Spellings(w.cfg, f)[i] \in ToSet(Spellings(w.cfg, f))
         /\ Fits(EnvFileVars(w, Spellings(w.cfg, f)[i]))
         /\ DOMAIN EnvFileVars(w, Spellings(w.cfg, f)[i]) # {}
<1> DEFINE s == Spellings(w.cfg, f)
<1>1. s \in Seq(ToSet(Paths)) /\ ToSet(s) = {p \in ToSet(Paths) \cap CollectEnvFiles(w.cfg) : FileOf[p] = f}
  BY SpellingsAre
<1>2. DOMAIN s = 1 .. Len(s)
  BY <1>1, LenProperties
<1>3. s[i] \in ToSet(s)
  BY <1>2 DEF ToSet
<1> HIDE DEF s
<1>4. s[i] \in ToSet(Paths) /\ s[i] \in CollectEnvFiles(w.cfg)
  BY <1>1, <1>3
<1> QED BY <1>3, <1>4, VarsFit DEF s

\* k is the function that the recursion of MergeEach defines, up to n ...
MergesTo(w, s, old, n, k) ==
  k = [i \in 0 .. n |-> IF i = 0 THEN old ELSE Merge(k[i - 1], EnvFileVars(w, s[i]))]

\* ... and that of CleanEach.
CleansTo(old, n, k) == k = [i \in 0 .. n |-> IF i = 0 THEN old ELSE RemoveBlock(k[i - 1])]

\* The recursions define one.
LEMMA MergesExist ==
  ASSUME NEW w, NEW s, NEW old
  PROVE  \A n \in Nat : \E k : MergesTo(w, s, old, n, k)
<1> DEFINE T == {n \in Nat : \E k : MergesTo(w, s, old, n, k)}
<1>1. 0 \in T
  <2>1. MergesTo(w, s, old, 0, [i \in 0 .. 0 |-> old])
    BY DEF MergesTo
  <2> QED BY <2>1
<1>2. ASSUME NEW n \in Nat, n \in T PROVE n + 1 \in T
  <2>1. PICK k : MergesTo(w, s, old, n, k)
    BY <1>2
  <2> DEFINE m    == n + 1
             next == Merge(k[m - 1], EnvFileVars(w, s[m]))
             more == [i \in 0 .. m |-> IF i = m THEN next ELSE k[i]]
  <2>2. \A i \in 0 .. n : k[i] = IF i = 0 THEN old ELSE Merge(k[i - 1], EnvFileVars(w, s[i]))
    BY <2>1 DEF MergesTo
  <2>3. \A i \in 0 .. m : more[i] = IF i = 0 THEN old ELSE Merge(more[i - 1], EnvFileVars(w, s[i]))
    BY <2>2
  <2>4. MergesTo(w, s, old, m, more)
    BY <2>3 DEF MergesTo
  <2> QED BY <2>4
<1> HIDE DEF T
<1>3. Nat \subseteq T
  BY <1>1, <1>2, Induct
<1> QED BY <1>3 DEF T

LEMMA CleansExist ==
  ASSUME NEW old
  PROVE  \A n \in Nat : \E k : CleansTo(old, n, k)
<1> DEFINE T == {n \in Nat : \E k : CleansTo(old, n, k)}
<1>1. 0 \in T
  <2>1. CleansTo(old, 0, [i \in 0 .. 0 |-> old])
    BY DEF CleansTo
  <2> QED BY <2>1
<1>2. ASSUME NEW n \in Nat, n \in T PROVE n + 1 \in T
  <2>1. PICK k : CleansTo(old, n, k)
    BY <1>2
  <2> DEFINE m    == n + 1
             next == RemoveBlock(k[m - 1])
             more == [i \in 0 .. m |-> IF i = m THEN next ELSE k[i]]
  <2>2. \A i \in 0 .. n : k[i] = IF i = 0 THEN old ELSE RemoveBlock(k[i - 1])
    BY <2>1 DEF CleansTo
  <2>3. \A i \in 0 .. m : more[i] = IF i = 0 THEN old ELSE RemoveBlock(more[i - 1])
    BY <2>2
  <2>4. CleansTo(old, m, more)
    BY <2>3 DEF CleansTo
  <2> QED BY <2>4
<1> HIDE DEF T
<1>3. Nat \subseteq T
  BY <1>1, <1>2, Induct
<1> QED BY <1>3 DEF T

\* k is a chain of Merges, one for each path.
Chain(w, s, k) == \A i \in 1 .. Len(s) : k[i] = Merge(k[i - 1], EnvFileVars(w, s[i]))

\* A chain of Merges and one of RemoveBlocks, step by step: the last of k is the result.
LEMMA MergeEachIs ==
  ASSUME NEW w, NEW s, NEW old, Len(s) \in Nat
  PROVE  \E k : k[0] = old /\ MergeEach(w, s, old) = k[Len(s)] /\ Chain(w, s, k)
<1> DEFINE k == CHOOSE k : MergesTo(w, s, old, Len(s), k)
<1>1. MergesTo(w, s, old, Len(s), k)
  BY MergesExist, Zenon
<1>2. MergeEach(w, s, old) = k[Len(s)]
  BY Zenon DEF MergeEach, MergesTo
<1> HIDE DEF k
<1>3. \A i \in 0 .. Len(s) : k[i] = IF i = 0 THEN old ELSE Merge(k[i - 1], EnvFileVars(w, s[i]))
  BY <1>1 DEF MergesTo
<1> QED BY <1>2, <1>3 DEF Chain

LEMMA CleanEachIs ==
  ASSUME NEW s, NEW old, Len(s) \in Nat
  PROVE  \E k : /\ k[0] = old /\ CleanEach(s, old) = k[Len(s)]
                /\ \A i \in 1 .. Len(s) : k[i] = RemoveBlock(k[i - 1])
<1> DEFINE k == CHOOSE k : CleansTo(old, Len(s), k)
<1>1. CleansTo(old, Len(s), k)
  BY CleansExist, Zenon
<1>2. CleanEach(s, old) = k[Len(s)]
  BY Zenon DEF CleanEach, CleansTo
<1> HIDE DEF k
<1>3. \A i \in 0 .. Len(s) : k[i] = IF i = 0 THEN old ELSE RemoveBlock(k[i - 1])
  BY <1>1 DEF CleansTo
<1> QED BY <1>2, <1>3

\* Along a chain, by induction on its length.
LEMMA Along ==
  ASSUME NEW m \in Nat, NEW T, 0 \in T, \A i \in 1 .. m : i - 1 \in T => i \in T
  PROVE  \A i \in 0 .. m : i \in T
<1> DEFINE N == {i \in Nat : i <= m => i \in T}
<1>1. 0 \in N
  OBVIOUS
<1>2. ASSUME NEW n \in Nat, n \in N PROVE n + 1 \in N
  <2> SUFFICES ASSUME n + 1 <= m PROVE n + 1 \in T
    OBVIOUS
  <2>1. n + 1 \in 1 .. m /\ (n + 1) - 1 = n /\ n \in T
    BY <1>2
  <2> QED BY <2>1
<1> HIDE DEF N
<1>3. Nat \subseteq N
  BY <1>1, <1>2, Induct
<1> QED BY <1>3 DEF N

-----------------------------------------------------------------------------
(* The invariants.                                                         *)

\* The types.
EnvTypeOK ==
  /\ raw \in RawConfigs /\ local \in Locals \cup {None}
  /\ files \in [Files -> Texts]
  /\ written \in Sources \cup {None}
  /\ edits \in Nat

\* A file may be missing.
LEMMA NoFileIsText == NoFile \in Texts /\ \A file \in Seq(Line) : file \in Texts
BY DEF Texts

\* What Write takes from the config files is a source.
LEMMA SourceOf ==
  ASSUME EnvTypeOK, Load(raw, local) # NoConfig, NEW way \in Ways
  PROVE  [cfg |-> Load(raw, local), https |-> way.https, tunnels |-> way.tunnels] \in Sources
<1>1. Load(raw, local) \in Loaded
  BY DEF EnvTypeOK, Loaded
<1> QED BY <1>1 DEF Sources

\* Every step of a chain of Merges leaves a file ...
LEMMA MergesAreTexts ==
  ASSUME NEW w \in Sources, NEW f, NEW old \in Texts, NEW k, k[0] = old,
         Chain(w, Spellings(w.cfg, f), k)
  PROVE  \A i \in 0 .. Len(Spellings(w.cfg, f)) : k[i] \in Texts
<1> DEFINE s == Spellings(w.cfg, f)
           T == {i \in Nat : k[i] \in Texts}
<1>1. Len(s) \in Nat
  BY SpellingsAre, LenProperties
<1>2. 0 \in T
  OBVIOUS
<1>3. ASSUME NEW i \in 1 .. Len(s), i - 1 \in T PROVE i \in T
  <2>1. Fits(EnvFileVars(w, s[i])) /\ DOMAIN EnvFileVars(w, s[i]) # {}
    BY SpelledFits
  <2>2. Merge(k[i - 1], EnvFileVars(w, s[i])) \in Seq(Line)
    BY <1>3, <2>1, MergeValues
  <2>3. k[i] = Merge(k[i - 1], EnvFileVars(w, s[i]))
    BY DEF Chain
  <2> QED BY <1>1, <2>2, <2>3, NoFileIsText
<1>4. \A i \in 0 .. Len(s) : i \in T
  <2> HIDE DEF s, T
  <2> QED BY <1>1, <1>2, <1>3, Along
<1> QED BY <1>4

\* ... so that mergeEnvFiles leaves files ...
LEMMA MergedFiles ==
  ASSUME NEW w \in Sources, NEW old \in [Files -> Texts]
  PROVE  MergeEnvFiles(w, old) \in [Files -> Texts]
<1>1. ASSUME NEW f \in Files PROVE MergeEach(w, Spellings(w.cfg, f), old[f]) \in Texts
  <2>1. Len(Spellings(w.cfg, f)) \in Nat
    BY SpellingsAre, LenProperties
  <2>2. PICK k : /\ k[0] = old[f] /\ Chain(w, Spellings(w.cfg, f), k)
                 /\ MergeEach(w, Spellings(w.cfg, f), old[f]) = k[Len(Spellings(w.cfg, f))]
    BY <2>1, MergeEachIs
  <2>3. \A i \in 0 .. Len(Spellings(w.cfg, f)) : k[i] \in Texts
    BY <2>2, MergesAreTexts
  <2> QED BY <2>1, <2>2, <2>3
<1> QED BY <1>1 DEF MergeEnvFiles

\* ... and so does cleanEnvFiles ...
LEMMA BlockRemoved ==
  ASSUME NEW file \in Texts
  PROVE  RemoveBlock(file) \in Texts
<1> DEFINE split == SplitBlock(Lines(file))
<1>1. split.before \in Seq(Line) /\ split.after \in Seq(Line)
  BY LinesOf, SplitSeqs
<1>2. split.before \o split.after \in Seq(Line)
  BY <1>1, ConcatProperties
<1>3. Trim(split.before \o split.after) \in Texts
  BY <1>2, TrimIs, NoFileIsText
<1>4. RemoveBlock(file) = IF file = NoFile THEN NoFile ELSE Trim(split.before \o split.after)
  BY Zenon DEF RemoveBlock
<1> QED BY <1>3, <1>4, NoFileIsText

LEMMA CleanedFiles ==
  ASSUME NEW cfg, NEW old \in [Files -> Texts]
  PROVE  CleanEnvFiles(cfg, old) \in [Files -> Texts]
<1>1. ASSUME NEW f \in Files PROVE CleanEach(Spellings(cfg, f), old[f]) \in Texts
  <2> DEFINE s == Spellings(cfg, f)
  <2>1. Len(s) \in Nat
    BY SpellingsAre, LenProperties
  <2>2. PICK k : /\ k[0] = old[f] /\ CleanEach(s, old[f]) = k[Len(s)]
                 /\ \A i \in 1 .. Len(s) : k[i] = RemoveBlock(k[i - 1])
    BY <2>1, CleanEachIs
  <2> DEFINE T == {i \in Nat : k[i] \in Texts}
  <2>3. 0 \in T /\ \A i \in 1 .. Len(s) : i - 1 \in T => i \in T
    BY <2>1, <2>2, BlockRemoved
  <2>4. \A i \in 0 .. Len(s) : i \in T
    <3> HIDE DEF s, T
    <3> QED BY <2>1, <2>3, Along
  <2> QED BY <2>1, <2>2, <2>4
<1> QED BY <1>1 DEF CleanEnvFiles

\* ... and an edit at a line.
LEMMA LinesAround ==
  ASSUME NEW s \in Seq(Line), NEW i \in 1 .. Len(s) + 1
  PROVE  /\ SubSeq(s, 1, i - 1) \in Seq(Line) /\ SubSeq(s, i, Len(s)) \in Seq(Line)
         /\ SubSeq(s, i + 1, Len(s)) \in Seq(Line)
<1>1. Len(s) \in Nat /\ \A j \in 1 .. Len(s) : s[j] \in Line
  BY LenProperties, ElementOfSeq
<1>2. \A j \in 1 .. i - 1 : s[j] \in Line
  BY <1>1
<1>3. \A j \in i .. Len(s) : s[j] \in Line
  BY <1>1
<1>4. \A j \in i + 1 .. Len(s) : s[j] \in Line
  BY <1>1
<1> QED BY <1>1, <1>2, <1>3, <1>4, SubSeqProperties

\* The types hold at first ...
LEMMA EnvTypesInit == Init => EnvTypeOK
BY NoFileIsText DEF Init, EnvTypeOK

\* ... and after every step.
LEMMA EnvTypesStep == EnvTypeOK /\ [Next]_vars => EnvTypeOK'
<1> SUFFICES ASSUME EnvTypeOK, [Next]_vars PROVE EnvTypeOK'
  OBVIOUS
<1>1. files \in [Files -> Texts]
  BY DEF EnvTypeOK
<1>2. CASE Write
  <2> DEFINE W(way) == [cfg |-> Load(raw, local), https |-> way.https, tunnels |-> way.tunnels]
  <2>1. PICK way \in Ways : files' = MergeEnvFiles(W(way), files) /\ written' = W(way)
    BY <1>2, Zenon DEF Write
  <2>2. W(way) \in Sources
    BY <1>2, SourceOf DEF Write
  <2> HIDE DEF W
  <2>3. files' \in [Files -> Texts]
    BY <1>1, <2>1, <2>2, MergedFiles
  <2> QED BY <1>2, <2>1, <2>2, <2>3 DEF Write, EnvTypeOK
<1>3. CASE Down
  <2>1. files' \in [Files -> Texts]
    BY <1>1, <1>3, CleanedFiles DEF Down
  <2> QED BY <1>3, <2>1 DEF Down, EnvTypeOK
<1>4. CASE EditConfig
  BY <1>4 DEF EditConfig, Edit, EnvTypeOK
<1>5. CASE InsertLine
  <2>1. PICK f \in EditedFiles, line \in UserLines :
          LET lines == IF files[f] = NoFile THEN <<>> ELSE files[f] IN
          \E i \in 1..(Len(lines) + 1) : files' = [files EXCEPT ![f] = InsertAt(lines, i, line)]
    BY <1>5, Zenon DEF InsertLine
  <2> DEFINE lines == IF files[f] = NoFile THEN <<>> ELSE files[f]
  <2>2. PICK i \in 1..(Len(lines) + 1) : files' = [files EXCEPT ![f] = InsertAt(lines, i, line)]
    BY <2>1
  <2>3. f \in Files /\ line \in Line
    BY EnvConstants DEF Line
  <2>4. lines \in Seq(Line)
    BY <1>1, <2>3, EmptySeq DEF Texts
  <2> HIDE DEF lines
  <2>5. InsertAt(lines, i, line) \in Seq(Line)
    <3>1. <<line>> \in Seq(Line)
      BY <2>3
    <3> QED BY <2>4, <3>1, LinesAround, ConcatProperties DEF InsertAt
  <2>6. files' \in [Files -> Texts]
    BY <1>1, <2>2, <2>5, NoFileIsText
  <2> QED BY <1>5, <2>6 DEF InsertLine, Edit, EnvTypeOK
<1>6. CASE DeleteLine
  <2>1. PICK f \in EditedFiles : /\ files[f] # NoFile
                                /\ \E i \in DOMAIN files[f] : files' = [files EXCEPT ![f] = RemoveAt(files[f], i)]
    BY <1>6, Zenon DEF DeleteLine
  <2>2. PICK i \in DOMAIN files[f] : files' = [files EXCEPT ![f] = RemoveAt(files[f], i)]
    BY <2>1
  <2>3. f \in Files /\ files[f] \in Seq(Line)
    BY <1>1, <2>1, EnvConstants DEF Texts
  <2>4. Len(files[f]) \in Nat /\ i \in 1 .. Len(files[f]) + 1
    BY <2>3, LenProperties
  <2>5. RemoveAt(files[f], i) \in Seq(Line)
    BY <2>3, <2>4, LinesAround, ConcatProperties DEF RemoveAt
  <2>6. files' \in [Files -> Texts]
    BY <1>1, <2>2, <2>5, NoFileIsText
  <2> QED BY <1>6, <2>6 DEF DeleteLine, Edit, EnvTypeOK
<1>7. CASE UNCHANGED vars
  BY <1>7 DEF vars, EnvTypeOK
<1> QED BY <1>2, <1>3, <1>4, <1>5, <1>6, <1>7 DEF Next

\* What Write has written stays until written is None again.
AsWritten ==
  written # None =>
    \A f \in Files :
      \E old \in Texts : files[f] = MergeEach(written, Spellings(written.cfg, f), old)

\* AsWritten is inductive.
LEMMA AsWrittenStep == EnvTypeOK /\ AsWritten /\ [Next]_vars => AsWritten'
<1> SUFFICES ASSUME EnvTypeOK, AsWritten, [Next]_vars PROVE AsWritten'
  OBVIOUS
<1>1. CASE Write
  <2>1. PICK w : files' = MergeEnvFiles(w, files) /\ written' = w
    BY <1>1, Zenon DEF Write
  <2>2. ASSUME NEW f \in Files
        PROVE  files'[f] = MergeEach(w, Spellings(w.cfg, f), files[f]) /\ files[f] \in Texts
    BY <2>1, <2>2 DEF MergeEnvFiles, EnvTypeOK
  <2> QED BY <2>1, <2>2 DEF AsWritten
<1>2. CASE Down \/ EditConfig \/ InsertLine \/ DeleteLine
  BY <1>2 DEF Down, EditConfig, InsertLine, DeleteLine, Edit, AsWritten
<1>3. CASE UNCHANGED vars
  BY <1>3 DEF vars, AsWritten
<1> QED BY <1>1, <1>2, <1>3 DEF Next

\* The inductive invariant.
LEMMA AsWrittenAlways == Spec => [](EnvTypeOK /\ AsWritten)
<1>1. Init => EnvTypeOK /\ AsWritten
  BY EnvTypesInit DEF Init, AsWritten
<1> QED BY <1>1, EnvTypesStep, AsWrittenStep, PTL DEF Spec

\* Whatever a file was before, the last Merge gives every variable its value once.
LEMMA WrittenOnceHolds == EnvTypeOK /\ AsWritten => WrittenOnce
<1> SUFFICES ASSUME EnvTypeOK, AsWritten, written # None, NEW f \in Files,
                    Spellings(written.cfg, f) # <<>>
             PROVE  LET p == Last(Spellings(written.cfg, f)) IN
                    /\ \A s \in DOMAIN written.cfg.services :
                         p \in written.cfg.services[s].files =>
                           Values(files[f], written.cfg.services[s].env_var) = << <<Ports[s]>> >>
                    /\ \A n \in DOMAIN written.cfg.computed :
                         p \in DOMAIN written.cfg.computed[n].files =>
                           Values(files[f], n) =
                             << ExpandVars(Template(written.cfg.computed[n], p),
                                           TemplateVars(written.cfg, Ports, written.https,
                                                        written.tunnels)) >>
  BY Zenon DEF WrittenOnce
<1>1. written \in Sources
  BY DEF EnvTypeOK
<1> DEFINE spellings == Spellings(written.cfg, f)
           m == Len(spellings)
           p == Last(spellings)
<1>2. m \in 1 .. m /\ m \in Nat /\ p = spellings[m]
  <2>1. spellings \in Seq(ToSet(Paths))
    BY SpellingsAre
  <2> HIDE DEF spellings
  <2>2. m \in Nat /\ m # 0
    BY <2>1, EmptySeq, LenProperties DEF spellings
  <2> QED BY <2>2 DEF Last
<1>3. Fits(EnvFileVars(written, p))
  BY <1>1, <1>2, SpelledFits
<1>4. PICK old \in Texts : files[f] = MergeEach(written, spellings, old)
  BY DEF AsWritten
<1>5. PICK k : k[0] = old /\ MergeEach(written, spellings, old) = k[m] /\ Chain(written, spellings, k)
  BY <1>2, MergeEachIs
<1>6. k[m - 1] \in Texts
  <2>1. \A i \in 0 .. m : k[i] \in Texts
    BY <1>1, <1>5, MergesAreTexts
  <2> HIDE DEF m
  <2> QED BY <1>2, <2>1
<1>7. files[f] = Merge(k[m - 1], EnvFileVars(written, p))
  BY <1>2, <1>4, <1>5 DEF Chain
<1>8. \A n \in DOMAIN EnvFileVars(written, p) : Values(files[f], n) = <<EnvFileVars(written, p)[n]>>
  BY <1>3, <1>6, <1>7, MergeValues
<1> HIDE DEF p, m, spellings
<1>9. ASSUME NEW s \in DOMAIN written.cfg.services, p \in written.cfg.services[s].files
      PROVE  Values(files[f], written.cfg.services[s].env_var) = << <<Ports[s]>> >>
  BY <1>1, <1>8, <1>9, ServiceValue
<1>10. ASSUME NEW n \in DOMAIN written.cfg.computed, p \in DOMAIN written.cfg.computed[n].files
      PROVE  Values(files[f], n) =
               << ExpandVars(Template(written.cfg.computed[n], p),
                             TemplateVars(written.cfg, Ports, written.https, written.tunnels)) >>
  BY <1>1, <1>8, <1>10, ComputedValue
<1> QED BY <1>9, <1>10 DEF p, spellings

\* "Outport's deterministic port assignments always win" (dotenv.go): after up or share
\* every port and every computed value is in its files, under its name, exactly once,
\* whatever the user did to lines and markers before, for every config that loads; of a file
\* that the config spells in several ways, what the last spelling names.
THEOREM PortsAlwaysWin == Spec => []WrittenOnce
BY AsWrittenAlways, WrittenOnceHolds, PTL

-----------------------------------------------------------------------------
(* The block in a file.                                                    *)

\* s has no marker; m is a block; splitBlock finds none.
Outside(s) == \A i \in 1 .. Len(s) : s[i] # BeginMarker /\ s[i] # EndMarker
Block(m) == Len(m) >= 2 /\ m[1] = BeginMarker /\ m[Len(m)] = EndMarker
NoBlock(s) == LastMark(s, BeginMarker) = 0 \/ LastMark(s, EndMarker) <= LastMark(s, BeginMarker)

\* The end of a sequence, by position.
LEMMA Suffix ==
  ASSUME NEW T, NEW s \in Seq(T), NEW e \in 0 .. Len(s)
  PROVE  /\ SubSeq(s, e + 1, Len(s)) \in Seq(T) /\ Len(SubSeq(s, e + 1, Len(s))) = Len(s) - e
         /\ \A i \in 1 .. Len(s) - e : SubSeq(s, e + 1, Len(s))[i] = s[e + i]
<1>1. Len(s) \in Nat /\ e \in Int /\ 0 <= e /\ e <= Len(s)
  BY LenProperties
<1>2. \A i \in e + 1 .. Len(s) : s[i] \in T
  BY <1>1, ElementOfSeq
<1>3. e + 1 \in Int /\ Len(s) \in Int
  BY <1>1
<1>4. /\ SubSeq(s, e + 1, Len(s)) \in Seq(T)
      /\ Len(SubSeq(s, e + 1, Len(s))) = IF e + 1 <= Len(s) THEN Len(s) - (e + 1) + 1 ELSE 0
      /\ \A i \in 1 .. Len(s) - (e + 1) + 1 : SubSeq(s, e + 1, Len(s))[i] = s[(e + 1) + i - 1]
  BY <1>2, <1>3, SubSeqProperties
<1>5. Len(SubSeq(s, e + 1, Len(s))) = Len(s) - e
  BY <1>1, <1>4
<1>6. ASSUME NEW i \in 1 .. Len(s) - e PROVE SubSeq(s, e + 1, Len(s))[i] = s[e + i]
  <2>1. i \in 1 .. Len(s) - (e + 1) + 1 /\ (e + 1) + i - 1 = e + i
    BY <1>1
  <2> QED BY <1>4, <2>1
<1> QED BY <1>4, <1>5, <1>6

\* Three sequences in a row, by position.
LEMMA CatThree ==
  ASSUME NEW T, NEW p \in Seq(T), NEW m \in Seq(T), NEW a \in Seq(T)
  PROVE  /\ Len(p) \in Nat /\ Len(m) \in Nat /\ Len(a) \in Nat /\ (p \o m) \o a \in Seq(T)
         /\ Len((p \o m) \o a) = Len(p) + Len(m) + Len(a)
         /\ \A i \in 1 .. Len(p) : ((p \o m) \o a)[i] = p[i]
         /\ \A i \in 1 .. Len(m) : ((p \o m) \o a)[Len(p) + i] = m[i]
         /\ \A i \in 1 .. Len(a) : ((p \o m) \o a)[Len(p) + Len(m) + i] = a[i]
<1>1. /\ Len(p) \in Nat /\ Len(m) \in Nat /\ Len(a) \in Nat
      /\ p \o m \in Seq(T) /\ (p \o m) \o a \in Seq(T)
  BY ConcatProperties, LenProperties
<1>2. PICK q \in Seq(T) :
        /\ q = p \o m /\ Len(q) = Len(p) + Len(m)
        /\ \A i \in 1 .. Len(p) + Len(m) : q[i] = IF i <= Len(p) THEN p[i] ELSE m[i - Len(p)]
  BY <1>1, ConcatProperties
<1>3. PICK s \in Seq(T) :
        /\ s = q \o a /\ Len(s) = Len(q) + Len(a)
        /\ \A i \in 1 .. Len(q) + Len(a) : s[i] = IF i <= Len(q) THEN q[i] ELSE a[i - Len(q)]
  <2>1. q \o a \in Seq(T)
    BY ConcatProperties
  <2> QED BY <2>1, ConcatProperties
<1>4. ASSUME NEW i \in 1 .. Len(p) PROVE s[i] = p[i]
  BY <1>1, <1>2, <1>3
<1>5. ASSUME NEW i \in 1 .. Len(m) PROVE s[Len(p) + i] = m[i]
  <2>1. /\ Len(p) + i \in 1 .. Len(p) + Len(m) /\ ~(Len(p) + i <= Len(p))
        /\ (Len(p) + i) - Len(p) = i
    BY <1>1
  <2>2. q[Len(p) + i] = m[i]
    BY <1>2, <2>1
  <2>3. Len(p) + i \in 1 .. Len(q) + Len(a) /\ Len(p) + i <= Len(q)
    BY <1>1, <1>2, <2>1
  <2> QED BY <1>3, <2>2, <2>3
<1>6. ASSUME NEW i \in 1 .. Len(a) PROVE s[Len(p) + Len(m) + i] = a[i]
  <2>1. /\ Len(p) + Len(m) + i \in 1 .. Len(q) + Len(a) /\ ~(Len(p) + Len(m) + i <= Len(q))
        /\ (Len(p) + Len(m) + i) - Len(q) = i
    BY <1>1, <1>2
  <2> QED BY <1>3, <2>1
<1> QED BY <1>1, <1>2, <1>3, <1>4, <1>5, <1>6

\* SplitBlock finds no block, or takes the lines apart around one.
LEMMA SplitCases ==
  ASSUME NEW T, NEW s \in Seq(T)
  PROVE  \/ NoBlock(s) /\ SplitBlock(s) = [before |-> s, after |-> <<>>]
         \/ \E p, m, a \in Seq(T) :
              /\ s = (p \o m) \o a /\ SplitBlock(s) = [before |-> p, after |-> a]
              /\ Block(m) /\ Outside(a)
<1>0. Len(s) \in Nat /\ \A i \in 1 .. Len(s) : s[i] \in T
  BY LenProperties, ElementOfSeq
<1>1. PICK b \in 0 .. Len(s), e \in 0 .. Len(s) :
        /\ b = LastMark(s, BeginMarker) /\ (b # 0 => s[b] = BeginMarker)
        /\ \A i \in 1 .. Len(s) : s[i] = BeginMarker => i <= b
        /\ e = LastMark(s, EndMarker) /\ (e # 0 => s[e] = EndMarker)
        /\ \A i \in 1 .. Len(s) : s[i] = EndMarker => i <= e
  BY LastMarkIs
<1> DEFINE p == SubSeq(s, 1, b - 1)
           m == SubSeq(s, b, e)
           a == SubSeq(s, e + 1, Len(s))
<1>2. CASE b = 0 \/ e <= b
  BY <1>1, <1>2 DEF SplitBlock, NoBlock
<1>3. CASE ~(b = 0 \/ e <= b)
  <2>1. SplitBlock(s) = [before |-> p, after |-> a]
    BY <1>1, <1>3 DEF SplitBlock
  <2>2. b \in 1 .. Len(s) /\ e \in b + 1 .. Len(s)
    BY <1>0, <1>1, <1>3
  <2>3. p \in Seq(T)
    <3>1. \A i \in 1 .. b - 1 : s[i] \in T
      BY <1>0, <1>1, <2>2
    <3> QED BY <2>2, <3>1, SubSeqProperties
  <2>4. m \in Seq(T) /\ Len(m) = e - b + 1 /\ \A i \in 1 .. e - b + 1 : m[i] = s[b + i - 1]
    <3>1. \A i \in b .. e : s[i] \in T
      BY <1>0, <1>1, <2>2
    <3> QED BY <2>2, <3>1, SubSeqProperties
  <2>5. /\ a \in Seq(T) /\ Len(a) = Len(s) - e
        /\ \A i \in 1 .. Len(s) - e : a[i] = s[e + i]
    BY Suffix
  <2>6. s = (p \o m) \o a
    <3>1. p \o m = SubSeq(s, 1, e)
      <4>1. /\ 1 \in 1 .. Len(s) + 1 /\ b - 1 \in 1 - 1 .. Len(s) /\ e \in b - 1 .. Len(s)
            /\ b - 1 + 1 = b
        BY <1>0, <1>1, <2>2
      <4> QED BY <4>1, ConcatAdjacentSubSeq
    <3>2. SubSeq(s, 1, e) \o a = SubSeq(s, 1, Len(s))
      <4>1. 1 \in 1 .. Len(s) + 1 /\ e \in 1 - 1 .. Len(s) /\ Len(s) \in e .. Len(s)
        BY <1>0, <1>1, <2>2
      <4> QED BY <4>1, ConcatAdjacentSubSeq
    <3> QED BY <3>1, <3>2, SubSeqFull
  <2> HIDE DEF p, m, a
  <2>7. Block(m)
    <3>1. m[1] = s[b] /\ m[e - b + 1] = s[e] /\ e - b + 1 >= 2
      BY <1>0, <1>1, <2>2, <2>4
    <3>2. s[b] = BeginMarker /\ s[e] = EndMarker
      BY <1>0, <1>1, <2>2
    <3> QED BY <2>4, <3>1, <3>2 DEF Block
  <2>8. Outside(a)
    <3> SUFFICES ASSUME NEW i \in 1 .. Len(a) PROVE a[i] # BeginMarker /\ a[i] # EndMarker
      BY DEF Outside
    <3>1. a[i] = s[e + i] /\ e + i \in 1 .. Len(s) /\ e + i > e /\ e + i > b
      BY <1>0, <1>1, <2>2, <2>5
    <3> QED BY <1>0, <1>1, <2>2, <3>1
  <2> QED BY <2>1, <2>3, <2>4, <2>5, <2>6, <2>7, <2>8
<1> QED BY <1>2, <1>3

\* splitBlock finds the block between lines without markers.
LEMMA SplitAt ==
  ASSUME NEW T, NEW p \in Seq(T), NEW m \in Seq(T), NEW a \in Seq(T), Block(m), Outside(a),
         \A i \in 2 .. Len(m) : m[i] # BeginMarker
  PROVE  SplitBlock((p \o m) \o a) = [before |-> p, after |-> a]
<1>1. PICK s \in Seq(T) :
        /\ s = (p \o m) \o a
        /\ Len(p) \in Nat /\ Len(m) \in Nat /\ Len(a) \in Nat
        /\ Len(s) = Len(p) + Len(m) + Len(a)
        /\ \A i \in 1 .. Len(p) : s[i] = p[i]
        /\ \A i \in 1 .. Len(m) : s[Len(p) + i] = m[i]
        /\ \A i \in 1 .. Len(a) : s[Len(p) + Len(m) + i] = a[i]
  <2>1. (p \o m) \o a \in Seq(T)
    BY CatThree
  <2> DEFINE t == (p \o m) \o a
  <2>2. /\ Len(p) \in Nat /\ Len(m) \in Nat /\ Len(a) \in Nat
        /\ Len(t) = Len(p) + Len(m) + Len(a)
        /\ \A i \in 1 .. Len(p) : t[i] = p[i]
        /\ \A i \in 1 .. Len(m) : t[Len(p) + i] = m[i]
        /\ \A i \in 1 .. Len(a) : t[Len(p) + Len(m) + i] = a[i]
    BY CatThree
  <2>3. t \in Seq(T) /\ t = (p \o m) \o a
    BY <2>1
  <2> HIDE DEF t
  <2> QED BY <2>2, <2>3
<1>1a. /\ Len(p) \in Nat /\ Len(m) \in Nat /\ Len(a) \in Nat /\ Len(m) >= 2
         /\ Len(s) = Len(p) + Len(m) + Len(a)
  BY <1>1 DEF Block
<1>2. PICK b \in 0 .. Len(s), e \in 0 .. Len(s) :
        /\ b = LastMark(s, BeginMarker) /\ (b # 0 => s[b] = BeginMarker)
        /\ \A i \in 1 .. Len(s) : s[i] = BeginMarker => i <= b
        /\ e = LastMark(s, EndMarker) /\ (e # 0 => s[e] = EndMarker)
        /\ \A i \in 1 .. Len(s) : s[i] = EndMarker => i <= e
  BY LastMarkIs
<1>3. Len(m) >= 2 /\ s[Len(p) + 1] = BeginMarker /\ s[Len(p) + Len(m)] = EndMarker
  BY <1>1 DEF Block
<1>4. b >= Len(p) + 1 /\ e >= Len(p) + Len(m)
  <2>1. Len(p) + 1 \in 1 .. Len(s) /\ Len(p) + Len(m) \in 1 .. Len(s)
    BY <1>1a
  <2> QED BY <1>2, <1>3, <2>1
<1>5. ASSUME NEW i \in 1 .. Len(s), i > Len(p) + Len(m)
      PROVE  s[i] # BeginMarker /\ s[i] # EndMarker
  <2>1. i - Len(p) - Len(m) \in 1 .. Len(a) /\ Len(p) + Len(m) + (i - Len(p) - Len(m)) = i
    BY <1>1, <1>5
  <2>2. s[i] = a[i - Len(p) - Len(m)]
    BY <1>1, <2>1
  <2> QED BY <2>1, <2>2 DEF Outside
<1>6. e = Len(p) + Len(m)
  <2>1. e \in 1 .. Len(s) /\ e # 0
    BY <1>1, <1>3, <1>4
  <2>2. ~(e > Len(p) + Len(m))
    BY <1>2, <1>5, <2>1
  <2>3. e \in Int /\ Len(p) + Len(m) \in Int
    BY <1>1a, <2>1
  <2>4. e <= Len(p) + Len(m) /\ e >= Len(p) + Len(m)
    BY <1>4, <2>2, <2>3
  <2> QED BY <2>3, <2>4
<1>7. b = Len(p) + 1
  <2> SUFFICES ASSUME b > Len(p) + 1 PROVE FALSE
    BY <1>1, <1>2, <1>4
  <2>1. s[b] = BeginMarker /\ b \in 1 .. Len(s) /\ b <= Len(p) + Len(m)
    BY <1>1, <1>2, <1>5
  <2>2. b - Len(p) \in 2 .. Len(m) /\ b - Len(p) \in 1 .. Len(m) /\ Len(p) + (b - Len(p)) = b
    BY <1>1, <2>1
  <2>3. s[b] = m[b - Len(p)]
    BY <1>1, <2>2
  <2> QED BY <2>1, <2>2, <2>3
<1>8. SplitBlock(s) = [before |-> SubSeq(s, 1, b - 1), after |-> SubSeq(s, e + 1, Len(s))]
  <2>1. ~(b = 0 \/ e <= b)
    BY <1>1, <1>3, <1>6, <1>7
  <2> QED BY <1>2, <2>1 DEF SplitBlock
<1>9. SubSeq(s, 1, b - 1) = p
  <2>1. b - 1 = Len(p) /\ \A i \in 1 .. b - 1 : s[i] \in T
    BY <1>1, <1>7, ElementOfSeq
  <2>2. /\ SubSeq(s, 1, b - 1) \in Seq(T) /\ Len(SubSeq(s, 1, b - 1)) = Len(p)
        /\ \A i \in 1 .. Len(p) : SubSeq(s, 1, b - 1)[i] = s[i]
    BY <1>1, <2>1, SubSeqProperties
  <2> QED BY <1>1, <2>2, SeqEqual
<1>10. SubSeq(s, e + 1, Len(s)) = a
  <2> DEFINE r == SubSeq(s, e + 1, Len(s))
  <2>1. r \in Seq(T) /\ Len(r) = Len(s) - e /\ \A i \in 1 .. Len(s) - e : r[i] = s[e + i]
    BY Suffix
  <2> HIDE DEF r
  <2>2. Len(r) = Len(a) /\ Len(s) - e = Len(a)
    BY <1>1, <1>6, <2>1
  <2>3. \A i \in 1 .. Len(r) : r[i] = a[i]
    BY <1>1, <1>6, <2>1, <2>2
  <2>4. r = a
    BY <2>1, <2>2, <2>3, SeqEqual
  <2> QED BY <2>4 DEF r
<1> QED BY <1>1, <1>8, <1>9, <1>10

\* Named, so that the provers instantiate it with the three sequences meant.
Grouped(p, q, r) == (p \o q) \o r = p \o (q \o r)

LEMMA Regroup == \A p, q, r \in Seq(Line) : Grouped(p, q, r)
BY ConcatAssociative DEF Grouped

\* The block with its markers.
Fence(defs) == (<<BeginMarker>> \o BlockLines(defs)) \o <<EndMarker>>

\* It is one, with the begin marker first only.
LEMMA FenceIs ==
  ASSUME NEW defs, Fits(defs)
  PROVE  /\ Fence(defs) \in Seq(Line) /\ Block(Fence(defs))
         /\ \A i \in 2 .. Len(Fence(defs)) : Fence(defs)[i] # BeginMarker
<1>0. <<BeginMarker>> \in Seq(Line) /\ <<EndMarker>> \in Seq(Line) /\ BlockLines(defs) \in Seq(Line)
  BY MarkersAreLines, BlockIs
<1>1. PICK b \in Seq(Line), e \in Seq(Line) :
        /\ b = <<BeginMarker>> /\ Len(b) = 1 /\ b[1] = BeginMarker
        /\ e = <<EndMarker>> /\ Len(e) = 1 /\ e[1] = EndMarker
  BY <1>0
<1>2. PICK k \in Seq(Line) : k = BlockLines(defs) /\ \A i \in 1 .. Len(k) : k[i] # BeginMarker
  BY <1>0, BlockIs, LenProperties
<1>3. PICK f \in Seq(Line) :
        /\ f = (b \o k) \o e /\ Len(b) \in Nat /\ Len(k) \in Nat /\ Len(e) \in Nat
        /\ Len(f) = Len(b) + Len(k) + Len(e)
        /\ \A i \in 1 .. Len(b) : f[i] = b[i]
        /\ \A i \in 1 .. Len(k) : f[Len(b) + i] = k[i]
        /\ \A i \in 1 .. Len(e) : f[Len(b) + Len(k) + i] = e[i]
  <2> DEFINE t == (b \o k) \o e
  <2>1. t \in Seq(Line) /\ t = (b \o k) \o e
    BY CatThree
  <2>2. /\ Len(b) \in Nat /\ Len(k) \in Nat /\ Len(e) \in Nat
        /\ Len(t) = Len(b) + Len(k) + Len(e)
        /\ \A i \in 1 .. Len(b) : t[i] = b[i]
        /\ \A i \in 1 .. Len(k) : t[Len(b) + i] = k[i]
        /\ \A i \in 1 .. Len(e) : t[Len(b) + Len(k) + i] = e[i]
    BY CatThree
  <2> HIDE DEF t
  <2> QED BY <2>1, <2>2
<1>4. PICK n \in Nat : n = Len(k)
  BY <1>3
<1>5. /\ Len(f) = n + 2 /\ f[1] = BeginMarker /\ f[n + 2] = EndMarker
      /\ \A i \in 1 .. n : f[1 + i] = k[i]
  <2>1. 1 \in 1 .. Len(b) /\ 1 \in 1 .. Len(e)
    BY <1>1
  <2>2. f[1] = BeginMarker /\ f[Len(b) + Len(k) + 1] = EndMarker
    BY <1>1, <1>3, <2>1
  <2>3. Len(b) + Len(k) + 1 = n + 2 /\ Len(f) = n + 2
    BY <1>1, <1>3, <1>4
  <2>4. \A i \in 1 .. n : f[1 + i] = k[i]
    BY <1>1, <1>3, <1>4
  <2> QED BY <2>2, <2>3, <2>4
<1>6. ASSUME NEW i \in 2 .. Len(f) PROVE f[i] # BeginMarker
  <2>1. CASE i = n + 2
    BY <1>5, <2>1, Kinds
  <2>2. CASE i # n + 2
    <3>0. i \in Int /\ 2 <= i /\ i <= n + 2
      BY <1>5
    <3>1. i - 1 \in 1 .. n /\ 1 + (i - 1) = i
      BY <2>2, <3>0
    <3>2. f[i] = k[i - 1]
      BY <1>5, <3>1
    <3> QED BY <1>2, <1>4, <3>1, <3>2
  <2> QED BY <2>1, <2>2
<1>7. Block(f)
  BY <1>5 DEF Block
<1>8. Fence(defs) = f
  BY <1>1, <1>2, <1>3 DEF Fence
<1> QED BY <1>6, <1>7, <1>8

\* The body, grouped around the block.
LEMMA BodyFence ==
  ASSUME NEW before \in Seq(Line), NEW after \in Seq(Line), NEW defs, Fits(defs)
  PROVE  Body(before, after, defs) = ((before \o Gap(before)) \o Fence(defs)) \o after
<1>1. PICK b \in Seq(Line), e \in Seq(Line), k \in Seq(Line), q \in Seq(Line) :
        b = <<BeginMarker>> /\ e = <<EndMarker>> /\ k = BlockLines(defs) /\ q = before \o Gap(before)
  <2>1. before \o Gap(before) \in Seq(Line)
    BY GapIs, ConcatProperties
  <2>2. <<BeginMarker>> \in Seq(Line) /\ <<EndMarker>> \in Seq(Line) /\ BlockLines(defs) \in Seq(Line)
    BY MarkersAreLines, BlockIs
  <2> QED BY <2>1, <2>2
<1>2. Body(before, after, defs) = (((q \o b) \o k) \o e) \o after /\ Fence(defs) = (b \o k) \o e
  BY <1>1 DEF Body, Fence
<1>3. b \o k \in Seq(Line)
  BY <1>1, ConcatProperties
<1>4. (q \o b) \o k = q \o (b \o k)
  <2>1. Grouped(q, b, k)
    BY <1>1, Regroup
  <2> QED BY <2>1 DEF Grouped
<1>5. (q \o (b \o k)) \o e = q \o ((b \o k) \o e)
  <2>1. PICK x \in Seq(Line) : x = b \o k
    BY <1>3
  <2>2. Grouped(q, x, e)
    BY <1>1, <2>1, Regroup
  <2> QED BY <2>1, <2>2 DEF Grouped
<1> QED BY <1>1, <1>2, <1>4, <1>5

\* The lines after Merge.
LEMMA MergedLines ==
  ASSUME NEW file \in Texts, NEW defs, Fits(defs), DOMAIN defs # {}
  PROVE  \E before, after \in Seq(Line) :
           /\ before = Keep(SplitBlock(Lines(file)).before, Unmanaged(DOMAIN defs))
           /\ after = Keep(SplitBlock(Lines(file)).after, Unmanaged(DOMAIN defs))
           /\ Lines(Merge(file, defs)) = ((before \o Gap(before)) \o Fence(defs)) \o Trim(after)
<1>1. PICK before, after \in Seq(Line) :
           /\ before = Keep(SplitBlock(Lines(file)).before, Unmanaged(DOMAIN defs))
           /\ after = Keep(SplitBlock(Lines(file)).after, Unmanaged(DOMAIN defs))
           /\ Merge(file, defs) = WriteLines(Body(before, after, defs))
  BY MergeIs
<1>2. PICK body \in Seq(Line) : body = Body(before, after, defs) /\ Lines(Merge(file, defs)) = Trim(body)
  <2> DEFINE body == Body(before, after, defs)
  <2>1. body \in Seq(Line)
    BY BodyIs
  <2>2. WriteLines(body) \in Seq(Line) /\ Trim(WriteLines(body)) = Trim(body)
    BY <2>1, WriteTrim
  <2>3. WriteLines(body) # NoFile /\ WriteLines(body) \in Texts
    BY <2>2, EnvConstants, NoFileIsText
  <2>4. Lines(Merge(file, defs)) = Trim(body)
    BY <1>1, <2>2, <2>3, LinesOf
  <2> QED BY <2>1, <2>4
<1>3. PICK q \in Seq(Line), f \in Seq(Line) :
        q = before \o Gap(before) /\ f = Fence(defs) /\ Block(f) /\ body = (q \o f) \o after
  <2>1. before \o Gap(before) \in Seq(Line)
    BY GapIs, ConcatProperties
  <2>2. Fence(defs) \in Seq(Line) /\ Block(Fence(defs))
    BY FenceIs
  <2>3. body = ((before \o Gap(before)) \o Fence(defs)) \o after
    BY <1>2, BodyFence
  <2> QED BY <2>1, <2>2, <2>3
<1>4. PICK t \in Seq(Line) : t = Trim(after) /\ EndsSolid(t)
  BY TrimIs
<1>5. PICK r \in Seq(Line) : r \in Blanks /\ after = t \o r
  <2>1. \E r \in Seq(Line) : r \in Blanks /\ after = Trim(after) \o r
    BY TrimIs
  <2> QED BY <1>4, <2>1
<1>6. q \o f \in Seq(Line) /\ (q \o f) \o t \in Seq(Line)
  BY ConcatProperties
<1>7. body = ((q \o f) \o t) \o r
  <2>1. (q \o f) \o (t \o r) = ((q \o f) \o t) \o r
    <3>1. PICK x \in Seq(Line) : x = q \o f
      BY <1>6
    <3>2. Grouped(x, t, r)
      BY <1>4, <1>5, <3>1, Regroup
    <3> QED BY <3>1, <3>2 DEF Grouped
  <2> QED BY <1>3, <1>5, <2>1
<1>8. EndsSolid((q \o f) \o t)
  <2>1. PICK s \in Seq(Line) :
          /\ s = (q \o f) \o t /\ Len(q) \in Nat /\ Len(f) \in Nat /\ Len(t) \in Nat
          /\ Len(s) = Len(q) + Len(f) + Len(t)
          /\ \A i \in 1 .. Len(f) : s[Len(q) + i] = f[i]
          /\ \A i \in 1 .. Len(t) : s[Len(q) + Len(f) + i] = t[i]
    <3> DEFINE u == (q \o f) \o t
    <3>1. u \in Seq(Line) /\ u = (q \o f) \o t
      BY <1>6
    <3>2. /\ Len(q) \in Nat /\ Len(f) \in Nat /\ Len(t) \in Nat
          /\ Len(u) = Len(q) + Len(f) + Len(t)
          /\ \A i \in 1 .. Len(f) : u[Len(q) + i] = f[i]
          /\ \A i \in 1 .. Len(t) : u[Len(q) + Len(f) + i] = t[i]
      <4>1. q \in Seq(Line) /\ f \in Seq(Line) /\ t \in Seq(Line)
        BY <1>3, <1>4
      <4> QED BY <4>1, CatThree, SMTT(60)
    <3> HIDE DEF u
    <3> QED BY <3>1, <3>2
  <2>2. CASE Len(t) = 0
    <3>1. Len(f) \in 1 .. Len(f) /\ Len(s) = Len(q) + Len(f)
      BY <1>3, <2>1, <2>2 DEF Block
    <3>2. s[Len(s)] = f[Len(f)]
      BY <2>1, <3>1
    <3>3. s[Len(s)] # Blank
      BY <1>3, <3>2, Kinds DEF Block
    <3> QED BY <2>1, <3>3 DEF EndsSolid
  <2>3. CASE Len(t) # 0
    <3>1. Len(t) \in 1 .. Len(t)
      BY <2>1, <2>3
    <3>2. s[Len(s)] = t[Len(t)]
      BY <2>1, <3>1
    <3>3. t # <<>>
      BY <2>3, EmptySeq
    <3> QED BY <1>4, <2>1, <3>2, <3>3 DEF EndsSolid
  <2> QED BY <2>2, <2>3
<1>9. Trim(body) = (q \o f) \o t
  BY <1>5, <1>6, <1>7, <1>8, TrimOnly
<1> QED BY <1>1, <1>2, <1>3, <1>4, <1>9

\* Markers do not come from Keep ...
LEMMA KeepOutside ==
  ASSUME NEW T, NEW s \in Seq(T), NEW S, Outside(s)
  PROVE  Outside(Keep(s, S))
<1> DEFINE T1 == ToSet(s) \ {BeginMarker, EndMarker}
<1>1. s \in Seq(ToSet(s)) /\ Len(s) \in Nat /\ DOMAIN s = 1 .. Len(s)
  BY InElements, LenProperties
<1>2. ToSet(s) \subseteq T1
  BY <1>1 DEF Outside, ToSet
<1> HIDE DEF T1
<1>3. s \in Seq(T1)
  BY <1>1, <1>2, SeqMonotonic
<1>4. Keep(s, S) \in Seq(T1)
  BY <1>3, KeepSeq
<1>5. \A i \in 1 .. Len(Keep(s, S)) : Keep(s, S)[i] \in T1
  BY <1>4, ElementOfSeq
<1> QED BY <1>5 DEF T1, Outside

\* ... nor from Trim.
LEMMA TrimOutside ==
  ASSUME NEW T, NEW s \in Seq(T), Outside(s)
  PROVE  Outside(Trim(s))
<1>1. PICK r \in Seq(T) : s = Trim(s) \o r
  BY TrimIs
<1>2. Trim(s) \in Seq(T)
  BY TrimIs
<1>3. \A i \in 1 .. Len(Trim(s)) : i \in 1 .. Len(s) /\ s[i] = Trim(s)[i]
  <2> DEFINE t == Trim(s)
  <2> SUFFICES ASSUME NEW i \in 1 .. Len(t) PROVE i \in 1 .. Len(s) /\ s[i] = t[i]
    OBVIOUS
  <2>1. t \in Seq(T) /\ s = t \o r
    BY <1>1, <1>2
  <2> HIDE DEF t
  <2>2. Len(t) \in Nat /\ Len(r) \in Nat
    BY <1>1, <2>1, LenProperties
  <2>3. /\ Len(s) = Len(t) + Len(r)
        /\ \A j \in 1 .. Len(t) + Len(r) : s[j] = IF j <= Len(t) THEN t[j] ELSE r[j - Len(t)]
    BY <1>1, <2>1, ConcatProperties
  <2> QED BY <2>2, <2>3
<1> QED BY <1>3 DEF Outside

\* Keep changes nothing in lines that were kept.
LEMMA KeepTrim ==
  ASSUME NEW s \in Seq(Line), NEW S
  PROVE  s \in Seq(Line \cap S) => Keep(Trim(s), S) = Trim(s) /\ Keep(s, S) = s
<1> SUFFICES ASSUME s \in Seq(Line \cap S) PROVE Keep(Trim(s), S) = Trim(s) /\ Keep(s, S) = s
  OBVIOUS
<1>1. Trim(s) \in Seq(Line \cap S)
  BY TrimIs
<1>2. Line \cap S \subseteq S
  OBVIOUS
<1> QED BY <1>1, <1>2, KeepAll

\* The lines after Merge, and how the next command splits them.
LEMMA MergedSplit ==
  ASSUME NEW file \in Texts, NEW defs, Fits(defs), DOMAIN defs # {}
  PROVE  \E before, after \in Seq(Line) :
           /\ before = Keep(SplitBlock(Lines(file)).before, Unmanaged(DOMAIN defs))
           /\ after = Keep(SplitBlock(Lines(file)).after, Unmanaged(DOMAIN defs))
           /\ Lines(Merge(file, defs)) = ((before \o Gap(before)) \o Fence(defs)) \o Trim(after)
           /\ SplitBlock(Lines(Merge(file, defs)))
                = [before |-> before \o Gap(before), after |-> Trim(after)]
<1> DEFINE U == Unmanaged(DOMAIN defs)
           new == Merge(file, defs)
<1>1. PICK before, after \in Seq(Line) :
           /\ before = Keep(SplitBlock(Lines(file)).before, U)
           /\ after = Keep(SplitBlock(Lines(file)).after, U)
           /\ Lines(new) = ((before \o Gap(before)) \o Fence(defs)) \o Trim(after)
  BY MergedLines
<1>3. Outside(after)
  <2>1. Outside(SplitBlock(Lines(file)).after)
    <3>1. Lines(file) \in Seq(Line)
      BY LinesOf
    <3>2. Outside(<<>>)
      BY EmptySeq DEF Outside
    <3> QED BY <3>1, <3>2, SplitCases
  <2>2. SplitBlock(Lines(file)).after \in Seq(Line)
    BY LinesOf, SplitSeqs
  <2> QED BY <1>1, <2>1, <2>2, KeepOutside
<1> DEFINE q == before \o Gap(before)
           t == Trim(after)
<1>4. q \in Seq(Line) /\ t \in Seq(Line) /\ Outside(t)
  BY <1>1, <1>3, GapIs, ConcatProperties, TrimIs, TrimOutside
<1>5. /\ Fence(defs) \in Seq(Line) /\ Block(Fence(defs))
      /\ \A i \in 2 .. Len(Fence(defs)) : Fence(defs)[i] # BeginMarker
  BY FenceIs
<1>6. SplitBlock(Lines(new)) = [before |-> q, after |-> t]
  <2>1. Lines(new) = (q \o Fence(defs)) \o t
    BY <1>1
  <2> HIDE DEF q, t, new
  <2> QED BY <1>4, <1>5, <2>1, SplitAt
<1> QED BY <1>1, <1>6

\* Trim once is enough.
LEMMA TrimTwice ==
  ASSUME NEW T, NEW s \in Seq(T)
  PROVE  Trim(Trim(s)) = Trim(s)
<1>1. PICK t \in Seq(T) : t = Trim(s) /\ EndsSolid(t)
  BY TrimIs
<1>2. t \o <<>> = t /\ <<>> \in Seq(T) /\ <<>> \in Blanks
  BY <1>1, ConcatEmptySeq, EmptySeq DEF Blanks
<1>3. Trim(t \o <<>>) = t
  BY <1>1, <1>2, TrimOnly
<1> QED BY <1>1, <1>2, <1>3

\* Around its block, a file has none of the names.
Apart(lines, names) == /\ SplitBlock(lines).before \in Seq(Line \cap Unmanaged(names))
                       /\ SplitBlock(lines).after \in Seq(Line \cap Unmanaged(names))

\* A gap is written once.
LEMMA GapOnce ==
  ASSUME NEW before \in Seq(Line)
  PROVE  Gap(before \o Gap(before)) = <<>>
<1> DEFINE q == before \o Gap(before)
<1>1. CASE Gap(before) = <<>>
  <2>1. q = before
    BY <1>1, ConcatEmptySeq
  <2> QED BY <1>1, <2>1
<1>2. CASE Gap(before) # <<>>
  <2>1. Gap(before) = <<Blank>>
    BY <1>2 DEF Gap
  <2>2. PICK g \in Seq(Line) : g = Gap(before) /\ Len(g) = 1 /\ g[1] = Blank
    BY <2>1, GapIs
  <2>3. Len(before) \in Nat
    BY LenProperties
  <2>4. /\ Len(before \o g) = Len(before) + Len(g)
        /\ \A i \in 1 .. Len(before) + Len(g) :
             (before \o g)[i] = IF i <= Len(before) THEN before[i] ELSE g[i - Len(before)]
    BY <2>2, ConcatProperties, SMTT(60)
  <2>5. Last(before \o g) = Blank
    BY <2>2, <2>3, <2>4 DEF Last
  <2> QED BY <2>2, <2>5 DEF Gap
<1> QED BY <1>1, <1>2

\* The lines q, the block of defs, and the lines t: the names are not around the block, the gap
\* before it is closed, and no blank lines are at the end.
Shape(lines, defs, names, q, t) ==
  /\ q \in Seq(Line \cap Unmanaged(names)) /\ t \in Seq(Line \cap Unmanaged(names))
  /\ Gap(q) = <<>> /\ Trim(t) = t
  /\ lines = (q \o Fence(defs)) \o t
  /\ SplitBlock(lines) = [before |-> q, after |-> t]

\* What Merge leaves: the names that were not around the block still are not, nor its own.
LEMMA MergeShapes ==
  ASSUME NEW file \in Texts, NEW defs, Fits(defs), DOMAIN defs # {}, NEW names,
         Apart(Lines(file), names)
  PROVE  \E q, t : Shape(Lines(Merge(file, defs)), defs, names \cup DOMAIN defs, q, t)
<1> DEFINE U == Unmanaged(DOMAIN defs)
           V == Unmanaged(names)
           W == Unmanaged(names \cup DOMAIN defs)
           new == Lines(Merge(file, defs))
           sb == SplitBlock(Lines(file)).before
           sa == SplitBlock(Lines(file)).after
<1>1. PICK before, after \in Seq(Line) :
           /\ before = Keep(sb, U) /\ after = Keep(sa, U)
           /\ new = ((before \o Gap(before)) \o Fence(defs)) \o Trim(after)
           /\ SplitBlock(new) = [before |-> before \o Gap(before), after |-> Trim(after)]
  BY MergedSplit
<1>2. (Line \cap V) \cap U = Line \cap W
  BY DEF Unmanaged
<1>3. before \in Seq(Line \cap W) /\ after \in Seq(Line \cap W)
  <2>1. sb \in Seq(Line \cap V) /\ sa \in Seq(Line \cap V)
    BY DEF Apart
  <2> HIDE DEF U, V, W, sb, sa
  <2>2. Keep(sb, U) \in Seq((Line \cap V) \cap U) /\ Keep(sa, U) \in Seq((Line \cap V) \cap U)
    BY <2>1, KeepType
  <2> QED BY <1>1, <1>2, <2>2
<1>4. before \o Gap(before) \in Seq(Line \cap W)
  <2>1. Blank \in Line \cap W
    BY MarkersAreLines, Kinds DEF Unmanaged
  <2>2. Gap(before) \in Seq({Blank})
    BY <1>1, GapIs DEF Blanks
  <2> HIDE DEF W
  <2>3. Gap(before) \in Seq(Line \cap W)
    BY <2>1, <2>2, SeqMonotonic
  <2> QED BY <1>3, <2>3, ConcatProperties
<1>5. Trim(after) \in Seq(Line \cap W)
  <2> HIDE DEF W
  <2> QED BY <1>3, TrimIs
<1>6. Trim(Trim(after)) = Trim(after) /\ Gap(before \o Gap(before)) = <<>>
  BY <1>1, GapOnce, TrimTwice
<1> HIDE DEF U, V, sb, sa, new, W
<1> QED BY <1>1, <1>4, <1>5, <1>6 DEF new, W, Shape

\* A Merge whose names are not around the block changes the block only.
LEMMA MergeFixes ==
  ASSUME NEW file \in Texts, NEW defs, Fits(defs), DOMAIN defs # {}, NEW names,
         DOMAIN defs \subseteq names, NEW last, NEW q, NEW t, Shape(Lines(file), last, names, q, t)
  PROVE  Shape(Lines(Merge(file, defs)), defs, names, q, t)
<1> USE DEF Shape
<1> DEFINE U == Unmanaged(DOMAIN defs)
           new == Lines(Merge(file, defs))
<1>1. PICK before, after \in Seq(Line) :
           /\ before = Keep(SplitBlock(Lines(file)).before, U)
           /\ after = Keep(SplitBlock(Lines(file)).after, U)
           /\ new = ((before \o Gap(before)) \o Fence(defs)) \o Trim(after)
           /\ SplitBlock(new) = [before |-> before \o Gap(before), after |-> Trim(after)]
  BY MergedSplit
<1>2. Line \cap Unmanaged(names) \subseteq U
  BY DEF Unmanaged
<1>3. Keep(q, U) = q /\ Keep(t, U) = t
  <2> HIDE DEF U
  <2> QED BY <1>2, KeepAll
<1>4. before = q /\ after = t
  <2> HIDE DEF U, new
  <2>1. SplitBlock(Lines(file)).before = q /\ SplitBlock(Lines(file)).after = t
    OBVIOUS
  <2> QED BY <1>1, <1>3, <2>1, Zenon
<1>5. q \o Gap(q) = q
  BY ConcatEmptySeq
<1> HIDE DEF U, new
<1> QED BY <1>1, <1>4, <1>5 DEF new

\* The names that the first i paths manage.
Names(w, s, i) == UNION {DOMAIN EnvFileVars(w, s[j]) : j \in 1 .. i}

\* One more path adds its own.
LEMMA NamesGrow ==
  ASSUME NEW w, NEW s, NEW i \in Nat \ {0}
  PROVE  Names(w, s, i) = Names(w, s, i - 1) \cup DOMAIN EnvFileVars(w, s[i])
<1> SUFFICES ASSUME NEW x
             PROVE  x \in Names(w, s, i) <=> x \in Names(w, s, i - 1) \/ x \in DOMAIN EnvFileVars(w, s[i])
  OBVIOUS
<1>1. \A n : x \in Names(w, s, n) <=> \E j \in 1 .. n : x \in DOMAIN EnvFileVars(w, s[j])
  BY DEF Names
<1>2. \A j : j \in 1 .. i <=> j \in 1 .. (i - 1) \/ j = i
  OBVIOUS
<1> QED BY <1>1, <1>2

\* After a chain of Merges nothing that it manages is around the block, and the last block stands.
LEMMA ChainShapes ==
  ASSUME NEW w \in Sources, NEW f, NEW old \in Texts, NEW k, k[0] = old,
         Spellings(w.cfg, f) # <<>>, Chain(w, Spellings(w.cfg, f), k)
  PROVE  LET s == Spellings(w.cfg, f)
             m == Len(s)
         IN  \E q, t : Shape(Lines(k[m]), EnvFileVars(w, s[m]), Names(w, s, m), q, t)
<1> DEFINE s == Spellings(w.cfg, f)
           m == Len(s)
           V(i) == EnvFileVars(w, s[i])
           N(i) == Names(w, s, i)
           T == {i \in Nat : Apart(Lines(k[i]), N(i))}
<1>1. m \in Nat /\ m # 0
  BY SpellingsAre, EmptySeq, LenProperties
<1>2. \A i \in 0 .. m : k[i] \in Texts
  BY MergesAreTexts
<1>3. \A i \in 1 .. m : /\ Fits(V(i)) /\ DOMAIN V(i) # {} /\ k[i] = Merge(k[i - 1], V(i))
                        /\ N(i) = N(i - 1) \cup DOMAIN V(i) /\ k[i - 1] \in Texts
  <2> SUFFICES ASSUME NEW i \in 1 .. m
               PROVE  /\ Fits(V(i)) /\ DOMAIN V(i) # {} /\ k[i] = Merge(k[i - 1], V(i))
                      /\ N(i) = N(i - 1) \cup DOMAIN V(i) /\ k[i - 1] \in Texts
    OBVIOUS
  <2>1. i \in Nat \ {0} /\ i - 1 \in 0 .. m
    BY <1>1
  <2>2. Fits(V(i)) /\ DOMAIN V(i) # {}
    BY SpelledFits
  <2>3. k[i] = Merge(k[i - 1], V(i)) /\ k[i - 1] \in Texts
    BY <1>2, <2>1 DEF Chain
  <2> QED BY <2>1, <2>2, <2>3, NamesGrow
<1>4. 0 \in T
  <2>1. Unmanaged({}) = Line /\ Line \cap Line = Line
    BY DEF Unmanaged
  <2>2. N(0) = {}
    BY DEF Names
  <2>3. Lines(k[0]) \in Seq(Line)
    BY LinesOf
  <2>4. SplitBlock(Lines(k[0])).before \in Seq(Line) /\ SplitBlock(Lines(k[0])).after \in Seq(Line)
    BY <2>3, SplitSeqs
  <2> QED BY <2>1, <2>2, <2>4 DEF Apart
<1> HIDE DEF V, N
<1>5. ASSUME NEW i \in 1 .. m, i - 1 \in T
      PROVE  \E q, t : Shape(Lines(k[i]), V(i), N(i), q, t)
  <2>1. Apart(Lines(k[i - 1]), N(i - 1))
    BY <1>5
  <2>2. /\ Fits(V(i)) /\ DOMAIN V(i) # {} /\ k[i] = Merge(k[i - 1], V(i))
        /\ N(i) = N(i - 1) \cup DOMAIN V(i) /\ k[i - 1] \in Texts
    BY <1>3
  <2>3. \E q, t : Shape(Lines(Merge(k[i - 1], V(i))), V(i), N(i - 1) \cup DOMAIN V(i), q, t)
    <3>1. PICK file, defs, names : file = k[i - 1] /\ defs = V(i) /\ names = N(i - 1)
      OBVIOUS
    <3>2. file \in Texts /\ Fits(defs) /\ DOMAIN defs # {} /\ Apart(Lines(file), names)
      BY <2>1, <2>2, <3>1, Zenon
    <3>3. \E q, t : Shape(Lines(Merge(file, defs)), defs, names \cup DOMAIN defs, q, t)
      BY <3>2, MergeShapes
    <3> QED BY <3>1, <3>3, Zenon
  <2> QED BY <2>2, <2>3
<1>6. ASSUME NEW i \in 1 .. m, i - 1 \in T PROVE i \in T
  <2>1. PICK q, t : Shape(Lines(k[i]), V(i), N(i), q, t)
    BY <1>5, <1>6
  <2>2. \A lines, defs, names : Shape(lines, defs, names, q, t) => Apart(lines, names)
    BY DEF Apart, Shape
  <2>3. Apart(Lines(k[i]), N(i))
    BY <2>1, <2>2, Zenon
  <2> QED BY <1>1, <2>3
<1>7. m \in 1 .. m /\ m - 1 \in T
  <2> HIDE DEF T, m
  <2>1. \A i \in 0 .. m : i \in T
    BY <1>1, <1>4, <1>6, Along
  <2> QED BY <1>1, <2>1
<1>8. \E q, t : Shape(Lines(k[m]), V(m), N(m), q, t)
  <2> HIDE DEF T, m
  <2> QED BY <1>5, <1>7
<1> QED BY <1>8 DEF V, N

\* A second chain of the same Merges changes nothing.
LEMMA ChainSettles ==
  ASSUME NEW w \in Sources, NEW f, NEW old \in Texts
  PROVE  LET s == Spellings(w.cfg, f) IN
         Lines(MergeEach(w, s, MergeEach(w, s, old))) = Lines(MergeEach(w, s, old))
<1> DEFINE s == Spellings(w.cfg, f)
           m == Len(s)
           V(i) == EnvFileVars(w, s[i])
           N == Names(w, s, m)
<1>1. m \in Nat
  BY SpellingsAre, LenProperties
<1>2. PICK k : k[0] = old /\ MergeEach(w, s, old) = k[m] /\ Chain(w, s, k)
  BY <1>1, MergeEachIs
<1>3. PICK l : l[0] = k[m] /\ MergeEach(w, s, k[m]) = l[m] /\ Chain(w, s, l)
  BY <1>1, MergeEachIs
<1>4. CASE s = <<>>
  <2>1. m = 0
    BY <1>4, EmptySeq
  <2> QED BY <1>2, <1>3, <2>1
<1>5. CASE s # <<>>
  <2>1. m # 0 /\ m \in 1 .. m
    BY <1>1, <1>5, SpellingsAre, EmptySeq
  <2>2. PICK q, t : Shape(Lines(k[m]), V(m), N, q, t)
    BY <1>2, <1>5, ChainShapes
  <2>3. k[m] \in Texts
    <3>1. \A i \in 0 .. m : k[i] \in Texts
      BY <1>2, MergesAreTexts
    <3> QED BY <1>1, <3>1
  <2>4. \A i \in 0 .. m : l[i] \in Texts
    BY <1>3, <2>3, MergesAreTexts
  <2>5. \A i \in 1 .. m : /\ Fits(V(i)) /\ DOMAIN V(i) # {} /\ DOMAIN V(i) \subseteq N
                          /\ l[i] = Merge(l[i - 1], V(i))
    <3>1. \A i \in 1 .. m : Fits(V(i)) /\ DOMAIN V(i) # {}
      BY SpelledFits
    <3>2. \A i \in 1 .. m : DOMAIN V(i) \subseteq N
      BY DEF Names
    <3>3. \A i \in 1 .. m : l[i] = Merge(l[i - 1], V(i))
      BY <1>3 DEF Chain
    <3> QED BY <3>1, <3>2, <3>3
  <2> DEFINE T == {i \in Nat : \E last : Shape(Lines(l[i]), last, N, q, t)}
  <2> HIDE DEF V, N, m, s
  <2>6. 0 \in T
    BY <1>3, <2>2
  <2>7. ASSUME NEW i \in 1 .. m, i - 1 \in T PROVE Shape(Lines(l[i]), V(i), N, q, t)
    <3>1. i - 1 \in 0 .. m /\ l[i - 1] \in Texts
      BY <1>1, <2>4
    <3>2. l[i] = Merge(l[i - 1], V(i)) /\ Fits(V(i)) /\ DOMAIN V(i) # {} /\ DOMAIN V(i) \subseteq N
      BY <2>5
    <3>3. PICK last : Shape(Lines(l[i - 1]), last, N, q, t)
      BY <2>7
    <3>4. Shape(Lines(Merge(l[i - 1], V(i))), V(i), N, q, t)
      <4> HIDE DEF T
      <4> QED BY <3>1, <3>2, <3>3, MergeFixes
    <3> QED BY <3>2, <3>4
  <2>8. ASSUME NEW i \in 1 .. m, i - 1 \in T PROVE i \in T
    BY <1>1, <2>7, <2>8
  <2>9. m - 1 \in T
    <3> HIDE DEF T
    <3>1. \A i \in 0 .. m : i \in T
      BY <1>1, <2>6, <2>8, Along
    <3> QED BY <1>1, <2>1, <3>1
  <2>10. Shape(Lines(l[m]), V(m), N, q, t)
    <3> HIDE DEF T
    <3> QED BY <2>1, <2>7, <2>9
  <2>11. Lines(l[m]) = Lines(k[m])
    BY <2>2, <2>10 DEF Shape
  <2> QED BY <1>2, <1>3, <2>11 DEF s
<1> QED BY <1>4, <1>5

\* The same command again finds the lines it would write.
LEMMA WriteSettlesHolds == EnvTypeOK /\ AsWritten => WriteSettles
<1> SUFFICES ASSUME EnvTypeOK, AsWritten, written # None, NEW f \in Files
             PROVE  Lines(MergeEnvFiles(written, files)[f]) = Lines(files[f])
  BY DEF WriteSettles
<1>1. written \in Sources
  BY DEF EnvTypeOK
<1>2. PICK old \in Texts : files[f] = MergeEach(written, Spellings(written.cfg, f), old)
  BY DEF AsWritten
<1>3. MergeEnvFiles(written, files)[f] = MergeEach(written, Spellings(written.cfg, f), files[f])
  BY DEF MergeEnvFiles
<1> QED BY <1>1, <1>2, <1>3, ChainSettles

\* up and share settle (dotenv_test.go, TestMerge_IsIdempotent): run again, the same
\* command writes the lines that are there, even when the markers were damaged before.
THEOREM WritingSettles == Spec => []WriteSettles
BY AsWrittenAlways, WriteSettlesHolds, PTL

-----------------------------------------------------------------------------
(* The lines that are not Outport's.                                       *)

\* The lines that are not blank.
Solid == Line \ {Blank}

\* In an intact file a marker has one position.
LEMMA OneMark ==
  ASSUME NEW s \in Seq(Line), NEW m, Cardinality(Marks(s, m)) <= 1,
         NEW i \in Marks(s, m), NEW j \in Marks(s, m)
  PROVE  i = j
<1>1. IsFiniteSet(Marks(s, m))
  <2>1. Len(s) \in Nat /\ DOMAIN s = 1 .. Len(s)
    BY LenProperties
  <2>2. IsFiniteSet(1 .. Len(s))
    BY <2>1, FS_Interval
  <2>3. Marks(s, m) \in SUBSET (1 .. Len(s))
    BY <2>1 DEF Marks
  <2> QED BY <2>2, <2>3, FS_Subset
<1>2. Cardinality(Marks(s, m)) \in Nat /\ Cardinality(Marks(s, m)) # 0
  BY <1>1, FS_CardinalityType, FS_EmptySet
<1>3. Cardinality(Marks(s, m)) = 1
  BY <1>2
<1>4. PICK x : Marks(s, m) = {x}
  BY <1>1, <1>3, FS_Singleton
<1> QED BY <1>4

\* The positions in a block lie between its markers.
LEMMA InBlockIs ==
  ASSUME NEW s, NEW i
  PROVE  i \in InBlock(s) <=> \E b \in Marks(s, BeginMarker), e \in Marks(s, EndMarker) : i \in b .. e
<1> DEFINE Span(b, e) == b .. e
<1>1. InBlock(s) = UNION {Span(b, e) : b \in Marks(s, BeginMarker), e \in Marks(s, EndMarker)}
  BY DEF InBlock
<1>2. \A b, e : i \in Span(b, e) <=> i \in b .. e
  OBVIOUS
<1> HIDE DEF Span
<1> QED BY <1>1, <1>2

\* OwnLines is Keep, with the block blanked out.
LEMMA OwnLinesMasked ==
  ASSUME NEW s \in Seq(Line)
  PROVE  \E masked \in Seq(Line) :
           /\ Len(masked) = Len(s)
           /\ \A i \in 1 .. Len(s) : masked[i] = IF i \in InBlock(s) THEN Blank ELSE s[i]
           /\ OwnLines(s) = Keep(masked, Solid)
<1> DEFINE block == InBlock(s)
           masked == [i \in DOMAIN s |-> IF i \in block THEN Blank ELSE s[i]]
           A == ToSet(s) \ {Blank}
<1>1. /\ Len(s) \in Nat /\ DOMAIN s = 1 .. Len(s) /\ \A i \in 1 .. Len(s) : s[i] \in Line
  BY LenProperties, ElementOfSeq
<1>2. OwnLines(s) = Keep(masked, A)
  BY Zenon DEF OwnLines
<1> HIDE DEF block
<1>3. /\ masked \in Seq(Line) /\ Len(masked) = Len(s)
      /\ \A i \in 1 .. Len(s) : masked[i] = IF i \in block THEN Blank ELSE s[i]
  <2>1. \A i \in 1 .. Len(s) : (IF i \in block THEN Blank ELSE s[i]) \in Line
    BY <1>1, MarkersAreLines
  <2>2. masked = [i \in 1 .. Len(s) |-> IF i \in block THEN Blank ELSE s[i]]
    BY <1>1
  <2> QED BY <1>1, <2>1, <2>2
<1>4. ToSet(masked) \cap A = ToSet(masked) \cap Solid
  <2>1. \A x \in ToSet(masked) : x = Blank \/ x \in ToSet(s)
    BY <1>1 DEF ToSet
  <2>2. ToSet(s) \subseteq Line
    BY InElements
  <2> QED BY <2>1, <2>2 DEF Solid
<1> HIDE DEF masked, A
<1>5. Keep(masked, A) = Keep(masked, Solid)
  <2>1. masked \in Seq(ToSet(masked))
    BY <1>3, InElements
  <2> QED BY <1>4, <2>1, KeepSame
<1> QED BY <1>2, <1>3, <1>5 DEF block

\* In an intact file the user's lines are those that splitBlock puts around the block.
LEMMA OwnLinesAre ==
  ASSUME NEW s \in Seq(Line), Intact(s)
  PROVE  OwnLines(s) = Keep(SplitBlock(s).before, Solid) \o Keep(SplitBlock(s).after, Solid)
<1>0. Len(s) \in Nat /\ DOMAIN s = 1 .. Len(s)
  BY LenProperties
<1>1. PICK masked \in Seq(Line) :
           /\ Len(masked) = Len(s)
           /\ \A i \in 1 .. Len(s) : masked[i] = IF i \in InBlock(s) THEN Blank ELSE s[i]
           /\ OwnLines(s) = Keep(masked, Solid)
  BY OwnLinesMasked
<1>2. /\ \A i, j \in Marks(s, BeginMarker) : i = j
      /\ \A i, j \in Marks(s, EndMarker) : i = j
  BY OneMark DEF Intact
<1>3. CASE NoBlock(s) /\ SplitBlock(s) = [before |-> s, after |-> <<>>]
  <2>1. \A i : i \notin InBlock(s)
    <3> SUFFICES ASSUME NEW i, i \in InBlock(s) PROVE FALSE
      OBVIOUS
    <3>1. PICK b \in Marks(s, BeginMarker), e \in Marks(s, EndMarker) : i \in b .. e
      BY InBlockIs
    <3>2. b \in 1 .. Len(s) /\ s[b] = BeginMarker /\ e \in 1 .. Len(s) /\ s[e] = EndMarker
      BY <1>0, <3>1 DEF Marks
    <3>3. b <= e /\ b # e
      <4>1. b \in Int /\ e \in Int
        BY <1>0, <3>2
      <4>2. b <= e
        BY <3>1, <4>1
      <4>3. b # e
        BY <3>2, Kinds
      <4> QED BY <4>2, <4>3
    <3>4. PICK lb \in 0 .. Len(s), le \in 0 .. Len(s) :
            /\ lb = LastMark(s, BeginMarker) /\ (lb # 0 => s[lb] = BeginMarker)
            /\ le = LastMark(s, EndMarker) /\ (le # 0 => s[le] = EndMarker)
            /\ b <= lb /\ e <= le
      BY <3>2, LastMarkIs
    <3>5. lb # 0 /\ le # 0
      BY <1>0, <3>2, <3>4
    <3>6. lb \in Marks(s, BeginMarker) /\ le \in Marks(s, EndMarker)
      BY <1>0, <3>4, <3>5 DEF Marks
    <3>7. lb = b /\ le = e
      BY <1>2, <3>1, <3>6
    <3>8. le <= lb
      BY <1>3, <3>4, <3>5 DEF NoBlock
    <3> QED BY <1>0, <3>2, <3>3, <3>7, <3>8
  <2>2. masked = s
    BY <1>1, <2>1, SeqEqual
  <2>3. Keep(s, Solid) \o Keep(<<>>, Solid) = Keep(s, Solid)
    BY KeepEmpty, KeepSeq, ConcatEmptySeq
  <2> QED BY <1>1, <1>3, <2>2, <2>3
<1>4. ASSUME NEW p \in Seq(Line), NEW m \in Seq(Line), NEW a \in Seq(Line),
             s = (p \o m) \o a, SplitBlock(s) = [before |-> p, after |-> a], Block(m)
      PROVE  OwnLines(s) = Keep(p, Solid) \o Keep(a, Solid)
  <2>1. /\ Len(p) \in Nat /\ Len(m) \in Nat /\ Len(a) \in Nat
        /\ Len(s) = Len(p) + Len(m) + Len(a)
        /\ \A i \in 1 .. Len(p) : s[i] = p[i]
        /\ \A i \in 1 .. Len(m) : s[Len(p) + i] = m[i]
        /\ \A i \in 1 .. Len(a) : s[Len(p) + Len(m) + i] = a[i]
    BY <1>4, CatThree, SMTT(60)
  <2>2. Len(m) >= 2 /\ s[Len(p) + 1] = BeginMarker /\ s[Len(p) + Len(m)] = EndMarker
    <3>1. Len(m) >= 2 /\ 1 \in 1 .. Len(m) /\ Len(m) \in 1 .. Len(m)
      BY <1>4, <2>1 DEF Block
    <3> QED BY <1>4, <2>1, <3>1 DEF Block
  <2>3. Len(p) + 1 \in Marks(s, BeginMarker) /\ Len(p) + Len(m) \in Marks(s, EndMarker)
    <3>1. Len(p) + 1 \in 1 .. Len(s) /\ Len(p) + Len(m) \in 1 .. Len(s)
      BY <2>1, <2>2
    <3> QED BY <1>0, <2>2, <3>1 DEF Marks
  <2>4. \A i : i \in InBlock(s) <=> i \in Len(p) + 1 .. Len(p) + Len(m)
    BY <1>2, <2>3, InBlockIs
  <2>5. PICK n \in Seq(Line) : n \in Blanks /\ Len(n) = Len(m) /\ \A i \in 1 .. Len(m) : n[i] = Blank
    <3> DEFINE n == [i \in 1 .. Len(m) |-> Blank]
    <3>1. n \in Seq(Line) /\ n \in Blanks /\ Len(n) = Len(m)
      BY <2>1, MarkersAreLines DEF Blanks
    <3> QED BY <3>1
  <2>6. PICK z \in Seq(Line) :
          /\ z = (p \o n) \o a /\ Len(z) = Len(p) + Len(n) + Len(a)
          /\ \A i \in 1 .. Len(p) : z[i] = p[i]
          /\ \A i \in 1 .. Len(n) : z[Len(p) + i] = n[i]
          /\ \A i \in 1 .. Len(a) : z[Len(p) + Len(n) + i] = a[i]
    <3> DEFINE u == (p \o n) \o a
    <3>0. n \in Seq(Line)
      BY <2>5
    <3>1. u \in Seq(Line) /\ u = (p \o n) \o a
      BY <3>0, CatThree, SMTT(60)
    <3>2. /\ Len(u) = Len(p) + Len(n) + Len(a)
          /\ \A i \in 1 .. Len(p) : u[i] = p[i]
          /\ \A i \in 1 .. Len(n) : u[Len(p) + i] = n[i]
          /\ \A i \in 1 .. Len(a) : u[Len(p) + Len(n) + i] = a[i]
      BY <3>0, CatThree, SMTT(60)
    <3> HIDE DEF u
    <3> QED BY <3>1, <3>2
  <2>7. \A i \in 1 .. Len(masked) : masked[i] = z[i]
    <3> SUFFICES ASSUME NEW i \in 1 .. Len(s) PROVE masked[i] = z[i]
      BY <1>1
    <3>0. /\ i \in Int /\ 1 <= i /\ i <= Len(p) + Len(m) + Len(a)
          /\ masked[i] = IF i \in InBlock(s) THEN Blank ELSE s[i]
      BY <1>0, <1>1, <2>1
    <3>1. CASE i <= Len(p)
      <4>1. i \notin InBlock(s) /\ i \in 1 .. Len(p)
        BY <2>1, <2>4, <3>0, <3>1
      <4> QED BY <2>1, <2>6, <3>0, <4>1
    <3>2. CASE Len(p) < i /\ i <= Len(p) + Len(m)
      <4>1. i \in InBlock(s) /\ i - Len(p) \in 1 .. Len(m) /\ Len(p) + (i - Len(p)) = i
        BY <2>1, <2>4, <3>0, <3>2
      <4>2. z[i] = n[i - Len(p)] /\ n[i - Len(p)] = Blank
        BY <2>5, <2>6, <4>1
      <4> QED BY <3>0, <4>1, <4>2
    <3>3. CASE Len(p) + Len(m) < i
      <4>1. /\ i \notin InBlock(s) /\ i - Len(p) - Len(m) \in 1 .. Len(a)
            /\ Len(p) + Len(m) + (i - Len(p) - Len(m)) = i
        BY <2>1, <2>4, <3>0, <3>3
      <4>2. s[i] = a[i - Len(p) - Len(m)]
        BY <2>1, <4>1
      <4>3. Len(n) = Len(m) /\ \A j \in 1 .. Len(a) : z[Len(p) + Len(m) + j] = a[j]
        BY <2>5, <2>6
      <4>4. z[i] = a[i - Len(p) - Len(m)]
        BY <4>1, <4>3
      <4> QED BY <3>0, <4>1, <4>2, <4>4
    <3> QED BY <2>1, <3>0, <3>1, <3>2, <3>3
  <2>8. masked = z
    <3>1. Len(masked) = Len(z)
      BY <1>1, <2>1, <2>5, <2>6
    <3> QED BY <1>1, <2>6, <2>7, <3>1, SeqEqual
  <2>9. Keep(z, Solid) = Keep(p, Solid) \o Keep(a, Solid)
    <3>1. Keep(n, Solid) = <<>>
      <4>1. {Blank} \cap Solid = {}
        BY DEF Solid
      <4> QED BY <2>5, <4>1, KeepNone DEF Blanks
    <3>2. n \in Seq(Line) /\ p \o n \in Seq(Line)
      BY <2>5, ConcatProperties
    <3>3. Keep(p \o n, Solid) = Keep(p, Solid)
      BY <3>1, <3>2, KeepCatNone
    <3>4. Keep((p \o n) \o a, Solid) = Keep(p \o n, Solid) \o Keep(a, Solid)
      BY <3>2, KeepCat
    <3> QED BY <2>6, <3>3, <3>4
  <2> QED BY <1>1, <2>8, <2>9
<1>5. CASE \E p, m, a \in Seq(Line) :
              /\ s = (p \o m) \o a /\ SplitBlock(s) = [before |-> p, after |-> a]
              /\ Block(m) /\ Outside(a)
  <2>1. PICK p, m, a \in Seq(Line) :
              /\ s = (p \o m) \o a /\ SplitBlock(s) = [before |-> p, after |-> a]
              /\ Block(m) /\ Outside(a)
    BY <1>5
  <2>2. OwnLines(s) = Keep(p, Solid) \o Keep(a, Solid)
    BY <1>4, <2>1
  <2> QED BY <2>1, <2>2
<1>6. \/ NoBlock(s) /\ SplitBlock(s) = [before |-> s, after |-> <<>>]
      \/ \E p, m, a \in Seq(Line) :
              /\ s = (p \o m) \o a /\ SplitBlock(s) = [before |-> p, after |-> a]
              /\ Block(m) /\ Outside(a)
  BY SplitCases
<1> QED BY <1>3, <1>5, <1>6, Zenon

\* A file that does not change keeps its lines.
LEMMA SameKept == \A s \in Seq(Line) : Kept(s, s, {})
<1> SUFFICES ASSUME NEW s \in Seq(Line), Intact(s) PROVE OwnLines(s) = RemoveVars(OwnLines(s), {})
  BY DEF Kept
<1>1. OwnLines(s) \in Seq(Line)
  BY OwnLinesMasked, KeepSeq
<1>2. Unmanaged({}) = Line
  BY DEF Unmanaged
<1> QED BY <1>1, <1>2, RemoveVarsIs, KeepAll

\* Two Keeps over two parts.
LEMMA KeepTwice ==
  ASSUME NEW s \in Seq(Line), NEW t \in Seq(Line), NEW S, NEW U
  PROVE  Keep(Keep(s, S) \o Keep(t, S), U) = Keep(s, U \cap S) \o Keep(t, U \cap S)
<1>1. PICK x \in Seq(Line), y \in Seq(Line) : x = Keep(s, S) /\ y = Keep(t, S)
  BY KeepSeq
<1>2. Keep(x \o y, U) = Keep(x, U) \o Keep(y, U)
  BY <1>1, LinesCat, Zenon
<1>3. S \cap U = U \cap S
  OBVIOUS
<1>4. Keep(Keep(s, S), U) = Keep(s, S \cap U) /\ Keep(Keep(t, S), U) = Keep(t, S \cap U)
  BY KeepKeep
<1> QED BY <1>1, <1>2, <1>3, <1>4

\* The lines that splitBlock puts around the block, without blank lines.
Around(lines) == Keep(SplitBlock(lines).before, Solid) \o Keep(SplitBlock(lines).after, Solid)

\* They are lines.
LEMMA AroundIs ==
  ASSUME NEW s \in Seq(Line)
  PROVE  Around(s) \in Seq(Line)
<1>1. SplitBlock(s).before \in Seq(Line) /\ SplitBlock(s).after \in Seq(Line)
  BY SplitSeqs
<1>2. Keep(SplitBlock(s).before, Solid) \in Seq(Line) /\ Keep(SplitBlock(s).after, Solid) \in Seq(Line)
  BY <1>1, KeepSeq
<1> QED BY <1>2, ConcatProperties DEF Around

\* Merge keeps the lines around the block, but for the variables it puts there.
LEMMA MergeKept ==
  ASSUME NEW file \in Texts, NEW defs, Fits(defs), DOMAIN defs # {}
  PROVE  Around(Lines(Merge(file, defs))) = Keep(Around(Lines(file)), Unmanaged(DOMAIN defs))
<1>0. \A x, y \in Seq(Line) : \A S, V : Keep(Keep(x, S) \o Keep(y, S), V) = Keep(x, V \cap S) \o Keep(y, V \cap S)
  BY KeepTwice
<1> DEFINE U == Unmanaged(DOMAIN defs)
           old == Lines(file)
           new == Lines(Merge(file, defs))
           sb == SplitBlock(old).before
           sa == SplitBlock(old).after
<1>1. PICK before, after \in Seq(Line) :
        /\ before = Keep(sb, U) /\ after = Keep(sa, U)
        /\ SplitBlock(new) = [before |-> before \o Gap(before), after |-> Trim(after)]
  BY MergedSplit
<1>2. old \in Seq(Line) /\ sb \in Seq(Line) /\ sa \in Seq(Line)
  BY LinesOf, SplitSeqs
<1> HIDE DEF U, sb, sa, new
<1>3. Around(new) = Keep(before \o Gap(before), Solid) \o Keep(Trim(after), Solid)
  BY <1>1 DEF Around
<1>4. Keep(before \o Gap(before), Solid) = Keep(before, Solid)
  <2>1. {Blank} \cap Solid = {}
    BY DEF Solid
  <2>2. Gap(before) \in Seq(Line) /\ Keep(Gap(before), Solid) = <<>>
    BY <1>1, <2>1, GapIs, KeepNone DEF Blanks
  <2> QED BY <1>1, <2>2, KeepCatNone
<1>5. Keep(Trim(after), Solid) = Keep(after, Solid)
  BY <1>1, TrimKeep DEF Solid
<1>6. Around(new) = Keep(sb, U \cap Solid) \o Keep(sa, U \cap Solid)
  <2>1. Keep(Keep(sb, U), Solid) = Keep(sb, U \cap Solid)
    BY <1>2, KeepKeep
  <2>2. Keep(Keep(sa, U), Solid) = Keep(sa, U \cap Solid)
    BY <1>2, KeepKeep
  <2> QED BY <1>1, <1>3, <1>4, <1>5, <2>1, <2>2
<1>7. Around(old) = Keep(sb, Solid) \o Keep(sa, Solid)
  BY DEF Around, sb, sa
<1>8. Keep(Keep(sb, Solid) \o Keep(sa, Solid), U) = Keep(sb, U \cap Solid) \o Keep(sa, U \cap Solid)
  <2>1. PICK x \in Seq(Line), y \in Seq(Line) : x = sb /\ y = sa
    BY <1>2
  <2>2. PICK X, Y : X = U /\ Y = Solid
    OBVIOUS
  <2>3. Keep(Keep(x, Y) \o Keep(y, Y), X) = Keep(x, X \cap Y) \o Keep(y, X \cap Y)
    <3>1. x \in Seq(Line) /\ y \in Seq(Line)
      BY <2>1
    <3>2. \A S, V : Keep(Keep(x, S) \o Keep(y, S), V) = Keep(x, V \cap S) \o Keep(y, V \cap S)
      BY <1>0, <3>1, Zenon
    <3> QED BY <3>2, Zenon
  <2> QED BY <2>1, <2>2, <2>3
<1> QED BY <1>6, <1>7, <1>8 DEF new, U

\* So does a chain of them, with the variables of all its paths.
LEMMA ChainKept ==
  ASSUME NEW w \in Sources, NEW f, NEW old \in Texts
  PROVE  /\ MergeEach(w, Spellings(w.cfg, f), old) \in Texts
         /\ Around(Lines(MergeEach(w, Spellings(w.cfg, f), old)))
              = Keep(Around(Lines(old)), Unmanaged(Managed(w, f)))
<1> DEFINE s == Spellings(w.cfg, f)
           m == Len(s)
           V(i) == EnvFileVars(w, s[i])
           N(i) == Names(w, s, i)
           own == Around(Lines(old))
<1>1. m \in Nat
  BY SpellingsAre, LenProperties
<1>2. PICK k : k[0] = old /\ MergeEach(w, s, old) = k[m] /\ Chain(w, s, k)
  BY <1>1, MergeEachIs
<1>3. \A i \in 0 .. m : k[i] \in Texts
  BY <1>2, MergesAreTexts
<1>4. own \in Seq(Line)
  BY LinesOf, AroundIs
<1>5. N(m) = Managed(w, f)
  <2>1. ToSet(s) = {s[i] : i \in 1 .. m}
    <3>1. DOMAIN s = 1 .. m
      BY SpellingsAre, LenProperties
    <3> QED BY <3>1 DEF ToSet
  <2> DEFINE D(p) == DOMAIN EnvFileVars(w, p)
  <2>2. N(m) = UNION {D(s[i]) : i \in 1 .. m} /\ Managed(w, f) = UNION {D(p) : p \in ToSet(s)}
    BY DEF Names, Managed
  <2> HIDE DEF D, s, m
  <2> QED BY <2>1, <2>2
<1> DEFINE T == {i \in Nat : Around(Lines(k[i])) = Keep(own, Unmanaged(N(i)))}
<1>6. 0 \in T
  <2>1. Unmanaged(N(0)) = Line
    BY DEF Unmanaged, Names
  <2>2. Keep(own, Line) = own
    BY <1>4, KeepAll
  <2> QED BY <1>2, <2>1, <2>2
<1>7. ASSUME NEW i \in 1 .. m, i - 1 \in T PROVE i \in T
  <2>1. i \in Nat \ {0} /\ i - 1 \in 0 .. m /\ i \in Nat
    BY <1>1
  <2>2. Fits(V(i)) /\ DOMAIN V(i) # {}
    BY SpelledFits
  <2>3. N(i) = N(i - 1) \cup DOMAIN V(i)
    BY <2>1, NamesGrow
  <2>4. Unmanaged(N(i - 1)) \cap Unmanaged(DOMAIN V(i)) = Unmanaged(N(i))
    BY <2>3 DEF Unmanaged
  <2>5. Around(Lines(k[i - 1])) = Keep(own, Unmanaged(N(i - 1)))
    BY <1>7
  <2>6. k[i] = Merge(k[i - 1], V(i)) /\ k[i - 1] \in Texts
    BY <1>2, <1>3, <2>1 DEF Chain
  <2> HIDE DEF V, N, T, own, m
  <2>7. Around(Lines(k[i])) = Keep(Keep(own, Unmanaged(N(i - 1))), Unmanaged(DOMAIN V(i)))
    BY <2>2, <2>5, <2>6, MergeKept
  <2>8. Keep(Keep(own, Unmanaged(N(i - 1))), Unmanaged(DOMAIN V(i))) = Keep(own, Unmanaged(N(i)))
    BY <1>4, <2>4, KeepKeep
  <2> QED BY <2>1, <2>7, <2>8 DEF T
<1>8. m \in T
  <2> HIDE DEF T, m
  <2>1. \A i \in 0 .. m : i \in T
    BY <1>1, <1>6, <1>7, Along
  <2> QED BY <1>1, <2>1
<1>9. k[m] \in Texts
  <2> HIDE DEF m
  <2> QED BY <1>1, <1>3
<1> QED BY <1>2, <1>5, <1>8, <1>9

\* Without markers there is no block.
LEMMA OutsideSplit ==
  ASSUME NEW s \in Seq(Line), Outside(s)
  PROVE  SplitBlock(s) = [before |-> s, after |-> <<>>]
<1>1. Len(s) \in Nat
  BY LenProperties
<1>2. PICK b \in 0 .. Len(s) : b = LastMark(s, BeginMarker) /\ (b # 0 => s[b] = BeginMarker)
  BY LastMarkIs
<1>3. b = 0
  <2>1. b # 0 => b \in 1 .. Len(s)
    BY <1>1, <1>2
  <2> QED BY <1>2, <2>1 DEF Outside
<1> QED BY <1>2, <1>3 DEF SplitBlock

\* RemoveBlock keeps them all, and leaves an intact file intact.
LEMMA RemoveKept ==
  ASSUME NEW file \in Texts, Intact(Lines(file))
  PROVE  /\ Intact(Lines(RemoveBlock(file)))
         /\ OwnLines(Lines(RemoveBlock(file))) = OwnLines(Lines(file))
<1> DEFINE old == Lines(file)
           split == SplitBlock(old)
<1>1. old \in Seq(Line) /\ split.before \in Seq(Line) /\ split.after \in Seq(Line)
  BY LinesOf, SplitSeqs
<1>2. CASE file = NoFile
  <2>1. RemoveBlock(file) = file
    BY <1>2 DEF RemoveBlock
  <2> QED BY <2>1
<1>3. CASE file # NoFile
  <2>1. PICK z \in Seq(Line) : z = split.before \o split.after /\ RemoveBlock(file) = Trim(z)
    <3>1. split.before \o split.after \in Seq(Line)
      BY <1>1, ConcatProperties
    <3>2. RemoveBlock(file) = Trim(split.before \o split.after)
      BY <1>3, Zenon DEF RemoveBlock
    <3> QED BY <3>1, <3>2
  <2>2. Trim(z) \in Seq(Line) /\ Lines(RemoveBlock(file)) = Trim(z)
    <3>1. Trim(z) \in Seq(Line) /\ Trim(Trim(z)) = Trim(z)
      BY <2>1, TrimIs, TrimTwice
    <3>2. Trim(z) # NoFile /\ Trim(z) \in Texts
      BY <3>1, EnvConstants, NoFileIsText
    <3> QED BY <2>1, <3>1, <3>2, LinesOf
  <2>3. CASE split = [before |-> old, after |-> <<>>]
    <3>1. z = old
      BY <1>1, <2>1, <2>3, ConcatEmptySeq
    <3>2. file \in Seq(Line) /\ old = Trim(file)
      BY <1>3, LinesOf DEF Texts
    <3>3. Trim(old) = old
      BY <3>2, TrimTwice
    <3> QED BY <2>2, <3>1, <3>3
  <2>4. CASE \E p, m, a \in Seq(Line) :
               /\ old = (p \o m) \o a /\ split = [before |-> p, after |-> a]
               /\ Block(m) /\ Outside(a)
    <3>1. PICK p, m, a \in Seq(Line) :
               /\ old = (p \o m) \o a /\ split = [before |-> p, after |-> a]
               /\ Block(m) /\ Outside(a)
      BY <2>4
    <3> SUFFICES Intact(Trim(z)) /\ OwnLines(Trim(z)) = OwnLines(old)
      BY <2>2
    <3>2. PICK s \in Seq(Line) :
            /\ s = old /\ Len(p) \in Nat /\ Len(m) \in Nat /\ Len(a) \in Nat
            /\ Len(s) = Len(p) + Len(m) + Len(a)
            /\ \A i \in 1 .. Len(p) : s[i] = p[i]
            /\ \A i \in 1 .. Len(m) : s[Len(p) + i] = m[i]
      <4> DEFINE u == (p \o m) \o a
      <4>0. p \in Seq(Line) /\ m \in Seq(Line) /\ a \in Seq(Line)
        BY <3>1
      <4>1. u \in Seq(Line)
        BY <4>0, CatThree, SMTT(60)
      <4>2. /\ Len(p) \in Nat /\ Len(m) \in Nat /\ Len(a) \in Nat
            /\ Len(u) = Len(p) + Len(m) + Len(a)
            /\ \A i \in 1 .. Len(p) : u[i] = p[i]
            /\ \A i \in 1 .. Len(m) : u[Len(p) + i] = m[i]
        BY <4>0, CatThree, SMTT(60)
      <4>3. u = old
        BY <3>1
      <4> HIDE DEF u, old
      <4> QED BY <4>1, <4>2, <4>3
    <3>3. Len(p) + 1 \in Marks(s, BeginMarker) /\ Len(p) + Len(m) \in Marks(s, EndMarker)
      <4>1. Len(m) >= 2 /\ 1 \in 1 .. Len(m) /\ Len(m) \in 1 .. Len(m)
        BY <3>1, <3>2 DEF Block
      <4>2. s[Len(p) + 1] = BeginMarker /\ s[Len(p) + Len(m)] = EndMarker
        BY <3>1, <3>2, <4>1 DEF Block
      <4>3. Len(p) + 1 \in 1 .. Len(s) /\ Len(p) + Len(m) \in 1 .. Len(s)
        BY <3>2, <4>1
      <4> QED BY <3>2, <4>2, <4>3, LenProperties DEF Marks
    <3>4. Outside(p)
      <4> SUFFICES ASSUME NEW i \in 1 .. Len(p), p[i] = BeginMarker \/ p[i] = EndMarker PROVE FALSE
        BY DEF Outside
      <4>1. i \in 1 .. Len(s) /\ s[i] = p[i] /\ i # Len(p) + 1 /\ i # Len(p) + Len(m)
        <5>1. Len(m) >= 2
          BY <3>1 DEF Block
        <5> QED BY <3>2, <5>1
      <4>2. i \in Marks(s, BeginMarker) \/ i \in Marks(s, EndMarker)
        BY <3>2, <4>1, LenProperties DEF Marks
      <4>3. Intact(s)
        BY <3>2
      <4> QED BY <3>2, <3>3, <4>1, <4>2, <4>3, OneMark DEF Intact
    <3>5. Outside(z)
      <4>1. z = p \o a
        BY <2>1, <3>1
      <4>2. /\ Len(z) = Len(p) + Len(a)
            /\ \A i \in 1 .. Len(p) + Len(a) : z[i] = IF i <= Len(p) THEN p[i] ELSE a[i - Len(p)]
        <5>1. p \in Seq(Line) /\ a \in Seq(Line)
          BY <3>1
        <5> QED BY <4>1, <5>1, ConcatProperties, SMTT(60)
      <4> SUFFICES ASSUME NEW i \in 1 .. Len(z) PROVE z[i] # BeginMarker /\ z[i] # EndMarker
        BY DEF Outside
      <4>3. CASE i <= Len(p)
        <5>1. i \in Int /\ 1 <= i /\ Len(p) \in Nat /\ Len(a) \in Nat
          BY <3>2, <4>2
        <5>2. i \in 1 .. Len(p) /\ i \in 1 .. Len(p) + Len(a)
          BY <4>3, <5>1
        <5>3. z[i] = p[i]
          BY <4>2, <4>3, <5>2
        <5> QED BY <3>4, <5>2, <5>3 DEF Outside
      <4>4. CASE ~(i <= Len(p))
        <5>1. i \in Int /\ i <= Len(p) + Len(a) /\ 1 <= i /\ Len(p) \in Nat /\ Len(a) \in Nat
          BY <3>2, <4>2
        <5>2. i - Len(p) \in 1 .. Len(a) /\ i \in 1 .. Len(p) + Len(a)
          BY <4>4, <5>1
        <5>3. z[i] = a[i - Len(p)]
          BY <4>2, <4>4, <5>2
        <5> QED BY <3>1, <5>2, <5>3 DEF Outside
      <4> QED BY <4>3, <4>4
    <3>12. Intact(Trim(z))
      <4>1. Outside(Trim(z))
        BY <2>1, <3>5, TrimOutside
      <4>2. \A x \in {BeginMarker, EndMarker} : Marks(Trim(z), x) = {}
        BY <2>2, <4>1, LenProperties DEF Outside, Marks
      <4>3. Cardinality({}) = 0
        BY FS_EmptySet
      <4>4. \A x \in {BeginMarker, EndMarker} : Cardinality(Marks(Trim(z), x)) = 0
        BY <4>2, <4>3, Zenon
      <4> QED BY <4>4 DEF Intact
    <3>6. SplitBlock(Trim(z)) = [before |-> Trim(z), after |-> <<>>]
      BY <2>1, <2>2, <3>5, TrimOutside, OutsideSplit
    <3>7. OwnLines(Trim(z)) = Keep(Trim(z), Solid) \o Keep(<<>>, Solid)
      <4>1. OwnLines(Trim(z)) = Keep(SplitBlock(Trim(z)).before, Solid) \o Keep(SplitBlock(Trim(z)).after, Solid)
        BY <2>2, <3>12, OwnLinesAre
      <4> QED BY <3>6, <4>1
    <3>8. Keep(Trim(z), Solid) \o Keep(<<>>, Solid) = Keep(Trim(z), Solid)
      BY <2>2, KeepEmpty, KeepSeq, ConcatEmptySeq
    <3>9. Keep(Trim(z), Solid) = Keep(z, Solid)
      BY <2>1, TrimKeep DEF Solid
    <3>10. Keep(z, Solid) = Keep(split.before, Solid) \o Keep(split.after, Solid)
      BY <1>1, <2>1, LinesCat, Zenon
    <3>11. OwnLines(old) = Keep(split.before, Solid) \o Keep(split.after, Solid)
      BY <1>1, OwnLinesAre
    <3> HIDE DEF old, split
    <3> QED BY <3>7, <3>8, <3>9, <3>10, <3>11, <3>12
  <2>5. \/ split = [before |-> old, after |-> <<>>]
        \/ \E p, m, a \in Seq(Line) :
               /\ old = (p \o m) \o a /\ split = [before |-> p, after |-> a]
               /\ Block(m) /\ Outside(a)
    BY <1>1, SplitCases
  <2> QED BY <2>3, <2>4, <2>5, Zenon
<1> QED BY <1>2, <1>3

\* So does a chain of them.
LEMMA CleanKept ==
  ASSUME NEW cfg, NEW f, NEW old \in Texts, Intact(Lines(old))
  PROVE  OwnLines(Lines(CleanEach(Spellings(cfg, f), old))) = OwnLines(Lines(old))
<1> DEFINE s == Spellings(cfg, f)
           m == Len(s)
<1>1. m \in Nat
  BY SpellingsAre, LenProperties
<1>2. PICK k : /\ k[0] = old /\ CleanEach(s, old) = k[m]
               /\ \A i \in 1 .. m : k[i] = RemoveBlock(k[i - 1])
  BY <1>1, CleanEachIs
<1> DEFINE T == {i \in Nat : /\ k[i] \in Texts /\ Intact(Lines(k[i]))
                             /\ OwnLines(Lines(k[i])) = OwnLines(Lines(old))}
<1>3. 0 \in T
  BY <1>2
<1>4. ASSUME NEW i \in 1 .. m, i - 1 \in T PROVE i \in T
  BY <1>1, <1>2, <1>4, RemoveKept, BlockRemoved
<1>5. \A i \in 0 .. m : i \in T
  <2> HIDE DEF T, m
  <2> QED BY <1>1, <1>3, <1>4, Along
<1> QED BY <1>1, <1>2, <1>5

\* Every command keeps the user's lines.
LEMMA OwnLinesStepHolds == EnvTypeOK /\ [Next]_vars => [OwnLinesStep]_vars
<1> SUFFICES ASSUME EnvTypeOK, Next, edits' = edits, NEW f \in Files
             PROVE  Kept(Lines(files[f]), Lines(files'[f]),
                         IF written' = None THEN {} ELSE Managed(written', f))
  BY DEF OwnLinesStep
<1>1. files[f] \in Texts /\ Lines(files[f]) \in Seq(Line)
  BY LinesOf DEF EnvTypeOK
<1>2. CASE Write
  <2> DEFINE W(way) == [cfg |-> Load(raw, local), https |-> way.https, tunnels |-> way.tunnels]
  <2>1. PICK way \in Ways : files' = MergeEnvFiles(W(way), files) /\ written' = W(way)
    BY <1>2, Zenon DEF Write
  <2>2. W(way) \in Sources
    BY <1>2, SourceOf DEF Write
  <2> HIDE DEF W
  <2>3. PICK w \in Sources : files' = MergeEnvFiles(w, files) /\ written' = w
    BY <2>1, <2>2
  <2>4. written' # None
    BY <2>3, EnvConstants
  <2>5. files'[f] = MergeEach(w, Spellings(w.cfg, f), files[f])
    BY <2>3 DEF MergeEnvFiles
  <2>6. files'[f] \in Texts /\ Around(Lines(files'[f])) = Keep(Around(Lines(files[f])), Unmanaged(Managed(w, f)))
    BY <1>1, <2>5, ChainKept
  <2> SUFFICES ASSUME Intact(Lines(files[f])), Intact(Lines(files'[f]))
               PROVE  OwnLines(Lines(files'[f])) = RemoveVars(OwnLines(Lines(files[f])), Managed(w, f))
    BY <2>3, <2>4 DEF Kept
  <2>7. /\ OwnLines(Lines(files[f])) = Around(Lines(files[f]))
        /\ OwnLines(Lines(files'[f])) = Around(Lines(files'[f]))
    BY <1>1, <2>6, LinesOf, OwnLinesAre DEF Around
  <2>8. Around(Lines(files[f])) \in Seq(Line)
    BY <1>1, AroundIs
  <2> QED BY <2>6, <2>7, <2>8, RemoveVarsIs
<1>3. CASE Down
  <2>1. written' = None
    BY <1>3 DEF Down
  <2>2. files'[f] = CleanEach(Spellings(Load(raw, local), f), files[f])
    BY <1>3 DEF Down, CleanEnvFiles
  <2> SUFFICES ASSUME Intact(Lines(files[f]))
               PROVE  OwnLines(Lines(files'[f])) = RemoveVars(OwnLines(Lines(files[f])), {})
    BY <2>1 DEF Kept
  <2>3. OwnLines(Lines(files'[f])) = OwnLines(Lines(files[f]))
    BY <1>1, <2>2, CleanKept
  <2> QED BY <1>1, <2>3, SameKept DEF Kept
<1>4. CASE EditConfig \/ InsertLine \/ DeleteLine
  <2>1. edits' = edits + 1 /\ edits \in Nat
    BY <1>4 DEF EditConfig, InsertLine, DeleteLine, Edit, EnvTypeOK
  <2> QED BY <2>1
<1> QED BY <1>2, <1>3, <1>4 DEF Next

\* No command loses, adds or reorders a line of the user but the definitions of the
\* variables it manages, and down leaves all of them (dotenv.go, Merge and RemoveBlock),
\* in a file whose markers nobody duplicated.
THEOREM OwnLinesAreKept == Spec => OwnLinesKept
<1>1. Init => EnvTypeOK
  BY EnvTypesInit
<1> QED BY <1>1, EnvTypesStep, OwnLinesStepHolds, PTL DEF Spec, OwnLinesKept
=============================================================================
