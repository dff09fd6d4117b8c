---------------------------- MODULE HistoryProofs ---------------------------
(***************************************************************************)
(* Proofs about histories: the hash-chained log, the projections restored  *)
(* from it, and the components that exchange and decode it, for every      *)
(* history, every set of events, releases and concurrent calls and every   *)
(* limit.                                                                  *)
(***************************************************************************)
EXTENDS EventLog, ProjectionRestore, LegacyJournal, HyphaeSync, EventCatalog, SequenceTheorems,
        FiniteSetTheorems, NaturalsInduction, WellFoundedInduction, TLAPS

-----------------------------------------------------------------------------
(* Digests.                                                                *)

\* A nonempty set of natural numbers has a least element: the form of induction
\* the proofs about chains use.
LEMMA LeastNatural ==
    ASSUME NEW T, T \subseteq Nat, T # {}
    PROVE  \E x \in T : \A y \in T : x <= y
<1> DEFINE Less == OpToRel(<, Nat)
<1>1. PICK x \in T : \A y \in T : <<y, x>> \notin Less
  BY NatLessThanWellFounded, WFMin
<1>2. ASSUME NEW y \in T PROVE x <= y
  <2>1. x \in Nat /\ y \in Nat /\ <<y, x>> \notin Less
    BY <1>1
  <2>2. y < x => <<y, x>> \in Less
    BY <2>1 DEF OpToRel
  <2> HIDE DEF Less
  <2> QED
    BY <2>1, <2>2
<1> QED
  BY <1>2

\* The head digest of a nonempty prefix is that of its last event.
LEMMA HeadOfPrefix ==
    ASSUME NEW S, NEW w \in Seq(S), NEW n \in 1..Len(w)
    PROVE  Head_(SubSeq(w, 1, n)) = w[n].hash
  BY LenProperties, ElementOfSeq, SubSeqProperties, EmptySeq DEF Head_

\* event_hash is injective on canonical events: the digest determines the event.
LEMMA DigestBindsEvent ==
    ASSUME NEW e \in RawEvents, NEW f \in RawEvents,
           e.payload = Parse(e.payload), f.payload = Parse(f.payload),
           e.hash = event_hash([e EXCEPT !.payload = Parse(@)]),
           f.hash = event_hash([f EXCEPT !.payload = Parse(@)]),
           e.hash = f.hash
    PROVE  e = f
  BY DEF RawEvents, event_hash

\* Two chains that agree on a digest agree on everything before it.
LEMMA DigestBindsPrefix ==
    ASSUME NEW a, NEW b, IsChain(a), IsChain(b),
           NEW n \in 1..Len(a), n <= Len(b), a[n].hash = b[n].hash
    PROVE  \A i \in 1..n : a[i] = b[i]
<1>1. /\ a \in Seq(RawEvents) /\ b \in Seq(RawEvents)
      /\ Len(a) \in Nat /\ Len(b) \in Nat
      /\ \A i \in 1..n : i \in 1..Len(a) /\ i \in 1..Len(b)
  BY LenProperties DEF IsChain
<1>2. \A i \in 1..n : a[i] \in RawEvents /\ b[i] \in RawEvents
  BY <1>1, ElementOfSeq
<1>3. ASSUME NEW i \in 1..n, a[i].hash = b[i].hash PROVE a[i] = b[i]
  BY <1>1, <1>2, <1>3, DigestBindsEvent DEF IsChain, Admits
<1>4. ASSUME NEW i \in 2..n, a[i] = b[i] PROVE a[i - 1].hash = b[i - 1].hash
  <2>1. i \in 1..Len(a) /\ i \in 1..Len(b) /\ i - 1 \in 1..Len(a) /\ i - 1 \in 1..Len(b)
    BY <1>1
  <2>2. a[i].prev_hash = Head_(SubSeq(a, 1, i - 1)) /\ b[i].prev_hash = Head_(SubSeq(b, 1, i - 1))
    BY <2>1 DEF IsChain, Admits
  <2>3. Head_(SubSeq(a, 1, i - 1)) = a[i - 1].hash /\ Head_(SubSeq(b, 1, i - 1)) = b[i - 1].hash
    BY <1>1, <2>1, HeadOfPrefix
  <2> QED
    BY <1>4, <2>2, <2>3
<1> DEFINE Differ == {k \in Nat : k < n /\ a[n - k].hash # b[n - k].hash}
<1>5. Differ = {}
  <2> SUFFICES ASSUME Differ # {} PROVE FALSE
    OBVIOUS
  <2>1. PICK k \in Differ : \A j \in Differ : k <= j
    BY LeastNatural
  <2>2. k \in Nat /\ k < n /\ a[n - k].hash # b[n - k].hash /\ k # 0
    BY <2>1
  <2>3. k - 1 \notin Differ /\ k - 1 \in Nat /\ k - 1 < n
    <3>1. k - 1 \in Nat /\ k - 1 < n /\ ~(k <= k - 1)
      BY <2>2
    <3> HIDE DEF Differ
    <3> QED
      BY <2>1, <3>1
  <2>4. a[n - (k - 1)].hash = b[n - (k - 1)].hash /\ n - (k - 1) \in 2..n
    BY <2>2, <2>3
  <2>5. a[n - (k - 1)] = b[n - (k - 1)]
    BY <1>3, <2>4
  <2>6. a[(n - (k - 1)) - 1].hash = b[(n - (k - 1)) - 1].hash
    BY <1>4, <2>4, <2>5
  <2>7. (n - (k - 1)) - 1 = n - k
    BY <2>2
  <2> QED
    BY <2>2, <2>6, <2>7
<1>6. ASSUME NEW i \in 1..n PROVE a[i] = b[i]
  <2>1. n - i \in Nat /\ n - i < n /\ n - (n - i) = i
    OBVIOUS
  <2>2. a[i].hash = b[i].hash
    BY <1>5, <2>1
  <2> QED
    BY <1>3, <2>2
<1> QED
  BY <1>6

-----------------------------------------------------------------------------
(* Sequences of events.                                                    *)

\* Appending does not change a prefix.
LEMMA PrefixOfAppend ==
    ASSUME NEW S, NEW w \in Seq(S), NEW e \in S, NEW n \in 0..Len(w)
    PROVE  SubSeq(Append(w, e), 1, n) = SubSeq(w, 1, n)
  BY AppendProperties, LenProperties, ElementOfSeq, SubSeqProperties, SeqEqual

\* Two sequences that agree up to n have the same prefix of length n.
LEMMA SamePrefix ==
    ASSUME NEW S, NEW a \in Seq(S), NEW b \in Seq(S), NEW n \in 0..Len(a), n <= Len(b),
           \A i \in 1..n : a[i] = b[i]
    PROVE  SubSeq(a, 1, n) = SubSeq(b, 1, n)
  BY LenProperties, ElementOfSeq, SubSeqProperties, SeqEqual

\* Cut out of a sequence, a range is a sequence of the same things.
LEMMA CutType ==
    ASSUME NEW S, NEW w \in Seq(S), NEW m \in Nat \ {0}, NEW n \in 0..Len(w)
    PROVE  SubSeq(w, m, n) \in Seq(S)
  BY LenProperties, ElementOfSeq, SubSeqProperties

\* What appends know only grows.
LEMMA DigestsGrow ==
    ASSUME written \subseteq written'
    PROVE  Digests \subseteq Digests' /\ RawEvents \subseteq RawEvents'
<1>1. Digests \subseteq Digests'
  BY DEF Digests
<1> QED
  BY <1>1 DEF RawEvents

\* A chain stays one when more is written.
LEMMA ChainsStay ==
    ASSUME NEW w, IsChain(w), written \subseteq written'
    PROVE  IsChain(w)'
<1>1. w \in Seq(RawEvents)'
  BY DigestsGrow, SeqMonotonic DEF IsChain
<1> QED
  BY <1>1 DEF IsChain


-----------------------------------------------------------------------------
(* The invariant.                                                          *)

\* An empty log has written the empty history.
LEMMA InitLog == LogInit => LogInvariant
  BY EmptySeq, SubSeqEmpty DEF IsChain, WrittenAreChains, LogInit, LogInvariant

\* append_canonical extends a chain to a chain (append_typed).
LEMMA AppendedChain ==
    ASSUME LogInvariant, NEW w \in written, NEW k \in ValidKinds, NEW v \in LogVersions,
           NEW p \in LogPayloads, ValidVersion(v),
           written' = written \cup {Append(w, NewEvent(w, k, v, p))}
    PROVE  IsChain(Append(w, NewEvent(w, k, v, p)))'
<1> DEFINE e == NewEvent(w, k, v, p)
           new == Append(w, e)
           S == RawEvents \cup {e}
<1>1. IsChain(w) /\ w \in Seq(RawEvents) /\ Len(w) \in Nat /\ w \in Seq(S)
  BY LenProperties, SeqMonotonic DEF LogInvariant, WrittenAreChains, IsChain
<1>2. /\ e.seq = Len(w) /\ e.kind = k /\ e.schema_version = v
      /\ e.payload = [payload |-> p, spelling |-> "canonical"]
      /\ e.prev_hash = Head_(w) /\ e.hash = event_hash(e)
      /\ e = [seq |-> e.seq, kind |-> e.kind, schema_version |-> e.schema_version,
               payload |-> e.payload, prev_hash |-> e.prev_hash, hash |-> e.hash]
  BY DEF NewEvent, Json, event_hash
<1> HIDE DEF e
<1>3. /\ new \in Seq(S) /\ Len(new) = Len(w) + 1 /\ new[Len(w) + 1] = e
      /\ \A i \in 1..Len(w) : new[i] = w[i]
  BY <1>1, AppendProperties
<1>4. Head_(w) \in Digests \cup {GENESIS_HASH}
  BY <1>1, EmptySeq DEF Head_, Digests
<1>5. new \in written' /\ written \subseteq written'
  BY DEF e
<1>6. e.hash \in Digests'
  <2>1. Len(w) + 1 \in 1..Len(new) /\ new[Len(w) + 1].hash = e.hash
    BY <1>1, <1>3
  <2> HIDE DEF new
  <2> QED
    BY <1>5, <2>1 DEF Digests
<1>7. e \in RawEvents'
  BY <1>2, <1>4, <1>5, DigestsGrow, KindsAssumption, <1>1, <1>6 DEF RawEvents
<1>8. new \in Seq(RawEvents)'
  BY <1>1, <1>5, <1>7, DigestsGrow, SeqMonotonic, AppendProperties
<1>9. ASSUME NEW i \in 1..Len(new) PROVE Admits(new, i) /\ new[i].payload = Parse(new[i].payload)
  <2>1. CASE i \in 1..Len(w)
    <3>1. Admits(w, i) /\ w[i].payload = Parse(w[i].payload)
      BY <1>1, <2>1 DEF IsChain
    <3>2. new[i] = w[i] /\ i - 1 \in 0..Len(w)
      BY <1>1, <1>3, <2>1
    <3>3. SubSeq(new, 1, i - 1) = SubSeq(w, 1, i - 1)
      BY <1>1, <3>2, PrefixOfAppend
    <3> QED
      BY <3>1, <3>2, <3>3 DEF Admits
  <2>2. CASE i = Len(w) + 1
    <3>1. new[i] = e /\ i - 1 = Len(w)
      BY <1>1, <1>3, <2>2
    <3>2. SubSeq(new, 1, Len(w)) = w
      BY <1>1, PrefixOfAppend, SubSeqFull
    <3>3. e.payload = Parse(e.payload) /\ Parses(e.payload)
      BY <1>2 DEF Parse, Parses, Json
    <3>4. [e EXCEPT !.payload = Parse(@)] = e
      BY <1>2, <3>3
    <3>5. e.kind \in ValidKinds /\ ValidVersion(e.schema_version)
      BY <1>2
    <3> QED
      BY <1>2, <3>1, <3>2, <3>3, <3>4, <3>5 DEF Admits
  <2> QED
    BY <1>1, <1>3, <2>1, <2>2
<1> HIDE DEF new
<1>10. IsChain(new)'
  BY <1>8, <1>9 DEF IsChain
<1> QED
  BY <1>10 DEF new, e


\* append_typed: what is written stays chains that began as the empty history.
LEMMA AppendKeeps ==
    ASSUME LogInvariant, NEW l \in Logs, NEW k \in LogKinds, NEW v \in LogVersions,
           NEW p \in LogPayloads, AppendTyped(l, k, v, p)
    PROVE  LogInvariant'
<1>1. PICK w \in written : w = logs[l]
  BY DEF LogInvariant
<1> DEFINE e == NewEvent(w, k, v, p)
           new == Append(w, e)
<1>2. logs' = [logs EXCEPT ![l] = new] /\ written' = written \cup {new}
  BY <1>1 DEF AppendTyped, LogInvariant
<1>3. IsChain(new)'
  BY <1>1, <1>2, AppendedChain DEF AppendTyped
<1>4. written \subseteq written'
  BY <1>2
<1>5. \A x \in written : IsChain(x)'
  BY <1>4, ChainsStay DEF LogInvariant, WrittenAreChains
<1>6. w \in Seq(RawEvents) /\ Len(w) \in Nat
  BY <1>1, LenProperties DEF LogInvariant, WrittenAreChains, IsChain
<1>7. ASSUME NEW n \in 0..Len(new) PROVE SubSeq(new, 1, n) \in written'
  <2> DEFINE S == RawEvents \cup {e}
  <2>1. w \in Seq(S) /\ e \in S
    BY <1>6, SeqMonotonic
  <2> HIDE DEF e
  <2>2. new \in Seq(S) /\ Len(new) = Len(w) + 1
    BY <2>1, AppendProperties
  <2>3. CASE n = Len(w) + 1
    BY <1>2, <2>2, <2>3, SubSeqFull
  <2>4. CASE n \in 0..Len(w)
    <3>1. SubSeq(new, 1, n) = SubSeq(w, 1, n)
      BY <2>1, <2>4, PrefixOfAppend
    <3>2. SubSeq(w, 1, n) \in written
      BY <1>1, <2>4 DEF LogInvariant, WrittenAreChains
    <3> QED
      BY <1>4, <3>1, <3>2
  <2> QED
    BY <1>6, <2>2, <2>3, <2>4
<1> HIDE DEF e, new
<1>8. WrittenAreChains'
  BY <1>4, <1>3, <1>7, <1>5, <1>2 DEF LogInvariant, WrittenAreChains
<1>9. logs' \in [Logs -> written']
  BY <1>2, <1>4 DEF LogInvariant
<1>10. wire' \in Seq(RawEvents')
  BY <1>4, DigestsGrow, SeqMonotonic DEF LogInvariant, AppendTyped
<1>11. taken' = taken /\ taken'.prefix \in written'
  BY <1>4 DEF LogInvariant, AppendTyped
<1> QED
  BY <1>8, <1>9, <1>10, <1>11 DEF LogInvariant

\* What import_raw admits, parsed, is a chain.
LEMMA ImportedChain ==
    ASSUME LogInvariant, \A i \in 1..Len(wire) : Admits(wire, i),
           NEW s, s = [i \in 1..Len(wire) |-> [wire[i] EXCEPT !.payload = Parse(@)]]
    PROVE  IsChain(s) /\ Len(s) = Len(wire)
<1>1. wire \in Seq(RawEvents) /\ Len(wire) \in Nat
  BY LenProperties DEF LogInvariant
<1>2. \A i \in 1..Len(wire) : wire[i] \in RawEvents
  BY <1>1, ElementOfSeq
<1>3. ASSUME NEW i \in 1..Len(wire)
      PROVE  /\ s[i] \in RawEvents
             /\ s[i].seq = wire[i].seq /\ s[i].kind = wire[i].kind
             /\ s[i].schema_version = wire[i].schema_version
             /\ s[i].prev_hash = wire[i].prev_hash /\ s[i].hash = wire[i].hash
             /\ s[i].payload = Parse(s[i].payload) /\ Parses(s[i].payload)
             /\ [s[i] EXCEPT !.payload = Parse(@)] = [wire[i] EXCEPT !.payload = Parse(@)]
  <2>1. s[i] = [wire[i] EXCEPT !.payload = Parse(@)] /\ wire[i] \in RawEvents
    BY <1>2
  <2>2. Parse(wire[i].payload) = [payload |-> wire[i].payload.payload, spelling |-> "canonical"]
    BY DEF Parse, Json
  <2>3. wire[i].payload.payload \in LogPayloads
    BY <2>1 DEF RawEvents
  <2>4. s[i] \in RawEvents /\ s[i].payload = Parse(wire[i].payload)
    BY <2>1, <2>2, <2>3 DEF RawEvents
  <2>5. s[i].payload = Parse(s[i].payload) /\ Parses(s[i].payload)
    BY <2>2, <2>4 DEF Parse, Json, Parses
  <2> QED
    BY <2>1, <2>4, <2>5 DEF RawEvents
<1>4. s \in [1..Len(wire) -> RawEvents]
  BY <1>3
<1>5. s \in Seq(RawEvents) /\ Len(s) = Len(wire)
  BY <1>1, <1>4, SeqDef, LenProperties
<1>6. ASSUME NEW i \in 1..Len(wire) PROVE Admits(s, i)
  <2>1. Admits(wire, i)
    OBVIOUS
  <2>2. Head_(SubSeq(s, 1, i - 1)) = Head_(SubSeq(wire, 1, i - 1))
    <3>1. CASE i = 1
      <4>1. SubSeq(s, 1, i - 1) = << >> /\ SubSeq(wire, 1, i - 1) = << >>
        BY <3>1, SubSeqEmpty
      <4> QED
        BY <4>1
    <3>2. CASE i # 1
      <4>1. i - 1 \in 1..Len(wire) /\ i - 1 \in 1..Len(s)
        BY <1>1, <1>5, <3>2
      <4>2. Head_(SubSeq(s, 1, i - 1)) = s[i - 1].hash
        BY <1>5, <4>1, HeadOfPrefix
      <4>3. Head_(SubSeq(wire, 1, i - 1)) = wire[i - 1].hash
        BY <1>1, <4>1, HeadOfPrefix
      <4> QED
        BY <1>3, <4>1, <4>2, <4>3
    <3> QED
      BY <3>1, <3>2
  <2> QED
    BY <1>3, <2>1, <2>2 DEF Admits
<1> QED
  BY <1>3, <1>5, <1>6 DEF IsChain

\* Every chain of known digests is a history that appends produced.
LEMMA ChainsAreWritten ==
    ASSUME LogInvariant, NEW s, IsChain(s)
    PROVE  s \in written
<1>1. s \in Seq(RawEvents) /\ Len(s) \in Nat
  BY LenProperties DEF IsChain
<1>2. CASE Len(s) = 0
  <2>1. s = << >>
    BY <1>1, <1>2, EmptySeq
  <2> QED
    BY <2>1 DEF LogInvariant, WrittenAreChains
<1>3. CASE Len(s) # 0
  <2>0. PICK n \in Nat : n = Len(s)
    BY <1>1
  <2>1. n \in 1..Len(s) /\ s[n] \in RawEvents
    BY <1>1, <1>3, <2>0, ElementOfSeq
  <2>2a. PICK w \in written : \E j \in 1..Len(w) : s[n].hash = w[j].hash
    BY <2>1 DEF RawEvents, Digests
  <2>2. PICK j \in 1..Len(w) : s[n].hash = w[j].hash
    BY <2>2a
  <2>3. IsChain(w) /\ w \in Seq(RawEvents) /\ Len(w) \in Nat
    BY LenProperties DEF LogInvariant, WrittenAreChains, IsChain
  <2>4. j = n
    <3>1. /\ s[n].hash = event_hash([s[n] EXCEPT !.payload = Parse(@)]) /\ s[n].seq = n - 1
          /\ w[j].hash = event_hash([w[j] EXCEPT !.payload = Parse(@)]) /\ w[j].seq = j - 1
      BY <1>1, <2>1, <2>3 DEF IsChain, Admits
    <3>2. w[j] \in RawEvents
      BY <2>3, ElementOfSeq
    <3>3. s[n] = w[j]
      BY <1>1, <2>1, <2>2, <2>3, <3>1, <3>2, DigestBindsEvent DEF IsChain
    <3>4. n - 1 = j - 1 /\ j \in Nat
      BY <3>1, <3>3
    <3> QED
      BY <3>4
  <2>5. n \in 0..Len(w) /\ n <= Len(w) /\ s[n].hash = w[n].hash
    BY <1>1, <2>2, <2>3, <2>4
  <2>6. \A i \in 1..n : s[i] = w[i]
    BY <1>1, <2>1, <2>3, <2>5, DigestBindsPrefix
  <2>7. SubSeq(s, 1, n) = SubSeq(w, 1, n)
    BY <1>1, <2>0, <2>1, <2>3, <2>5, <2>6, SamePrefix
  <2>8. SubSeq(s, 1, n) = s
    BY <1>1, <2>0, SubSeqFull
  <2> QED
    BY <2>5, <2>7, <2>8 DEF LogInvariant, WrittenAreChains
<1> QED
  BY <1>2, <1>3


\* Whatever one fault of storage makes of the history is made of known digests.
LEMMA FaultyType ==
    ASSUME LogInvariant, NEW w \in Faulty
    PROVE  w \in Seq(RawEvents)
<1>1. wire \in Seq(RawEvents) /\ Len(wire) \in Nat
  BY LenProperties DEF LogInvariant
<1>2. \A i \in 1..Len(wire) : wire[i] \in RawEvents
  BY <1>1, ElementOfSeq
<1>3. \A i \in 1..Len(wire), e \in RawEvents : [wire EXCEPT ![i] = e] \in Seq(RawEvents)
  BY <1>1, ExceptSeq
<1>4. ASSUME NEW i \in 1..Len(wire), w = Without(wire, i) PROVE w \in Seq(RawEvents)
  BY <1>1, CutType, <1>4, ConcatProperties DEF Without
<1>5. ASSUME NEW i \in 1..Len(wire), w = Twice(wire, i) PROVE w \in Seq(RawEvents)
  BY <1>1, CutType, <1>5, ConcatProperties DEF Twice
<1>6. ASSUME NEW i \in 1..(Len(wire) - 1), w = Swapped(wire, i) PROVE w \in Seq(RawEvents)
  BY <1>1, LenProperties, <1>2, <1>6, SeqDef DEF Swapped
<1>7. ASSUME NEW i \in 1..Len(wire), NEW e \in Foreign, w = [wire EXCEPT ![i] = e]
      PROVE  w \in Seq(RawEvents)
  BY ElementOfSeq, <1>3, <1>7 DEF Foreign, LogInvariant, WrittenAreChains, IsChain
<1>8. ASSUME NEW i \in 1..Len(wire), NEW j \in 0..MaxLen, w = [wire EXCEPT ![i].seq = j]
      PROVE  w \in Seq(RawEvents)
  <2>1. [wire[i] EXCEPT !.seq = j] \in RawEvents
    BY <1>2, BoundsAssumption DEF RawEvents
  <2> QED
    BY <1>1, <1>3, <1>8, <2>1
<1>9. ASSUME NEW i \in 1..Len(wire), NEW k \in LogKinds, w = [wire EXCEPT ![i].kind = k]
      PROVE  w \in Seq(RawEvents)
  <2>1. [wire[i] EXCEPT !.kind = k] \in RawEvents
    BY <1>2 DEF RawEvents
  <2> QED
    BY <1>1, <1>3, <1>9, <2>1
<1>10. ASSUME NEW i \in 1..Len(wire), NEW v \in LogVersions,
              w = [wire EXCEPT ![i].schema_version = v]
       PROVE  w \in Seq(RawEvents)
  BY <1>2, <1>1, <1>3, <1>10 DEF RawEvents
<1>11. ASSUME NEW i \in 1..Len(wire), NEW p \in LogPayloads,
              NEW s \in {"canonical", "other", "malformed"},
              w = [wire EXCEPT ![i].payload = Json(p, s)]
       PROVE  w \in Seq(RawEvents)
  <2>1. [wire[i] EXCEPT !.payload = Json(p, s)] \in RawEvents
    BY <1>2 DEF RawEvents, Json
  <2> QED
    BY <1>1, <1>3, <1>11, <2>1
<1>12. ASSUME NEW i \in 1..Len(wire), NEW j \in 1..Len(wire),
              w = [wire EXCEPT ![i].prev_hash = wire[j].prev_hash]
       PROVE  w \in Seq(RawEvents)
  <2>1. [wire[i] EXCEPT !.prev_hash = wire[j].prev_hash] \in RawEvents
    BY <1>2 DEF RawEvents
  <2> QED
    BY <1>1, <1>3, <1>12, <2>1
<1>13. ASSUME NEW i \in 1..Len(wire), NEW j \in 1..Len(wire),
              w = [wire EXCEPT ![i].hash = wire[j].hash]
       PROVE  w \in Seq(RawEvents)
  <2>1. [wire[i] EXCEPT !.hash = wire[j].hash] \in RawEvents
    BY <1>2 DEF RawEvents
  <2> QED
    BY <1>1, <1>3, <1>13, <2>1
<1> QED
  BY <1>4, <1>5, <1>6, <1>7, <1>8, <1>9, <1>10, <1>11, <1>12, <1>13 DEF Faulty


\* Every operation of the log and every fault of storage keeps the invariant.
LEMMA NextLog == LogInvariant /\ [LogNext]_logVars => LogInvariant'
<1> SUFFICES ASSUME LogInvariant, [LogNext]_logVars PROVE LogInvariant'
  OBVIOUS
<1> USE DEF LogInvariant
<1>1. ASSUME NEW l \in Logs, NEW k \in LogKinds, NEW v \in LogVersions, NEW p \in LogPayloads,
             AppendTyped(l, k, v, p)
      PROVE  LogInvariant'
  BY <1>1, AppendKeeps
<1>2. ASSUME written' = written
      PROVE  WrittenAreChains' /\ RawEvents' = RawEvents
  BY <1>2 DEF Digests, RawEvents, WrittenAreChains, IsChain
<1>3. ASSUME NEW l \in Logs, Export(l) PROVE LogInvariant'
  BY <1>2, <1>3 DEF WrittenAreChains, IsChain, Export
<1>4. ASSUME NEW l \in Logs, ImportRaw(l) PROVE LogInvariant'
  BY <1>4, ImportedChain, ChainsAreWritten, <1>2 DEF ImportRaw
<1>5. ASSUME NEW l \in Logs, NEW position \in 0..MaxLen, TakeCursor(l, position)
      PROVE  LogInvariant'
  <2>1. PICK w \in written : w = logs[l]
    OBVIOUS
  <2>2. w \in Seq(RawEvents) /\ Len(w) \in Nat
    BY LenProperties DEF WrittenAreChains, IsChain
  <2>3. position \in 0..Len(w)
    BY <1>5, <2>1, <2>2, BoundsAssumption DEF TakeCursor
  <2>4. PICK q : q = SubSeq(w, 1, position)
    OBVIOUS
  <2>5. q \in written
    BY <2>3, <2>4 DEF WrittenAreChains
  <2>6. q \in Seq(RawEvents) /\ Len(q) = position
    BY <2>2, <2>3, ElementOfSeq, <2>4, SubSeqProperties
  <2>7. cursor_at(w, position) = cursor_at(q, Len(q))
    BY <2>4, <2>6, SubSeqFull DEF cursor_at
  <2>8. taken' = [cursor |-> cursor_at(w, position), prefix |-> q]
    BY <1>5, <2>1, <2>4 DEF TakeCursor
  <2>9. taken'.prefix = q /\ taken'.cursor = cursor_at(q, Len(q))
    BY <2>7, <2>8
  <2> QED
    BY <1>2, <1>5, <2>5, <2>9 DEF TakeCursor
<1>6. ASSUME Corrupt PROVE LogInvariant'
  BY <1>6, FaultyType, <1>2 DEF Corrupt
<1>7. CASE UNCHANGED logVars
  BY <1>2, <1>7 DEF logVars
<1> QED
  BY <1>1, <1>3, <1>4, <1>5, <1>6, <1>7 DEF LogNext

\* A cursor is accepted on a history exactly when the history begins with the
\* prefix of the cursor (Log::tail).
LEMMA CursorsBind ==
    ASSUME LogInvariant, NEW w \in written
    PROVE  LogTailAccepts(w, taken.cursor) <=>
               /\ Len(taken.prefix) <= Len(w)
               /\ SubSeq(w, 1, Len(taken.prefix)) = taken.prefix
<1>1. PICK q \in written : q = taken.prefix
  BY DEF LogInvariant
<1>2. IsChain(w) /\ IsChain(q) /\ w \in Seq(RawEvents) /\ q \in Seq(RawEvents)
  BY DEF LogInvariant, WrittenAreChains, IsChain
<1>3. Len(w) \in Nat /\ Len(q) \in Nat
  BY <1>2, LenProperties
<1>4. taken.cursor = [position |-> Len(q), head_hash |-> Head_(q)]
  BY <1>1, <1>2, SubSeqFull DEF LogInvariant, cursor_at
<1>5. LogTailAccepts(w, taken.cursor) <=>
          Len(q) <= Len(w) /\ Head_(SubSeq(w, 1, Len(q))) = Head_(q)
  BY <1>4 DEF LogTailAccepts, cursor_at
<1>6. ASSUME Len(q) <= Len(w), Head_(SubSeq(w, 1, Len(q))) = Head_(q)
      PROVE  SubSeq(w, 1, Len(q)) = q
  <2>1. CASE Len(q) = 0
    BY <1>2, <1>3, <2>1, EmptySeq, SubSeqEmpty
  <2>2. CASE Len(q) # 0
    <3>1. PICK n \in 1..Len(w) : n = Len(q) /\ n <= Len(q)
      BY <1>3, <1>6, <2>2
    <3>2. Head_(SubSeq(w, 1, n)) = w[n].hash /\ Head_(SubSeq(q, 1, n)) = q[n].hash
      BY <1>2, <1>3, <3>1, HeadOfPrefix
    <3>3. SubSeq(q, 1, n) = q
      BY <1>2, <3>1, SubSeqFull
    <3>4. w[n].hash = q[n].hash
      BY <1>6, <3>1, <3>2, <3>3
    <3>5. \A i \in 1..n : w[i] = q[i]
      BY <1>2, <3>1, <3>4, DigestBindsPrefix
    <3>6. n \in 0..Len(w)
      BY <1>3
    <3>7. SubSeq(w, 1, n) = SubSeq(q, 1, n)
      BY <1>2, <3>1, <3>5, <3>6, SamePrefix
    <3> QED
      BY <3>1, <3>3, <3>7
  <2> QED
    BY <2>1, <2>2
<1> QED
  BY <1>1, <1>5, <1>6

\* Whatever storage loses, repeats, reorders, splices or rewrites, and however
\* often: every log verifies from genesis, is a history appends produced, and
\* accepts a cursor exactly over the prefix it was taken from (append_typed,
\* import_raw, tail, verify).
THEOREM HistoriesAreGenuine == LogSpec => []LogGuarantees
<1>1. LogInvariant => LogGuarantees
  <2> SUFFICES ASSUME LogInvariant PROVE LogGuarantees
    OBVIOUS
  <2>1. \A l \in Logs : logs[l] \in written
    BY DEF LogInvariant
  <2>2. Verifies
    BY <2>1 DEF LogInvariant, WrittenAreChains, IsChain, Verifies
  <2>3. CursorBindsPrefix
    BY <2>1, CursorsBind DEF CursorBindsPrefix
  <2> QED
    BY <2>1, <2>2, <2>3 DEF LogGuarantees, NoInventedHistory
<1> QED
  BY InitLog, NextLog, <1>1, PTL DEF LogSpec

-----------------------------------------------------------------------------
(* Sequences and the fold.                                                 *)

Applied(c) == {Apply(c, e) : e \in Events}

\* The reducer applies one entry per event (prepare_projection).
LEMMA ReduceType ==
    ASSUME NEW c, NEW l \in Seq(Events)
    PROVE  /\ Reduce(c, l) \in Seq(Applied(c))
           /\ Len(Reduce(c, l)) = Len(l)
           /\ \A i \in 1..Len(l) : Reduce(c, l)[i] = Apply(c, l[i])
  BY LenProperties, ElementOfSeq, SeqDef DEF Reduce, Applied

\* Folding a tail on top of a folded prefix is folding the whole
\* (synchronize from a checkpoint equals synchronize from genesis).
LEMMA ReduceConcat ==
    ASSUME NEW c, NEW a \in Seq(Events), NEW b \in Seq(Events)
    PROVE  Reduce(c, a) \o Reduce(c, b) = Reduce(c, a \o b)
<1> DEFINE ab == a \o b
           ra == Reduce(c, a)
           rb == Reduce(c, b)
           rab == Reduce(c, ab)
<1>1. /\ ab \in Seq(Events) /\ Len(ab) = Len(a) + Len(b)
      /\ \A i \in 1..(Len(a) + Len(b)) :
            ab[i] = IF i <= Len(a) THEN a[i] ELSE b[i - Len(a)]
  BY ConcatProperties
<1>2. /\ ra \in Seq(Applied(c)) /\ Len(ra) = Len(a)
      /\ \A i \in 1..Len(a) : ra[i] = Apply(c, a[i])
  BY ReduceType
<1>3. /\ rb \in Seq(Applied(c)) /\ Len(rb) = Len(b)
      /\ \A i \in 1..Len(b) : rb[i] = Apply(c, b[i])
  BY ReduceType
<1>4. /\ rab \in Seq(Applied(c)) /\ Len(rab) = Len(ab)
      /\ \A i \in 1..Len(ab) : rab[i] = Apply(c, ab[i])
  BY <1>1, ReduceType
<1>5. Len(a) \in Nat /\ Len(b) \in Nat
  BY LenProperties
<1> HIDE DEF ab, ra, rb, rab
<1>6. /\ ra \o rb \in Seq(Applied(c)) /\ Len(ra \o rb) = Len(ra) + Len(rb)
      /\ \A i \in 1..(Len(ra) + Len(rb)) :
            (ra \o rb)[i] = IF i <= Len(ra) THEN ra[i] ELSE rb[i - Len(ra)]
  <2>1. ra \in Seq(Applied(c)) /\ rb \in Seq(Applied(c))
    BY <1>2, <1>3
  <2> QED
    BY <2>1, ConcatProperties
<1>7. ASSUME NEW i \in 1..(Len(a) + Len(b)) PROVE (ra \o rb)[i] = rab[i]
  <2>1. CASE i <= Len(a)
    BY <1>1, <1>2, <1>3, <1>4, <1>5, <1>6, <2>1
  <2>2. CASE ~(i <= Len(a))
    <3>1. i - Len(a) \in 1..Len(b)
      BY <1>5, <2>2
    <3> QED
      BY <1>1, <1>2, <1>3, <1>4, <1>5, <1>6, <2>2, <3>1
  <2> QED
    BY <2>1, <2>2
<1>8. ra \o rb = rab
  BY <1>1, <1>2, <1>3, <1>4, <1>6, <1>7, SeqEqual
<1> QED
  BY <1>8 DEF ab, ra, rb, rab

\* A history that begins with a cursor's prefix is that prefix and the tail
\* Log::tail returns.
LEMMA PrefixAndTail ==
    ASSUME NEW a \in Seq(Events), NEW b \in Seq(Events), IsPrefixOf(a, b)
    PROVE  /\ SubSeq(b, Len(a) + 1, Len(b)) \in Seq(Events)
           /\ a \o SubSeq(b, Len(a) + 1, Len(b)) = b
<1>1. Len(a) \in Nat /\ Len(b) \in Nat /\ Len(a) <= Len(b)
  BY LenProperties DEF IsPrefixOf
<1>2. SubSeq(b, 1, Len(a)) \o SubSeq(b, Len(a) + 1, Len(b)) = SubSeq(b, 1, Len(b))
  <2>1. /\ 1 \in 1..(Len(b) + 1)
        /\ Len(a) \in (1 - 1)..Len(b)
        /\ Len(b) \in Len(a)..Len(b)
    BY <1>1
  <2> QED
    BY <2>1, ConcatAdjacentSubSeq
<1>3. \A i \in (Len(a) + 1)..Len(b) : b[i] \in Events
  BY <1>1, ElementOfSeq
<1>4. SubSeq(b, Len(a) + 1, Len(b)) \in Seq(Events)
  BY <1>1, <1>3, SubSeqProperties
<1> QED
  BY <1>2, <1>4, SubSeqFull DEF IsPrefixOf

\* An event list is reducible when its prefix and the rest are.
LEMMA ReducibleConcat ==
    ASSUME NEW c, NEW a \in Seq(Events), NEW b \in Seq(Events),
           Reducible(c, a), Reducible(c, b)
    PROVE  Reducible(c, a \o b)
<1>1. /\ Len(a \o b) = Len(a) + Len(b)
      /\ \A i \in 1..(Len(a) + Len(b)) :
            (a \o b)[i] = IF i <= Len(a) THEN a[i] ELSE b[i - Len(a)]
  BY ConcatProperties
<1>2. Len(a) \in Nat /\ Len(b) \in Nat
  BY LenProperties
<1>3. ASSUME NEW i \in 1..(Len(a) + Len(b))
      PROVE  <<c.reducer, (a \o b)[i]>> \notin Irreducible
  BY <1>1, <1>2 DEF Reducible
<1> QED
  BY <1>1, <1>3 DEF Reducible

-----------------------------------------------------------------------------
(* One settle.                                                             *)

\* What a stable state of the running release is.
IsFold(s) ==
    /\ s.history \in Seq(Events)
    /\ IsPrefixOf(s.history, log)
    /\ s.state = Reduce(contract, s.history)
    /\ s.state_bytes = Encode(contract, s.state)
    /\ Reducible(contract, s.history)

\* synchronize keeps a fold a fold, stops where it stood or at the head of the
\* log, and does not move when the tail is rejected.
LEMMA SynchronizedIsFold ==
    ASSUME NEW s, log \in Seq(Events), IsFold(s)
    PROVE  /\ IsFold(Synchronized(s))
           /\ Synchronized(s).history \in {s.history, log}
           /\ SettleError(s) = "Rejected" => Synchronized(s).history # log
<1> DEFINE tail == TailOf(s)
           next == s.state \o Reduce(contract, tail)
<1>1. tail \in Seq(Events) /\ s.history \o tail = log
  BY PrefixAndTail DEF IsFold, TailOf
<1>2. next = Reduce(contract, log)
  <2>1. s.history \in Seq(Events) /\ s.state = Reduce(contract, s.history)
    BY DEF IsFold
  <2>2. Reduce(contract, s.history) \o Reduce(contract, tail)
          = Reduce(contract, s.history \o tail)
    BY <1>1, <2>1, ReduceConcat
  <2> QED
    BY <1>1, <2>1, <2>2
<1>3. IsPrefixOf(log, log)
  BY SubSeqFull, LenProperties DEF IsPrefixOf
<1>4. CASE TailAccepted(s) /\ Prepares(s)
  BY <1>4, <1>1, ReducibleConcat, <1>2, <1>3 DEF Synchronized, IsFold, Prepares, SettleError
<1>5. CASE ~(TailAccepted(s) /\ Prepares(s))
  BY <1>5 DEF Synchronized, SettleError, IsFold, TailAccepted
<1> QED
  BY <1>4, <1>5

\* The genesis state is a fold of the empty prefix (Projection::new).
LEMMA GenesisIsFold ==
    ASSUME log \in Seq(Events)
    PROVE  IsFold(GenesisSeed)
<1>1. << >> \in Seq(Events) /\ Len(<< >>) = 0
  BY EmptySeq
<1>2. GenesisSeed.history = << >> /\ GenesisSeed.state = << >>
      /\ GenesisSeed.state_bytes = Encode(contract, << >>)
  BY DEF GenesisSeed
<1>3. Reduce(contract, << >>) = << >>
  BY <1>1, ReduceType, EmptySeq
<1>4. Reducible(contract, << >>)
  BY <1>1 DEF Reducible
<1>5. IsPrefixOf(<< >>, log)
  BY <1>1, SubSeqEmpty, LenProperties DEF IsPrefixOf
<1> QED
  BY <1>1, <1>2, <1>3, <1>4, <1>5 DEF IsFold

-----------------------------------------------------------------------------
(* The inductive invariant.                                                *)

\* The invariant says that a live projection is a fold of the log.
LEMMA LiveIsFold ==
    ASSUME RestoreInvariant, live
    PROVE  log \in Seq(Events) /\ IsFold(stable)
BY DEF RestoreInvariant, RestoreTypes, RestoreParity, FailsClosed, IsFold

\* A projection that is a fold makes an intact, reducible checkpoint
\* (ProjectionSnapshot::create).
LEMMA EnvelopeOfFold ==
    ASSUME NEW c, c = ContractOf(c), NEW s, s.history \in Seq(Events),
           s.state_bytes = Encode(c, Reduce(c, s.history)),
           Reducible(c, s.history)
    PROVE  LET d == Envelope(c, s) IN
           /\ EnvelopeShape(d)
           /\ d.state_bytes = <<d.codec, Reduce(ContractOf(d), d.history)>>
           /\ Reducible(ContractOf(d), d.history)
  BY DEF Envelope, EnvelopeShape, ContractOf, Encode

\* Every initial state satisfies the invariant.
LEMMA InitRestore == Init => RestoreInvariant
<1> SUFFICES ASSUME Init PROVE RestoreInvariant
  OBVIOUS
<1>1. << >> \in Seq(Events)
  BY EmptySeq
<1>2. ~disk.stored /\ ~live
  BY DEF Init, NoSnapshot
<1>3. RestoreTypes
  BY <1>1 DEF Init, RestoreTypes, GenesisSeed
<1> QED
  BY <1>2, <1>3 DEF RestoreInvariant, RestoreParity, FailsClosed,
     AdmittedSnapshotsAreFolds, CheckpointsReducible

\* A damaged envelope is not intact, or is the envelope it was
\* (compute_snapshot_digest binds every field).
LEMMA DamageIsNoticed ==
    ASSUME NEW d, EnvelopeShape(d), Intact(d), NEW v, NEW f,
           \/ f = [d EXCEPT !.history = v]
           \/ f = [d EXCEPT !.schema = v]
           \/ f = [d EXCEPT !.reducer = v]
           \/ f = [d EXCEPT !.codec = v]
           \/ f = [d EXCEPT !.state_bytes = v],
           Intact(f)
    PROVE  f = d
  BY DEF EnvelopeShape, Intact, compute_snapshot_digest

\* Another copy of the history is a history.
LEMMA CopiesType ==
    ASSUME log \in Seq(Events), NEW h \in OtherCopies
    PROVE  h \in Seq(Events)
<1>1. Len(log) \in Nat
  BY LenProperties
<1>2. ASSUME NEW n \in 0..Len(log) PROVE SubSeq(log, 1, n) \in Seq(Events)
  <2>1. \A i \in 1..n : log[i] \in Events
    BY <1>1, ElementOfSeq
  <2> QED
    BY <1>1, <2>1, SubSeqProperties
<1>3. ASSUME NEW n \in 1..Len(log), NEW e \in Events
      PROVE  [log EXCEPT ![n] = e] \in Seq(Events)
  BY ExceptSeq
<1> QED
  BY <1>2, <1>3 DEF OtherCopies

\* The fold of a prefix stays the fold of that prefix when the log grows
\* (ReactiveLog append), and the log is no longer the prefix.
LEMMA GrownLog ==
    ASSUME NEW a \in Seq(Events), NEW l \in Seq(Events), NEW e \in Events,
           IsPrefixOf(a, l)
    PROVE  /\ Append(l, e) \in Seq(Events)
           /\ IsPrefixOf(a, Append(l, e))
           /\ a # Append(l, e)
<1> DEFINE m == Append(l, e)
<1>1. /\ m \in Seq(Events) /\ Len(m) = Len(l) + 1
      /\ \A i \in 1..Len(l) : m[i] = l[i]
  BY AppendProperties
<1>2. Len(a) \in Nat /\ Len(l) \in Nat /\ Len(a) <= Len(l)
  BY LenProperties DEF IsPrefixOf
<1>3. SubSeq(l, 1, Len(a)) = a
  BY DEF IsPrefixOf
<1> HIDE DEF m
<1>4. /\ \A i \in 1..Len(a) : l[i] \in Events
      /\ \A i \in 1..Len(a) : m[i] \in Events
  BY <1>1, <1>2, ElementOfSeq
<1>5. /\ SubSeq(l, 1, Len(a)) \in Seq(Events) /\ Len(SubSeq(l, 1, Len(a))) = Len(a)
      /\ \A i \in 1..Len(a) : SubSeq(l, 1, Len(a))[i] = l[i]
  BY <1>2, <1>4, SubSeqProperties
<1>6. /\ SubSeq(m, 1, Len(a)) \in Seq(Events) /\ Len(SubSeq(m, 1, Len(a))) = Len(a)
      /\ \A i \in 1..Len(a) : SubSeq(m, 1, Len(a))[i] = m[i]
  BY <1>2, <1>4, SubSeqProperties
<1>7. \A i \in 1..Len(a) : m[i] = l[i]
  BY <1>1, <1>2
<1>8. SubSeq(m, 1, Len(a)) = SubSeq(l, 1, Len(a))
  BY <1>5, <1>6, <1>7, SeqEqual
<1>9. IsPrefixOf(a, m) /\ a # m
  BY <1>1, <1>2, <1>3, <1>8 DEF IsPrefixOf
<1> QED
  BY <1>1, <1>9 DEF m

\* Settling the stable state of a live projection, where its result may be
\* checkpointed (Projection::settle, Projection::snapshot).
LEMMA SettleKeeps ==
    ASSUME RestoreInvariant, live, stable' = Synchronized(stable),
           error' = SettleError(stable), UNCHANGED <<log, contract, live>>
    PROVE  /\ stable'.history \in Seq(Events)
           /\ RestoreParity' /\ FailsClosed'
           /\ stable'.state_bytes = Encode(contract, Reduce(contract, stable'.history))
           /\ Reducible(contract, stable'.history)
  BY LiveIsFold, SynchronizedIsFold DEF IsFold, RestoreParity, FailsClosed

\* Every step preserves the invariant.
LEMMA NextRestore == RestoreInvariant /\ [Next]_vars => RestoreInvariant'
<1> SUFFICES ASSUME RestoreInvariant, [Next]_vars PROVE RestoreInvariant'
  OBVIOUS
<1>1. /\ log \in Seq(Events) /\ contract \in Releases /\ live \in BOOLEAN
      /\ stable.history \in Seq(Events)
      /\ disk = NoSnapshot \/ EnvelopeShape(disk)
      /\ AdmittedSnapshotsAreFolds /\ CheckpointsReducible
  BY DEF RestoreInvariant, RestoreTypes
<1>2. ASSUME disk' = disk
      PROVE  /\ disk' = NoSnapshot \/ EnvelopeShape(disk')
             /\ AdmittedSnapshotsAreFolds' /\ CheckpointsReducible'
  BY <1>1, <1>2 DEF AdmittedSnapshotsAreFolds, CheckpointsReducible
<1>3. CASE NewProjection
  BY <1>1, <1>3, GenesisIsFold, <1>2 DEF NewProjection, IsFold, RestoreParity, FailsClosed,
     RestoreInvariant, RestoreTypes
<1>4. ASSUME NEW e \in Events, AppendEvent(e) PROVE RestoreInvariant'
  <2>1. /\ log' = Append(log, e) /\ contract' = contract /\ live' = live
        /\ stable' = stable /\ error' = error /\ disk' = disk
    BY <1>4 DEF AppendEvent
  <2>2. log' \in Seq(Events)
    BY <1>1, <2>1, AppendProperties
  <2>3. RestoreParity' /\ FailsClosed'
    BY LiveIsFold, <1>1, <2>1, GrownLog DEF IsFold, RestoreParity, FailsClosed
  <2> QED
    BY <1>1, <1>2, <2>1, <2>2, <2>3 DEF RestoreInvariant, RestoreTypes
<1>5. CASE Settle
  BY <1>5, SettleKeeps, <1>1, <1>2 DEF Settle, RestoreInvariant, RestoreTypes
<1>6. CASE TakeSnapshot
  BY <1>6, SettleKeeps, <1>1, <1>2, ReleasesAssumption, EnvelopeOfFold DEF TakeSnapshot,
     RestoreInvariant, RestoreTypes, ContractOf, AdmittedSnapshotsAreFolds,
     CheckpointsReducible
<1>7. CASE Restore
  <2>1. /\ disk.stored /\ Intact(disk) /\ BoundToContract(disk)
        /\ IsPrefixOf(disk.history, log)
        /\ SettleError(SnapshotSeed) = "None"
        /\ live' = TRUE /\ stable' = Synchronized(SnapshotSeed) /\ error' = "None"
        /\ log' = log /\ contract' = contract /\ disk' = disk
    BY <1>7 DEF Restore
  <2>2. EnvelopeShape(disk)
    BY <1>1, <2>1 DEF NoSnapshot
  <2>3. contract = ContractOf(disk)
    BY <1>1, <2>1, ReleasesAssumption DEF BoundToContract, ContractOf
  <2>4. /\ disk.state_bytes = <<contract.codec, Reduce(contract, disk.history)>>
        /\ Reducible(contract, disk.history)
    BY <1>1, <2>1, <2>3 DEF AdmittedSnapshotsAreFolds, CheckpointsReducible,
                            ContractOf, BoundToContract
  <2>5. /\ SnapshotSeed.history = disk.history
        /\ SnapshotSeed.state = Reduce(contract, disk.history)
        /\ SnapshotSeed.state_bytes = Encode(contract, Reduce(contract, disk.history))
    BY <2>4 DEF SnapshotSeed, Encode
  <2>6. disk.history \in Seq(Events)
    BY <2>2 DEF EnvelopeShape
  <2>7. IsFold(SnapshotSeed)
    BY <2>1, <2>4, <2>5, <2>6 DEF IsFold
  <2>8. IsFold(Synchronized(SnapshotSeed))
    BY <1>1, <2>7, SynchronizedIsFold
  <2>9. RestoreParity' /\ FailsClosed' /\ stable'.history \in Seq(Events)
    BY <2>1, <2>8 DEF IsFold, RestoreParity, FailsClosed
  <2> QED
    BY <1>1, <1>2, <2>1, <2>9 DEF RestoreInvariant, RestoreTypes
<1>8. CASE Restart
  BY <1>8, <1>1, CopiesType, EmptySeq, <1>2 DEF Restart, GenesisSeed, RestoreParity,
     FailsClosed, RestoreInvariant, RestoreTypes
<1>9. CASE DamageSnapshot
  <2>1. /\ disk.stored /\ Intact(disk) /\ log' = log /\ contract' = contract
        /\ live' = live /\ stable' = stable /\ error' = error
    BY <1>9 DEF DamageSnapshot
  <2>2. EnvelopeShape(disk)
    BY <1>1, <2>1 DEF NoSnapshot
  <2>3. RestoreParity' /\ FailsClosed'
    BY <2>1 DEF RestoreInvariant, RestoreParity, FailsClosed
  <2>4. \E v : \/ disk' = [disk EXCEPT !.history = v]
               \/ disk' = [disk EXCEPT !.schema = v]
               \/ disk' = [disk EXCEPT !.reducer = v]
               \/ disk' = [disk EXCEPT !.codec = v]
               \/ disk' = [disk EXCEPT !.state_bytes = v]
    BY <1>9 DEF DamageSnapshot
  <2>5. Intact(disk') => disk' = disk
    BY <2>1, <2>2, <2>4, DamageIsNoticed
  <2>6. EnvelopeShape(disk')
    BY <1>9, <1>1, <2>2, CopiesType DEF DamageSnapshot, EnvelopeShape
  <2>7. AdmittedSnapshotsAreFolds' /\ CheckpointsReducible'
    BY <1>1, <2>1, <2>5 DEF AdmittedSnapshotsAreFolds, CheckpointsReducible
  <2> QED
    BY <1>1, <2>1, <2>3, <2>6, <2>7 DEF RestoreInvariant, RestoreTypes
<1>10. CASE UNCHANGED vars
  BY <1>10 DEF vars, RestoreInvariant, RestoreTypes, RestoreParity, FailsClosed,
     AdmittedSnapshotsAreFolds, CheckpointsReducible
<1> QED
  BY <1>3, <1>4, <1>5, <1>6, <1>7, <1>8, <1>9, <1>10 DEF Next

\* The invariant holds in every reachable state.
LEMMA RestoreInvariance == Spec => []RestoreInvariant
BY InitRestore, NextRestore, PTL DEF Spec

\* Restore parity for every application: whatever was stored, damaged, deployed
\* or forked, a live projection holds what the running release computes by
\* folding its log (Projection::restore, synchronize).
THEOREM RestoredIsRefolded == Spec => []RestoreParity
<1>1. RestoreInvariant => RestoreParity
  BY DEF RestoreInvariant
<1> QED
  BY <1>1, RestoreInvariance, PTL

\* No event the running release cannot reduce is part of a live state, and a
\* rejected tail leaves the cursor where it was (prepare_projection).
THEOREM ProjectionFailsClosed == Spec => []FailsClosed
<1>1. RestoreInvariant => FailsClosed
  BY DEF RestoreInvariant
<1> QED
  BY <1>1, RestoreInvariance, PTL

\* Every envelope that decode admits is the fold of its own history under its
\* own contract (compute_snapshot_digest, verify_integrity).
THEOREM AdmittedCheckpointsAreFolds == Spec => []AdmittedSnapshotsAreFolds
<1>1. RestoreInvariant => AdmittedSnapshotsAreFolds
  BY DEF RestoreInvariant
<1> QED
  BY <1>1, RestoreInvariance, PTL

\* A projection moves only to the head of its log (commit_stable): no step
\* folds part of a tail or goes back.
THEOREM ProjectionMovesToHead == Spec => MovesToHead
<1>1. [Next]_vars =>
        [(live /\ live') => stable'.history \in {stable.history, log}]_vars
  <2> SUFFICES ASSUME [Next]_vars, live, live'
               PROVE  stable'.history \in {stable.history, log}
    OBVIOUS
  <2>1. Synchronized(stable).history \in {stable.history, log}
    BY DEF Synchronized
  <2>2. \/ stable' = stable \/ stable' = Synchronized(stable)
    BY DEF Next, NewProjection, AppendEvent, Settle, TakeSnapshot, Restore,
           Restart, DamageSnapshot, vars
  <2> QED
    BY <2>1, <2>2
<1> QED
  BY <1>1, PTL DEF Spec, MovesToHead

-----------------------------------------------------------------------------
(* The legacy journal: confirmed is durable.                               *)

\* An event that lands is the last entry of the journal and moves no other.
LEMMA LegLanded ==
    ASSUME legJournal \in Seq(Nat), NEW seq \in Nat, LegLands(seq)
    PROVE  /\ legJournal' \in Seq(Nat) /\ Len(legJournal') \in Nat
           /\ Len(legJournal') \in DOMAIN legJournal' /\ legJournal'[Len(legJournal')] = seq
           /\ \A i \in DOMAIN legJournal : i \in DOMAIN legJournal' /\ legJournal'[i] = legJournal[i]
  BY AppendProperties, LenProperties DEF LegLands, LegNames

\* try_confirm records an acknowledgement only at its own place.
LEMMA LegConfirmKeeps ==
    ASSUME LegInvariant, NEW seq \in Nat, NEW ack \in Nat, LegNames(ack, seq),
           legSync' = LegConfirmed(seq, ack), legJournal' = legJournal
    PROVE  legSync' \in Seq(Nat) /\ LegConfirmedIsDurable'
<1>1. legSync \in Seq(Nat) /\ Len(legSync) \in Nat /\ DOMAIN legSync = 1..Len(legSync)
  BY LenProperties DEF LegInvariant, LegTypes
<1>2. CASE legSync' = legSync
  BY <1>1, <1>2 DEF LegInvariant, LegConfirmedIsDurable
<1>3. CASE seq = Len(legSync) + 1 /\ legSync' = Append(legSync, ack)
  <2>1. /\ legSync' \in Seq(Nat) /\ Len(legSync') = Len(legSync) + 1
        /\ legSync'[Len(legSync) + 1] = ack
        /\ \A i \in 1..Len(legSync) : legSync'[i] = legSync[i]
    BY <1>1, <1>3, AppendProperties
  <2>2. DOMAIN legSync' = 1..Len(legSync')
    BY <2>1, LenProperties
  <2>3. ASSUME NEW i \in DOMAIN legSync'
        PROVE  legSync'[i] \in DOMAIN legJournal /\ legJournal[legSync'[i]] = i
    <3>1. i \in 1..Len(legSync) \/ i = Len(legSync) + 1
      BY <1>1, <2>1, <2>2
    <3> QED
      BY <1>1, <1>3, <2>1, <3>1 DEF LegInvariant, LegConfirmedIsDurable, LegNames
  <2> QED
    BY <2>1, <2>3 DEF LegConfirmedIsDurable
<1> QED
  BY <1>2, <1>3 DEF LegConfirmed

\* Nothing is written, sent or confirmed at first.
LEMMA LegInitKeeps == LegInit => LegInvariant
  BY EmptySeq DEF LegInit, LegIdle, LegInvariant, LegTypes, LegAcksAreDurable,
     LegConfirmedIsDurable

\* A journal that grows keeps every entry it has acknowledged.
LEMMA LegJournalGrows ==
    ASSUME LegInvariant, legSync' = legSync,
           \A i \in DOMAIN legJournal : i \in DOMAIN legJournal' /\ legJournal'[i] = legJournal[i]
    PROVE  /\ LegConfirmedIsDurable'
           /\ \A ack, seq : LegNames(ack, seq) => LegNames(ack, seq)'
BY DEF LegInvariant, LegConfirmedIsDurable, LegNames

\* push_pending copies the tail of the local log.
LEMMA LegPushStartKeeps == LegInvariant /\ LegPushStart => LegInvariant'
  BY LenProperties, SeqDef DEF LegInvariant, LegTypes, LegPushStart, LegAcksAreDurable,
     LegConfirmedIsDurable, LegNames

\* One event of push_pending is sent, and its answer may be lost.
LEMMA LegPushOneKeeps == LegInvariant /\ LegPushOne => LegInvariant'
<1> SUFFICES ASSUME LegInvariant, LegPushOne PROVE LegInvariant'
  OBVIOUS
<1>1. LegTypes /\ LegAcksAreDurable /\ UNCHANGED <<legLog, legSync, legFetch>>
  BY DEF LegInvariant, LegPushOne
<1>2. << >> \in Seq(Nat)
  BY EmptySeq
<1>3. CASE legJournal' = legJournal /\ LegPushEnds
  BY <1>1, <1>2, <1>3 DEF LegPushEnds, LegInvariant, LegTypes, LegAcksAreDurable,
        LegConfirmedIsDurable, LegNames
<1>4. CASE /\ legPush.todo # <<>> /\ LegLands(Head(legPush.todo))
           /\ \/ legPush' = [legPush EXCEPT !.at = "acked", !.ack = Len(legJournal')]
              \/ LegPushEnds
  <2>1. PICK seq \in Nat : seq = Head(legPush.todo) /\ legPush.todo \in Seq(Nat)
    BY <1>1, <1>4, HeadTailProperties DEF LegTypes
  <2>2. /\ legJournal' \in Seq(Nat) /\ Len(legJournal') \in Nat
        /\ Len(legJournal') \in DOMAIN legJournal' /\ legJournal'[Len(legJournal')] = seq
        /\ \A i \in DOMAIN legJournal : i \in DOMAIN legJournal' /\ legJournal'[i] = legJournal[i]
    BY <1>1, <1>4, <2>1, LegLanded DEF LegTypes
  <2>3. /\ LegConfirmedIsDurable'
        /\ \A ack, s : LegNames(ack, s) => LegNames(ack, s)'
    BY <1>1, <2>2, LegJournalGrows
  <2>4. /\ legPush' \in [at : {"idle", "next", "acked"}, todo : Seq(Nat), ack : Nat]
        /\ legPush'.at = "acked" => /\ legPush'.todo = legPush.todo
                                    /\ legPush'.ack = Len(legJournal')
    <3>1. CASE legPush' = [legPush EXCEPT !.at = "acked", !.ack = Len(legJournal')]
      BY <1>1, <2>2, <3>1 DEF LegTypes
    <3>2. CASE LegPushEnds
      BY <1>2, <3>2 DEF LegPushEnds
    <3> QED
      BY <1>4, <3>1, <3>2
  <2>5. LegTypes'
    BY <1>1, <2>2, <2>4 DEF LegTypes
  <2>6. LegAcksAreDurable'
    BY <1>4, <2>1, <2>2, <2>4, <1>1, <2>3 DEF LegNames, LegAcksAreDurable
  <2> QED
    BY <2>3, <2>5, <2>6 DEF LegInvariant
<1> QED
  BY <1>3, <1>4 DEF LegPushOne

\* push_pending confirms what was acknowledged and goes on.
LEMMA LegPushConfirmsKeeps == LegInvariant /\ LegPushConfirms => LegInvariant'
<1> SUFFICES ASSUME LegInvariant, LegPushConfirms PROVE LegInvariant'
  OBVIOUS
<1>1. /\ LegTypes /\ LegAcksAreDurable /\ UNCHANGED <<legLog, legJournal, legFetch>>
      /\ legPush.at = "acked"
  BY DEF LegInvariant, LegPushConfirms
<1>2. /\ legPush.todo \in Seq(Nat) /\ legPush.todo # <<>> /\ legPush.ack \in Nat
      /\ LegNames(legPush.ack, Head(legPush.todo))
  BY <1>1 DEF LegTypes, LegAcksAreDurable
<1>3. Head(legPush.todo) \in Nat /\ Tail(legPush.todo) \in Seq(Nat)
  BY <1>2, HeadTailProperties
<1>4. legSync' \in Seq(Nat) /\ LegConfirmedIsDurable'
  BY <1>1, <1>2, <1>3, LegConfirmKeeps DEF LegPushConfirms
<1>5. << >> \in Seq(Nat)
  BY EmptySeq
<1>6. /\ legPush' \in [at : {"idle", "next", "acked"}, todo : Seq(Nat), ack : Nat]
      /\ legPush'.at # "acked"
  <2>1. \/ legPush' = [at |-> "next", todo |-> Tail(legPush.todo), ack |-> 0]
        \/ legPush' = [at |-> "idle", todo |-> << >>, ack |-> 0]
    BY DEF LegPushConfirms, LegPushEnds
  <2>2. CASE legPush' = [at |-> "next", todo |-> Tail(legPush.todo), ack |-> 0]
    BY <1>3, <2>2
  <2>3. CASE legPush' = [at |-> "idle", todo |-> << >>, ack |-> 0]
    BY <1>5, <2>3
  <2> QED
    BY <2>1, <2>2, <2>3
<1> QED
  BY <1>1, <1>4, <1>6 DEF LegInvariant, LegTypes, LegAcksAreDurable, LegNames

\* The steps of append_remote.
LEMMA LegFetchKeeps ==
    ASSUME LegInvariant, NEW f \in LegFetches,
           LegFetchStart(f) \/ LegFetchLands(f) \/ LegFetchFails(f) \/ LegFetchConfirms(f)
    PROVE  LegInvariant'
<1>1. LegTypes /\ LegAcksAreDurable /\ LegConfirmedIsDurable
  BY DEF LegInvariant
<1>2. CASE LegFetchStart(f) \/ LegFetchFails(f)
  <2>1. PICK at \in {"idle", "sent"}, seq \in Nat :
            legFetch' = [legFetch EXCEPT ![f] = [at |-> at, seq |-> seq, ack |-> 0]]
    BY <1>1, <1>2 DEF LegFetchStart, LegFetchFails, LegIdle, LegTypes
  <2>2. /\ legFetch' \in [LegFetches -> [at : {"idle", "sent", "answered"}, seq : Nat, ack : Nat]]
        /\ legFetch'[f].at # "answered"
        /\ \A g \in LegFetches \ {f} : legFetch'[g] = legFetch[g]
    BY <1>1, <2>1 DEF LegTypes
  <2>3. UNCHANGED <<legLog, legJournal, legSync, legPush>>
    BY <1>2 DEF LegFetchStart, LegFetchFails
  <2> QED
    BY <1>1, <2>2, <2>3 DEF LegInvariant, LegTypes, LegAcksAreDurable, LegConfirmedIsDurable,
          LegNames
<1>3. CASE LegFetchLands(f)
  <2>1. /\ legFetch[f].seq \in Nat /\ LegLands(legFetch[f].seq)
        /\ UNCHANGED <<legLog, legSync, legPush>>
    BY <1>1, <1>3 DEF LegFetchLands, LegTypes
  <2>2. /\ legJournal' \in Seq(Nat) /\ Len(legJournal') \in Nat
        /\ Len(legJournal') \in DOMAIN legJournal'
        /\ legJournal'[Len(legJournal')] = legFetch'[f].seq
        /\ \A i \in DOMAIN legJournal : i \in DOMAIN legJournal' /\ legJournal'[i] = legJournal[i]
    BY <2>1, <1>1, LegLanded, <1>3 DEF LegTypes, LegFetchLands
  <2>3. /\ LegConfirmedIsDurable'
        /\ \A ack, s : LegNames(ack, s) => LegNames(ack, s)'
    BY <2>1, <2>2, LegJournalGrows
  <2>4. /\ legFetch' \in [LegFetches -> [at : {"idle", "sent", "answered"}, seq : Nat, ack : Nat]]
        /\ legFetch'[f].ack = Len(legJournal')
        /\ \A g \in LegFetches \ {f} : legFetch'[g] = legFetch[g]
    BY ZenonT(60), <1>1, <1>3, <2>2 DEF LegFetchLands, LegTypes
  <2>5. LegAcksAreDurable'
    <3>1. ASSUME NEW g \in LegFetches, legFetch'[g].at = "answered"
          PROVE  LegNames(legFetch[g].ack, legFetch[g].seq)'
      <4>1. CASE g = f
        BY <2>2, <2>4, <4>1 DEF LegNames
      <4>2. CASE g # f
        BY <1>1, <2>3, <2>4, <3>1, <4>2 DEF LegAcksAreDurable, LegNames
      <4> QED
        BY <4>1, <4>2
    <3>2. legPush'.at = "acked" => legPush'.todo # <<>> /\ LegNames(legPush.ack, Head(legPush.todo))'
      BY <1>1, <2>1, <2>3 DEF LegAcksAreDurable, LegNames
    <3> QED
      BY <3>1, <3>2 DEF LegAcksAreDurable
  <2> QED
    BY <1>1, <2>1, <2>2, <2>3, <2>4, <2>5 DEF LegInvariant, LegTypes
<1>4. CASE LegFetchConfirms(f)
  BY <1>1, <1>4, LegConfirmKeeps DEF LegFetchConfirms, LegTypes, LegAcksAreDurable, LegIdle,
     LegInvariant, LegNames
<1> QED
  BY <1>2, <1>3, <1>4

\* Every step keeps what is confirmed durable.
LEMMA LegNextKeeps == LegInvariant /\ [LegNext]_legVars => LegInvariant'
<1> SUFFICES ASSUME LegInvariant, [LegNext]_legVars PROVE LegInvariant'
  OBVIOUS
<1>1. CASE LegWrite \/ UNCHANGED legVars
  BY SMTT(60), <1>1 DEF LegWrite, legVars, LegInvariant, LegTypes, LegAcksAreDurable,
        LegConfirmedIsDurable, LegNames
<1> QED
  BY <1>1, LegPushStartKeeps, LegPushOneKeeps, LegPushConfirmsKeeps, LegFetchKeeps DEF LegNext

\* However answers are lost, repeated and reordered between one push and any
\* number of fetches, the acknowledgement SyncState keeps for a local event
\* names a journal entry that holds this event (try_confirm).
THEOREM ConfirmedIsDurable == LegSpec => []LegConfirmedIsDurable
<1>1. LegInvariant => LegConfirmedIsDurable
  BY DEF LegInvariant
<1> QED
  BY LegInitKeeps, LegNextKeeps, <1>1, PTL DEF LegSpec

-----------------------------------------------------------------------------
(* Hyphae: what replay and the authority's stream are made of.             *)

\* A prefix is a sequence of its own length.
LEMMA HypPrefix ==
    ASSUME NEW T, NEW s \in Seq(T), NEW n \in 0..Len(s)
    PROVE  /\ SubSeq(s, 1, n) \in Seq(T) /\ Len(SubSeq(s, 1, n)) = n
           /\ \A i \in 1..n : SubSeq(s, 1, n)[i] = s[i]
  BY LenProperties, ElementOfSeq, SubSeqProperties

\* A prefix of a prefix is a prefix.
LEMMA HypPrefixOfPrefix ==
    ASSUME NEW T, NEW s \in Seq(T), NEW n \in 0..Len(s), NEW m \in 0..n
    PROVE  SubSeq(SubSeq(s, 1, n), 1, m) = SubSeq(s, 1, m)
<1>1. Len(s) \in Nat /\ n \in Nat /\ m \in Nat /\ m \in 0..Len(s)
  BY LenProperties
<1>2. /\ SubSeq(s, 1, n) \in Seq(T) /\ Len(SubSeq(s, 1, n)) = n
      /\ \A i \in 1..n : SubSeq(s, 1, n)[i] = s[i]
  BY HypPrefix
<1>3. /\ SubSeq(s, 1, m) \in Seq(T) /\ Len(SubSeq(s, 1, m)) = m
      /\ \A i \in 1..m : SubSeq(s, 1, m)[i] = s[i]
  BY <1>1, HypPrefix
<1> DEFINE t == SubSeq(s, 1, n)
<1>4. t \in Seq(T) /\ m \in 0..Len(t)
  BY <1>2
<1>5. /\ SubSeq(t, 1, m) \in Seq(T) /\ Len(SubSeq(t, 1, m)) = m
      /\ \A i \in 1..m : SubSeq(t, 1, m)[i] = t[i]
  <2> HIDE DEF t
  <2> QED  BY <1>4, HypPrefix
<1>6. \A i \in 1..m : SubSeq(t, 1, m)[i] = SubSeq(s, 1, m)[i]
  BY <1>1, <1>2, <1>3, <1>5
<1> QED
  BY <1>3, <1>5, <1>6, SeqEqual DEF t

\* A prefix followed by what comes next is a longer prefix.
LEMMA HypPrefixGrows ==
    ASSUME NEW T, NEW s \in Seq(T), NEW n \in Nat, NEW m \in n..Len(s), NEW t \in Seq(T),
           Len(t) = m - n, \A i \in 1..(m - n) : t[i] = s[n + i]
    PROVE  SubSeq(s, 1, n) \o t = SubSeq(s, 1, m)
<1>1. Len(s) \in Nat /\ m \in Nat /\ m - n \in Nat /\ n \in 0..Len(s) /\ m \in 0..Len(s)
  BY LenProperties
<1>4. /\ SubSeq(s, 1, n) \in Seq(T) /\ Len(SubSeq(s, 1, n)) = n
      /\ \A i \in 1..n : SubSeq(s, 1, n)[i] = s[i]
      /\ SubSeq(s, 1, m) \in Seq(T) /\ Len(SubSeq(s, 1, m)) = m
      /\ \A i \in 1..m : SubSeq(s, 1, m)[i] = s[i]
  BY <1>1, HypPrefix
<1> DEFINE u == SubSeq(s, 1, n)
           v == SubSeq(s, 1, m)
<1>5. /\ u \o t \in Seq(T) /\ Len(u \o t) = n + (m - n)
      /\ \A i \in 1..(n + (m - n)) : (u \o t)[i] = IF i <= n THEN u[i] ELSE t[i - n]
  BY <1>4, ConcatProperties DEF u
<1>6. \A i \in 1..m : (u \o t)[i] = v[i]
  <2> TAKE i \in 1..m
  <2>1. i <= n => (u \o t)[i] = v[i]
    BY <1>1, <1>4, <1>5
  <2>2. i > n => i - n \in 1..(m - n) /\ t[i - n] = s[i]
    BY <1>1
  <2> QED  BY <1>1, <1>4, <1>5, <2>1, <2>2
<1>7. u \o t = v
  BY <1>4, <1>1, <1>5, <1>6, SeqEqual DEF v
<1> QED
  BY <1>7

\* What a function gives at 1..n is a sequence of length n.
LEMMA HypSequence ==
    ASSUME NEW T, NEW n \in Nat, NEW t \in [1..n -> T]
    PROVE  t \in Seq(T) /\ Len(t) = n
  BY SeqDef, LenProperties

\* A step that leaves the replay alone keeps what is known of it.
LEMMA HypReplayFrame ==
    ASSUME HypReplayInvariant, UNCHANGED <<hypPages, hyp, hypSink>>,
           hypStream' \in [HypAuthorities -> Seq(HypIds)]
    PROVE  HypReplayInvariant'
BY DEF HypReplayInvariant, HypReplayTypes, HypAnchored, HypReplayIsTheStream, HypCursor, HypIsCut,
       HypCursors

-----------------------------------------------------------------------------
(* Hyphae: appending.                                                      *)

\* What a concatenation holds, and when it holds nothing twice.
LEMMA HypConcat ==
    ASSUME NEW T, NEW s \in Seq(T), NEW t \in Seq(T)
    PROVE  /\ s \o t \in Seq(T)
           /\ \A e : Contains(s \o t, e) <=> Contains(s, e) \/ Contains(t, e)
           /\ (/\ IsInjective(s) /\ IsInjective(t)
               /\ \A i \in 1..Len(t) : ~Contains(s, t[i])) => IsInjective(s \o t)
<1>1. /\ Len(s) \in Nat /\ Len(t) \in Nat /\ DOMAIN s = 1..Len(s) /\ DOMAIN t = 1..Len(t)
  BY LenProperties
<1>2. PICK u \in Seq(T) : u = s \o t
  BY ConcatProperties
<1>3. /\ Len(u) = Len(s) + Len(t)
      /\ \A i \in 1..(Len(s) + Len(t)) : u[i] = IF i <= Len(s) THEN s[i] ELSE t[i - Len(s)]
  BY <1>2, ConcatProperties
<1>4. DOMAIN u = 1..(Len(s) + Len(t))
  BY <1>3, LenProperties
<1>5. \A i \in 1..Len(s) : i \in 1..Len(u) /\ u[i] = s[i]
  BY <1>1, <1>3
<1>6. \A i \in 1..Len(t) : Len(s) + i \in 1..Len(u) /\ u[Len(s) + i] = t[i]
  <2> TAKE i \in 1..Len(t)
  <2>1. Len(s) + i \in 1..(Len(s) + Len(t)) /\ ~(Len(s) + i <= Len(s)) /\ Len(s) + i - Len(s) = i
    BY <1>1
  <2> QED  BY <1>3, <2>1
<1>7. \A i \in 1..Len(u) : \/ i \in 1..Len(s) /\ u[i] = s[i]
                           \/ i - Len(s) \in 1..Len(t) /\ u[i] = t[i - Len(s)]
  BY <1>1, <1>3
<1>8. ASSUME NEW e PROVE Contains(u, e) <=> Contains(s, e) \/ Contains(t, e)
  <2>1. Contains(u, e) => Contains(s, e) \/ Contains(t, e)
    BY <1>7 DEF Contains
  <2>2. Contains(s, e) => Contains(u, e)
    BY <1>5 DEF Contains
  <2>3. Contains(t, e) => Contains(u, e)
    BY <1>6 DEF Contains
  <2> QED  BY <2>1, <2>2, <2>3
<1>9. ASSUME IsInjective(s), IsInjective(t), \A i \in 1..Len(t) : ~Contains(s, t[i])
      PROVE  IsInjective(u)
  <2> SUFFICES ASSUME NEW i \in 1..Len(u), NEW j \in 1..Len(u), u[i] = u[j] PROVE i = j
    BY <1>3, <1>4 DEF IsInjective
  <2>1. CASE i \in 1..Len(s) /\ u[i] = s[i] /\ j \in 1..Len(s) /\ u[j] = s[j]
    BY <1>1, <1>9, <2>1 DEF IsInjective
  <2>2. CASE /\ i - Len(s) \in 1..Len(t) /\ u[i] = t[i - Len(s)]
             /\ j - Len(s) \in 1..Len(t) /\ u[j] = t[j - Len(s)]
    <3>1. i - Len(s) = j - Len(s)
      BY <1>1, <1>9, <2>2 DEF IsInjective
    <3> QED  BY <1>1, <1>3, <3>1
  <2>3. CASE i \in 1..Len(s) /\ u[i] = s[i] /\ j - Len(s) \in 1..Len(t) /\ u[j] = t[j - Len(s)]
    BY <1>9, <2>3 DEF Contains
  <2>4. CASE j \in 1..Len(s) /\ u[j] = s[j] /\ i - Len(s) \in 1..Len(t) /\ u[i] = t[i - Len(s)]
    BY <1>9, <2>4 DEF Contains
  <2> QED  BY <1>7, <2>1, <2>2, <2>3, <2>4
<1> QED
  BY <1>2, <1>8, <1>9

\* The local log holds distinct ids, none of another client.
LEMMA HypLocalLog ==
    /\ HypLocal \in Seq(HypIds) /\ Len(HypLocal) \in Nat
    /\ \A i \in 1..Len(HypLocal) : HypLocal[i] \in HypIds /\ HypLocal[i] \notin HypForeign
    /\ \A i, j \in 1..Len(HypLocal) : HypLocal[i] = HypLocal[j] => i = j
  BY HypAssumption, SeqMonotonic, LenProperties DEF HypIds, Range, IsInjective

\* A batch is a cut of the local log: nothing twice, and exactly its span.
LEMMA HypCutOfLocal ==
    ASSUME NEW d \in Nat, NEW k \in Nat, d + k <= Len(HypLocal), NEW t,
           t = SubSeq(HypLocal, d + 1, d + k)
    PROVE  /\ t \in Seq(HypIds) /\ Len(t) = k /\ IsInjective(t)
           /\ \A i \in 1..k : t[i] = HypLocal[d + i]
           /\ \A i \in 1..Len(HypLocal) : Contains(t, HypLocal[i]) <=> i \in (d + 1)..(d + k)
<1>1. /\ Len(HypLocal) \in Nat /\ d + 1 \in Int /\ d + k \in Int
      /\ \A i \in (d + 1)..(d + k) : HypLocal[i] \in HypIds
  BY HypLocalLog
<1>2. /\ t \in Seq(HypIds)
      /\ Len(t) = IF d + 1 <= d + k THEN (d + k) - (d + 1) + 1 ELSE 0
      /\ \A i \in 1..((d + k) - (d + 1) + 1) : t[i] = HypLocal[(d + 1) + i - 1]
  BY <1>1, SubSeqProperties
<1>3. (d + k) - (d + 1) + 1 = k /\ \A i \in 1..k : (d + 1) + i - 1 = d + i
  OBVIOUS
<1>4. Len(t) = k /\ \A i \in 1..k : t[i] = HypLocal[d + i]
  <2>1. Len(t) = k
    BY <1>2
  <2>2. ASSUME NEW i \in 1..k PROVE t[i] = HypLocal[d + i]
    BY <1>3, <1>2
  <2> QED  BY <2>1, <2>2
<1>5. DOMAIN t = 1..k
  BY <1>2, <1>4, LenProperties
<1>6. \A i \in 1..k : d + i \in 1..Len(HypLocal)
  BY <1>1
<1>7. IsInjective(t)
  <2> SUFFICES ASSUME NEW i \in 1..k, NEW j \in 1..k, t[i] = t[j] PROVE i = j
    BY <1>5 DEF IsInjective
  <2>1. d + i = d + j
    BY <1>4, <1>6, HypLocalLog
  <2> QED  BY <2>1
<1>8. ASSUME NEW i \in 1..Len(HypLocal)
      PROVE  Contains(t, HypLocal[i]) <=> i \in (d + 1)..(d + k)
  <2>1. ASSUME Contains(t, HypLocal[i]) PROVE i \in (d + 1)..(d + k)
    BY <1>4, <2>1, <1>6, HypLocalLog DEF Contains
  <2>2. ASSUME i \in (d + 1)..(d + k) PROVE Contains(t, HypLocal[i])
    <3>1. i - d \in 1..k /\ d + (i - d) = i
      BY <2>2
    <3> QED  BY <1>4, <3>1 DEF Contains
  <2> QED  BY <2>1, <2>2
<1> QED
  BY <1>2, <1>4, <1>7, <1>8

\* The application builds a batch.
LEMMA HypSubmitKeeps == HypInvariant /\ HypSubmit => HypInvariant'
<1> SUFFICES ASSUME HypInvariant, HypSubmit PROVE HypInvariant'
  OBVIOUS
<1>1. /\ HypReplayInvariant /\ HypReplayTypes /\ HypAppendTypes /\ HypBatchFollows
      /\ HypAnswersOnce /\ HypLocalEvents /\ HypAppendsOnce
      /\ UNCHANGED <<hypStream, hypServer, hypPages, hyp, hypSink>>
      /\ hypSend.at = "idle" /\ ~hypServer.rewound /\ hypSend.batch = {}
  BY DEF HypInvariant, HypReplayInvariant, HypAppendInvariant, HypSubmit, HypBatchFollows
<1>2. HypReplayInvariant'
  BY <1>1, HypReplayFrame DEF HypReplayTypes
<1>3. hypSend.done \in Nat /\ hypSend.done <= Len(HypLocal) /\ hypSend.built \in Nat /\ Len(HypLocal) \in Nat
  BY <1>1, HypLocalLog DEF HypAppendTypes
<1>4. PICK n \in (hypSend.done + 1)..Len(HypLocal), expected \in {HypGenesis, hyp.cursor} :
          hypSend' = [hypSend EXCEPT !.at = "retrying",
                         !.batch = {HypBatch(hypSend.built + 1, expected, SubSeq(HypLocal, hypSend.done + 1, n))},
                         !.attempts = 0, !.built = @ + 1]
  BY DEF HypSubmit
<1>5. PICK t : t = SubSeq(HypLocal, hypSend.done + 1, n)
  OBVIOUS
<1>6. t \in Seq(HypIds) /\ hypSend.done + Len(t) = n
  <2>1. PICK k \in Nat : hypSend.done + k = n
    <3>1. n - hypSend.done \in Nat /\ hypSend.done + (n - hypSend.done) = n
      BY <1>3
    <3> QED  BY <3>1
  <2>2. t \in Seq(HypIds) /\ Len(t) = k
    <3>1. hypSend.done + k <= Len(HypLocal)
      BY <1>3, <2>1
    <3>2. t = SubSeq(HypLocal, hypSend.done + 1, hypSend.done + k)
      BY ONLY <1>5, <2>1
    <3> QED  BY <1>3, <3>1, <3>2, HypCutOfLocal
  <2> QED  BY <2>1, <2>2
<1>7. expected \in HypCursors
  <2>1. << >> \in Seq(HypIds) /\ Len(<< >>) = 0
    BY EmptySeq
  <2>2. HypGenesis \in HypCursors
    BY ONLY <2>1 DEF HypGenesis, HypCursor, HypCursors
  <2>3. hyp.cursor \in HypCursors
    BY <1>1 DEF HypReplayTypes
  <2> QED  BY <2>2, <2>3
<1>8. PICK b \in HypBatches : b = [id |-> hypSend.built + 1, expected |-> expected, events |-> t]
  <2>1. hypSend.built + 1 \in Nat \ {0}
    BY <1>3
  <2>2. [id |-> hypSend.built + 1, expected |-> expected, events |-> t] \in HypBatches
    BY ONLY <1>6, <1>7, <2>1 DEF HypBatches
  <2> QED  BY ONLY <2>2
<1>9. hypSend' = [hypSend EXCEPT !.at = "retrying", !.batch = {b}, !.attempts = 0, !.built = @ + 1]
  BY <1>4, <1>5, <1>8 DEF HypBatch
<1>10. /\ hypSend' \in [at : {"idle", "retrying"}, batch : SUBSET HypBatches, attempts : Nat,
                        done : 0..Len(HypLocal), built : Nat]
       /\ hypSend'.at = "retrying" /\ hypSend'.batch = {b} /\ hypSend'.done = hypSend.done
       /\ hypSend'.built = hypSend.built + 1
  <2>1. hypSend \in [at : {"idle", "retrying"}, batch : SUBSET HypBatches, attempts : Nat,
                    done : 0..Len(HypLocal), built : Nat]
    BY <1>1 DEF HypAppendTypes
  <2>2. PICK B \in SUBSET HypBatches : B = {b}
    BY <1>8
  <2>3. PICK c \in Nat : c = hypSend.built + 1
    BY <1>3
  <2>4. hypSend' = [hypSend EXCEPT !.at = "retrying", !.batch = B, !.attempts = 0, !.built = c]
    BY <1>9, <2>2, <2>3, Zenon
  <2>5. /\ hypSend' \in [at : {"idle", "retrying"}, batch : SUBSET HypBatches, attempts : Nat,
                         done : 0..Len(HypLocal), built : Nat]
        /\ hypSend'.at = "retrying" /\ hypSend'.batch = B /\ hypSend'.done = hypSend.done
        /\ hypSend'.built = c
    BY ONLY <2>1, <2>4
  <2> QED  BY <2>2, <2>3, <2>5
<1>11. HypAppendTypes'
  BY <1>1, <1>10 DEF HypAppendTypes
<1>12. HypBatchFollows'
  <2>1. b.id = hypSend'.built /\ b.events = t /\ hypSend.done + Len(b.events) <= Len(HypLocal)
    BY <1>3, <1>6, <1>8, <1>10
  <2>2. b.events = SubSeq(HypLocal, hypSend.done + 1, hypSend.done + Len(b.events))
    BY <1>5, <1>6, <2>1
  <2> QED  BY <1>10, <2>1, <2>2 DEF HypBatchFollows
<1>13. \A r \in hypServer.answers : r.batch \in Nat /\ r.batch <= hypSend.built /\ r.batch # b.id
  BY <1>1, <1>3, <1>8 DEF HypAnswersOnce, HypAppendTypes, HypAnswers
<1>14. HypAnswersOnce'
  BY <1>1, <1>3, <1>10, <1>13 DEF HypAnswersOnce
<1>15. HypLocalEvents'
  BY <1>1, <1>10, <1>13 DEF HypLocalEvents
<1>16. HypAppendsOnce'
  BY <1>1, <1>10 DEF HypAppendsOnce
<1> QED
  BY <1>2, <1>11, <1>12, <1>14, <1>15, <1>16 DEF HypInvariant, HypAppendInvariant

\* An attempt puts the batch on the wire, or the caller starts over.
LEMMA HypSendKeeps == HypInvariant /\ (HypSendBatch \/ HypExhausted) => HypInvariant'
<1> SUFFICES ASSUME HypInvariant, HypSendBatch \/ HypExhausted PROVE HypInvariant'
  OBVIOUS
<1>1. /\ HypReplayInvariant /\ HypReplayTypes /\ HypAppendTypes /\ HypBatchFollows
      /\ HypAnswersOnce /\ HypLocalEvents /\ HypAppendsOnce
      /\ UNCHANGED <<hypStream, hypPages, hyp, hypSink>>
      /\ hypSend.at = "retrying"
  BY DEF HypInvariant, HypReplayInvariant, HypAppendInvariant, HypSendBatch, HypExhausted
<1>2. HypReplayInvariant'
  BY <1>1, HypReplayFrame DEF HypReplayTypes
<1>3. PICK m \in Nat : hypSend' = [hypSend EXCEPT !.attempts = m]
  BY <1>1 DEF HypSendBatch, HypExhausted, HypAppendTypes
<1>4. /\ hypSend' \in [at : {"idle", "retrying"}, batch : SUBSET HypBatches, attempts : Nat,
                       done : 0..Len(HypLocal), built : Nat]
      /\ hypSend'.at = hypSend.at /\ hypSend'.batch = hypSend.batch /\ hypSend'.done = hypSend.done
      /\ hypSend'.built = hypSend.built
  BY <1>1, <1>3 DEF HypAppendTypes
<1>5. /\ hypServer' \in [answers : SUBSET HypAnswers, wire : SUBSET HypBatches, rewound : BOOLEAN]
      /\ hypServer'.answers = hypServer.answers /\ hypServer'.rewound = hypServer.rewound
      /\ \A b \in hypServer'.wire : b \in hypServer.wire \/ b \in hypSend.batch
  BY <1>1 DEF HypAppendTypes, HypSendBatch, HypExhausted, HypRetried
<1>6. hypSend.built = 0 => hypServer'.wire = {}
  BY <1>1, <1>5 DEF HypAnswersOnce
<1>7. HypAnswersOnce'
  BY <1>1, <1>4, <1>5, <1>6 DEF HypAnswersOnce
<1>8. HypLocalEvents' /\ HypAppendsOnce' /\ HypBatchFollows' /\ HypAppendTypes'
  BY <1>1, <1>4, <1>5 DEF HypLocalEvents, HypAppendsOnce, HypBatchFollows, HypAppendTypes, HypSpan
<1> QED
  BY <1>2, <1>7, <1>8 DEF HypInvariant, HypAppendInvariant

\* An answer ends the batch.
LEMMA HypAnsweredKeeps == HypInvariant /\ HypAnswered => HypInvariant'
<1> SUFFICES ASSUME HypInvariant, HypAnswered PROVE HypInvariant'
  OBVIOUS
<1>1. /\ HypReplayInvariant /\ HypReplayTypes /\ HypAppendTypes /\ HypBatchFollows
      /\ HypAnswersOnce /\ HypLocalEvents /\ HypAppendsOnce
      /\ UNCHANGED <<hypStream, hypServer, hypPages, hyp, hypSink>>
  BY DEF HypInvariant, HypReplayInvariant, HypAppendInvariant, HypAnswered
<1>2. HypReplayInvariant'
  BY <1>1, HypReplayFrame DEF HypReplayTypes
<1>3. PICK b \in hypSend.batch, r \in hypServer.answers :
          /\ r.batch = b.id
          /\ \/ r.ok /\ hypSend' = [hypSend EXCEPT !.at = "idle", !.batch = {}, !.done = @ + Len(b.events)]
             \/ ~r.ok /\ hypSend' = [hypSend EXCEPT !.at = "idle", !.batch = {}]
  BY DEF HypAnswered
<1>4. /\ hypSend.batch = {b} /\ b \in HypBatches /\ b.id = hypSend.built
      /\ hypSend.done + Len(b.events) <= Len(HypLocal)
      /\ Len(b.events) \in Nat /\ hypSend.done \in Nat /\ Len(HypLocal) \in Nat
  BY <1>1, <1>3, LenProperties, HypLocalLog DEF HypBatchFollows, HypAppendTypes, HypBatches
<1>5. PICK d \in Nat : d = IF r.ok THEN hypSend.done + Len(b.events) ELSE hypSend.done
  BY <1>4
<1>6. /\ hypSend' \in [at : {"idle", "retrying"}, batch : SUBSET HypBatches, attempts : Nat,
                       done : 0..Len(HypLocal), built : Nat]
      /\ hypSend'.batch = {} /\ hypSend'.done = d /\ hypSend'.built = hypSend.built
  <2>1. hypSend \in [at : {"idle", "retrying"}, batch : SUBSET HypBatches, attempts : Nat,
                    done : 0..Len(HypLocal), built : Nat]
    BY <1>1 DEF HypAppendTypes
  <2>2. d \in 0..Len(HypLocal)
    BY <1>4, <1>5
  <2>3. \/ hypSend' = [hypSend EXCEPT !.at = "idle", !.batch = {}, !.done = d]
        \/ hypSend' = [hypSend EXCEPT !.at = "idle", !.batch = {}] /\ d = hypSend.done
    BY <1>3, <1>5
  <2> QED  BY ONLY <2>1, <2>2, <2>3
<1>7. ASSUME NEW i \in 1..Len(HypLocal)
      PROVE  Contains(hypStream[HypHome], HypLocal[i]) <=> i <= d
  BY <1>1, <1>3, <1>4, <1>5 DEF HypLocalEvents, HypAnswersOnce, HypSpan
<1>8. HypLocalEvents'
  BY <1>1, <1>6, <1>7 DEF HypLocalEvents
<1>9. HypAppendsOnce'
  BY <1>4, <1>5, <1>1, <1>6, <1>7 DEF HypAppendsOnce
<1>10. HypAppendTypes' /\ HypBatchFollows'
  BY <1>1, <1>6 DEF HypAppendTypes, HypBatchFollows
<1>11. HypAnswersOnce'
  BY <1>1, <1>3, <1>4, <1>6 DEF HypAnswersOnce, HypBatches
<1> QED
  BY <1>2, <1>8, <1>9, <1>10, <1>11 DEF HypInvariant, HypAppendInvariant

\* The authority answers a batch for the first time.
LEMMA HypAuthorityKeeps == HypInvariant /\ HypAuthorityAppends => HypInvariant'
<1> SUFFICES ASSUME HypInvariant, HypAuthorityAppends PROVE HypInvariant'
  OBVIOUS
<1>1. /\ HypReplayInvariant /\ HypReplayTypes /\ HypAppendTypes /\ HypBatchFollows
      /\ HypAnswersOnce /\ HypLocalEvents /\ HypAppendsOnce
      /\ UNCHANGED <<hypSend, hypPages, hyp, hypSink>>
  BY DEF HypInvariant, HypReplayInvariant, HypAppendInvariant, HypAuthorityAppends
<1>2. PICK b \in hypServer.wire, ok \in BOOLEAN :
          /\ \A r \in hypServer.answers : r.batch # b.id
          /\ hypStream' = IF ok THEN [hypStream EXCEPT ![HypHome] = @ \o b.events] ELSE hypStream
          /\ hypServer' = [hypServer EXCEPT !.answers = @ \cup
                  {[batch |-> b.id, ok |-> ok, expected |-> b.expected, events |-> b.events,
                    next |-> HypCursor(hypStream'[HypHome])]}]
  BY DEF HypAuthorityAppends
<1>3. /\ b \in hypSend.batch /\ hypSend.batch = {b} /\ b \in HypBatches /\ b.id = hypSend.built
      /\ hypSend.done + Len(b.events) <= Len(HypLocal)
      /\ b.events = SubSeq(HypLocal, hypSend.done + 1, hypSend.done + Len(b.events))
  BY <1>1, <1>2 DEF HypAnswersOnce, HypBatchFollows, HypAppendTypes
<1>4. /\ b.events \in Seq(HypIds) /\ Len(b.events) \in Nat /\ b.id \in Nat \ {0}
      /\ b.expected \in HypCursors /\ hypSend.done \in Nat
      /\ hypStream \in [HypAuthorities -> Seq(HypIds)] /\ HypHome \in HypAuthorities
      /\ hypStream[HypHome] \in Seq(HypIds)
  BY <1>3, <1>1, LenProperties, HypAssumption DEF HypBatches, HypAppendTypes, HypReplayTypes
<1>5. /\ IsInjective(b.events) /\ \A i \in 1..Len(b.events) : b.events[i] = HypLocal[hypSend.done + i]
      /\ \A i \in 1..Len(HypLocal) : Contains(b.events, HypLocal[i]) <=> i \in HypSpan(b)
  <2>1. PICK k \in Nat : k = Len(b.events)
    BY <1>4
  <2>2. PICK t : t = b.events
    OBVIOUS
  <2>0. PICK d \in Nat : d = hypSend.done
    BY <1>4
  <2>3. t = SubSeq(HypLocal, d + 1, d + k) /\ d + k <= Len(HypLocal)
    BY ONLY <1>3, <2>0, <2>1, <2>2
  <2>4. /\ IsInjective(t) /\ \A i \in 1..k : t[i] = HypLocal[d + i]
        /\ \A i \in 1..Len(HypLocal) : Contains(t, HypLocal[i]) <=> i \in (d + 1)..(d + k)
    <3>1. d + k <= Len(HypLocal)
      BY <2>3
    <3>2. t = SubSeq(HypLocal, d + 1, d + k)
      BY <2>3
    <3>3. IsInjective(t)
      BY <3>1, <3>2, HypCutOfLocal
    <3>4. \A i \in 1..k : t[i] = HypLocal[d + i]
      BY <3>1, <3>2, HypCutOfLocal
    <3>5. \A i \in 1..Len(HypLocal) : Contains(t, HypLocal[i]) <=> i \in (d + 1)..(d + k)
      BY <3>1, <3>2, HypCutOfLocal
    <3> QED  BY <3>3, <3>4, <3>5
  <2> QED  BY ONLY <2>0, <2>1, <2>2, <2>4 DEF HypSpan
<1>6. \A i \in 1..Len(HypLocal) : Contains(hypStream[HypHome], HypLocal[i]) <=> i <= hypSend.done
  BY <1>1, <1>2, <1>3 DEF HypLocalEvents
<1>7. /\ hypStream' \in [HypAuthorities -> Seq(HypIds)]
      /\ IsInjective(hypStream'[HypHome])
      /\ \A i \in 1..Len(HypLocal) : Contains(hypStream'[HypHome], HypLocal[i]) <=>
                                        i <= hypSend.done \/ (ok /\ i \in HypSpan(b))
  <2>1. CASE ~ok
    BY <1>1, <1>2, <1>4, <1>6, <2>1 DEF HypAppendsOnce
  <2>2. CASE ok
    <3>1. PICK u \in Seq(HypIds) : u = hypStream[HypHome] \o b.events
      BY <1>4, HypConcat
    <3>2. hypStream' \in [HypAuthorities -> Seq(HypIds)] /\ hypStream'[HypHome] = u
      BY <1>2, <1>4, <2>2, <3>1
    <3>3. \A i \in 1..Len(b.events) : ~Contains(hypStream[HypHome], b.events[i])
      <4> TAKE i \in 1..Len(b.events)
      <4>1. hypSend.done + i \in 1..Len(HypLocal) /\ ~(hypSend.done + i <= hypSend.done)
        BY SMTT(60), <1>3, <1>4, HypLocalLog
      <4> QED  BY <1>5, <1>6, <4>1
    <3>4. /\ IsInjective(u)
          /\ \A e : Contains(u, e) <=> Contains(hypStream[HypHome], e) \/ Contains(b.events, e)
      BY <1>1, <1>4, <1>5, <3>1, <3>3, HypConcat DEF HypAppendsOnce
    <3> QED  BY <1>5, <1>6, <2>2, <3>2, <3>4
  <2> QED  BY <2>1, <2>2
<1>8. HypReplayInvariant'
  BY <1>1, <1>7, HypReplayFrame
<1>9. PICK c \in HypCursors : c = HypCursor(hypStream'[HypHome])
  BY <1>4, <1>7, LenProperties DEF HypCursor, HypCursors
<1>10. PICK a \in HypAnswers : a = [batch |-> b.id, ok |-> ok, expected |-> b.expected,
                                    events |-> b.events, next |-> c]
  BY <1>4, <1>9 DEF HypAnswers
<1>11. a.batch = b.id /\ a.ok = ok
  BY <1>10
<1>12. /\ hypServer' \in [answers : SUBSET HypAnswers, wire : SUBSET HypBatches, rewound : BOOLEAN]
       /\ hypServer'.wire = hypServer.wire /\ hypServer'.rewound = hypServer.rewound
       /\ hypServer'.answers = hypServer.answers \cup {a}
  BY <1>1, <1>2, <1>9, <1>10 DEF HypAppendTypes
<1>13. HypAppendTypes' /\ HypBatchFollows'
  BY <1>1, <1>12 DEF HypAppendTypes, HypBatchFollows
<1>14. HypAnswersOnce'
  BY <1>12, <1>3, <1>4, <1>1, <1>2, <1>11 DEF HypAnswersOnce
<1>15. HypLocalEvents'
  <2>1. ASSUME NEW i \in 1..Len(HypLocal)
        PROVE  (\E d \in hypSend.batch, r \in hypServer'.answers :
                    r.batch = d.id /\ r.ok /\ i \in HypSpan(d)) <=> ok /\ i \in HypSpan(b)
    BY <1>2, <1>3, <1>11, <1>12
  <2> QED  BY <1>1, <1>7, <2>1 DEF HypLocalEvents, HypSpan
<1>16. HypAppendsOnce'
  BY <1>1, HypLocalLog, <1>7 DEF HypAppendTypes, HypAppendsOnce
<1> QED
  BY <1>8, <1>13, <1>14, <1>15, <1>16 DEF HypInvariant, HypAppendInvariant

\* Another client appends to an authority.
LEMMA HypOthersKeep == HypInvariant /\ HypOthersAppend => HypInvariant'
<1> SUFFICES ASSUME HypInvariant, HypOthersAppend PROVE HypInvariant'
  OBVIOUS
<1>1. /\ HypReplayInvariant /\ HypReplayTypes /\ HypAppendTypes /\ HypBatchFollows
      /\ HypAnswersOnce /\ HypLocalEvents /\ HypAppendsOnce
      /\ UNCHANGED <<hypServer, hypSend, hypPages, hyp, hypSink>>
  BY DEF HypInvariant, HypReplayInvariant, HypAppendInvariant, HypOthersAppend
<1>2. PICK a \in HypAuthorities, e \in HypForeign :
          ~Contains(hypStream[a], e) /\ hypStream' = [hypStream EXCEPT ![a] = Append(@, e)]
  BY DEF HypOthersAppend
<1>3. /\ hypStream \in [HypAuthorities -> Seq(HypIds)] /\ HypHome \in HypAuthorities
      /\ hypStream[a] \in Seq(HypIds) /\ e \in HypIds
  BY <1>1, HypAssumption DEF HypReplayTypes, HypIds
<1>4. /\ <<e>> \in Seq(HypIds) /\ Len(<<e>>) = 1 /\ <<e>>[1] = e /\ DOMAIN <<e>> = 1..1
  BY <1>3
<1>5. PICK u \in Seq(HypIds) : u = Append(hypStream[a], e)
  BY <1>3, AppendProperties
<1>6. u = hypStream[a] \o <<e>>
  BY <1>3, <1>5, AppendIsConcat
<1>7. /\ \A x : Contains(u, x) <=> Contains(hypStream[a], x) \/ x = e
      /\ IsInjective(hypStream[a]) => IsInjective(u)
  BY <1>4, <1>2, <1>3, <1>6, HypConcat DEF Contains, IsInjective
<1>8. /\ hypStream' \in [HypAuthorities -> Seq(HypIds)]
      /\ hypStream'[HypHome] = IF a = HypHome THEN u ELSE hypStream[HypHome]
  BY <1>2, <1>3, <1>5
<1>9. HypReplayInvariant'
  BY <1>1, <1>8, HypReplayFrame
<1>10. /\ IsInjective(hypStream'[HypHome])
       /\ \A i \in 1..Len(HypLocal) : Contains(hypStream'[HypHome], HypLocal[i]) <=>
                                        Contains(hypStream[HypHome], HypLocal[i])
  BY HypLocalLog, <1>1, <1>7, <1>8 DEF HypAppendsOnce
<1>11. HypLocalEvents'
  BY <1>1, <1>10 DEF HypLocalEvents, HypSpan
<1>12. HypAppendsOnce'
  BY <1>1, HypLocalLog, <1>10 DEF HypAppendTypes, HypAppendsOnce
<1>13. HypAppendTypes' /\ HypBatchFollows' /\ HypAnswersOnce'
  BY <1>1 DEF HypAppendTypes, HypBatchFollows, HypAnswersOnce
<1> QED
  BY <1>9, <1>11, <1>12, <1>13 DEF HypInvariant, HypAppendInvariant

\* An authority comes back from a backup.
LEMMA HypRewindKeeps == HypInvariant /\ HypRewind => HypInvariant'
<1> SUFFICES ASSUME HypInvariant, HypRewind PROVE HypInvariant'
  OBVIOUS
<1>1. /\ HypReplayInvariant /\ HypReplayTypes /\ HypAppendTypes /\ HypBatchFollows
      /\ HypAnswersOnce /\ HypLocalEvents /\ HypAppendsOnce
      /\ UNCHANGED <<hypSend, hypPages, hyp, hypSink>>
      /\ hypSend.built = 0 /\ hypServer' = [hypServer EXCEPT !.rewound = TRUE]
  BY DEF HypInvariant, HypReplayInvariant, HypAppendInvariant, HypRewind
<1>2. PICK a \in HypAuthorities : \E n \in 0..(Len(hypStream[a]) - 1) :
          hypStream' = [hypStream EXCEPT ![a] = SubSeq(@, 1, n)]
  BY DEF HypRewind
<1>20. PICK n \in 0..(Len(hypStream[a]) - 1) :
          hypStream' = [hypStream EXCEPT ![a] = SubSeq(@, 1, n)]
  BY <1>2
<1>3. /\ hypStream \in [HypAuthorities -> Seq(HypIds)] /\ HypHome \in HypAuthorities
      /\ hypStream[a] \in Seq(HypIds) /\ Len(hypStream[a]) \in Nat
      /\ DOMAIN hypStream[a] = 1..Len(hypStream[a])
  BY <1>1, HypAssumption, LenProperties DEF HypReplayTypes
<1>4. n \in Nat /\ n \in 0..Len(hypStream[a])
  BY <1>3
<1>5. PICK u \in Seq(HypIds) : /\ u = SubSeq(hypStream[a], 1, n) /\ Len(u) = n
                               /\ \A i \in 1..n : u[i] = hypStream[a][i]
  <2>1. PICK s \in Seq(HypIds) : s = hypStream[a]
    BY <1>3
  <2>2. /\ SubSeq(s, 1, n) \in Seq(HypIds) /\ Len(SubSeq(s, 1, n)) = n
        /\ \A i \in 1..n : SubSeq(s, 1, n)[i] = s[i]
    BY <1>4, <2>1, HypPrefix
  <2> QED  BY <2>1, <2>2, Zenon
<1>6. DOMAIN u = 1..n
  BY <1>5, LenProperties
<1>7. \A i \in 1..n : i \in 1..Len(hypStream[a])
  BY <1>3, <1>4
<1>8. /\ \A x : Contains(u, x) => Contains(hypStream[a], x)
      /\ IsInjective(hypStream[a]) => IsInjective(u)
  BY <1>3, <1>5, <1>6, <1>7 DEF Contains, IsInjective
<1>9. /\ hypStream' \in [HypAuthorities -> Seq(HypIds)]
      /\ hypStream'[HypHome] = IF a = HypHome THEN u ELSE hypStream[HypHome]
  BY <1>20, <1>3, <1>5
<1>10. HypReplayInvariant'
  BY <1>1, <1>9, HypReplayFrame
<1>11. hypSend.done = 0 /\ hypSend.batch = {} /\ hypServer.wire = {}
  BY <1>1 DEF HypAnswersOnce
<1>12. \A i \in 1..Len(HypLocal) : ~(i <= 0)
  BY HypLocalLog
<1>13. \A i \in 1..Len(HypLocal) : ~Contains(hypStream'[HypHome], HypLocal[i])
  BY <1>1, <1>8, <1>9, <1>11, <1>12 DEF HypLocalEvents
<1>14. HypLocalEvents'
  BY <1>1, <1>11, <1>12, <1>13 DEF HypLocalEvents
<1>15. HypAppendsOnce'
  BY <1>1, <1>8, <1>9, <1>11 DEF HypAppendsOnce
<1>16. /\ hypServer' \in [answers : SUBSET HypAnswers, wire : SUBSET HypBatches, rewound : BOOLEAN]
       /\ hypServer'.wire = hypServer.wire /\ hypServer'.answers = hypServer.answers
  BY <1>1 DEF HypAppendTypes
<1>17. HypAppendTypes' /\ HypBatchFollows' /\ HypAnswersOnce'
  BY <1>1, <1>11, <1>16 DEF HypAppendTypes, HypBatchFollows, HypAnswersOnce
<1> QED
  BY <1>10, <1>14, <1>15, <1>17 DEF HypInvariant, HypAppendInvariant

-----------------------------------------------------------------------------
(* Hyphae: replay.                                                         *)

\* A page that passes validate_against is a cut of the stream it came from.
LEMMA HypPageIsCut ==
    ASSUME HypReplayTypes, NEW a \in HypAuthorities, NEW q, NEW n \in Nat, n = q.after.pos,
           NEW l \in Nat, l = q.limit, q.exact \subseteq HypCursors,
           \A c \in q.exact : c.pos <= Len(hypStream[a]),
           NEW p, p = HypPageFor(a, q), HypPageValid(p)
    PROVE  HypIsCut(p)
<1>1. PICK s \in Seq(HypIds) : s = hypStream[a]
  BY DEF HypReplayTypes
<1>2. Len(s) \in Nat
  BY LenProperties
<1>3. PICK k \in 0..Len(s) : k = IF q.exact = {} THEN Len(s) ELSE (CHOOSE c \in q.exact : TRUE).pos
  <2>1. CASE q.exact = {}
    BY <1>2, <2>1
  <2>2. CASE q.exact # {}
    <3>1. PICK d \in q.exact : d = CHOOSE c \in q.exact : TRUE
      BY <2>2
    <3>2. d.pos \in Nat /\ d.pos <= Len(s)
      BY <1>1, <3>1 DEF HypCursors
    <3>3. d.pos \in 0..Len(s)
      BY <1>2, <3>2
    <3>4. d.pos = IF q.exact = {} THEN Len(s) ELSE (CHOOSE c \in q.exact : TRUE).pos
      BY <3>1, <2>2
    <3> QED  BY ONLY <3>3, <3>4
  <2> QED  BY <2>1, <2>2
<1>4. PICK m \in Nat : m = Min({n + l, k}) /\ m <= k /\ (m = n + l \/ m = k)
  BY <1>2 DEF Min
<1>5. PICK E : E = [i \in 1..(m - n) |-> [id |-> s[n + i], seq |-> n + i,
                      prev |-> SubSeq(s, 1, n + i - 1), hash |-> SubSeq(s, 1, n + i)]]
  OBVIOUS
<1>6. /\ p.request = q /\ p.events = E
      /\ p.next = HypCursor(SubSeq(s, 1, m)) /\ p.snapshot = HypCursor(SubSeq(s, 1, k))
  BY <1>1, <1>3, <1>4, <1>5 DEF HypPageFor
<1>7. PICK S \in Seq(HypIds) : /\ S = SubSeq(s, 1, k) /\ Len(S) = k
                               /\ \A i \in 1..k : S[i] = s[i]
  <2>1. /\ SubSeq(s, 1, k) \in Seq(HypIds) /\ Len(SubSeq(s, 1, k)) = k
        /\ \A i \in 1..k : SubSeq(s, 1, k)[i] = s[i]
    BY HypPrefix
  <2> QED  BY <2>1, Zenon
<1>8. p.snapshot = [pos |-> k, head |-> S] /\ k \in Nat /\ k <= Len(s)
  <2>1. p.snapshot = [pos |-> Len(S), head |-> S]
    BY <1>6, <1>7, Zenon DEF HypCursor
  <2>2. k \in Nat /\ k <= Len(s)
    BY <1>2
  <2> QED  BY ONLY <1>7, <2>1, <2>2
<1>9. k >= n
  BY <1>6, <1>8 DEF HypPageValid
<1>10. m >= n /\ m \in 0..Len(s) /\ m \in n..k
  BY <1>2, <1>4, <1>8, <1>9
<1>11. \A j \in 0..k : SubSeq(S, 1, j) = SubSeq(s, 1, j)
  BY <1>7, HypPrefixOfPrefix
<1>12. SubSeq(s, 1, m) \in Seq(HypIds) /\ Len(SubSeq(s, 1, m)) = m
  BY <1>10, HypPrefix
<1>13. p.next.pos = m /\ p.next = HypCursor(SubSeq(S, 1, m))
  <2>1. m \in 0..k
    BY <1>4, <1>8
  <2>2. SubSeq(S, 1, m) = SubSeq(s, 1, m)
    BY <1>11, <2>1
  <2>3. p.next = HypCursor(SubSeq(S, 1, m))
    BY <1>6, <2>2, Zenon
  <2>4. p.next.pos = Len(SubSeq(S, 1, m))
    BY ONLY <2>3 DEF HypCursor
  <2> QED  BY ONLY <1>12, <2>2, <2>3, <2>4
<1>14. E = [i \in 1..(m - n) |-> [id |-> S[n + i], seq |-> n + i,
               prev |-> SubSeq(S, 1, n + i - 1), hash |-> SubSeq(S, 1, n + i)]]
  <2>1. ASSUME NEW i \in 1..(m - n)
        PROVE  /\ S[n + i] = s[n + i] /\ SubSeq(S, 1, n + i - 1) = SubSeq(s, 1, n + i - 1)
               /\ SubSeq(S, 1, n + i) = SubSeq(s, 1, n + i)
    <3>1. n + i \in 1..k /\ n + i \in 0..k /\ n + i - 1 \in 0..k
      <4>1. k \in Nat /\ m <= k /\ m \in Nat
        BY <1>8, <1>10
      <4> QED  BY ONLY <4>1
    <3> QED  BY <1>7, <1>11, <3>1
  <2> QED  BY <1>5, <2>1, Zenon
<1>15. m > n => SubSeq(S, 1, n) = q.after.head
  <2> SUFFICES ASSUME m > n PROVE SubSeq(S, 1, n) = q.after.head
    OBVIOUS
  <2>1. 1 \in 1..(m - n) /\ n + 1 - 1 = n /\ n \in 0..k
    BY <1>9, <1>10
  <2>2. DOMAIN E = 1..(m - n) /\ E[1].prev = SubSeq(s, 1, n + 1 - 1)
    BY <1>5, <2>1
  <2>3. \A i \in DOMAIN p.events :
            p.events[i].prev = IF i = 1 THEN p.request.after.head ELSE p.events[i - 1].hash
    BY DEF HypPageValid
  <2>4. E[1].prev = q.after.head
    BY <1>6, <2>1, <2>2, <2>3
  <2> QED  BY <1>11, <2>1, <2>2, <2>4
<1>16. p.snapshot \in HypCursors /\ p.snapshot.head = S
  BY <1>8 DEF HypCursors
<1> QED
  <2>1. p.request.after.pos = n /\ p.request.after.head = q.after.head /\ p.next.pos = m
        /\ p.events = E /\ p.snapshot.head = S
    BY <1>6, <1>13, <1>16
  <2>2. p.next.pos \in n..Len(S) /\ p.next = HypCursor(SubSeq(S, 1, p.next.pos))
    BY <1>7, <1>10, <1>13
  <2> QED  BY ONLY <1>14, <1>15, <1>16, <2>1, <2>2 DEF HypIsCut

\* The window that prune_anchors leaves holds the newest anchor.
LEMMA HypPruned ==
    ASSUME NEW A, DOMAIN A \subseteq Nat, NEW k \in DOMAIN A, \A j \in DOMAIN A : j <= k
    PROVE  /\ DOMAIN HypPrune(A) \subseteq DOMAIN A /\ k \in DOMAIN HypPrune(A)
           /\ \A j \in DOMAIN HypPrune(A) : HypPrune(A)[j] = A[j]
<1>1. {m \in DOMAIN A : m > k} = {}
  OBVIOUS
<1>2. Cardinality({m \in DOMAIN A : m > k}) < HypWindow
  <2>1. Cardinality({m \in DOMAIN A : m > k}) = 0
    BY <1>1, FS_EmptySet, Zenon
  <2>2. HypWindow > 0
    BY ONLY HypAssumption
  <2> QED  BY <2>1, <2>2
<1> QED
  BY <1>2 DEF HypPrune

\* A step that leaves sender and authority alone keeps what is known of them.
LEMMA HypAppendFrame ==
    ASSUME HypAppendInvariant, UNCHANGED <<hypStream, hypServer, hypSend>>
    PROVE  HypAppendInvariant'
BY DEF HypAppendInvariant, HypAppendTypes, HypBatchFollows, HypAnswersOnce, HypLocalEvents,
       HypAppendsOnce, HypSpan

\* A page is requested, answered, validated and verified.
LEMMA HypPullKeeps == HypInvariant /\ HypPull => HypInvariant'
<1> SUFFICES ASSUME HypInvariant, HypPull PROVE HypInvariant'
  OBVIOUS
<1>1. /\ HypReplayTypes /\ HypAnchored /\ HypReplayIsTheStream /\ HypAppendInvariant
      /\ UNCHANGED <<hypStream, hypServer, hypSend, hyp, hypSink>>
      /\ \A p \in hypPages : HypIsCut(p)
  BY DEF HypInvariant, HypReplayInvariant, HypPull
<1> DEFINE Request(n, exact, l) ==
             [after |-> [pos |-> n, head |-> hyp.anchors[n].head], exact |-> exact, limit |-> l]
<1>0. PICK a \in HypAuthorities, n \in DOMAIN hyp.anchors, l \in HypLimits,
          exact \in {{}, hyp.snapshot} :
          /\ HypRequestValid(Request(n, exact, l))
          /\ \A c \in exact : c.pos <= Len(hypStream[a])
          /\ HypPageValid(HypPageFor(a, Request(n, exact, l)))
          /\ hypPages' = hypPages \cup {HypPageFor(a, Request(n, exact, l))}
  BY ZenonT(60) DEF HypPull
<1>2. PICK q, page :
          /\ q = [after |-> [pos |-> n, head |-> hyp.anchors[n].head], exact |-> exact, limit |-> l]
          /\ page = HypPageFor(a, q) /\ HypRequestValid(q)
          /\ \A c \in exact : c.pos <= Len(hypStream[a])
          /\ HypPageValid(page) /\ hypPages' = hypPages \cup {page}
  BY <1>0, Zenon
<1>3. /\ n \in Nat /\ n = q.after.pos /\ l = q.limit /\ q.exact = exact
      /\ exact \subseteq HypCursors
  BY <1>1, <1>2 DEF HypReplayTypes
<1>4. l \in Nat
  BY <1>2, <1>3 DEF HypRequestValid
<1>5. HypIsCut(page)
  BY <1>1, <1>2, <1>3, <1>4, HypPageIsCut
<1>6. \A p \in hypPages' : HypIsCut(p)
  BY <1>1, <1>2, <1>5
<1>7. \A p : HypIsCut(p)' <=> HypIsCut(p)
  BY DEF HypIsCut, HypCursors, HypCursor
<1>8. HypReplayTypes' /\ HypAnchored' /\ HypReplayIsTheStream'
  BY <1>1 DEF HypReplayTypes, HypAnchored, HypReplayIsTheStream
<1>9. HypAppendInvariant'
  BY <1>1, HypAppendFrame
<1> QED
  BY <1>6, <1>7, <1>8, <1>9 DEF HypInvariant, HypReplayInvariant

\* The events F are those of the history s from position c + 1 to m.
HypContinues(F, s, c, m) ==
    /\ DOMAIN F = 1..(m - c)
    /\ \A i \in 1..(m - c) :
          F[i].id = s[c + i] /\ F[i].seq = c + i /\ F[i].hash = SubSeq(s, 1, c + i)

\* What an applicable page brings follows what the reducer was given.
LEMMA HypFreshFollows ==
    ASSUME HypReplayTypes, HypAnchored, HypReplayIsTheStream, NEW p, HypIsCut(p),
           HypApplicable(p), NEW s \in Seq(HypIds), s = p.snapshot.head,
           NEW c \in Nat, c = hyp.cursor.pos, NEW m \in Nat, m = p.next.pos, m > c
    PROVE  /\ c <= m /\ m <= Len(s) /\ SubSeq(s, 1, c) = hypSink
           /\ HypContinues(HypFresh(p), s, c, m)
<1>1. PICK n \in Nat : n = p.request.after.pos
  BY DEF HypIsCut
<1>2. Len(s) \in Nat
  BY SMTT(60), LenProperties
<1>3. /\ m \in n..Len(s) /\ n <= c /\ n \in DOMAIN hyp.anchors
      /\ hyp.anchors[n].head = p.request.after.head
  BY <1>1 DEF HypIsCut, HypApplicable, HypPreflight
<1>0. n <= c /\ c < m /\ c <= m /\ m <= Len(s)
  BY <1>2, <1>3
<1>4. p.events = [i \in 1..(m - n) |-> [id |-> s[n + i], seq |-> n + i,
                     prev |-> SubSeq(s, 1, n + i - 1), hash |-> SubSeq(s, 1, n + i)]]
  BY <1>1 DEF HypIsCut
<1>5. m > n => SubSeq(s, 1, n) = p.request.after.head
  BY <1>1 DEF HypIsCut
<1>6. PICK E : E = p.events
  OBVIOUS
<1>7. /\ DOMAIN E = 1..(m - n)
      /\ \A i \in 1..(m - n) : /\ E[i].id = s[n + i] /\ E[i].seq = n + i
                                /\ E[i].hash = SubSeq(s, 1, n + i)
  BY ONLY <1>4, <1>6
<1>8. Len(E) = m - n
  <2>1. PICK T : \A i \in 1..(m - n) : E[i] \in T
    <3>1. \A i \in 1..(m - n) : E[i] \in {E[j] : j \in 1..(m - n)}
      OBVIOUS
    <3> QED  BY <3>1
  <2>2. E \in [1..(m - n) -> T]
    BY <1>4, <1>6, <2>1
  <2>3. m - n \in Nat
    BY <1>2, <1>3
  <2> QED  BY ONLY <2>2, <2>3, HypSequence
<1>9. hyp.cursor.head = hypSink /\ c \in DOMAIN hyp.anchors /\ hyp.anchors[c].head = hypSink
  BY DEF HypReplayIsTheStream, HypCursor, HypAnchored
<1>10. SubSeq(s, 1, c) = hypSink
  <2>1. CASE c = n
    BY <1>3, <1>5, <1>9, <2>1
  <2>2. CASE c # n
    <3>1. PICK j \in 1..(m - n) : n + j = c
      <4>1. c - n \in 1..(m - n) /\ n + (c - n) = c
        BY SMTT(60), <1>2, <1>3, <2>2
      <4> QED  BY ONLY <4>1
    <3>2. j \in HypOverlap(p)
      BY <1>1, <1>6, <1>7, <3>1 DEF HypOverlap
    <3>3. hyp.anchors[p.events[j].seq] = [head |-> p.events[j].hash, id |-> {p.events[j].id}]
      BY <3>2 DEF HypApplicable
    <3>4. hyp.anchors[c].head = E[j].hash
      BY SMTT(60), <1>6, <1>7, <3>1, <3>3
    <3> QED  BY <1>7, <1>9, <3>1, <3>4
  <2> QED  BY <2>1, <2>2
<1>11. HypFresh(p) = SubSeq(E, c - n + 1, m - n)
  BY <1>1, <1>6, <1>8 DEF HypFresh
<1>12. PICK T : \A i \in (c - n + 1)..(m - n) : E[i] \in T
  <2>1. \A i \in (c - n + 1)..(m - n) : E[i] \in {E[j] : j \in (c - n + 1)..(m - n)}
    OBVIOUS
  <2> QED  BY <2>1
<1>13. /\ HypFresh(p) \in Seq(T) /\ Len(HypFresh(p)) = m - c
       /\ \A i \in 1..(m - c) : HypFresh(p)[i] = E[c - n + i]
  <2>1. PICK lo \in Int, hi \in Int : lo = c - n + 1 /\ hi = m - n
    OBVIOUS
  <2>2. /\ SubSeq(E, lo, hi) \in Seq(T)
        /\ Len(SubSeq(E, lo, hi)) = IF lo <= hi THEN hi - lo + 1 ELSE 0
        /\ \A i \in 1..(hi - lo + 1) : SubSeq(E, lo, hi)[i] = E[lo + i - 1]
    <3>1. \A i \in lo..hi : E[i] \in T
      BY ONLY <1>12, <2>1
    <3> QED  BY ONLY <3>1, SubSeqProperties
  <2>3. lo <= hi /\ hi - lo + 1 = m - c /\ \A i \in 1..(m - c) : lo + i - 1 = c - n + i
    BY ONLY <1>0, <2>1
  <2>4. PICK F : F = SubSeq(E, lo, hi)
    OBVIOUS
  <2>5. F \in Seq(T) /\ Len(F) = m - c /\ \A i \in 1..(m - c) : F[i] = E[c - n + i]
    BY <2>2, <2>3, <2>4
  <2>6. HypFresh(p) = F
    BY <1>11, <2>1, <2>4
  <2> QED  BY ONLY <2>5, <2>6
<1>14. DOMAIN HypFresh(p) = 1..(m - c)
  BY <1>13, LenProperties
<1>15. ASSUME NEW i \in 1..(m - c)
       PROVE  /\ HypFresh(p)[i].id = s[c + i] /\ HypFresh(p)[i].seq = c + i
              /\ HypFresh(p)[i].hash = SubSeq(s, 1, c + i)
  <2>1. PICK j \in 1..(m - n) : j = c - n + i /\ n + j = c + i
    <3>1. c - n + i \in 1..(m - n) /\ n + (c - n + i) = c + i
      BY ONLY <1>0
    <3> QED  BY ONLY <3>1
  <2>2. HypFresh(p)[i] = E[j]
    BY <1>13, <2>1
  <2> QED  BY ONLY <1>7, <2>1, <2>2
<1> QED
  BY ONLY <1>0, <1>10, <1>14, <1>15 DEF HypContinues

\* The candidate that apply builds has the reducer's input as its cursor.
LEMMA HypCandidateHolds ==
    ASSUME HypReplayTypes, HypAnchored, HypReplayIsTheStream, NEW p, HypIsCut(p),
           HypApplicable(p), hypStream' = hypStream,
           hypSink' = hypSink \o [i \in DOMAIN HypFresh(p) |-> HypFresh(p)[i].id],
           hyp' = HypCandidate(p)
    PROVE  HypReplayTypes' /\ HypAnchored' /\ HypReplayIsTheStream'
<1> DEFINE F == HypFresh(p)
           ids == [i \in DOMAIN F |-> F[i].id]
           A == [n \in DOMAIN hyp.anchors \cup {F[i].seq : i \in DOMAIN F} |->
                   IF n \in DOMAIN hyp.anchors THEN hyp.anchors[n]
                   ELSE [head |-> F[n - hyp.cursor.pos].hash, id |-> {F[n - hyp.cursor.pos].id}]]
<1>1. PICK s \in Seq(HypIds) : s = p.snapshot.head
  BY DEF HypIsCut, HypCursors
<1>2. PICK c \in Nat, m \in Nat : c = hyp.cursor.pos /\ m = p.next.pos /\ m \in 0..Len(s)
  <2>1. hyp.cursor.pos \in Nat
    BY DEF HypReplayTypes, HypCursors
  <2>2. p.next.pos \in Nat /\ p.next.pos \in 0..Len(s)
    BY <1>1, LenProperties DEF HypIsCut
  <2> QED  BY ONLY <2>1, <2>2
<1>3. /\ hypSink \in Seq(HypIds) /\ DOMAIN hyp.anchors \subseteq Nat
      /\ \A n \in DOMAIN hyp.anchors : hyp.anchors[n].head \in Seq(HypIds) /\ n <= c
      /\ c \in DOMAIN hyp.anchors /\ hyp.anchors[c].head = hyp.cursor.head
      /\ hyp.cursor.head = hypSink /\ hyp.cursor.pos = Len(hypSink) /\ hyp.cursor \in HypCursors
      /\ hypStream \in [HypAuthorities -> Seq(HypIds)]
  BY <1>2 DEF HypReplayTypes, HypAnchored, HypReplayIsTheStream, HypCursor
<1>4. /\ hyp'.snapshot = {p.snapshot} /\ hyp'.anchors = HypPrune(A)
      /\ hyp'.cursor = IF m > c THEN p.next ELSE hyp.cursor
  BY <1>2 DEF HypCandidate
<1>5. hypSink' = hypSink \o ids
  OBVIOUS
<1>6. p.snapshot \in HypCursors /\ p.next = HypCursor(SubSeq(s, 1, m))
  BY <1>1, <1>2 DEF HypIsCut
<1>7. SUFFICES /\ hypSink' \in Seq(HypIds) /\ hyp'.cursor = HypCursor(hypSink')
               /\ hyp'.cursor \in HypCursors
               /\ \E k \in DOMAIN A : /\ DOMAIN A \subseteq Nat /\ \A j \in DOMAIN A : j <= k
                                      /\ k = hyp'.cursor.pos /\ A[k].head = hyp'.cursor.head
                                      /\ \A j \in DOMAIN A : A[j].head \in Seq(HypIds)
  <2> HIDE DEF A
  <2>1. PICK k \in DOMAIN A : /\ DOMAIN A \subseteq Nat /\ \A j \in DOMAIN A : j <= k
                             /\ k = hyp'.cursor.pos /\ A[k].head = hyp'.cursor.head
                             /\ \A j \in DOMAIN A : A[j].head \in Seq(HypIds)
    BY <1>7
  <2>2. /\ DOMAIN HypPrune(A) \subseteq DOMAIN A /\ k \in DOMAIN HypPrune(A)
        /\ \A j \in DOMAIN HypPrune(A) : HypPrune(A)[j] = A[j]
    BY <2>1, HypPruned
  <2>3. /\ DOMAIN hyp'.anchors \subseteq Nat /\ k \in DOMAIN hyp'.anchors
        /\ \A j \in DOMAIN hyp'.anchors : hyp'.anchors[j].head \in Seq(HypIds) /\ j <= k
        /\ hyp'.anchors[k].head = hyp'.cursor.head
    BY <1>4, <2>1, <2>2
  <2>4. HypReplayTypes'
    BY <1>3, <1>4, <1>6, <1>7, <2>3 DEF HypReplayTypes, HypCursors
  <2>5. HypAnchored'
    BY <2>1, <2>3 DEF HypAnchored
  <2>6. HypReplayIsTheStream'
    BY <1>7 DEF HypReplayIsTheStream, HypCursor
  <2> QED  BY <2>4, <2>5, <2>6
<1>8. CASE m > c
  <2>1. /\ c <= m /\ m <= Len(s) /\ SubSeq(s, 1, c) = hypSink
        /\ DOMAIN F = 1..(m - c)
        /\ \A i \in 1..(m - c) : /\ F[i].id = s[c + i] /\ F[i].seq = c + i
                                  /\ F[i].hash = SubSeq(s, 1, c + i)
    <3>0. s = p.snapshot.head /\ c = hyp.cursor.pos /\ m = p.next.pos /\ m > c
      BY <1>1, <1>2, <1>8
    <3>1. /\ c <= m /\ m <= Len(s) /\ SubSeq(s, 1, c) = hypSink
          /\ HypContinues(F, s, c, m)
      BY <3>0, HypFreshFollows
    <3> HIDE DEF F
    <3> QED  BY ONLY <3>1 DEF HypContinues
  <2> HIDE DEF F
  <2>2. Len(s) \in Nat /\ m - c \in Nat
    BY <2>1, LenProperties
  <2>3. ids \in Seq(HypIds) /\ Len(ids) = m - c /\ \A i \in 1..(m - c) : ids[i] = s[c + i]
    <3>1. ASSUME NEW i \in 1..(m - c) PROVE s[c + i] \in HypIds
      <4>1. c + i \in 1..Len(s)
        BY <2>1, <2>2
      <4> QED  BY <4>1, ElementOfSeq
    <3>2. ids \in [1..(m - c) -> HypIds] /\ \A i \in 1..(m - c) : ids[i] = s[c + i]
      BY <2>1, <3>1
    <3> HIDE DEF ids
    <3> QED  BY <2>2, <3>2, HypSequence
  <2>4. hypSink' = SubSeq(s, 1, m)
    <3> HIDE DEF ids
    <3>1. m \in c..Len(s)
      BY <2>1, <2>2
    <3>2. SubSeq(s, 1, c) \o ids = SubSeq(s, 1, m)
      BY <2>3, <3>1, HypPrefixGrows
    <3> QED  BY <1>5, <2>1, <3>2, Zenon
  <2>5. SubSeq(s, 1, m) \in Seq(HypIds) /\ Len(SubSeq(s, 1, m)) = m
    BY <1>2, HypPrefix
  <2>6. PICK t \in Seq(HypIds) : t = SubSeq(s, 1, m) /\ Len(t) = m
    BY ONLY <2>5
  <2>7. hypSink' = t /\ hyp'.cursor = [pos |-> m, head |-> t]
    BY <1>4, <1>6, <1>8, <2>6, <2>4 DEF HypCursor
  <2>8. m \in {F[i].seq : i \in DOMAIN F} /\ m \notin DOMAIN hyp.anchors
        /\ \A j \in {F[i].seq : i \in DOMAIN F} : j \in (c + 1)..m /\ j - c \in 1..(m - c)
    <3>1. m - c \in 1..(m - c) /\ c + (m - c) = m
      BY <1>8, <2>2
    <3>2. F[m - c].seq = m
      BY <2>1, <3>1
    <3>3. m \in {F[i].seq : i \in DOMAIN F}
      BY <2>1, <3>1, <3>2
    <3>4. ASSUME NEW i \in DOMAIN F PROVE F[i].seq \in (c + 1)..m /\ F[i].seq - c \in 1..(m - c)
      BY <2>1, <2>2
    <3> QED  BY <1>3, <1>8, <3>3, <3>4
  <2>9. /\ DOMAIN A = DOMAIN hyp.anchors \cup {F[i].seq : i \in DOMAIN F}
        /\ \A j \in DOMAIN hyp.anchors : A[j] = hyp.anchors[j]
        /\ \A j \in {F[i].seq : i \in DOMAIN F} : j \notin DOMAIN hyp.anchors =>
                A[j].head = F[j - c].hash
    BY <1>2
  <2> HIDE DEF A
  <2>10. /\ DOMAIN A \subseteq Nat /\ \A j \in DOMAIN A : j <= m
    <3>1. \A j \in DOMAIN hyp.anchors : j \in Nat /\ j <= m
      BY <1>3, <2>1
    <3>2. \A j \in {F[i].seq : i \in DOMAIN F} : j \in Nat /\ j <= m
      BY <2>8
    <3> QED  BY ONLY <2>9, <3>1, <3>2
  <2>11. A[m].head = t /\ m \in DOMAIN A
    <3>1. m - c \in 1..(m - c) /\ c + (m - c) = m
      BY <1>8, <2>2
    <3>2. F[m - c].hash = SubSeq(s, 1, m)
      BY <2>1, <3>1
    <3> QED  BY <2>6, <2>8, <2>9, <3>2
  <2>12. ASSUME NEW j \in DOMAIN A PROVE A[j].head \in Seq(HypIds)
    <3>1. CASE j \in DOMAIN hyp.anchors
      BY <1>3, <2>9, <3>1
    <3>2. CASE j \notin DOMAIN hyp.anchors
      <4>1. j \in {F[i].seq : i \in DOMAIN F}
        BY <2>9, <3>2
      <4>2. A[j].head = F[j - c].hash /\ j - c \in 1..(m - c) /\ j \in Nat
        BY <2>8, <2>9, <2>10, <3>2, <4>1
      <4>3. F[j - c].hash = SubSeq(s, 1, c + (j - c))
        BY <2>1, <4>2
      <4>4. c + (j - c) \in 0..Len(s)
        BY <2>1, <2>2, <4>2
      <4> QED  BY <4>2, <4>3, <4>4, HypPrefix
    <3> QED  BY <3>1, <3>2
  <2>13. HypCursor(hypSink') = [pos |-> m, head |-> t] /\ [pos |-> m, head |-> t] \in HypCursors
    BY <2>6, <2>7 DEF HypCursor, HypCursors
  <2>14. hyp'.cursor.pos = m /\ hyp'.cursor.head = t
    BY ONLY <2>7
  <2> QED  BY <2>7, <2>10, <2>11, <2>12, <2>13, <2>14
<1>9. CASE ~(m > c)
  <2>1. F = << >>
    <3>1. p.request.after.pos \in Nat /\ p.request.after.pos <= m
      BY <1>1, <1>2 DEF HypIsCut
    <3>2. PICK n \in Nat : n = p.request.after.pos /\ n <= m
      BY <3>1
    <3>3. Len(p.events) = m - n
      <4>1. PICK E : E = p.events
        BY SMTT(60)
      <4>2. DOMAIN E = 1..(m - n) /\ E = [i \in 1..(m - n) |-> E[i]]
        BY <1>1, <1>2, <3>2, <4>1 DEF HypIsCut
      <4>3. E \in [1..(m - n) -> {E[j] : j \in 1..(m - n)}] /\ m - n \in Nat
        BY ONLY <3>2, <4>2
      <4>4. PICK T : E \in [1..(m - n) -> T]
        BY <4>3
      <4> QED  BY ONLY <4>1, <4>3, <4>4, HypSequence
    <3>4. PICK lo \in Int, hi \in Int : lo = c - n + 1 /\ hi = m - n /\ hi < lo
      BY SMTT(60), <1>9
    <3>5. F = SubSeq(p.events, lo, hi)
      BY <1>2, <3>2, <3>3, <3>4 DEF HypFresh
    <3> QED  BY <3>4, <3>5, SubSeqEmpty
  <2> HIDE DEF F
  <2>2. ids = << >>
    BY <2>1
  <2>3. hypSink' = hypSink
    BY <1>3, ConcatEmptySeq, <1>5, <2>2
  <2>4. hyp'.cursor = hyp.cursor
    BY <1>4, <1>9
  <2>5. DOMAIN A = DOMAIN hyp.anchors /\ \A j \in DOMAIN hyp.anchors : A[j] = hyp.anchors[j]
    BY <2>1
  <2> HIDE DEF A
  <2>6. hyp'.cursor = HypCursor(hypSink')
    BY <2>3, <2>4 DEF HypReplayIsTheStream, HypCursor
  <2> QED  BY <1>2, <1>3, <2>3, <2>4, <2>5, <2>6
<1> QED
  BY <1>8, <1>9

\* A page is applied, found stale or refused by the reducer.
LEMMA HypApplyKeeps == HypInvariant /\ HypApply => HypInvariant'
<1> SUFFICES ASSUME HypInvariant, HypApply PROVE HypInvariant'
  OBVIOUS
<1>1. /\ HypReplayTypes /\ HypAnchored /\ HypReplayIsTheStream /\ HypAppendInvariant
      /\ UNCHANGED <<hypStream, hypServer, hypSend>>
      /\ \A p \in hypPages : HypIsCut(p)
  BY DEF HypInvariant, HypReplayInvariant, HypApply
<1>2. PICK p \in hypPages :
          /\ hypPages' = hypPages \ {p}
          /\ \/ UNCHANGED <<hyp, hypSink>>
             \/ /\ HypApplicable(p) /\ hyp' = HypCandidate(p)
                /\ hypSink' = hypSink \o [i \in DOMAIN HypFresh(p) |-> HypFresh(p)[i].id]
  BY DEF HypApply
<1>3. HypReplayTypes' /\ HypAnchored' /\ HypReplayIsTheStream'
  BY <1>1, HypCandidateHolds, <1>2 DEF HypReplayTypes, HypAnchored, HypReplayIsTheStream
<1>4. \A q \in hypPages' : HypIsCut(q)'
  BY <1>1, <1>2 DEF HypIsCut, HypCursors, HypCursor
<1>5. HypAppendInvariant'
  BY <1>1, HypAppendFrame
<1> QED
  BY <1>3, <1>4, <1>5 DEF HypInvariant, HypReplayInvariant

\* Nothing was appended, pulled or applied yet.
LEMMA HypInitKeeps == HypInit => HypInvariant
<1> SUFFICES ASSUME HypInit PROVE HypInvariant
  OBVIOUS
<1>1. << >> \in Seq(HypIds) /\ Len(<< >>) = 0 /\ Len(HypLocal) \in Nat /\ HypHome \in HypAuthorities
  BY EmptySeq, HypLocalLog, HypAssumption
<1>2. PICK c \in HypCursors : c = HypGenesis /\ c.pos = 0 /\ c.head = << >>
  <2>1. HypGenesis = [pos |-> 0, head |-> << >>]
    BY ONLY <1>1 DEF HypGenesis, HypCursor
  <2>2. HypGenesis \in HypCursors
    BY ONLY <1>1, <2>1 DEF HypCursors
  <2> QED  BY ONLY <2>1, <2>2
<1>3. PICK A : A = [n \in {0} |-> [head |-> << >>, id |-> {}]]
  OBVIOUS
<1>4. DOMAIN A = {0} /\ A[0].head = << >>
  BY ONLY <1>3
<1>5. hyp.cursor = c /\ hyp.snapshot = {} /\ hyp.anchors = A
  BY <1>2, <1>3 DEF HypInit
<1>6. HypReplayInvariant
  <2>1. HypReplayTypes
    <3>1. hypStream \in [HypAuthorities -> Seq(HypIds)] /\ hypSink \in Seq(HypIds)
      BY <1>1 DEF HypInit
    <3>2. hyp.cursor \in HypCursors /\ hyp.snapshot \subseteq HypCursors
      BY <1>5
    <3>3. /\ DOMAIN hyp.anchors \subseteq Nat
          /\ \A n \in DOMAIN hyp.anchors : hyp.anchors[n].head \in Seq(HypIds)
      <4>1. DOMAIN hyp.anchors = {0} /\ {0} \subseteq Nat
        BY <1>4, <1>5
      <4>2. hyp.anchors[0].head = << >>
        BY <1>4, <1>5, Zenon
      <4> QED  BY <1>1, <4>1, <4>2, Zenon
    <3> QED  BY ONLY <3>1, <3>2, <3>3 DEF HypReplayTypes
  <2>2. HypAnchored
    BY <1>2, <1>4, <1>5 DEF HypAnchored
  <2>3. HypReplayIsTheStream
    BY <1>2, <1>5 DEF HypInit, HypReplayIsTheStream, HypGenesis
  <2> QED  BY <2>1, <2>2, <2>3 DEF HypInit, HypReplayInvariant
<1>7. hypStream[HypHome] = << >>
  BY <1>1 DEF HypInit
<1>8. \A x : ~Contains(<< >>, x)
  BY <1>1 DEF Contains
<1>9. IsInjective(<< >>)
  BY DEF IsInjective
<1>10. /\ hypSend.done = 0 /\ hypSend.built = 0 /\ hypSend.batch = {} /\ hypServer.wire = {}
       /\ hypServer.answers = {} /\ hypServer.rewound = FALSE
  BY DEF HypInit
<1>11. HypAppendTypes
  BY <1>1 DEF HypInit, HypAppendTypes
<1>12. HypBatchFollows /\ HypAnswersOnce /\ HypLocalEvents /\ HypAppendsOnce
  BY <1>1, <1>7, <1>8, <1>9, <1>10 DEF HypBatchFollows, HypAnswersOnce, HypLocalEvents, HypAppendsOnce
<1> QED
  BY <1>6, <1>11, <1>12 DEF HypInvariant, HypAppendInvariant

\* Every step of client, authorities and network keeps the invariant.
LEMMA HypNextKeeps == HypInvariant /\ [HypNext]_hypVars => HypInvariant'
<1> SUFFICES ASSUME HypInvariant, [HypNext]_hypVars PROVE HypInvariant'
  OBVIOUS
<1>1. CASE UNCHANGED hypVars
  BY <1>1, HypReplayFrame, HypAppendFrame DEF hypVars, HypInvariant, HypReplayInvariant,
     HypReplayTypes
<1> QED
  BY <1>1, HypSubmitKeeps, HypSendKeeps, HypAuthorityKeeps, HypAnsweredKeeps, HypOthersKeep,
     HypRewindKeeps, HypPullKeeps, HypApplyKeeps DEF HypNext

\* Whatever the network loses, repeats or delays, whatever pages are in hand
\* and whichever authority forks, the reducer was given exactly what the replay
\* cursor's hash commits to, and a batch retried any number of times is in the
\* authority's stream once (VerifiedPullPage::apply, append_with_retry).
THEOREM ReplayIsTheStream == HypSpec => []HypGuarantees
<1>1. HypInvariant => HypGuarantees
  BY DEF HypInvariant, HypReplayInvariant, HypAppendInvariant, HypGuarantees
<1> QED
  BY HypInitKeeps, HypNextKeeps, <1>1, PTL DEF HypSpec

-----------------------------------------------------------------------------
(* The event catalog: building and sealing.                                *)

\* A nonempty set of natural numbers has a least element.
LEMMA HistoryLeastNatural ==
    ASSUME NEW T, T \subseteq Nat, T # {}
    PROVE  \E x \in T : \A y \in T : x <= y
<1> DEFINE Less == OpToRel(<, Nat)
<1>1. PICK x \in T : \A y \in T : <<y, x>> \notin Less
  BY NatLessThanWellFounded, WFMin
<1>2. ASSUME NEW y \in T PROVE x <= y
  <2>1. x \in Nat /\ y \in Nat /\ <<y, x>> \notin Less
    BY <1>1
  <2>2. y < x => <<y, x>> \in Less
    BY <2>1 DEF OpToRel
  <2> HIDE DEF Less
  <2> QED
    BY <2>1, <2>2
<1> QED
  BY <1>2

\* register_schema keeps the type of a kind.
LEMMA CatAddSchema ==
    ASSUME NEW kind \in CatKinds, NEW v \in Versions, NEW id \in SchemaIds
    PROVE  AddSchema(kind, v, id) \in CatKinds
  BY DEF CatKinds, With, AddSchema

\* A kind the builder has not seen is empty.
LEMMA CatKindOf ==
    ASSUME CatTypes, NEW k
    PROVE  KindOf(k) \in CatKinds
<1>1. << >> \in [{} -> SchemaIds] /\ {} \in SUBSET Versions
  OBVIOUS
<1>2. << >> \in UNION {[D -> SchemaIds] : D \in SUBSET Versions}
  BY <1>1
<1>3. 0 \in 0..MaxVersion
  BY CatalogAssumption
<1>4. EmptyKind \in CatKinds
  BY <1>2, <1>3 DEF EmptyKind, CatKinds
<1> QED
  BY <1>4 DEF KindOf, CatTypes

\* The decoding state is what it was.
LEMMA CatBuilding ==
    ASSUME CatInvariant, sealed = "building", sealed' = "building",
           UNCHANGED <<job, observed, returned>>,
           NEW k, NEW kind \in CatKinds, kinds' = With(kinds, k, kind)
    PROVE  CatInvariant'
<1>1. CatTypes /\ CatDecodesAreKnown /\ CatReturnedIsRemembered /\ ObservationsBounded
  BY DEF CatInvariant
<1>2. \A x \in DOMAIN kinds' : kinds'[x] \in CatKinds
  <2> TAKE x \in DOMAIN kinds'
  <2>1. DOMAIN kinds' = DOMAIN kinds \cup {k} /\ kinds'[k] = kind
    BY DEF With
  <2>2. x # k => x \in DOMAIN kinds /\ kinds'[x] = kinds[x]
    BY <2>1 DEF With
  <2> QED  BY <1>1, <2>1, <2>2 DEF CatTypes
<1>3. CatTypes'
  BY <1>1, <1>2 DEF CatTypes
<1>4. CatDecodesAreKnown'
  BY <1>1 DEF CatDecodesAreKnown
<1> QED
  BY <1>1, <1>3, <1>4 DEF CatInvariant, CatReturnedIsRemembered, ObservationsBounded

LEMMA CatRegisterKeeps ==
    ASSUME CatInvariant, NEW k, NEW v \in Versions, NEW from \in SchemaIds, NEW to \in SchemaIds,
           RegisterCurrent(k, v, from) \/ RegisterUpcaster(k, v, from, to)
    PROVE  CatInvariant'
<1>1. /\ sealed = "building" /\ sealed' = "building" /\ UNCHANGED <<job, observed, returned>>
  BY DEF RegisterCurrent, RegisterUpcaster
<1>2. PICK one \in CatKinds : one = AddSchema(KindOf(k), v, from)
  BY CatKindOf, CatAddSchema DEF CatInvariant
<1>3. one \in [schemas : UNION {[D -> SchemaIds] : D \in SUBSET Versions},
               current : 0..MaxVersion, upcasters : SUBSET Versions]
  BY DEF CatKinds
<1>4. v \in 0..MaxVersion
  BY CatalogAssumption DEF Versions
<1>5. CASE RegisterCurrent(k, v, from)
  BY <1>3, <1>4, <1>2, <1>5, <1>1, CatBuilding DEF CatKinds, RegisterCurrent
<1>6. CASE RegisterUpcaster(k, v, from, to)
  <2>1. v + 1 \in Versions
    BY <1>6 DEF RegisterUpcaster
  <2>2. PICK both \in CatKinds : both = AddSchema(one, v + 1, to)
    BY <2>1, CatAddSchema
  <2>3. PICK more \in CatKinds : more = [both EXCEPT !.upcasters = @ \cup {v}]
    BY DEF CatKinds
  <2>4. \/ kinds' = With(kinds, k, one) \/ kinds' = With(kinds, k, both)
        \/ kinds' = With(kinds, k, more)
    BY <1>2, <1>6, <2>2, <2>3, Zenon DEF RegisterUpcaster
  <2> QED  BY <1>1, <2>4, CatBuilding
<1> QED
  BY <1>5, <1>6

\* What seal admits has no gap: every version between one it supports and the
\* current one is supported.
LEMMA CatNoGap ==
    ASSUME NEW kind \in CatKinds, WellFormed(kind), NEW v \in DOMAIN kind.schemas,
           NEW w \in Nat, v <= w, w <= kind.current
    PROVE  w \in DOMAIN kind.schemas
<1>1. kind.current \in Nat /\ kind.current \in DOMAIN kind.schemas
  BY CatalogAssumption DEF CatKinds, WellFormed
<1>2. DOMAIN kind.schemas \subseteq Nat
  <2>1. PICK D \in SUBSET Versions : kind.schemas \in [D -> SchemaIds]
    BY DEF CatKinds
  <2>2. DOMAIN kind.schemas = D
    BY <2>1
  <2>3. \A x \in Versions : x \in Nat
    BY CatalogAssumption DEF Versions
  <2> QED  BY <2>2, <2>3
<1>3. PICK c \in Nat, S \in SUBSET Nat :
          c = kind.current /\ S = DOMAIN kind.schemas
  BY <1>1, <1>2
<1>4. \A x \in S : v < x => x - 1 \in S
  BY <1>3 DEF WellFormed
<1>5. SUFFICES ASSUME w \notin S PROVE FALSE
  BY <1>3
<1> DEFINE Gaps == {d \in Nat : d <= c - v /\ c - d \notin S}
<1>6. v \in Nat /\ v <= w /\ w <= c /\ c \in S /\ v \in S
  BY <1>1, <1>2, <1>3
<1>7. c - w \in Gaps
  BY <1>6, <1>5
<1>8. PICK d \in Gaps : \A e \in Gaps : d <= e
  BY <1>7, HistoryLeastNatural
<1>9. d \in Nat /\ d <= c - v /\ c - d \notin S
  BY <1>8
<1>10. d # 0
  <2>1. d = 0 => c - d = c
    BY <1>9
  <2> QED  BY <1>6, <1>9, <2>1
<1>11. d - 1 \in Nat /\ d - 1 <= c - v /\ d - 1 < d
  BY <1>6, <1>9, <1>10
<1>12. c - (d - 1) \in S
  <2>1. d - 1 \notin Gaps
    BY <1>8, <1>9, <1>11
  <2> QED  BY <1>11, <2>1
<1>13. v < c - (d - 1) /\ c - (d - 1) - 1 = c - d
  BY <1>6, <1>9, <1>10
<1>14. c - d \in S
  <2>1. c - (d - 1) - 1 \in S
    BY <1>4, <1>12, <1>13
  <2> QED  BY <1>13, <2>1
<1> QED
  BY <1>9, <1>14

-----------------------------------------------------------------------------
(* The event catalog: decoding.                                            *)

\* The checks of seal.
LEMMA CatSealKeeps == CatInvariant /\ Seal => CatInvariant'
<1> SUFFICES ASSUME CatInvariant, Seal PROVE CatInvariant'
  OBVIOUS
<1>1. /\ CatTypes /\ CatDecodesAreKnown /\ CatReturnedIsRemembered /\ ObservationsBounded
      /\ UNCHANGED <<kinds, job, observed, returned>> /\ sealed = "building"
  BY DEF CatInvariant, Seal
<1>2. sealed' = "sealed" => \A k \in DOMAIN kinds : WellFormed(kinds[k])
  BY DEF Seal
<1>3. CatDecodesAreKnown'
  BY <1>1, <1>2 DEF CatDecodesAreKnown, WellFormed
<1>4. CatTypes'
  BY <1>1 DEF CatTypes
<1>5. CatReturnedIsRemembered'
  BY <1>1 DEF CatReturnedIsRemembered
<1>6. ObservationsBounded'
  BY <1>1 DEF ObservationsBounded
<1> QED
  BY <1>3, <1>4, <1>5, <1>6 DEF CatInvariant

\* A step of a thread that ends its decode or begins one.
LEMMA CatJobKeeps ==
    ASSUME CatInvariant, NEW t \in Threads, UNCHANGED <<kinds, sealed>>, CatReturnedIsRemembered',
           ObservationsBounded',
           observed' \in [Transforms -> Seq(CatObservations)],
           returned' \in [Transforms -> SUBSET (Payloads \X Payloads)],
           NEW j, job' = [job EXCEPT ![t] = j],
           \/ j \in CatEnded
           \/ /\ j \in CatRunning /\ sealed = "sealed" /\ j.kind \in DOMAIN kinds
              /\ j.version \in DOMAIN kinds[j.kind].schemas
    PROVE  CatInvariant'
<1>1. CatTypes /\ CatDecodesAreKnown
  BY DEF CatInvariant
<1>2. /\ job' \in [Threads -> {Idle} \cup CatRunning \cup CatEnded] /\ job'[t] = j
      /\ \A u \in Threads \ {t} : job'[u] = job[u]
  BY <1>1 DEF CatTypes
<1>3. CatTypes'
  BY <1>1, <1>2 DEF CatTypes
<1>4. j.at = "running" => /\ sealed = "sealed" /\ j.kind \in DOMAIN kinds
                          /\ j.version \in DOMAIN kinds[j.kind].schemas
  BY DEF CatEnded
<1>5. CatDecodesAreKnown'
  BY <1>2, <1>4, <1>1 DEF CatDecodesAreKnown, WellFormed
<1> QED
  BY <1>3, <1>5 DEF CatInvariant

\* The entry of decode.
LEMMA CatStartKeeps ==
    ASSUME CatInvariant, NEW t \in Threads, NEW k \in Kinds, NEW v \in Versions,
           NEW payload \in Payloads, StartDecode(t, k, v, payload)
    PROVE  CatInvariant'
<1>1. /\ UNCHANGED <<kinds, sealed, observed, returned>> /\ sealed = "sealed"
      /\ CatTypes /\ CatReturnedIsRemembered /\ ObservationsBounded
  BY DEF CatInvariant, StartDecode
<1>2. CatReturnedIsRemembered' /\ ObservationsBounded'
      /\ observed' \in [Transforms -> Seq(CatObservations)]
      /\ returned' \in [Transforms -> SUBSET (Payloads \X Payloads)]
  BY <1>1 DEF CatTypes, CatReturnedIsRemembered, ObservationsBounded
<1>3. CASE k \in DOMAIN kinds /\ v \in DOMAIN kinds[k].schemas /\ v <= kinds[k].current
  BY <1>3, <1>1, <1>2, CatJobKeeps DEF CatRunning, StartDecode
<1>4. CASE ~(k \in DOMAIN kinds /\ v \in DOMAIN kinds[k].schemas /\ v <= kinds[k].current)
  BY <1>4, <1>1, <1>2, CatJobKeeps DEF CatEnded, Done, StartDecode
<1> QED
  BY <1>3, <1>4

\* A decode that runs below the current version has an upcaster.
LEMMA CatNeverLacks ==
    ASSUME CatInvariant, NEW t \in Threads, job[t].at = "running"
    PROVE  /\ ~Lacks(t) /\ job[t] \in CatRunning
           /\ job[t].kind \in DOMAIN kinds /\ kinds[job[t].kind] \in CatKinds
           /\ WellFormed(kinds[job[t].kind]) /\ sealed = "sealed"
           /\ job[t].version \in DOMAIN kinds[job[t].kind].schemas
<1>1. job[t] \in CatRunning
  BY DEF CatInvariant, CatTypes, Idle, CatEnded
<1>2. /\ job[t].kind \in DOMAIN kinds /\ kinds[job[t].kind] \in CatKinds
      /\ WellFormed(kinds[job[t].kind]) /\ sealed = "sealed"
      /\ job[t].version \in DOMAIN kinds[job[t].kind].schemas
  BY DEF CatInvariant, CatTypes, CatDecodesAreKnown
<1> QED
  BY <1>1, <1>2 DEF Lacks, WellFormed

\* A decode fails.
LEMMA CatRefuseKeeps ==
    ASSUME CatInvariant, NEW t \in Threads, Refuse(t)
    PROVE  CatInvariant'
<1>1. /\ UNCHANGED <<kinds, sealed, observed, returned>> /\ job[t].at = "running"
      /\ CatTypes /\ CatReturnedIsRemembered /\ ObservationsBounded
  BY DEF CatInvariant, Refuse
<1>2. CatReturnedIsRemembered' /\ ObservationsBounded'
      /\ observed' \in [Transforms -> Seq(CatObservations)]
      /\ returned' \in [Transforms -> SUBSET (Payloads \X Payloads)]
  BY <1>1 DEF CatTypes, CatReturnedIsRemembered, ObservationsBounded
<1>3. ~Lacks(t)
  BY <1>1, CatNeverLacks
<1>4. PICK why \in {"Failed", "Nondeterministic"} : job' = [job EXCEPT ![t] = Done(why)]
  BY <1>3 DEF Refuse
<1>5. PICK j \in CatEnded : j = Done(why)
  BY DEF CatEnded, Done
<1> QED
  BY <1>1, <1>2, <1>4, <1>5, CatJobKeeps

\* accepts: what was returned for a remembered input is what is remembered.
LEMMA CatAcceptsKeeps ==
    ASSUME CatInvariant, NEW f \in Transforms, NEW in \in Payloads, NEW out \in Payloads,
           Accepts(f, in, out)
    PROVE  /\ CatReturnedIsRemembered' /\ ObservationsBounded'
           /\ observed' \in [Transforms -> Seq(CatObservations)]
           /\ returned' \in [Transforms -> SUBSET (Payloads \X Payloads)]
<1>1. CatTypes /\ CatReturnedIsRemembered /\ ObservationsBounded
  BY DEF CatInvariant
<1>2. PICK o \in Seq(CatObservations), R \in SUBSET (Payloads \X Payloads) :
          o = observed[f] /\ R = returned[f]
  BY <1>1 DEF CatTypes
<1>3. Len(o) \in Nat /\ Len(o) <= MaxObservations /\ MaxObservations \in Nat \ {0}
  BY <1>1, <1>2, LenProperties, CatalogAssumption DEF ObservationsBounded
<1>4. /\ \A i, j \in 1..Len(o) : o[i].in = o[j].in => i = j
      /\ \A r \in R : \E i \in 1..Len(o) : o[i].in = r[1] /\ o[i].out = r[2]
  BY <1>1, <1>2 DEF ObservationsBounded, CatReturnedIsRemembered
<1>5. SUFFICES \E p \in Seq(CatObservations), Q \in SUBSET (Payloads \X Payloads) :
          /\ observed' = [observed EXCEPT ![f] = p] /\ returned' = [returned EXCEPT ![f] = Q]
          /\ Len(p) <= MaxObservations
          /\ \A i, j \in 1..Len(p) : p[i].in = p[j].in => i = j
          /\ \A r \in Q : \E i \in 1..Len(p) : p[i].in = r[1] /\ p[i].out = r[2]
  <2>1. PICK p \in Seq(CatObservations), Q \in SUBSET (Payloads \X Payloads) :
          /\ observed' = [observed EXCEPT ![f] = p] /\ returned' = [returned EXCEPT ![f] = Q]
          /\ Len(p) <= MaxObservations
          /\ \A i, j \in 1..Len(p) : p[i].in = p[j].in => i = j
          /\ \A r \in Q : \E i \in 1..Len(p) : p[i].in = r[1] /\ p[i].out = r[2]
    BY <1>5
  <2>2. /\ observed' \in [Transforms -> Seq(CatObservations)] /\ observed'[f] = p
        /\ \A g \in Transforms \ {f} : observed'[g] = observed[g]
        /\ returned' \in [Transforms -> SUBSET (Payloads \X Payloads)] /\ returned'[f] = Q
        /\ \A g \in Transforms \ {f} : returned'[g] = returned[g]
    BY <1>1, <2>1 DEF CatTypes
  <2>3. ASSUME NEW g \in Transforms
        PROVE  /\ \A r \in returned'[g] : \E i \in 1..Len(observed'[g]) :
                      observed'[g][i].in = r[1] /\ observed'[g][i].out = r[2]
               /\ Len(observed'[g]) <= MaxObservations
               /\ \A i, j \in 1..Len(observed'[g]) : observed'[g][i].in = observed'[g][j].in => i = j
    BY <2>2, <2>1, <1>1 DEF CatReturnedIsRemembered, ObservationsBounded
  <2> QED  BY <2>2, <2>3 DEF CatReturnedIsRemembered, ObservationsBounded
<1>6. CASE Remembered(f, in) # {}
  <2>1. PICK k \in 1..Len(o) : o[k].in = in /\ o[k].out = out
    BY <1>2, <1>6 DEF Accepts, Remembered
  <2>2. PICK Q \in SUBSET (Payloads \X Payloads) : Q = R \cup {<<in, out>>}
    <3>1. <<in, out>> \in Payloads \X Payloads
      OBVIOUS
    <3> QED  BY <3>1
  <2>3. observed' = [observed EXCEPT ![f] = o]
    BY <1>1, <1>2, <1>6 DEF Accepts, CatTypes
  <2>4. returned' = [returned EXCEPT ![f] = Q]
    BY <1>2, <1>6, <2>2 DEF Accepts
  <2>5. \A r \in Q : \E i \in 1..Len(o) : o[i].in = r[1] /\ o[i].out = r[2]
    BY <1>4, <2>1, <2>2
  <2> QED  BY <1>3, <1>4, <2>3, <2>4, <2>5
<1>7. CASE Remembered(f, in) = {} /\ Len(o) # MaxObservations
  <2>1. \A i \in 1..Len(o) : o[i].in # in
    BY <1>2, <1>7 DEF Remembered
  <2>2. PICK e \in CatObservations : e = [in |-> in, out |-> out]
    BY DEF CatObservations
  <2>3. PICK p \in Seq(CatObservations) :
            /\ p = Append(o, e) /\ Len(p) = Len(o) + 1 /\ p[Len(o) + 1] = e
            /\ \A i \in 1..Len(o) : p[i] = o[i]
    <3>1. /\ Append(o, e) \in Seq(CatObservations) /\ Len(Append(o, e)) = Len(o) + 1
          /\ Append(o, e)[Len(o) + 1] = e /\ \A i \in 1..Len(o) : Append(o, e)[i] = o[i]
      BY AppendProperties
    <3> QED  BY <3>1, Zenon
  <2>4. PICK Q \in SUBSET (Payloads \X Payloads) : Q = {r \in R : r[1] \notin {}} \cup {<<in, out>>}
    <3>1. <<in, out>> \in Payloads \X Payloads
      OBVIOUS
    <3> QED  BY <3>1
  <2>5. observed' = [observed EXCEPT ![f] = p]
    BY <1>2, <1>7, <2>2, <2>3 DEF Accepts
  <2>6. returned' = [returned EXCEPT ![f] = Q]
    BY <1>2, <1>7, <2>4 DEF Accepts
  <2>7. e.in = in /\ e.out = out
    BY <2>2
  <2>8. \A i, j \in 1..Len(p) : p[i].in = p[j].in => i = j
    BY <1>3, <2>3, <1>4, <2>1, <2>7
  <2>9. \A r \in Q : \E i \in 1..Len(p) : p[i].in = r[1] /\ p[i].out = r[2]
    <3>1. Len(o) + 1 \in 1..Len(p) /\ \A i \in 1..Len(o) : i \in 1..Len(p)
      BY <1>3, <2>3
    <3>2. \A r \in Q : r \in R \/ r = <<in, out>>
      BY <2>4
    <3> QED  BY <1>4, <2>3, <2>7, <3>1, <3>2
  <2>10. Len(p) <= MaxObservations
    BY <1>3, <1>7, <2>3
  <2> QED  BY <2>5, <2>6, <2>8, <2>9, <2>10, Zenon
<1>8. CASE Remembered(f, in) = {} /\ Len(o) = MaxObservations
  <2>1. \A i \in 1..Len(o) : o[i].in # in
    BY <1>2, <1>8 DEF Remembered
  <2>2. PICK e \in CatObservations : e = [in |-> in, out |-> out]
    BY DEF CatObservations
  <2>0. o # << >> /\ 1 \in 1..Len(o)
    BY <1>3, <1>8, EmptySeq
  <2>3. PICK u \in Seq(CatObservations) :
            u = Tail(o) /\ Len(u) = Len(o) - 1 /\ \A i \in 1..Len(u) : u[i] = o[i + 1]
    BY <2>0, HeadTailProperties
  <2>4. PICK p \in Seq(CatObservations) :
            /\ p = Append(u, e) /\ Len(p) = Len(u) + 1 /\ p[Len(u) + 1] = e
            /\ \A i \in 1..Len(u) : p[i] = u[i]
    <3>1. /\ Append(u, e) \in Seq(CatObservations) /\ Len(Append(u, e)) = Len(u) + 1
          /\ Append(u, e)[Len(u) + 1] = e /\ \A i \in 1..Len(u) : Append(u, e)[i] = u[i]
      BY AppendProperties
    <3> QED  BY <3>1, Zenon
  <2>5. PICK Q \in SUBSET (Payloads \X Payloads) :
            Q = {r \in R : r[1] \notin {o[1].in}} \cup {<<in, out>>}
    <3>1. <<in, out>> \in Payloads \X Payloads
      OBVIOUS
    <3> QED  BY <3>1
  <2>6. observed' = [observed EXCEPT ![f] = p]
    BY <1>2, <1>8, <2>2, <2>3, <2>4 DEF Accepts
  <2>7. returned' = [returned EXCEPT ![f] = Q]
    BY <1>2, <1>8, <2>5 DEF Accepts
  <2>8. e.in = in /\ e.out = out
    BY SMTT(60), <2>2
  <2>9. \A i \in 1..Len(p) : \/ i + 1 \in 1..Len(o) /\ p[i] = o[i + 1]
                             \/ i = Len(o) /\ p[i] = e
    <3> TAKE i \in 1..Len(p)
    <3>1. Len(p) = Len(o) /\ Len(u) + 1 = Len(o) /\ Len(u) \in Nat
      BY <1>3, <2>0, <2>3, <2>4
    <3>2. i \in 1..Len(u) \/ i = Len(u) + 1
      BY <3>1
    <3>3. i \in 1..Len(u) => i + 1 \in 1..Len(o)
      BY <3>1
    <3> QED  BY <2>3, <2>4, <3>1, <3>2, <3>3
  <2>10. \A i \in 1..Len(o) : i # 1 => i - 1 \in 1..Len(p) /\ p[i - 1] = o[i]
    BY <1>3, <2>3, <2>4
  <2>11. \A i, j \in 1..Len(p) : p[i].in = p[j].in => i = j
    <3> TAKE i, j \in 1..Len(p)
    <3>1. i \in Nat /\ j \in Nat
      OBVIOUS
    <3>2. CASE i + 1 \in 1..Len(o) /\ p[i] = o[i + 1] /\ j + 1 \in 1..Len(o) /\ p[j] = o[j + 1]
      BY <1>4, <3>2, <3>1
    <3>3. CASE i = Len(o) /\ p[i] = e /\ j = Len(o) /\ p[j] = e
      BY <3>3
    <3>4. CASE i + 1 \in 1..Len(o) /\ p[i] = o[i + 1] /\ p[j] = e
      BY <2>1, <2>8, <3>4
    <3>5. CASE j + 1 \in 1..Len(o) /\ p[j] = o[j + 1] /\ p[i] = e
      BY <2>1, <2>8, <3>5
    <3> QED  BY <2>9, <3>2, <3>3, <3>4, <3>5
  <2>12. \A r \in Q : \E i \in 1..Len(p) : p[i].in = r[1] /\ p[i].out = r[2]
    <3> TAKE r \in Q
    <3>1. CASE r = <<in, out>>
      <4>1. Len(u) + 1 \in 1..Len(p)
        BY <1>3, <2>3, <2>4
      <4> QED  BY <2>4, <2>8, <3>1, <4>1
    <3>2. CASE r \in R /\ r[1] # o[1].in
      <4>1. PICK i \in 1..Len(o) : o[i].in = r[1] /\ o[i].out = r[2]
        BY <1>4, <3>2
      <4> QED  BY <2>10, <3>2, <4>1
    <3> QED  BY <2>5, <3>1, <3>2
  <2>13. Len(p) <= MaxObservations
    BY <1>3, <1>8, <2>3, <2>4
  <2> QED  BY <2>6, <2>7, <2>11, <2>12, <2>13
<1> QED
  BY <1>6, <1>7, <1>8

\* One transform of the decode loop.
LEMMA CatApplyKeeps ==
    ASSUME CatInvariant, NEW t \in Threads, NEW out \in Payloads, ApplyTransform(t, out)
    PROVE  CatInvariant'
<1>1. /\ UNCHANGED <<kinds, sealed>> /\ job[t].at = "running"
      /\ Accepts(<<job[t].kind, job[t].version>>, job[t].payload, out) /\ Advance(t, out)
  BY DEF ApplyTransform
<1>2. PICK q \in CatRunning : q = job[t]
  BY <1>1, CatNeverLacks
<1>3. /\ q.kind \in DOMAIN kinds /\ kinds[q.kind] \in CatKinds /\ sealed = "sealed"
      /\ WellFormed(kinds[q.kind]) /\ q.version \in DOMAIN kinds[q.kind].schemas
  BY <1>1, <1>2, CatNeverLacks
<1>4. q.kind \in Kinds /\ q.version \in Versions /\ q.payload \in Payloads
  BY DEF CatRunning
<1>5. /\ CatReturnedIsRemembered' /\ ObservationsBounded'
      /\ observed' \in [Transforms -> Seq(CatObservations)]
      /\ returned' \in [Transforms -> SUBSET (Payloads \X Payloads)]
  BY <1>4, <1>1, <1>2, CatAcceptsKeeps DEF Transforms
<1>6. CASE q.version < kinds[q.kind].current
  <2>1. /\ q.version + 1 \in Nat /\ q.version \in Nat /\ kinds[q.kind].current \in Nat
        /\ kinds[q.kind].current <= MaxVersion /\ MaxVersion \in Nat
    BY <1>3, <1>4, CatalogAssumption DEF Versions, CatKinds
  <2>2. q.version + 1 \in DOMAIN kinds[q.kind].schemas
    BY <1>6, <2>1, <1>3, CatNoGap
  <2>3. q.version + 1 \in Versions
    BY <1>6, <2>1 DEF Versions
  <2>4. PICK j \in CatRunning : /\ j = [q EXCEPT !.version = q.version + 1, !.payload = out]
                                /\ j.kind = q.kind /\ j.version = q.version + 1
    <3>1. q \in [at : {"running"}, kind : Kinds, version : Versions, payload : Payloads]
      BY DEF CatRunning
    <3>2. PICK v \in Versions : v = q.version + 1
      BY <2>3
    <3>3. /\ [q EXCEPT !.version = v, !.payload = out] \in CatRunning
          /\ [q EXCEPT !.version = v, !.payload = out].kind = q.kind
          /\ [q EXCEPT !.version = v, !.payload = out].version = v
      BY ONLY <3>1, out \in Payloads, v \in Versions DEF CatRunning
    <3> QED  BY <3>2, <3>3
  <2>5. job' = [job EXCEPT ![t] = j]
    BY <1>1, <1>2, <1>6, <2>4 DEF Advance
  <2> QED  BY <1>1, <1>3, <1>5, <2>2, <2>4, <2>5, CatJobKeeps
<1>7. CASE ~(q.version < kinds[q.kind].current)
  BY <1>1, <1>2, <1>7, <1>5, CatJobKeeps DEF CatEnded, Done, Advance
<1> QED
  BY <1>6, <1>7

\* Nothing is registered, decoded or remembered at first.
LEMMA CatInitKeeps == CatInit => CatInvariant
<1> SUFFICES ASSUME CatInit PROVE CatInvariant
  OBVIOUS
<1>1. << >> \in Seq(CatObservations) /\ Len(<< >>) = 0
  BY EmptySeq
<1>2. DOMAIN kinds = {} /\ sealed = "building"
  BY DEF CatInit
<1>3. CatTypes
  BY <1>1, <1>2 DEF CatInit, CatTypes
<1>4. \A t \in Threads : job[t].at = "idle"
  BY DEF CatInit, Idle
<1>5. CatDecodesAreKnown
  BY <1>2, <1>4 DEF CatDecodesAreKnown
<1>6. CatReturnedIsRemembered
  BY DEF CatInit, CatReturnedIsRemembered
<1>7. ObservationsBounded
  BY <1>1, CatalogAssumption DEF CatInit, ObservationsBounded
<1> QED
  BY <1>3, <1>5, <1>6, <1>7 DEF CatInvariant

\* Every step of the builder and of the threads keeps the invariant.
LEMMA CatNextKeeps == CatInvariant /\ [CatNext]_catVars => CatInvariant'
<1> SUFFICES ASSUME CatInvariant, [CatNext]_catVars PROVE CatInvariant'
  OBVIOUS
<1>1. CASE UNCHANGED catVars
  BY <1>1 DEF catVars, CatInvariant, CatTypes, CatDecodesAreKnown, WellFormed,
        CatReturnedIsRemembered, ObservationsBounded
<1>2. CASE CatNext
  BY <1>2, CatRegisterKeeps, CatSealKeeps, CatStartKeeps, CatRefuseKeeps, CatApplyKeeps DEF CatNext
<1> QED
  BY <1>1, <1>2

\* The invariant gives what the catalog promises.
LEMMA CatInvariantSuffices == CatInvariant => CatalogGuarantees
<1> SUFFICES ASSUME CatInvariant PROVE CatalogGuarantees
  OBVIOUS
<1>1. CatTypes /\ CatDecodesAreKnown /\ CatReturnedIsRemembered /\ ObservationsBounded
  BY DEF CatInvariant
<1>2. ASSUME sealed = "sealed", NEW k \in DOMAIN kinds, NEW v \in DOMAIN kinds[k].schemas
      PROVE  v..(kinds[k].current - 1) \subseteq kinds[k].upcasters /\ v <= kinds[k].current
  <2>1. kinds[k] \in CatKinds /\ WellFormed(kinds[k])
    BY <1>1, <1>2 DEF CatTypes, CatDecodesAreKnown
  <2>2. v \in Nat /\ kinds[k].current \in Nat
    BY <2>1, CatalogAssumption DEF CatKinds, Versions
  <2>3. ASSUME NEW w \in v..(kinds[k].current - 1) PROVE w \in kinds[k].upcasters
    BY <2>2, <2>1, CatNoGap DEF WellFormed
  <2> QED  BY <2>1, <2>3 DEF WellFormed
<1>3. \A t \in Threads : job[t].at = "done" => job[t].outcome # "MissingUpcaster"
  BY <1>1 DEF CatTypes, Idle, CatRunning, CatEnded
<1>4. RememberedResultsAgree
  BY <1>1 DEF CatReturnedIsRemembered, ObservationsBounded, RememberedResultsAgree
<1> QED
  BY <1>1, <1>2, <1>3, <1>4 DEF CatalogGuarantees, AdmittedVersionsReachCurrent

\* However the application registers, and however impure its transforms are, no
\* decode of a sealed catalog meets a missing upcaster, threads agree on every
\* remembered result, and the cache stays bounded (seal, decode, accepts).
THEOREM CatalogIsSound == CatSpec => []CatalogGuarantees
BY CatInitKeeps, CatNextKeeps, CatInvariantSuffices, PTL DEF CatSpec
=============================================================================
