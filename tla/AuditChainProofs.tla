-------------------------- MODULE AuditChainProofs --------------------------
(***************************************************************************)
(* The audit log for any number of entries and edits: the digest of a      *)
(* chain that links from GENESIS is what the chain says, so a file that    *)
(* verifies against an anchored head is the history the agent had then.    *)
(***************************************************************************)
EXTENDS AuditChain, CommonLemmas, FiniteSetTheorems, SequenceTheorems, TLAPS

Link == [seq: Nat, event: Events]

-----------------------------------------------------------------------------
(***************************************************************************)
(* Prefixes, and numbers of a set.                                         *)
(***************************************************************************)
LEMMA PrefixRefl ==
  ASSUME NEW S, NEW s \in Seq(S)
  PROVE  IsPrefix(s, s)
BY DEF IsPrefix

\* a prefix stays one when the longer sequence grows
LEMMA PrefixAppend ==
  ASSUME NEW S, NEW s \in Seq(S), NEW t \in Seq(S), NEW x \in S, IsPrefix(s, t)
  PROVE  IsPrefix(s, Append(t, x))
<1>1. Len(s) \in Nat /\ Len(t) \in Nat /\ Len(s) <= Len(t) /\ SubSeq(s, 1, Len(s)) = SubSeq(t, 1, Len(s))
  BY DEF IsPrefix
<1>2. SubSeq(Append(t, x), 1, Len(s)) = SubSeq(t, 1, Len(s))
  BY <1>1
<1>. QED BY <1>1, <1>2 DEF IsPrefix

\* what is shown, and the rest of the file
LEMMA PrefixRest ==
  ASSUME NEW S, NEW s \in Seq(S), NEW t \in Seq(S), IsPrefix(s, t)
  PROVE  s \o SubSeq(t, Len(s) + 1, Len(t)) = t
<1>1. Len(s) \in Nat /\ Len(t) \in Nat /\ Len(s) <= Len(t) /\ SubSeq(s, 1, Len(s)) = SubSeq(t, 1, Len(s))
  BY DEF IsPrefix
<1>2. \A i \in 1..Len(s) : s[i] = t[i]
  <2>1. \A i \in 1..Len(s) : SubSeq(s, 1, Len(s))[i] = s[i] /\ SubSeq(t, 1, Len(s))[i] = t[i]
    BY <1>1
  <2>. QED BY <1>1, <2>1
<1>. DEFINE r == SubSeq(t, Len(s) + 1, Len(t))
<1>3. r \in Seq(S) /\ Len(r) = Len(t) - Len(s) /\ \A i \in 1..Len(r) : r[i] = t[Len(s) + i]
  BY <1>1, SubSeqProperties
<1>. HIDE DEF r
<1>4. /\ s \o r \in Seq(S) /\ Len(s \o r) = Len(t)
      /\ \A i \in 1..Len(t) : (s \o r)[i] = IF i <= Len(s) THEN s[i] ELSE r[i - Len(s)]
  BY <1>1, <1>3, ConcatProperties
<1>5. \A i \in 1..Len(t) : (s \o r)[i] = t[i]
  BY <1>1, <1>2, <1>3, <1>4
<1>. QED BY <1>4, <1>5, SeqEqual DEF r

\* a finite set of numbers has a k-th number for every k up to its size
LEMMA NthExists ==
  ASSUME NEW S, S \subseteq Nat, IsFiniteSet(S)
  PROVE  \A k \in 1..Cardinality(S) : NthOf(S, k) \in S
<1>. DEFINE Below(i) == {j \in S : j < i}
            Bad == {k \in 1..Cardinality(S) : \A i \in S : Cardinality(Below(i)) # k - 1}
<1>1. Cardinality(S) \in Nat /\ \A i \in S : IsFiniteSet(Below(i)) /\ Cardinality(Below(i)) \in Nat
  BY FS_CardinalityType, FS_Subset
<1>2. Bad = {}
  <2>. SUFFICES ASSUME Bad # {} PROVE FALSE
    OBVIOUS
  <2>1. Bad \subseteq Nat
    BY <1>1
  <2>. HIDE DEF Bad
  <2>2. PICK k \in Bad : \A y \in Bad : k <= y
    BY <2>1, LeastNatural
  <2>3. k \in 1..Cardinality(S) /\ \A i \in S : Cardinality(Below(i)) # k - 1
    BY DEF Bad
  <2>4. CASE k = 1
    <3>1. S # {}
      BY <2>3, FS_EmptySet, <1>1
    <3>2. PICK i \in S : \A j \in S : i <= j
      BY <3>1, LeastNatural
    <3>3. Below(i) = {}
      <4>1. \A j \in S : ~(j < i)
        <5>1. \A j \in S : j \in Nat /\ i \in Nat /\ i <= j
          BY <3>2
        <5>. QED BY <5>1
      <4>. QED BY <4>1
    <3>. QED BY <2>3, <2>4, <3>3, FS_EmptySet
  <2>5. CASE k # 1
    <3>1. k - 1 \in 1..Cardinality(S) /\ k - 1 \notin Bad
      <4>1. k - 1 \in 1..Cardinality(S) /\ ~(k <= k - 1)
        BY <1>1, <2>3, <2>5
      <4>. QED BY <2>2, <4>1
    <3>2. PICK i \in S : Cardinality(Below(i)) = k - 1 - 1
      BY <3>1 DEF Bad
    <3>. DEFINE upTo == Below(i) \cup {i}
                above == {j \in S : j > i}
    <3>3. IsFiniteSet(upTo) /\ Cardinality(upTo) = k - 1
      <4>1. i \notin Below(i)
        <5>1. i \in Nat /\ ~(i < i)
          OBVIOUS
        <5>. QED BY <5>1
      <4>2. IsFiniteSet(Below(i)) /\ k \in Int
        BY <1>1, <2>3
      <4>3. IsFiniteSet(upTo) /\ Cardinality(upTo) = Cardinality(Below(i)) + 1
        BY <4>1, <4>2, FS_AddElement
      <4>. QED BY <3>2, <4>2, <4>3
    <3>4. above # {}
      <4>. SUFFICES ASSUME above = {} PROVE FALSE
        OBVIOUS
      <4>1. \A j \in S : j \in Nat /\ i \in Nat /\ ~(j > i)
        OBVIOUS
      <4>2. \A j \in S : j < i \/ j = i
        BY <4>1
      <4>3. S = upTo
        BY <4>2
      <4>. QED BY <1>1, <2>3, <3>3, <4>3
    <3>5. PICK m \in above : \A j \in above : m <= j
      BY <3>4, LeastNatural
    <3>6. Below(m) = upTo
      <4>1. ASSUME NEW j \in S PROVE j < m <=> j < i \/ j = i
        <5>1. j \in Nat /\ i \in Nat /\ m \in Nat /\ m > i /\ (j > i => m <= j)
          BY <3>5
        <5>. QED BY <5>1
      <4>. QED BY <4>1
    <3>. QED BY <2>3, <3>3, <3>6
  <2>. QED BY <2>4, <2>5
<1>. SUFFICES ASSUME NEW k \in 1..Cardinality(S) PROVE NthOf(S, k) \in S
  OBVIOUS
<1>3. \E i \in S : Cardinality({j \in S : j < i}) = k - 1
  BY <1>2
<1>. QED BY <1>3 DEF NthOf
-----------------------------------------------------------------------------
(***************************************************************************)
(* Chains: an intact one stands for its contents.                          *)
(***************************************************************************)
LEMMA EntryType ==
  ASSUME NEW f \in Seq(Entry), NEW i \in DOMAIN f
  PROVE  /\ i \in Nat /\ i >= 1 /\ i <= Len(f) /\ Len(f) \in Nat
         /\ f[i] \in Entry /\ f[i].seq \in Nat /\ f[i].event \in Events
         /\ f[i].prev \in Digest /\ f[i].hash \in Digest
<1>1. DOMAIN f = 1..Len(f) /\ Len(f) \in Nat /\ f[i] \in Entry
  OBVIOUS
<1>. QED BY <1>1 DEF Entry

\* what lines say has as many elements as there are lines
LEMMA ContentsType ==
  ASSUME NEW f \in Seq(Entry)
  PROVE  /\ Contents(f) \in Seq(Link) /\ Len(Contents(f)) = Len(f)
         /\ \A i \in 1..Len(f) : Contents(f)[i] = [seq |-> f[i].seq, event |-> f[i].event]
<1>1. DOMAIN f = 1..Len(f) /\ Len(f) \in Nat
  OBVIOUS
<1>2. \A i \in 1..Len(f) : [seq |-> f[i].seq, event |-> f[i].event] \in Link
  BY <1>1, EntryType DEF Link
<1>3. Contents(f) \in [1..Len(f) -> Link]
  BY <1>1, <1>2 DEF Contents
<1>. QED BY <1>1, <1>3 DEF Contents

\* one element more of a beginning
LEMMA SubSeqNext ==
  ASSUME NEW S, NEW s \in Seq(S), NEW k \in 1..Len(s)
  PROVE  Append(SubSeq(s, 1, k - 1), s[k]) = SubSeq(s, 1, k)
<1>. DEFINE t == SubSeq(s, 1, k - 1)
            u == Append(t, s[k])
            v == SubSeq(s, 1, k)
<1>1. Len(s) \in Nat /\ k \in Nat /\ s[k] \in S
  OBVIOUS
<1>2. t \in Seq(S) /\ Len(t) = k - 1 /\ \A i \in 1..(k - 1) : t[i] = s[i]
  BY <1>1
<1>3. v \in Seq(S) /\ Len(v) = k /\ \A i \in 1..k : v[i] = s[i]
  BY <1>1
<1>. HIDE DEF t, v
<1>4. u \in Seq(S) /\ Len(u) = k /\ \A i \in 1..k : u[i] = s[i]
  BY <1>1, <1>2
<1>. QED BY <1>3, <1>4, SeqEqual DEF t, v

(***************************************************************************)
(* A chain that links from GENESIS and whose fingerprints are right has    *)
(* the digest of exactly what it says, line for line.                      *)
(***************************************************************************)
LEMMA IntactStandsFor ==
  ASSUME NEW f \in Seq(Entry), Intact(f)
  PROVE  HeadOf(f) = Contents(f)
<1>. DEFINE C == Contents(f)
            Bad == {i \in DOMAIN f : f[i].hash # SubSeq(C, 1, i)}
<1>1. C \in Seq(Link) /\ Len(C) = Len(f) /\ Len(f) \in Nat /\ DOMAIN f = 1..Len(f)
  BY ContentsType
<1>2. ASSUME NEW i \in DOMAIN f
      PROVE  f[i].hash = Append(PrevOf(f, i), C[i])
  BY <1>1, <1>2, ContentsType DEF Intact, Breaks, Hash
<1>3. Bad = {}
  <2>. SUFFICES ASSUME Bad # {} PROVE FALSE
    OBVIOUS
  <2>1. Bad \subseteq Nat
    BY <1>1
  <2>2. PICK k \in Bad : \A y \in Bad : k <= y
    BY <2>1, LeastNatural
  <2>3. k \in 1..Len(f) /\ f[k].hash # SubSeq(C, 1, k)
    BY <1>1, <2>2
  <2>4. PrevOf(f, k) = SubSeq(C, 1, k - 1)
    <3>1. CASE k = 1
      <4>1. SubSeq(C, 1, 0) = <<>>
        BY <1>1
      <4>. QED BY <3>1, <4>1 DEF PrevOf, Genesis
    <3>2. CASE k # 1
      <4>1. k - 1 \in 1..Len(f) /\ ~(k <= k - 1)
        BY <1>1, <2>3, <3>2
      <4>2. k - 1 \notin Bad
        BY <2>2, <4>1
      <4>. QED BY <1>1, <3>2, <4>1, <4>2 DEF PrevOf
    <3>. QED BY <3>1, <3>2
  <2>5. f[k].hash = Append(SubSeq(C, 1, k - 1), C[k])
    BY <1>1, <1>2, <2>3, <2>4
  <2>. QED BY <1>1, <2>3, <2>5, SubSeqNext
<1>4. CASE f = <<>>
  <2>1. C = <<>>
    BY <1>1, <1>4
  <2>. QED BY <1>4, <2>1 DEF HeadOf, Genesis
<1>5. CASE f # <<>>
  <2>1. Len(f) \in DOMAIN f
    BY <1>1, <1>5
  <2>2. f[Len(f)].hash = SubSeq(C, 1, Len(f))
    BY <1>3, <2>1
  <2>3. SubSeq(C, 1, Len(C)) = C
    BY <1>1
  <2>. QED BY <1>1, <1>5, <2>2, <2>3 DEF HeadOf
<1>. QED BY <1>4, <1>5

\* the chain that forge writes
LEMMA RebuiltType ==
  ASSUME NEW events \in Seq(Events)
  PROVE  /\ Rebuilt(events) \in Seq(Entry) /\ Len(Rebuilt(events)) = Len(events)
         /\ \E digest \in Seq(Link) :
              /\ Len(digest) = Len(events)
              /\ \A i \in 1..Len(events) :
                   LET e == Rebuilt(events)[i]
                   IN  /\ digest[i] = [seq |-> e.seq, event |-> e.event]
                       /\ e.prev = SubSeq(digest, 1, i - 1) /\ e.hash = SubSeq(digest, 1, i)
<1>. DEFINE digest == [i \in 1..Len(events) |-> [seq |-> i, event |-> events[i]]]
            C(i) == Chained(i, events[i], SubSeq(digest, 1, i - 1))
<1>1. Len(events) \in Nat /\ \A i \in 1..Len(events) : i \in Nat /\ events[i] \in Events
  OBVIOUS
<1>2. digest \in Seq(Link) /\ Len(digest) = Len(events)
  <2>1. \A i \in 1..Len(events) : [seq |-> i, event |-> events[i]] \in Link
    BY <1>1 DEF Link
  <2>2. digest \in [1..Len(events) -> Link]
    BY <2>1
  <2>. QED BY <1>1, <2>2
<1>3. \A i \in 1..Len(events) : digest[i] = [seq |-> i, event |-> events[i]]
  OBVIOUS
<1>4. Rebuilt(events) = [i \in 1..Len(events) |-> C(i)]
  BY DEF Rebuilt
<1>. HIDE DEF digest
<1>5. ASSUME NEW i \in 1..Len(events)
      PROVE  /\ C(i) \in Entry /\ digest[i] = [seq |-> C(i).seq, event |-> C(i).event]
             /\ C(i).prev = SubSeq(digest, 1, i - 1) /\ C(i).hash = SubSeq(digest, 1, i)
  <2>1. Append(SubSeq(digest, 1, i - 1), digest[i]) = SubSeq(digest, 1, i)
    BY <1>2, SubSeqNext
  <2>2. SubSeq(digest, 1, i - 1) \in Digest /\ SubSeq(digest, 1, i) \in Digest
    <3>1. SubSeq(digest, 1, i - 1) \in Seq(Link) /\ SubSeq(digest, 1, i) \in Seq(Link)
      BY <1>1, <1>2
    <3>. QED BY <3>1 DEF Digest, Link
  <2>3. C(i) = [seq |-> i, event |-> events[i],
                prev |-> SubSeq(digest, 1, i - 1), hash |-> SubSeq(digest, 1, i)]
    BY <1>3, <2>1 DEF Chained
  <2>. DEFINE p == SubSeq(digest, 1, i - 1)
              h == SubSeq(digest, 1, i)
  <2>. HIDE DEF p, h, C
  <2>4. p \in Digest /\ h \in Digest /\ C(i) = [seq |-> i, event |-> events[i], prev |-> p, hash |-> h]
    BY <2>2, <2>3 DEF p, h
  <2>5. C(i) \in Entry
    BY <1>1, <2>4 DEF Entry
  <2>6. C(i).seq = i /\ C(i).event = events[i] /\ C(i).prev = p /\ C(i).hash = h
    BY <2>4
  <2>. QED BY <1>3, <2>5, <2>6 DEF p, h
<1>. HIDE DEF C
<1>6. Rebuilt(events) \in [1..Len(events) -> Entry]
  BY <1>4, <1>5
<1>7. Rebuilt(events) \in Seq(Entry) /\ Len(Rebuilt(events)) = Len(events)
  BY <1>1, <1>6
<1>8. \A i \in 1..Len(events) : Rebuilt(events)[i] = C(i)
  BY <1>4
<1>. QED BY <1>2, <1>5, <1>7, <1>8

\* kept: a sequence of events
LEMMA KeptType ==
  ASSUME NEW f \in Seq(Entry)
  PROVE  Kept(f) \in Seq(Events)
<1>. DEFINE kept == {i \in DOMAIN f : f[i].event # "deny"}
<1>1. DOMAIN f = 1..Len(f) /\ Len(f) \in Nat
  OBVIOUS
<1>2. IsFiniteSet(kept) /\ kept \subseteq Nat
  <2>1. IsFiniteSet(1..Len(f))
    BY <1>1, FS_Interval
  <2>. QED BY <1>1, <2>1, FS_Subset
<1>3. Cardinality(kept) \in Nat
  BY <1>2, FS_CardinalityType
<1>4. \A k \in 1..Cardinality(kept) : NthOf(kept, k) \in kept
  BY <1>2, NthExists
<1>5. \A k \in 1..Cardinality(kept) : f[NthOf(kept, k)].event \in Events
  BY <1>4, EntryType
<1>6. Kept(f) = [k \in 1..Cardinality(kept) |-> f[NthOf(kept, k)].event]
  BY DEF Kept
<1>. HIDE DEF kept
<1>7. Kept(f) \in [1..Cardinality(kept) -> Events]
  BY <1>5, <1>6
<1>. QED BY <1>3, <1>7

(***************************************************************************)
(* A forged chain is intact, whatever its events: without an anchor        *)
(* verifyLog takes it for the log (server.js:268-270).                     *)
(***************************************************************************)
THEOREM ForgedChainIntact == \A events \in Seq(Events) : VerifyLog(Rebuilt(events), Genesis)
<1>. SUFFICES ASSUME NEW events \in Seq(Events) PROVE Intact(Rebuilt(events))
  BY DEF VerifyLog
<1>. DEFINE f == Rebuilt(events)
<1>1. PICK digest \in Seq(Link) :
        /\ Len(digest) = Len(events)
        /\ \A i \in 1..Len(events) :
             /\ digest[i] = [seq |-> f[i].seq, event |-> f[i].event]
             /\ f[i].prev = SubSeq(digest, 1, i - 1) /\ f[i].hash = SubSeq(digest, 1, i)
  BY RebuiltType
<1>2. f \in Seq(Entry) /\ Len(f) = Len(events) /\ Len(events) \in Nat
  BY RebuiltType
<1>. HIDE DEF f
<1>3. ASSUME NEW i \in DOMAIN f
      PROVE  ~Breaks(f, i)
  <2>1. i \in 1..Len(events)
    BY <1>2
  <2>2. f[i].hash = Hash(f[i])
    <3>1. Append(SubSeq(digest, 1, i - 1), digest[i]) = SubSeq(digest, 1, i)
      BY <1>1, <2>1, SubSeqNext
    <3>. QED BY <1>1, <2>1, <3>1 DEF Hash
  <2>3. f[i].prev = PrevOf(f, i)
    <3>1. CASE i = 1
      <4>1. SubSeq(digest, 1, 0) = <<>>
        BY <1>1
      <4>2. f[1].prev = SubSeq(digest, 1, 1 - 1)
        BY <1>1, <2>1, <3>1
      <4>3. f[1].prev = <<>>
        BY <4>1, <4>2
      <4>. QED BY <3>1, <4>3 DEF PrevOf, Genesis
    <3>2. CASE i # 1
      <4>1. i - 1 \in 1..Len(events)
        BY <1>2, <2>1, <3>2
      <4>2. f[i - 1].hash = SubSeq(digest, 1, i - 1)
        BY <1>1, <4>1
      <4>3. f[i].prev = SubSeq(digest, 1, i - 1)
        BY <1>1, <2>1
      <4>. QED BY <3>2, <4>2, <4>3 DEF PrevOf
    <3>. QED BY <3>1, <3>2
  <2>. QED BY <2>2, <2>3 DEF Breaks
<1>. QED BY <1>3 DEF Intact, f
-----------------------------------------------------------------------------
(***************************************************************************)
(* What the actions write.                                                 *)
(***************************************************************************)
LEMMA SizeType ==
  ASSUME NEW f \in Seq(Entry)
  PROVE  Size(f) \in Nat
<1>. DEFINE B == Bytes["agent_start"] + Bytes["flow"] + Bytes["deny"] + Bytes["note"]
            S == UNION {{i} \X (1..Bytes[f[i].event]) : i \in DOMAIN f}
<1>1. DOMAIN f = 1..Len(f) /\ Len(f) \in Nat
  OBVIOUS
<1>2. B \in Nat /\ \A e \in Events : Bytes[e] \in Nat /\ Bytes[e] <= B
  <2>1. /\ Bytes["agent_start"] \in Nat /\ Bytes["flow"] \in Nat
        /\ Bytes["deny"] \in Nat /\ Bytes["note"] \in Nat
    BY BytesAssumption DEF Events
  <2>2. \A a, b, c, d \in Nat : LET n == a + b + c + d IN n \in Nat /\ a <= n /\ b <= n /\ c <= n /\ d <= n
    OBVIOUS
  <2>3. /\ B \in Nat /\ Bytes["agent_start"] <= B /\ Bytes["flow"] <= B
        /\ Bytes["deny"] <= B /\ Bytes["note"] <= B
    BY <2>1, <2>2
  <2>. HIDE DEF B
  <2>. QED BY <2>1, <2>3 DEF Events
<1>. HIDE DEF B
<1>3. \A i \in DOMAIN f : f[i].event \in Events
  BY EntryType
<1>4. S \subseteq (1..Len(f)) \X (1..B)
  <2>. SUFFICES ASSUME NEW i \in DOMAIN f, NEW b \in 1..Bytes[f[i].event]
                PROVE  i \in 1..Len(f) /\ b \in 1..B
    OBVIOUS
  <2>. QED BY <1>1, <1>2, <1>3
<1>5. IsFiniteSet((1..Len(f)) \X (1..B))
  <2>1. IsFiniteSet(1..Len(f)) /\ IsFiniteSet(1..B)
    BY <1>1, <1>2, FS_Interval
  <2>. QED BY <2>1, FS_Product
<1>. HIDE DEF S
<1>6. Cardinality(S) \in Nat
  BY <1>4, <1>5, FS_Subset, FS_CardinalityType
<1>. QED BY <1>6 DEF Size, S

\* an entry on top of a digest
LEMMA ChainedType ==
  ASSUME NEW n \in Nat, NEW event \in Events, NEW d \in Digest
  PROVE  /\ Chained(n, event, d) \in Entry
         /\ Chained(n, event, d).seq = n /\ Chained(n, event, d).event = event
         /\ Chained(n, event, d).hash = Append(d, [seq |-> n, event |-> event])
         /\ Chained(n, event, d).hash = Hash(Chained(n, event, d))
         /\ [seq |-> n, event |-> event] \in Link
<1>. DEFINE l == [seq |-> n, event |-> event]
            h == Append(d, l)
<1>1. l \in Link
  BY DEF Link
<1>2. h \in Digest
  BY <1>1 DEF Digest, Link
<1>3. Chained(n, event, d) = [seq |-> n, event |-> event, prev |-> d, hash |-> h]
  BY DEF Chained
<1>. HIDE DEF h
<1>4. Chained(n, event, d) \in Entry
  BY <1>2, <1>3 DEF Entry
<1>. QED BY <1>1, <1>3, <1>4 DEF Hash, h

\* a line with its own hash can be appended
LEMMA FileAppended ==
  ASSUME NEW f \in Seq(Entry), NEW e \in Entry, e.hash = Hash(e)
  PROVE  /\ Append(f, e) \in Seq(Entry)
         /\ EditsNoted(f) => EditsNoted(Append(f, e))
<1>1. Append(f, e) \in Seq(Entry) /\ Len(f) \in Nat
  OBVIOUS
<1>2. ASSUME EditsNoted(f), NEW i \in DOMAIN Append(f, e), Append(f, e)[i].event # "note"
      PROVE  Append(f, e)[i].hash = Hash(Append(f, e)[i])
  <2>1. CASE i = Len(f) + 1
    <3>1. Append(f, e)[i] = e
      BY <1>1, <2>1
    <3>. QED BY <3>1
  <2>2. CASE i # Len(f) + 1
    <3>1. i \in DOMAIN f /\ Append(f, e)[i] = f[i]
      BY <1>1, <2>2
    <3>. QED BY <1>2, <3>1 DEF EditsNoted
  <2>. QED BY <2>1, <2>2
<1>. QED BY <1>1, <1>2 DEF EditsNoted

\* the edited line is a denial, or the second line
LEMMA EditedLineType ==
  ASSUME NEW f \in Seq(Entry), Len(f) >= 2
  PROVE  EditedLine(f) \in 2..Len(f)
<1>1. Len(f) \in Nat /\ 2 \in 2..Len(f)
  OBVIOUS
<1>2. CASE Denials(f) = {}
  BY <1>1, <1>2 DEF EditedLine
<1>3. CASE Denials(f) # {}
  <2>1. Denials(f) \subseteq Nat
    BY <1>1 DEF Denials
  <2>2. \E i \in Denials(f) : \A j \in Denials(f) : i <= j
    BY <1>3, <2>1, LeastNatural
  <2>3. EditedLine(f) \in Denials(f)
    BY <1>3, <2>2 DEF EditedLine
  <2>. QED BY <2>3 DEF Denials
<1>. QED BY <1>2, <1>3

\* 'tamper' turns that line's event into a note and leaves its hash
LEMMA EditedType ==
  ASSUME NEW f \in Seq(Entry), Len(f) >= 2
  PROVE  /\ Edited(f) \in Seq(Entry) /\ DOMAIN Edited(f) = DOMAIN f
         /\ \A i \in DOMAIN f : i # EditedLine(f) => Edited(f)[i] = f[i]
         /\ LET e == f[EditedLine(f)]
                g == Edited(f)[EditedLine(f)]
            IN  /\ g.event = "note" /\ g.seq = e.seq /\ g.prev = e.prev /\ g.hash = e.hash
                /\ EditedLine(f) \in DOMAIN f
                /\ e.event = "note" => Edited(f) = f
<1>. DEFINE l == EditedLine(f)
            e == f[l]
            g == [e EXCEPT !.event = "note"]
<1>1. l \in DOMAIN f /\ DOMAIN f = 1..Len(f) /\ Len(f) \in Nat
  BY EditedLineType
<1>2. e \in Entry /\ "note" \in Events
  BY <1>1 DEF Events
<1>3. /\ g \in Entry /\ g.event = "note" /\ g.seq = e.seq /\ g.prev = e.prev /\ g.hash = e.hash
      /\ e.event = "note" => g = e
  BY <1>2 DEF Entry
<1>4. Edited(f) = [f EXCEPT ![l] = g]
  BY DEF Edited
<1>. HIDE DEF l, g
<1>5. /\ Edited(f) \in [1..Len(f) -> Entry] /\ Edited(f)[l] = g
      /\ \A i \in DOMAIN f : i # l => Edited(f)[i] = f[i]
  BY <1>1, <1>3, <1>4
<1>6. Edited(f) \in Seq(Entry) /\ DOMAIN Edited(f) = DOMAIN f
  BY <1>1, <1>5
<1>7. e.event = "note" => Edited(f) = f
  BY <1>1, <1>3, <1>4
<1>. QED BY <1>1, <1>3, <1>5, <1>6, <1>7 DEF l

\* after an edit, too, only notes can have a hash that is not theirs
LEMMA EditedNotes ==
  ASSUME NEW f \in Seq(Entry), Len(f) >= 2, EditsNoted(f)
  PROVE  EditsNoted(Edited(f))
<1>. SUFFICES ASSUME NEW i \in DOMAIN f, Edited(f)[i].event # "note"
              PROVE  Edited(f)[i].hash = Hash(Edited(f)[i])
  BY EditedType DEF EditsNoted
<1>1. i # EditedLine(f)
  BY EditedType
<1>2. Edited(f)[i] = f[i]
  BY <1>1, EditedType
<1>. QED BY <1>2 DEF EditsNoted

(***************************************************************************)
(* A line of an honest event that is edited no longer has its hash.        *)
(***************************************************************************)
LEMMA EditBreaks ==
  ASSUME NEW f \in Seq(Entry), Len(f) >= 2, EditsNoted(f), Edited(f) # f
  PROVE  ~Intact(Edited(f))
<1>. DEFINE l == EditedLine(f)
            e == f[l]
            g == Edited(f)[l]
<1>1. /\ l \in DOMAIN f /\ l \in DOMAIN Edited(f) /\ e.event # "note"
      /\ g.event = "note" /\ g.seq = e.seq /\ g.prev = e.prev /\ g.hash = e.hash
  BY EditedType
<1>2. e.hash = Append(e.prev, [seq |-> e.seq, event |-> e.event]) /\ e.prev \in Seq(Link)
  BY <1>1, EntryType DEF EditsNoted, Hash, Digest, Link
<1>3. Hash(g) = Append(e.prev, [seq |-> e.seq, event |-> "note"])
  BY <1>1 DEF Hash
<1>4. [seq |-> e.seq, event |-> "note"] # [seq |-> e.seq, event |-> e.event]
  BY <1>1
<1>5. Hash(g) # g.hash
  <2>1. [seq |-> e.seq, event |-> "note"] \in Link /\ [seq |-> e.seq, event |-> e.event] \in Link
    BY <1>1, EntryType DEF Link, Events
  <2>. HIDE DEF e, g
  <2>. QED BY <1>1, <1>2, <1>3, <1>4, <2>1, AppendInjective
<1>. QED BY <1>1, <1>5 DEF Intact, Breaks
-----------------------------------------------------------------------------
(***************************************************************************)
(* The invariant.                                                          *)
(***************************************************************************)
LEMMA BlockType ==
  ASSUME NEW doing \in {"nothing", "stat", "read", "tamper", "forge"},
         NEW text \in Seq(Entry), NEW size \in Nat
  PROVE  [doing |-> doing, text |-> text, size |-> size] \in Block
BY DEF Block

\* what a command leaves behind: nothing that was read
LEMMA IdleType ==
  ASSUME NEW b \in {Idle, AboutToStat}
  PROVE  b \in Block /\ EditsNoted(b.text) /\ b.doing \notin {"tamper", "forge"}
<1>1. PICK d \in {"nothing", "stat"} : b = [doing |-> d, text |-> <<>>, size |-> 0]
  BY DEF Idle, AboutToStat
<1>2. <<>> \in Seq(Entry) /\ DOMAIN <<>> = {}
  OBVIOUS
<1>3. b \in Block
  BY <1>1, <1>2, BlockType
<1>4. EditsNoted(<<>>)
  BY <1>2 DEF EditsNoted
<1>. QED BY <1>1, <1>3, <1>4

\* the invariant holds at the start
LEMMA IInvInitial == Init => IInv
<1>. SUFFICES ASSUME Init PROVE IInv
  OBVIOUS
<1>. DEFINE e == Chained(1, "agent_start", Genesis)
            l == [seq |-> 1, event |-> "agent_start"]
<1>1. /\ e \in Entry /\ e.hash = Hash(e) /\ e.hash = Append(Genesis, l) /\ Genesis \in Digest /\ l \in Link
  <2>1. Genesis \in Digest /\ "agent_start" \in Events
    BY DEF Genesis, Digest, Events
  <2>. QED BY <2>1, ChainedType
<1>2. prev = <<l>> /\ file = <<e>> /\ l.seq = 1
  BY <1>1 DEF Init, Genesis
<1>. HIDE DEF e, l
<1>3. TypeOK
  <2>1. prev \in Digest /\ file \in Seq(Entry)
    BY <1>1, <1>2 DEF Digest, Link
  <2>2. <<>> \in Seq(Seq(Entry)) /\ <<>> \in Seq(Entry) /\ Idle \in Block
    BY IdleType
  <2>. QED BY <1>1, <2>1, <2>2 DEF Init, TypeOK
<1>4. AnchorsAreHistory
  <2>1. Len(prev) = 1 /\ prev[1].seq = 1
    BY <1>2
  <2>2. IsPrefix(Genesis, prev)
    BY <1>2 DEF IsPrefix, Genesis
  <2>. QED BY <2>1, <2>2 DEF Init, AnchorsAreHistory
<1>5. ShownFollowsFile
  BY <1>2 DEF Init, ShownFollowsFile, IsPrefix
<1>6. EditsShow
  <2>1. EditsNoted(file)
    <3>1. DOMAIN file = {1} /\ file[1] = e
      BY <1>2
    <3>. QED BY <1>1, <3>1 DEF EditsNoted
  <2>2. EditsNoted(Idle.text)
    BY IdleType
  <2>. QED BY <2>1, <2>2 DEF Init, EditsShow
<1>7. Unedited
  <2>1. Idle.doing \notin {"tamper", "forge"}
    BY IdleType
  <2>. QED BY <2>1 DEF Init, Unedited
<1>. QED BY <1>3, <1>4, <1>5, <1>6, <1>7 DEF IInv

\* append(): the history grows by one, and what was a part of it stays one
LEMMA AppendStep ==
  ASSUME IInv, NEW event \in Events, AppendEntry(event)
  PROVE  IInv'
<1>. DEFINE e == Chained(seq + 1, event, prev)
            l == [seq |-> seq + 1, event |-> event]
<1>1. /\ seq \in Nat /\ prev \in Digest /\ prev \in Seq(Link) /\ file \in Seq(Entry)
      /\ shown \in Seq(Entry) /\ Len(prev) \in Nat
  BY DEF IInv, TypeOK, Digest, Link
<1>2. /\ e \in Entry /\ e.seq = seq + 1 /\ e.hash = Append(prev, l) /\ e.hash = Hash(e)
      /\ l \in Link /\ l.seq = seq + 1
  BY <1>1, ChainedType
<1>3. /\ seq' = seq + 1 /\ prev' = Append(prev, l) /\ file' = Append(file, e)
      /\ UNCHANGED <<orig, shown, lastSize, anchoring, anchoredHead, block, edits>>
  BY <1>2 DEF AppendEntry, consoleVars
<1>. HIDE DEF e, l
<1>4. TypeOK'
  <2>1. Append(prev, l) \in Digest
    <3>1. \A p \in Seq(Link), x \in Link : Append(p, x) \in Seq(Link)
      OBVIOUS
    <3>2. Append(prev, l) \in Seq(Link)
      BY <1>1, <1>2, <3>1
    <3>. QED BY <3>2 DEF Digest, Link
  <2>2. seq + 1 \in Nat /\ Append(file, e) \in Seq(Entry)
    BY <1>1, <1>2
  <2>. QED BY <1>3, <2>1, <2>2 DEF IInv, TypeOK
<1>5. AnchorsAreHistory'
  <2>1. Len(prev) = seq /\ \A i \in 1..seq : prev[i].seq = i
    BY DEF IInv, AnchorsAreHistory
  <2>2. Len(prev') = seq + 1 /\ prev'[seq + 1] = l /\ \A i \in 1..seq : prev'[i] = prev[i]
    BY <1>1, <1>2, <1>3, <2>1
  <2>3. \A i \in 1..(seq + 1) : prev'[i].seq = i
    BY <1>1, <1>2, <2>1, <2>2
  <2>4. ASSUME NEW h \in anchoring \cup {anchoredHead} PROVE IsPrefix(h, prev')
    <3>1. h \in Seq(Link) /\ IsPrefix(h, prev)
      BY DEF IInv, TypeOK, AnchorsAreHistory, Digest, Link
    <3>. QED BY <1>1, <1>2, <1>3, <3>1, PrefixAppend
  <2>. QED BY <1>3, <2>2, <2>3, <2>4 DEF AnchorsAreHistory
<1>6. ShownFollowsFile'
  BY <1>1, <1>2, <1>3, PrefixAppend DEF IInv, ShownFollowsFile
<1>7. EditsShow'
  BY <1>1, <1>2, <1>3, FileAppended DEF IInv, EditsShow
<1>8. Unedited'
  BY <1>3 DEF IInv, Unedited
<1>. QED BY <1>4, <1>5, <1>6, <1>7, <1>8 DEF IInv

\* the agent's side and the anchors do not change in the console's file commands
LEMMA ConsoleStep ==
  ASSUME IInv, UNCHANGED <<seq, prev, anchoring, anchoredHead>>,
         file' \in Seq(Entry), orig' \in Seq(Seq(Entry)), shown' \in Seq(Entry), lastSize' \in Nat,
         block' \in Block, edits' \in Nat, ShownFollowsFile', EditsShow', Unedited'
  PROVE  IInv'
<1>1. TypeOK'
  BY DEF IInv, TypeOK
<1>2. AnchorsAreHistory'
  BY DEF IInv, AnchorsAreHistory
<1>. QED BY <1>1, <1>2 DEF IInv

\* show -f prints what has been added
LEMMA FollowStep ==
  ASSUME IInv, Stat \/ ReadFresh
  PROVE  IInv'
<1>1. /\ file \in Seq(Entry) /\ shown \in Seq(Entry) /\ lastSize \in Nat /\ edits \in Nat
      /\ orig \in Seq(Seq(Entry)) /\ block.size \in Nat
  BY DEF IInv, TypeOK, Block
<1>2. Size(file) \in Nat
  BY <1>1, SizeType
<1>3. UNCHANGED <<seq, prev, file, orig, anchoring, anchoredHead, edits>>
  BY DEF Stat, ReadFresh
<1>4. CASE Stat
  <2>1. \/ block' = Idle
        \/ block' = [doing |-> "read", text |-> <<>>, size |-> Size(file)]
    BY <1>4 DEF Stat
  <2>2. block' \in Block /\ EditsNoted(block'.text) /\ block'.doing \notin {"tamper", "forge"}
    <3>1. CASE block' = Idle
      BY <3>1, IdleType
    <3>2. CASE block' = [doing |-> "read", text |-> <<>>, size |-> Size(file)]
      <4>1. <<>> \in Seq(Entry) /\ DOMAIN <<>> = {}
        OBVIOUS
      <4>2. EditsNoted(<<>>)
        BY <4>1 DEF EditsNoted
      <4>. HIDE DEF Size
      <4>3. [doing |-> "read", text |-> <<>>, size |-> Size(file)] \in Block
        BY <1>2, <4>1, BlockType
      <4>. QED BY <3>2, <4>2, <4>3
    <3>. QED BY <2>1, <3>1, <3>2
  <2>3. /\ shown' \in {shown, <<>>} /\ lastSize' \in {lastSize, 0}
    BY <1>4 DEF Stat
  <2>4. ShownFollowsFile'
    <3>1. IsPrefix(<<>>, file)
      BY <1>1 DEF IsPrefix
    <3>. QED BY <1>3, <2>3, <3>1 DEF IInv, ShownFollowsFile
  <2>5. EditsShow' /\ Unedited'
    BY <1>3, <2>2 DEF IInv, EditsShow, Unedited
  <2>6. <<>> \in Seq(Entry) /\ 0 \in Nat
    OBVIOUS
  <2>7. shown' \in Seq(Entry) /\ lastSize' \in Nat
    BY <1>1, <2>3, <2>6
  <2>8. file' \in Seq(Entry) /\ orig' \in Seq(Seq(Entry)) /\ edits' \in Nat
    BY <1>1, <1>3
  <2>. QED BY <1>3, <2>2, <2>4, <2>5, <2>7, <2>8, ConsoleStep
<1>5. CASE ReadFresh
  <2>1. shown' = shown \o SubSeq(file, Len(shown) + 1, Len(file)) /\ lastSize' = block.size /\ block' = Idle
    BY <1>5 DEF ReadFresh, Fresh
  <2>2. shown' \in Seq(Entry)
    <3>1. SubSeq(file, Len(shown) + 1, Len(file)) \in Seq(Entry)
      BY <1>1
    <3>. QED BY <1>1, <2>1, <3>1
  <2>3. ShownFollowsFile'
    BY <1>1, <1>3, <2>1, PrefixRest, PrefixRefl DEF IInv, ShownFollowsFile
  <2>4. block' \in Block /\ EditsNoted(block'.text) /\ block'.doing \notin {"tamper", "forge"}
    BY <2>1, IdleType
  <2>5. EditsShow' /\ Unedited'
    BY <1>3, <2>4 DEF IInv, EditsShow, Unedited
  <2>. QED BY <1>1, <1>3, <2>1, <2>2, <2>3, <2>4, <2>5, ConsoleStep
<1>. QED BY <1>4, <1>5

\* an edit of the file between two runs
LEMMA EditStep ==
  ASSUME IInv, Edit
  PROVE  IInv'
<1>1. /\ file \in Seq(Entry) /\ shown \in Seq(Entry) /\ lastSize \in Nat /\ edits \in Nat
      /\ orig \in Seq(Seq(Entry)) /\ block.text \in Seq(Entry)
      /\ EditsNoted(file) /\ EditsNoted(block.text) /\ (orig # <<>> => EditsNoted(orig[1]))
  BY DEF IInv, TypeOK, Block, EditsShow
<1>2. orig # <<>> => orig[1] \in Seq(Entry)
  BY <1>1
<1>3. UNCHANGED <<seq, prev, anchoring, anchoredHead>>
  BY DEF Edit, TamperRead, TamperWrite, ForgeRead, ForgeWrite, Untamper, consoleVars
<1>4. CASE TamperRead \/ ForgeRead
  <2>1. /\ edits' = edits + 1 /\ UNCHANGED <<file, shown, lastSize>>
        /\ orig' = <<file>> \/ (orig # <<>> /\ orig' = orig)
        /\ \/ block' = Idle
           \/ block' = [doing |-> "tamper", text |-> file, size |-> 0] /\ Len(file) >= 2
           \/ block' = [doing |-> "forge", text |-> file, size |-> 0]
    BY <1>1, <1>4 DEF TamperRead, ForgeRead, consoleVars
  <2>2. block' \in Block /\ EditsNoted(block'.text) /\ (block'.doing = "tamper" => Len(block'.text) >= 2)
    <3>1. CASE block' = Idle
      BY <3>1, IdleType
    <3>2. CASE block' = [doing |-> "tamper", text |-> file, size |-> 0] /\ Len(file) >= 2
      BY <1>1, <3>2, BlockType
    <3>3. CASE block' = [doing |-> "forge", text |-> file, size |-> 0]
      BY <1>1, <3>3, BlockType
    <3>. QED BY <2>1, <3>1, <3>2, <3>3
  <2>3. orig' \in Seq(Seq(Entry)) /\ EditsNoted(orig'[1])
    <3>1. CASE orig' = <<file>>
      <4>1. <<file>> \in Seq(Seq(Entry)) /\ <<file>>[1] = file
        BY <1>1
      <4>. QED BY <1>1, <3>1, <4>1
    <3>2. CASE orig # <<>> /\ orig' = orig
      BY <1>1, <3>2
    <3>. QED BY <2>1, <3>1, <3>2
  <2>4. edits' \in Nat /\ edits' # 0
    BY <1>1, <2>1
  <2>5. ShownFollowsFile' /\ EditsShow' /\ Unedited'
    BY <1>1, <2>1, <2>2, <2>3, <2>4 DEF ShownFollowsFile, EditsShow, Unedited
  <2>. QED BY <1>1, <1>3, <2>1, <2>2, <2>3, <2>4, <2>5, ConsoleStep
<1>5. ASSUME file' \in Seq(Entry), EditsNoted(file'), edits # 0, edits' = edits,
             orig' = orig \/ orig' = <<>>, block' \in {Idle, AboutToStat},
             shown' = shown \/ shown' = <<>>, lastSize' = lastSize \/ lastSize' = 0
      PROVE  IInv'
  <2>1. block' \in Block /\ EditsNoted(block'.text) /\ block'.doing \notin {"tamper", "forge"}
    BY <1>5, IdleType
  <2>2. orig' \in Seq(Seq(Entry)) /\ shown' \in Seq(Entry) /\ lastSize' \in Nat
    <3>1. <<>> \in Seq(Seq(Entry)) /\ <<>> \in Seq(Entry) /\ 0 \in Nat
      OBVIOUS
    <3>2. lastSize' \in Nat
      BY <1>1, <1>5, <3>1
    <3>3. shown' \in Seq(Entry)
      BY <1>1, <1>5, <3>1
    <3>4. orig' \in Seq(Seq(Entry))
      BY <1>1, <1>5, <3>1
    <3>. QED BY <3>2, <3>3, <3>4
  <2>3. ShownFollowsFile' /\ EditsShow' /\ Unedited'
    BY <1>1, <1>5, <2>1 DEF ShownFollowsFile, EditsShow, Unedited
  <2>. QED BY <1>1, <1>3, <1>5, <2>1, <2>2, <2>3, ConsoleStep
<1>6. CASE TamperWrite
  <2>1. Len(block.text) >= 2 /\ edits # 0
    BY <1>6 DEF IInv, Unedited, TamperWrite
  <2>2. file' \in Seq(Entry) /\ EditsNoted(file')
    BY <1>1, <1>6, <2>1, EditedType, EditedNotes DEF TamperWrite
  <2>. QED BY <1>5, <1>6, <2>1, <2>2 DEF TamperWrite, consoleVars
<1>7. CASE ForgeWrite
  <2>1. file' = Rebuilt(Kept(block.text)) /\ Kept(block.text) \in Seq(Events) /\ edits # 0
    BY <1>1, <1>7, KeptType DEF ForgeWrite, IInv, Unedited
  <2>2. file' \in Seq(Entry) /\ Intact(file')
    BY <2>1, RebuiltType, ForgedChainIntact DEF VerifyLog
  <2>3. EditsNoted(file')
    BY <2>2 DEF Intact, Breaks, EditsNoted
  <2>. QED BY <1>5, <1>7, <2>1, <2>2, <2>3 DEF ForgeWrite, Rewritten
<1>8. CASE Untamper
  <2>1. edits # 0 /\ file' \in Seq(Entry) /\ EditsNoted(file')
    BY <1>1, <1>2, <1>8 DEF Untamper, IInv, Unedited
  <2>. QED BY <1>5, <1>8, <2>1 DEF Untamper, Rewritten
<1>. QED BY <1>4, <1>6, <1>7, <1>8 DEF Edit

\* the agent's head is its whole history, and what was submitted is kept
LEMMA AnchorStep ==
  ASSUME IInv, Submit \/ KeepHead
  PROVE  IInv'
<1>1. /\ UNCHANGED <<seq, prev, file, orig, shown, lastSize, block, edits>>
      /\ anchoring' \cup {anchoredHead'} \subseteq anchoring \cup {anchoredHead} \cup {prev}
  BY DEF Submit, KeepHead, AgentHead
<1>2. prev \in Digest /\ anchoring \subseteq Digest /\ anchoredHead \in Digest /\ IsPrefix(prev, prev)
  BY PrefixRefl DEF IInv, TypeOK, Digest
<1>3. TypeOK'
  BY <1>1, <1>2 DEF IInv, TypeOK
<1>4. AnchorsAreHistory'
  BY <1>1, <1>2 DEF IInv, AnchorsAreHistory
<1>5. ShownFollowsFile' /\ EditsShow' /\ Unedited'
  BY <1>1 DEF IInv, ShownFollowsFile, EditsShow, Unedited
<1>. QED BY <1>3, <1>4, <1>5 DEF IInv

\* and every step preserves it
LEMMA IInvStep == IInv /\ [Next]_vars => IInv'
<1>. SUFFICES ASSUME IInv, [Next]_vars PROVE IInv'
  OBVIOUS
<1>1. ASSUME NEW event \in {"flow", "deny"}, AppendEntry(event) PROVE IInv'
  <2>1. event \in Events
    BY DEF Events
  <2>. QED BY <1>1, <2>1, AppendStep
<1>2. CASE Stat \/ ReadFresh
  BY <1>2, FollowStep
<1>3. CASE Edit
  BY <1>3, EditStep
<1>4. CASE Submit \/ KeepHead
  BY <1>4, AnchorStep
<1>5. CASE UNCHANGED vars
  BY <1>5 DEF vars, consoleVars, IInv, TypeOK, AnchorsAreHistory, ShownFollowsFile, EditsShow, Unedited
<1>. QED BY <1>1, <1>2, <1>3, <1>4, <1>5 DEF Next
-----------------------------------------------------------------------------
(***************************************************************************)
(* Theorems.                                                               *)
(***************************************************************************)

(***************************************************************************)
(* The invariant: types; anchored heads are parts of the agent's history;  *)
(* the console shows a part of the unedited file; a line whose fingerprint *)
(* is wrong is one that 'tamper' turned into a note.                       *)
(***************************************************************************)
THEOREM AuditInvariant == Spec => []IInv
<1>1. IInv /\ [Next]_vars => IInv'
  BY IInvStep
<1>. QED BY <1>1, IInvInitial, PTL DEF Spec

(***************************************************************************)
(* Whatever has become of the file, the witness is only ever given what    *)
(* the agent has logged (server.js:262-264).                               *)
(***************************************************************************)
THEOREM AnchorsHistory == Spec => []AnchorsAreHistory
<1>1. IInv => AnchorsAreHistory
  BY DEF IInv
<1>. QED BY <1>1, AuditInvariant, PTL

(***************************************************************************)
(* No entry is shown twice and none is left out, for as long as nobody     *)
(* edits the file (server.js:128-141).                                     *)
(***************************************************************************)
THEOREM ShownFollows == Spec => []ShownFollowsFile
<1>1. IInv => ShownFollowsFile
  BY DEF IInv
<1>. QED BY <1>1, AuditInvariant, PTL

(***************************************************************************)
(* A file that verifies against an anchored head says, entry for entry,    *)
(* what the agent had logged when the head was taken (zeroport.js:131).    *)
(***************************************************************************)
THEOREM TamperEvidence == Spec => []TamperEvident
<1>1. IInv => TamperEvident
  <2>. SUFFICES ASSUME IInv, anchoredHead # Genesis, VerifyLog(file, anchoredHead)
                PROVE  Contents(file) = anchoredHead
    BY DEF TamperEvident
  <2>1. file \in Seq(Entry) /\ Intact(file) /\ HeadOf(file) = anchoredHead
    BY DEF IInv, TypeOK, VerifyLog
  <2>. QED BY <2>1, IntactStandsFor
<1>. QED BY <1>1, AuditInvariant, PTL

(***************************************************************************)
(* So such a file is a part of what the agent has logged by now: no entry  *)
(* of it is changed, added, moved or left out before its end.              *)
(***************************************************************************)
VerifiedIsLogged ==
  anchoredHead # Genesis /\ VerifyLog(file, anchoredHead) => IsPrefix(Contents(file), prev)

\* What verifies against an anchored head is a part of what was logged
\* (verifyLog, zeroport.js:132-147).
THEOREM VerifiedIsHistory == Spec => []VerifiedIsLogged
<1>1. AnchorsAreHistory /\ TamperEvident => VerifiedIsLogged
  BY DEF AnchorsAreHistory, TamperEvident, VerifiedIsLogged
<1>. QED BY <1>1, AnchorsHistory, TamperEvidence, PTL

(***************************************************************************)
(* An edit that changes the file breaks the chain, with or without an      *)
(* anchor: a changed line keeps the fingerprint of what it said before,    *)
(* or it had a wrong one already.                                          *)
(***************************************************************************)
THEOREM EditIsCaught == Spec => EditCaught
<1>1. IInv /\ [Next]_vars => [TamperWrite /\ file' # block.text => ~Intact(file')]_vars
  <2>. SUFFICES ASSUME IInv, TamperWrite, file' # block.text PROVE ~Intact(file')
    OBVIOUS
  <2>1. /\ block.text \in Seq(Entry) /\ EditsNoted(block.text) /\ Len(block.text) >= 2
        /\ file' = Edited(block.text)
    BY DEF IInv, TypeOK, Block, EditsShow, Unedited, TamperWrite
  <2>. QED BY <2>1, EditBreaks
<1>. QED BY <1>1, AuditInvariant, PTL DEF Spec, EditCaught
=============================================================================
