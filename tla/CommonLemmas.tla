---------------------------- MODULE CommonLemmas ----------------------------
(***************************************************************************)
(* Lemmas about data, which the proofs about the components cite: least    *)
(* numbers and counting, prefixes, parts of sequences, and flattening;     *)
(* and for the signatures residues, loops, powers modulo a prime and the   *)
(* interpolation of polynomials.                                           *)
(***************************************************************************)
EXTENDS Integers, SequencesExt, WellFoundedInduction, SequenceTheorems, FiniteSetTheorems, TLAPS

\* a set of natural numbers has a least one: `<` is well-founded on them
LEMMA LeastNatural ==
  ASSUME NEW T, T \subseteq Nat, T # {}
  PROVE  \E x \in T : \A y \in T : x <= y
<1>1. PICK x \in T : \A y \in T : ~(<<y, x>> \in OpToRel(<, Nat))
  BY NatLessThanWellFounded, WFMin
<1>2. ASSUME NEW y \in T PROVE x <= y
  <2>1. x \in Nat /\ y \in Nat /\ <<y, x>> \in Nat \X Nat
    OBVIOUS
  <2>2. ~(y < x)
    BY <1>1, <2>1 DEF OpToRel
  <2>. QED BY <2>1, <2>2
<1>. QED BY <1>2

\* induction up to n, over the set of numbers for which something holds
LEMMA CountUp ==
  ASSUME NEW n \in Nat, NEW T, 0 \in T, \A k \in 0..(n - 1) : k \in T => k + 1 \in T
  PROVE  \A k \in 0..n : k \in T
<1>. DEFINE Bad == {k \in 0..n : k \notin T}
<1>. SUFFICES ASSUME Bad # {} PROVE FALSE
  OBVIOUS
<1>1. Bad \subseteq Nat
  OBVIOUS
<1>2. PICK k \in Bad : \A y \in Bad : k <= y
  BY <1>1, LeastNatural
<1>3. k \in 0..n /\ k \notin T /\ k # 0
  BY <1>2
<1>4. k - 1 \in 0..(n - 1) /\ k - 1 \in 0..n /\ ~(k <= k - 1) /\ k - 1 + 1 = k
  BY <1>3
<1>5. k - 1 \in T
  BY <1>2, <1>4
<1>. QED BY <1>3, <1>4, <1>5

\* and down from n
LEMMA CountDown ==
  ASSUME NEW n \in Nat, NEW T, n \in T, \A k \in 0..(n - 1) : k + 1 \in T => k \in T
  PROVE  \A k \in 0..n : k \in T
<1>. DEFINE U == {k \in 0..n : n - k \in T}
<1>1. 0 \in U
  BY n - 0 = n
<1>2. ASSUME NEW k \in 0..(n - 1), k \in U PROVE k + 1 \in U
  <2>1. n - k \in T /\ n - (k + 1) \in 0..(n - 1) /\ n - (k + 1) + 1 = n - k /\ k + 1 \in 0..n
    BY <1>2
  <2>. QED BY <2>1
<1>. HIDE DEF U
<1>3. \A k \in 0..n : k \in U
  BY <1>1, <1>2, CountUp
<1>4. ASSUME NEW k \in 0..n PROVE k \in T
  <2>1. n - k \in 0..n /\ n - (n - k) = k
    OBVIOUS
  <2>. QED BY <1>3, <2>1 DEF U
<1>. QED BY <1>4

\* a function that is defined from its value before
Iterates(f, S, n, z, step) ==
  f \in [0..n -> S] /\ f[0] = z /\ \A i \in 1..n : f[i] = step[<<f[i - 1], i>>]

\* any such definition has a function
LEMMA Iterated ==
  ASSUME NEW S, NEW n \in Nat, NEW z \in S, NEW step \in [S \X (1..n) -> S]
  PROVE  \E f : Iterates(f, S, n, z, step)
<1>. DEFINE Up(f, k) == f[0] = z /\ \A i \in 1..k : f[i] = step[<<f[i - 1], i>>]
            Made == {k \in 0..n : \E f \in [0..k -> S] : Up(f, k)}
<1>1. 0 \in Made
  <2>. DEFINE e == [i \in 0..0 |-> z]
  <2>1. e \in [0..0 -> S] /\ Up(e, 0)
    OBVIOUS
  <2>2. \E f \in [0..0 -> S] : Up(f, 0)
    BY <2>1
  <2>. QED BY <2>2
<1>2. ASSUME NEW k \in 0..(n - 1), k \in Made PROVE k + 1 \in Made
  <2>1. PICK f \in [0..k -> S] : Up(f, k)
    BY <1>2
  <2>2. k \in 0..k /\ k + 1 \in 1..n /\ k + 1 \in 0..n /\ k + 1 - 1 = k /\ ~(k + 1 <= k)
    OBVIOUS
  <2>. DEFINE last == step[<<f[k], k + 1>>]
              h == [i \in 0..(k + 1) |-> IF i <= k THEN f[i] ELSE last]
  <2>3. last \in S
    BY <2>2
  <2>. HIDE DEF last
  <2>4. \A i \in 0..k : h[i] = f[i]
    OBVIOUS
  <2>5. h[k + 1] = last
    OBVIOUS
  <2>6. h \in [0..(k + 1) -> S]
    BY <2>3
  <2>. HIDE DEF h
  <2>7. h[0] = z
    BY <2>1, <2>4
  <2>8. ASSUME NEW i \in 1..(k + 1) PROVE h[i] = step[<<h[i - 1], i>>]
    <3>1. CASE i = k + 1
      BY <2>2, <2>4, <2>5, <3>1 DEF last
    <3>2. CASE i # k + 1
      <4>1. i \in 1..k /\ i \in 0..k /\ i - 1 \in 0..k
        BY <3>2
      <4>. QED BY <2>1, <2>4, <4>1
    <3>. QED BY <3>1, <3>2
  <2>9. Up(h, k + 1)
    BY <2>7, <2>8
  <2>. QED BY <2>2, <2>6, <2>9
<1>. HIDE DEF Made
<1>3. \A k \in 0..n : k \in Made
  BY <1>1, <1>2, CountUp
<1>4. n \in Made
  BY <1>3
<1>. QED BY <1>4 DEF Made, Iterates
-----------------------------------------------------------------------------
(***************************************************************************)
(* Prefixes.                                                               *)
(***************************************************************************)
LEMMA PrefixPointwise ==
  ASSUME NEW S, NEW s \in Seq(S), NEW t \in Seq(S)
  PROVE  IsPrefix(s, t) <=> Len(s) <= Len(t) /\ \A i \in 1..Len(s) : s[i] = t[i]
<1>1. Len(s) \in Nat /\ Len(t) \in Nat
  OBVIOUS
<1>2. CASE Len(s) <= Len(t)
  <2>. DEFINE a == SubSeq(s, 1, Len(s))
              b == SubSeq(t, 1, Len(s))
  <2>1. /\ a \in Seq(S) /\ Len(a) = Len(s) /\ \A i \in 1..Len(s) : a[i] = s[i]
        /\ b \in Seq(S) /\ Len(b) = Len(s) /\ \A i \in 1..Len(s) : b[i] = t[i]
    BY <1>1, <1>2
  <2>. HIDE DEF a, b
  <2>2. a = b <=> \A i \in 1..Len(s) : a[i] = b[i]
    BY <2>1, SeqEqual
  <2>3. IsPrefix(s, t) <=> a = b
    BY <1>2 DEF IsPrefix, a, b
  <2>. QED BY <1>2, <2>1, <2>2, <2>3
<1>3. CASE ~(Len(s) <= Len(t))
  BY <1>3 DEF IsPrefix
<1>. QED BY <1>2, <1>3

\* prefixes are ordered
LEMMA PrefixSelf ==
  ASSUME NEW S, NEW s \in Seq(S)
  PROVE  IsPrefix(s, s)
BY PrefixPointwise

\* and a prefix of a prefix is one
LEMMA PrefixTrans ==
  ASSUME NEW S, NEW s \in Seq(S), NEW t \in Seq(S), NEW u \in Seq(S),
         IsPrefix(s, t), IsPrefix(t, u)
  PROVE  IsPrefix(s, u)
<1>1. Len(s) \in Nat /\ Len(t) \in Nat /\ Len(u) \in Nat
  OBVIOUS
<1>2. Len(s) <= Len(t) /\ Len(t) <= Len(u)
  BY PrefixPointwise
<1>3. \A i \in 1..Len(s) : s[i] = t[i] /\ i \in 1..Len(t)
  BY <1>1, <1>2, PrefixPointwise
<1>4. \A i \in 1..Len(t) : t[i] = u[i]
  BY PrefixPointwise
<1>. QED BY <1>1, <1>2, <1>3, <1>4, PrefixPointwise

\* concatenations begin alike, and with their first part
LEMMA PrefixConcat ==
  ASSUME NEW S, NEW s \in Seq(S), NEW t \in Seq(S), NEW u \in Seq(S)
  PROVE  /\ IsPrefix(s, s \o t)
         /\ IsPrefix(t, u) => IsPrefix(s \o t, s \o u)
<1>1. Len(s) \in Nat /\ Len(t) \in Nat /\ Len(u) \in Nat
  OBVIOUS
<1>. DEFINE a == s \o t
            b == s \o u
<1>2. /\ a \in Seq(S) /\ Len(a) = Len(s) + Len(t)
      /\ \A i \in 1..Len(s) : a[i] = s[i]
      /\ \A i \in 1..(Len(s) + Len(t)) : a[i] = IF i <= Len(s) THEN s[i] ELSE t[i - Len(s)]
  BY <1>1, ConcatProperties
<1>3. /\ b \in Seq(S) /\ Len(b) = Len(s) + Len(u)
      /\ \A i \in 1..(Len(s) + Len(u)) : b[i] = IF i <= Len(s) THEN s[i] ELSE u[i - Len(s)]
  BY <1>1, ConcatProperties
<1>. HIDE DEF a, b
<1>4. IsPrefix(s, a)
  BY <1>1, <1>2, PrefixPointwise
<1>5. ASSUME IsPrefix(t, u) PROVE IsPrefix(a, b)
  <2>1. Len(t) <= Len(u) /\ \A i \in 1..Len(t) : t[i] = u[i]
    BY <1>5, PrefixPointwise
  <2>2. ASSUME NEW i \in 1..Len(a) PROVE a[i] = b[i]
    <3>1. i \in 1..(Len(s) + Len(t)) /\ i \in 1..(Len(s) + Len(u))
      BY <1>1, <1>2, <2>1
    <3>2. CASE i <= Len(s)
      BY <1>2, <1>3, <3>1, <3>2
    <3>3. CASE ~(i <= Len(s))
      <4>1. i - Len(s) \in 1..Len(t)
        BY <1>1, <3>1, <3>3
      <4>. QED BY <1>2, <1>3, <2>1, <3>1, <3>3, <4>1
    <3>. QED BY <3>2, <3>3
  <2>3. a \in Seq(S) /\ b \in Seq(S) /\ Len(a) <= Len(b)
    BY <1>1, <1>2, <1>3, <2>1
  <2>. QED BY <2>2, <2>3, PrefixPointwise
<1>. QED BY <1>4, <1>5 DEF a, b

\* a prefix that is as long is the whole
LEMMA PrefixWhole ==
  ASSUME NEW S, NEW s \in Seq(S), NEW t \in Seq(S), IsPrefix(s, t), Len(s) = Len(t)
  PROVE  s = t
BY PrefixPointwise, SeqEqual

\* the parts of a concatenation
LEMMA ConcatParts ==
  ASSUME NEW S, NEW s \in Seq(S), NEW t \in Seq(S)
  PROVE  /\ s \o t \in Seq(S) /\ Len(s \o t) = Len(s) + Len(t)
         /\ \A k \in 1..Len(s) : (s \o t)[k] = s[k]
         /\ \A k \in 1..Len(t) : (s \o t)[Len(s) + k] = t[k]
<1>1. Len(s) \in Nat /\ Len(t) \in Nat
  OBVIOUS
<1>2. /\ s \o t \in Seq(S) /\ Len(s \o t) = Len(s) + Len(t)
      /\ \A i \in 1..(Len(s) + Len(t)) :
           (s \o t)[i] = IF i <= Len(s) THEN s[i] ELSE t[i - Len(s)]
  BY <1>1, ConcatProperties
<1>. DEFINE c == s \o t
<1>. HIDE DEF c
<1>3. ASSUME NEW k \in 1..Len(t) PROVE c[Len(s) + k] = t[k]
  <2>1. Len(s) + k \in 1..(Len(s) + Len(t)) /\ ~(Len(s) + k <= Len(s)) /\ Len(s) + k - Len(s) = k
    BY <1>1
  <2>. QED BY <1>2, <2>1 DEF c
<1>4. ASSUME NEW k \in 1..Len(s) PROVE c[k] = s[k]
  <2>1. k \in 1..(Len(s) + Len(t)) /\ k <= Len(s)
    BY <1>1
  <2>. QED BY <1>2, <2>1 DEF c
<1>. QED BY <1>2, <1>3, <1>4 DEF c

\* a sequence cut in two
LEMMA Split ==
  ASSUME NEW S, NEW s \in Seq(S), NEW n \in 0..Len(s)
  PROVE  /\ SubSeq(s, 1, n) \in Seq(S) /\ Len(SubSeq(s, 1, n)) = n
         /\ \A i \in 1..n : SubSeq(s, 1, n)[i] = s[i]
         /\ SubSeq(s, n + 1, Len(s)) \in Seq(S)
         /\ Len(SubSeq(s, n + 1, Len(s))) = Len(s) - n
         /\ \A i \in 1..(Len(s) - n) : SubSeq(s, n + 1, Len(s))[i] = s[n + i]
         /\ SubSeq(s, 1, n) \o SubSeq(s, n + 1, Len(s)) = s
         /\ IsPrefix(SubSeq(s, 1, n), s)
<1>. DEFINE m == Len(s)
            a == SubSeq(s, 1, n)
            b == SubSeq(s, n + 1, m)
<1>1. m \in Nat /\ n \in Nat /\ n <= m
  OBVIOUS
<1>2. \A i \in 1..m : s[i] \in S
  OBVIOUS
<1>. HIDE DEF m
<1>3. a \in Seq(S) /\ Len(a) = n /\ \A i \in 1..n : a[i] = s[i]
  <2>1. 1 \in Int /\ n \in Int /\ \A i \in 1..n : s[i] \in S
    BY <1>1, <1>2
  <2>2. /\ a \in Seq(S) /\ Len(a) = (IF 1 <= n THEN n - 1 + 1 ELSE 0)
        /\ \A i \in 1..(n - 1 + 1) : a[i] = s[1 + i - 1]
    BY <2>1, SubSeqProperties
  <2>3. n - 1 + 1 = n /\ (IF 1 <= n THEN n ELSE 0) = n /\ \A i \in 1..n : 1 + i - 1 = i
    BY <1>1
  <2>. HIDE DEF a
  <2>. QED BY <2>2, <2>3
<1>4. b \in Seq(S) /\ Len(b) = m - n /\ \A i \in 1..(m - n) : b[i] = s[n + i]
  <2>. DEFINE lo == n + 1
  <2>1. lo \in Int /\ m \in Int /\ \A i \in lo..m : s[i] \in S
    BY <1>1, <1>2
  <2>2. /\ (IF lo <= m THEN m - lo + 1 ELSE 0) = m - n
        /\ m - lo + 1 = m - n /\ \A i \in 1..(m - n) : lo + i - 1 = n + i
    BY <1>1
  <2>3. b = SubSeq(s, lo, m)
    OBVIOUS
  <2>. HIDE DEF lo, b
  <2>4. /\ b \in Seq(S) /\ Len(b) = IF lo <= m THEN m - lo + 1 ELSE 0
        /\ \A i \in 1..(m - lo + 1) : b[i] = s[lo + i - 1]
    BY ONLY <2>1, <2>3, SubSeqProperties
  <2>. QED BY <2>2, <2>4
<1>. HIDE DEF a, b
<1>5. a \o b = s
  <2>1. /\ a \o b \in Seq(S) /\ Len(a \o b) = n + (m - n)
        /\ \A k \in 1..n : (a \o b)[k] = a[k]
        /\ \A k \in 1..(m - n) : (a \o b)[n + k] = b[k]
    <3>1. a \in Seq(S) /\ b \in Seq(S)
      BY <1>3, <1>4
    <3>2. /\ a \o b \in Seq(S) /\ Len(a \o b) = Len(a) + Len(b)
          /\ \A k \in 1..Len(a) : (a \o b)[k] = a[k]
          /\ \A k \in 1..Len(b) : (a \o b)[Len(a) + k] = b[k]
      BY ONLY <3>1, ConcatParts
    <3>. QED BY <1>3, <1>4, <3>2
  <2>2. n + (m - n) = m
    BY <1>1
  <2>3. ASSUME NEW k \in 1..m PROVE (a \o b)[k] = s[k]
    <3>1. CASE k <= n
      <4>1. k \in 1..n
        BY <3>1
      <4>. QED BY <1>3, <2>1, <4>1
    <3>2. CASE ~(k <= n)
      <4>1. k - n \in 1..(m - n) /\ n + (k - n) = k
        BY <1>1, <3>2
      <4>. QED BY <1>4, <2>1, <4>1
    <3>. QED BY <3>1, <3>2
  <2>. QED BY <2>1, <2>2, <2>3, SeqEqual DEF m
<1>6. IsPrefix(a, s)
  BY <1>1, <1>3, PrefixPointwise DEF m
<1>. QED BY <1>3, <1>4, <1>5, <1>6 DEF a, b, m
-----------------------------------------------------------------------------
(***************************************************************************)
(* FlattenSeq, one sequence after the other.                               *)
(***************************************************************************)
LEMMA Flattened ==
  ASSUME NEW S, NEW seqs \in Seq(Seq(S))
  PROVE  \E F \in [0..Len(seqs) -> Seq(S)] :
           /\ F[0] = <<>> /\ F[Len(seqs)] = FlattenSeq(seqs)
           /\ \A i \in 1..Len(seqs) : F[i] = F[i - 1] \o seqs[i]
           /\ \A i \in 0..Len(seqs) : IsPrefix(F[i], F[Len(seqs)])
<1>. DEFINE n == Len(seqs)
            E(x, i) == IF i = 1 THEN seqs[i] ELSE x \o seqs[i]
            G(f, k) == [i \in 1..k |-> E(f[i - 1], i)]
            Made == {k \in 0..n : \E f : f = G(f, k)}
<1>1. n \in Nat /\ \A i \in 1..n : seqs[i] \in Seq(S)
  OBVIOUS
<1>2. \A x, y : E(x, 1) = E(y, 1)
  OBVIOUS
<1>. HIDE DEF E
<1>3. \A k \in 0..n : k \in Made
  <2>1. 0 \in Made
    <3>. DEFINE e == [i \in 1..0 |-> 0]
    <3>1. \A i \in 1..0 : e[i] = E(e[i - 1], i)
      OBVIOUS
    <3>2. e = G(e, 0)
      BY <3>1
    <3>3. \E f : f = G(f, 0)
      BY <3>2
    <3>4. 0 \in 0..n
      BY <1>1
    <3>. QED BY <3>3, <3>4
  <2>2. ASSUME NEW k \in 0..(n - 1), k \in Made PROVE k + 1 \in Made
    <3>1. PICK f : f = G(f, k)
      BY <2>2
    <3>2. \A i \in 1..k : f[i] = E(f[i - 1], i)
      BY <3>1
    <3>. DEFINE h == [i \in 1..(k + 1) |-> E(f[i - 1], i)]
    <3>3. \A i \in 1..k : i \in 1..(k + 1) /\ h[i] = f[i]
      BY <1>1, <3>2
    <3>4. \A i \in 1..(k + 1) : E(h[i - 1], i) = E(f[i - 1], i)
      <4>1. ASSUME NEW i \in 1..(k + 1) PROVE E(h[i - 1], i) = E(f[i - 1], i)
        <5>1. CASE i = 1
          BY <1>2, <5>1
        <5>2. CASE i # 1
          <6>1. i - 1 \in 1..k
            BY <1>1, <5>2
          <6>. QED BY <3>3, <6>1
        <5>. QED BY <5>1, <5>2
      <4>. QED BY <4>1
    <3>5. h = G(h, k + 1)
      BY <3>4
    <3>6. k + 1 \in 0..n
      BY <1>1
    <3>. QED BY <3>5, <3>6
  <2>. HIDE DEF Made
  <2>. QED BY <1>1, <2>1, <2>2, CountUp
<1>. DEFINE g == CHOOSE f : f = G(f, n)
<1>4. g = G(g, n)
  <2>1. n \in Made
    <3>1. n \in 0..n
      BY <1>1
    <3>. HIDE DEF Made, n
    <3>. QED BY <1>3, <3>1
  <2>2. \E f : f = G(f, n)
    BY <2>1
  <2>. HIDE DEF G
  <2>. QED BY <2>2
<1>5. n # 0 => FlattenSeq(seqs) = g[n]
  BY DEF FlattenSeq, E
<1>. HIDE DEF g
<1>. DEFINE F == [i \in 0..n |-> IF i = 0 THEN <<>> ELSE g[i]]
<1>6. \A i \in 1..n : F[i] = F[i - 1] \o seqs[i]
  <2>1. ASSUME NEW i \in 1..n PROVE F[i] = F[i - 1] \o seqs[i]
    <3>1. g[i] = E(g[i - 1], i)
      BY <1>4
    <3>2. F[i] = g[i]
      BY <1>1
    <3>3. CASE i = 1
      <4>1. F[i - 1] = <<>> /\ <<>> \o seqs[i] = seqs[i] /\ E(g[i - 1], i) = seqs[i]
        BY <1>1, <3>3 DEF E
      <4>. QED BY <3>1, <3>2, <4>1
    <3>4. CASE i # 1
      <4>1. i - 1 \in 0..n /\ i - 1 # 0
        BY <1>1, <3>4
      <4>2. F[i - 1] = g[i - 1] /\ E(g[i - 1], i) = g[i - 1] \o seqs[i]
        BY <3>4, <4>1 DEF E
      <4>. QED BY <3>1, <3>2, <4>2
    <3>. QED BY <3>3, <3>4
  <2>. QED BY <2>1
<1>10. F[0] = <<>> /\ DOMAIN F = 0..n /\ F = [i \in 0..n |-> F[i]] /\ \A i \in 0..n : i # 0 => F[i] = g[i]
  BY <1>1
<1>. HIDE DEF F
<1>12. \A k \in 0..(n - 1) : F[k + 1] = F[k] \o seqs[k + 1]
  <2>1. ASSUME NEW k \in 0..(n - 1) PROVE F[k + 1] = F[k] \o seqs[k + 1]
    <3>. DEFINE j == k + 1
    <3>1. j \in 1..n /\ j - 1 = k
      BY <1>1
    <3>. HIDE DEF j
    <3>2. F[j] = F[j - 1] \o seqs[j]
      BY <1>6, <3>1
    <3>. QED BY <3>1, <3>2 DEF j
  <2>. QED BY <2>1
<1>11. \A i \in 0..n : F[i] \in Seq(S)
  <2>. DEFINE T == {i \in 0..n : F[i] \in Seq(S)}
  <2>1. 0 \in T
    <3>1. <<>> \in Seq(S) /\ 0 \in 0..n
      BY <1>1
    <3>. QED BY <1>10, <3>1
  <2>2. ASSUME NEW k \in 0..(n - 1), k \in T PROVE k + 1 \in T
    <3>1. k + 1 \in 1..n /\ k + 1 \in 0..n /\ k + 1 - 1 = k
      BY <1>1
    <3>2. F[k] \in Seq(S) /\ seqs[k + 1] \in Seq(S)
      <4>1. F[k] \in Seq(S)
        BY <2>2
      <4>2. seqs[k + 1] \in Seq(S)
        BY <1>1, <3>1
      <4>. QED BY <4>1, <4>2
    <3>3. F[k + 1] = F[k] \o seqs[k + 1]
      BY <1>12
    <3>4. F[k] \o seqs[k + 1] \in Seq(S)
      BY <3>2
    <3>. QED BY <3>1, <3>3, <3>4
  <2>. HIDE DEF T
  <2>3. \A k \in 0..n : k \in T
    BY <1>1, <2>1, <2>2, CountUp
  <2>. QED BY <2>3 DEF T
<1>7. F \in [0..n -> Seq(S)] /\ F[0] = <<>>
  BY <1>10, <1>11
<1>8. F[n] = FlattenSeq(seqs)
  <2>1. CASE n = 0
    <3>1. FlattenSeq(seqs) = seqs
      BY <2>1 DEF FlattenSeq
    <3>2. seqs = <<>>
      BY <2>1
    <3>. QED BY <1>7, <2>1, <3>1, <3>2
  <2>2. CASE n # 0
    <3>1. n \in 0..n
      BY <1>1
    <3>2. F[n] = g[n]
      BY <1>10, <2>2, <3>1
    <3>. QED BY <1>5, <2>2, <3>2
  <2>. QED BY <2>1, <2>2
<1>9. \A i \in 0..n : IsPrefix(F[i], F[n])
  <2>. DEFINE T == {i \in 0..n : IsPrefix(F[i], F[n])}
  <2>1. n \in T
    BY <1>1, <1>11, PrefixSelf
  <2>2. ASSUME NEW k \in 0..(n - 1), k + 1 \in T PROVE k \in T
    <3>1. k + 1 \in 1..n /\ k + 1 \in 0..n /\ k \in 0..n /\ n \in 0..n /\ k + 1 - 1 = k
      BY <1>1
    <3>2. F[k] \in Seq(S) /\ F[k + 1] \in Seq(S) /\ F[n] \in Seq(S) /\ seqs[k + 1] \in Seq(S)
      <4>1. seqs[k + 1] \in Seq(S)
        BY <1>1, <3>1
      <4>. QED BY <1>11, <3>1, <4>1
    <3>3. F[k + 1] = F[k] \o seqs[k + 1]
      BY <1>12
    <3>4. IsPrefix(F[k], F[k + 1])
      BY <3>2, <3>3, PrefixConcat
    <3>5. IsPrefix(F[k + 1], F[n])
      BY <2>2
    <3>. QED BY <3>1, <3>2, <3>4, <3>5, PrefixTrans
  <2>. HIDE DEF T
  <2>3. \A k \in 0..n : k \in T
    BY <1>1, <2>1, <2>2, CountDown
  <2>. QED BY <2>3 DEF T
<1>. QED BY <1>6, <1>7, <1>8, <1>9

\* the parts of s, and then those of t
LEMMA FlattenConcat ==
  ASSUME NEW S, NEW s \in Seq(Seq(S)), NEW t \in Seq(Seq(S))
  PROVE  /\ FlattenSeq(s) \in Seq(S) /\ FlattenSeq(t) \in Seq(S)
         /\ FlattenSeq(s \o t) = FlattenSeq(s) \o FlattenSeq(t)
<1>. DEFINE m == Len(s)
            n == Len(t)
            u == s \o t
<1>b. \A x, y, w \in Seq(S) : (x \o y) \o w = x \o (y \o w)
  BY ONLY SMTT(30), ConcatAssociative
<1>1. /\ m \in Nat /\ n \in Nat
      /\ \A i \in 1..m : s[i] \in Seq(S)
      /\ \A i \in 1..n : t[i] \in Seq(S)
  OBVIOUS
<1>2. /\ u \in Seq(Seq(S)) /\ Len(u) = m + n
      /\ \A i \in 1..m : u[i] = s[i]
      /\ \A i \in 1..n : u[m + i] = t[i]
  BY ConcatParts
<1>3. PICK F \in [0..m -> Seq(S)] : /\ F[0] = <<>> /\ F[m] = FlattenSeq(s)
                                   /\ \A i \in 1..m : F[i] = F[i - 1] \o s[i]
  BY Flattened
<1>4. PICK G \in [0..n -> Seq(S)] : /\ G[0] = <<>> /\ G[n] = FlattenSeq(t)
                                   /\ \A i \in 1..n : G[i] = G[i - 1] \o t[i]
  BY Flattened
<1>. HIDE DEF u, m, n
<1>a. PICK H \in [0..Len(u) -> Seq(S)] :
         /\ H[0] = <<>> /\ H[Len(u)] = FlattenSeq(u)
         /\ \A i \in 1..Len(u) : H[i] = H[i - 1] \o u[i]
  BY ZenonT(30), <1>2, Flattened
<1>5. /\ H[0] = <<>> /\ H[m + n] = FlattenSeq(u)
      /\ \A i \in 1..(m + n) : H[i] = H[i - 1] \o u[i]
  BY <1>2, <1>a
<1>6. \A k \in 0..m : H[k] = F[k]
  <2>. DEFINE T == {k \in 0..m : H[k] = F[k]}
  <2>1. 0 \in T
    BY <1>1, <1>3, <1>5
  <2>2. ASSUME NEW k \in 0..(m - 1), k \in T PROVE k + 1 \in T
    <3>. DEFINE j == k + 1
    <3>1. j \in 1..m /\ j \in 0..m /\ j \in 1..(m + n) /\ j - 1 = k
      BY <1>1
    <3>. HIDE DEF j
    <3>2. H[j] = H[k] \o u[j] /\ F[j] = F[k] \o s[j] /\ u[j] = s[j]
      BY <1>2, <1>3, <1>5, <3>1
    <3>3. j \in T
      BY <2>2, <3>1, <3>2
    <3>. QED BY <3>3 DEF j
  <2>. HIDE DEF T
  <2>3. \A k \in 0..m : k \in T
    BY <1>1, <2>1, <2>2, CountUp
  <2>. QED BY <2>3 DEF T
<1>7. FlattenSeq(s) \in Seq(S) /\ FlattenSeq(t) \in Seq(S)
  <2>1. m \in 0..m /\ n \in 0..n
    BY <1>1
  <2>. QED BY <1>3, <1>4, <2>1
<1>8. \A k \in 0..n : H[m + k] = F[m] \o G[k]
  <2>. DEFINE T == {k \in 0..n : H[m + k] = F[m] \o G[k]}
  <2>1. 0 \in T
    <3>1. m + 0 = m /\ m \in 0..m /\ 0 \in 0..n
      BY <1>1
    <3>2. F[m] \o <<>> = F[m]
      BY <3>1, ConcatEmptySeq
    <3>. QED BY <1>4, <1>6, <3>1, <3>2
  <2>2. ASSUME NEW k \in 0..(n - 1), k \in T PROVE k + 1 \in T
    <3>. DEFINE j == k + 1
                mj == m + j
    <3>1. /\ j \in 1..n /\ j \in 0..n /\ k \in 0..n /\ j - 1 = k
          /\ mj \in 1..(m + n) /\ mj - 1 = m + k /\ m \in 0..m
      BY <1>1
    <3>2. u[mj] = t[j]
      BY <1>2, <3>1
    <3>. HIDE DEF mj, j
    <3>3. H[mj] = H[m + k] \o t[j]
      BY <1>5, <3>1, <3>2
    <3>4. H[m + k] = F[m] \o G[k]
      BY <2>2
    <3>5. G[j] = G[k] \o t[j]
      BY <1>4, <3>1
    <3>6. F[m] \in Seq(S) /\ G[k] \in Seq(S) /\ t[j] \in Seq(S)
      BY <1>1, <3>1
    <3>7. (F[m] \o G[k]) \o t[j] = F[m] \o (G[k] \o t[j])
      BY ONLY <1>b, <3>6
    <3>8. H[mj] = F[m] \o G[j]
      BY <3>3, <3>4, <3>5, <3>7
    <3>9. j \in T
      BY <3>1, <3>8 DEF mj
    <3>. QED BY <3>9 DEF j
  <2>. HIDE DEF T
  <2>3. \A k \in 0..n : k \in T
    BY <1>1, <2>1, <2>2, CountUp
  <2>. QED BY <2>3 DEF T
<1>9. H[m + n] = F[m] \o G[n]
  <2>1. n \in 0..n
    BY <1>1
  <2>. QED BY <1>8, <2>1
<1>. QED BY <1>3, <1>4, <1>5, <1>7, <1>9 DEF u

\* one sequence, or none
LEMMA FlattenOne ==
  ASSUME NEW S, NEW s \in Seq(S)
  PROVE  FlattenSeq(<<s>>) = s
<1>. DEFINE q == <<s>>
<1>1. q \in Seq(Seq(S)) /\ Len(q) = 1 /\ q[1] = s
  OBVIOUS
<1>. HIDE DEF q
<1>a. PICK F \in [0..Len(q) -> Seq(S)] : /\ F[0] = <<>> /\ F[Len(q)] = FlattenSeq(q)
                                        /\ \A i \in 1..Len(q) : F[i] = F[i - 1] \o q[i]
  BY <1>1, Flattened
<1>2. /\ F[0] = <<>> /\ F[1] = FlattenSeq(q)
      /\ \A i \in 1..1 : F[i] = F[i - 1] \o q[i]
  BY <1>1, <1>a
<1>3. 1 \in 1..1 /\ 1 - 1 = 0
  OBVIOUS
<1>4. F[1] = <<>> \o s
  BY <1>1, <1>2, <1>3
<1>5. <<>> \o s = s
  BY ConcatEmptySeq
<1>. QED BY <1>2, <1>4, <1>5 DEF q

\* no sequences give nothing
LEMMA FlattenNone == FlattenSeq(<<>>) = <<>>
BY DEF FlattenSeq
-----------------------------------------------------------------------------
(***************************************************************************)
(* Parts of sequences, and their neighbours.                               *)
(***************************************************************************)
\* the elements after the m-th, up to the n-th
LEMMA SubSeqParts ==
  ASSUME NEW S, NEW s \in Seq(S), NEW m \in 0..Len(s), NEW n \in m..Len(s)
  PROVE  /\ SubSeq(s, m + 1, n) \in Seq(S) /\ Len(SubSeq(s, m + 1, n)) = n - m
         /\ \A i \in 1..(n - m) : SubSeq(s, m + 1, n)[i] = s[m + i]
<1>. DEFINE lo == m + 1
<1>1. Len(s) \in Nat /\ m \in Nat /\ n \in Nat /\ m <= n /\ n <= Len(s)
  OBVIOUS
<1>2. lo \in Int /\ n \in Int /\ \A i \in lo..n : s[i] \in S
  <2>1. \A i \in lo..n : i \in 1..Len(s)
    BY <1>1
  <2>. QED BY <1>1, <2>1, ElementOfSeq
<1>3. /\ (IF lo <= n THEN n - lo + 1 ELSE 0) = n - m
      /\ n - lo + 1 = n - m /\ \A i \in 1..(n - m) : lo + i - 1 = m + i
  BY <1>1
<1>. HIDE DEF lo
<1>4. /\ SubSeq(s, lo, n) \in Seq(S) /\ Len(SubSeq(s, lo, n)) = IF lo <= n THEN n - lo + 1 ELSE 0
      /\ \A i \in 1..(n - lo + 1) : SubSeq(s, lo, n)[i] = s[lo + i - 1]
  BY ONLY <1>2, SubSeqProperties
<1>5. /\ SubSeq(s, lo, n) \in Seq(S) /\ Len(SubSeq(s, lo, n)) = n - m
      /\ \A i \in 1..(n - m) : SubSeq(s, lo, n)[i] = s[m + i]
  BY <1>3, <1>4
<1>. QED BY <1>5 DEF lo

\* k elements after the c-th
LEMMA PartAt ==
  ASSUME NEW S, NEW s \in Seq(S), NEW c \in Nat, NEW k \in Nat, c + k <= Len(s)
  PROVE  /\ SubSeq(s, c + 1, c + k) \in Seq(S) /\ Len(SubSeq(s, c + 1, c + k)) = k
         /\ \A j \in 1..k : SubSeq(s, c + 1, c + k)[j] = s[c + j]
<1>. DEFINE e == c + k
<1>1. Len(s) \in Nat
  BY LenProperties
<1>2. c \in 0..Len(s) /\ e \in c..Len(s) /\ e - c = k
  BY <1>1
<1>. HIDE DEF e
<1>3. /\ SubSeq(s, c + 1, e) \in Seq(S) /\ Len(SubSeq(s, c + 1, e)) = e - c
      /\ \A j \in 1..(e - c) : SubSeq(s, c + 1, e)[j] = s[c + j]
  BY ONLY <1>2, SubSeqParts
<1>4. /\ SubSeq(s, c + 1, e) \in Seq(S) /\ Len(SubSeq(s, c + 1, e)) = k
      /\ \A j \in 1..k : SubSeq(s, c + 1, e)[j] = s[c + j]
  BY ONLY <1>2, <1>3
<1>. QED BY <1>4 DEF e

\* the parts of three sequences, one after the other
LEMMA ThreeParts ==
  ASSUME NEW S, NEW s \in Seq(S), NEW t \in Seq(S), NEW u \in Seq(S)
  PROVE  /\ s \o t \o u \in Seq(S) /\ Len(s \o t \o u) = Len(s) + Len(t) + Len(u)
         /\ \A k \in 1..Len(s) : (s \o t \o u)[k] = s[k]
         /\ \A k \in 1..Len(t) : (s \o t \o u)[Len(s) + k] = t[k]
         /\ \A k \in 1..Len(u) : (s \o t \o u)[Len(s) + Len(t) + k] = u[k]
<1>. DEFINE v == s \o t
<1>1. /\ v \in Seq(S) /\ Len(v) = Len(s) + Len(t)
      /\ \A k \in 1..Len(s) : v[k] = s[k]
      /\ \A k \in 1..Len(t) : v[Len(s) + k] = t[k]
  BY ONLY ConcatParts, s \in Seq(S), t \in Seq(S)
<1>2. Len(s) \in Nat /\ Len(t) \in Nat /\ Len(u) \in Nat
  OBVIOUS
<1>. HIDE DEF v
<1>3. /\ v \o u \in Seq(S) /\ Len(v \o u) = Len(v) + Len(u)
      /\ \A k \in 1..Len(v) : (v \o u)[k] = v[k]
      /\ \A k \in 1..Len(u) : (v \o u)[Len(v) + k] = u[k]
  <2>1. v \in Seq(S)
    BY <1>1
  <2>. QED BY ONLY ConcatParts, <2>1, u \in Seq(S)
<1>. DEFINE w == v \o u
<1>. HIDE DEF w
<1>4. /\ w \in Seq(S) /\ Len(w) = Len(v) + Len(u)
      /\ \A k \in 1..Len(v) : w[k] = v[k]
      /\ \A k \in 1..Len(u) : w[Len(v) + k] = u[k]
  BY <1>3 DEF w
<1>5. \A k \in 1..Len(s) : k \in 1..Len(v)
  BY <1>1, <1>2
<1>6. \A k \in 1..Len(t) : Len(s) + k \in 1..Len(v)
  BY <1>1, <1>2
<1>7. /\ w \in Seq(S) /\ Len(w) = Len(s) + Len(t) + Len(u)
      /\ \A k \in 1..Len(u) : w[Len(s) + Len(t) + k] = u[k]
  BY <1>1, <1>4
<1>8. /\ \A k \in 1..Len(s) : w[k] = s[k]
      /\ \A k \in 1..Len(t) : w[Len(s) + k] = t[k]
  BY <1>1, <1>4, <1>5, <1>6
<1>. QED BY <1>7, <1>8 DEF w, v

\* neighbouring parts of a sequence
LEMMA SubSeqJoin ==
  ASSUME NEW S, NEW s \in Seq(S), NEW k \in 0..Len(s), NEW m \in k..Len(s), NEW n \in m..Len(s)
  PROVE  SubSeq(s, k + 1, m) \o SubSeq(s, m + 1, n) = SubSeq(s, k + 1, n)
<1>. DEFINE a == SubSeq(s, k + 1, m)
            c == SubSeq(s, m + 1, n)
            e == SubSeq(s, k + 1, n)
<1>0. Len(s) \in Nat
  BY LenProperties
<1>1. /\ k \in Nat /\ m \in Nat /\ n \in Nat /\ k <= m /\ m <= n /\ n <= Len(s)
      /\ m \in 0..Len(s) /\ n \in k..Len(s)
  BY <1>0
<1>2. a \in Seq(S) /\ Len(a) = m - k /\ \A i \in 1..(m - k) : a[i] = s[k + i]
  BY ONLY s \in Seq(S), k \in 0..Len(s), m \in k..Len(s), SubSeqParts
<1>3. c \in Seq(S) /\ Len(c) = n - m /\ \A i \in 1..(n - m) : c[i] = s[m + i]
  BY ONLY s \in Seq(S), <1>1, n \in m..Len(s), SubSeqParts
<1>4. e \in Seq(S) /\ Len(e) = n - k /\ \A i \in 1..(n - k) : e[i] = s[k + i]
  BY ONLY s \in Seq(S), <1>1, k \in 0..Len(s), SubSeqParts
<1>. HIDE DEF a, c, e
<1>5. /\ a \o c \in Seq(S) /\ Len(a \o c) = Len(a) + Len(c)
      /\ \A i \in 1..Len(a) : (a \o c)[i] = a[i]
      /\ \A i \in 1..Len(c) : (a \o c)[Len(a) + i] = c[i]
  <2>1. a \in Seq(S) /\ c \in Seq(S)
    BY <1>2, <1>3
  <2>. QED BY ONLY <2>1, ConcatParts
<1>. DEFINE w == a \o c
<1>. HIDE DEF w
<1>6. /\ w \in Seq(S) /\ Len(w) = n - k
      /\ \A i \in 1..(m - k) : w[i] = a[i]
      /\ \A i \in 1..(n - m) : w[m - k + i] = c[i]
  <2>1. Len(a) = m - k /\ Len(c) = n - m
    BY <1>2, <1>3
  <2>2. m - k + (n - m) = n - k
    BY <1>1
  <2>3. w \in Seq(S) /\ Len(w) = n - k
    BY <1>5, <2>1, <2>2 DEF w
  <2>4. \A i \in 1..(m - k) : w[i] = a[i]
    BY <1>5, <2>1 DEF w
  <2>5. \A i \in 1..(n - m) : w[m - k + i] = c[i]
    BY <1>5, <2>1 DEF w
  <2>. QED BY <2>3, <2>4, <2>5
<1>7. ASSUME NEW i \in 1..(n - k) PROVE w[i] = e[i]
  <2>1. CASE i <= m - k
    <3>1. i \in 1..(m - k)
      BY <1>1, <2>1
    <3>. QED BY <1>2, <1>4, <1>6, <3>1
  <2>2. CASE ~(i <= m - k)
    <3>. DEFINE j == i - (m - k)
    <3>1. j \in 1..(n - m) /\ m - k + j = i /\ m + j = k + i
      BY <1>1, <2>2
    <3>. HIDE DEF j
    <3>2. w[m - k + j] = c[j] /\ c[j] = s[m + j]
      BY <1>3, <1>6, <3>1
    <3>. QED BY <1>4, <3>1, <3>2
  <2>. QED BY <2>1, <2>2
<1>8. w = e
  BY <1>4, <1>6, <1>7, SeqEqual
<1>. QED BY <1>8 DEF w, a, c, e

\* none of a sequence, and one element of it
LEMMA SubSeqSmall ==
  ASSUME NEW S, NEW s \in Seq(S), NEW k \in 0..Len(s)
  PROVE  /\ SubSeq(s, k + 1, k) = <<>>
         /\ k < Len(s) => SubSeq(s, k + 1, k + 1) = <<s[k + 1]>>
<1>1. Len(s) \in Nat /\ k \in Nat /\ k \in k..Len(s) /\ k - k = 0
  <2>1. Len(s) \in Nat
    BY LenProperties
  <2>. QED BY <2>1
<1>2. SubSeq(s, k + 1, k) \in Seq(S) /\ Len(SubSeq(s, k + 1, k)) = k - k
  BY ONLY s \in Seq(S), k \in 0..Len(s), <1>1, SubSeqParts
<1>3. SubSeq(s, k + 1, k) = <<>>
  BY <1>1, <1>2, EmptySeq
<1>4. ASSUME k < Len(s) PROVE SubSeq(s, k + 1, k + 1) = <<s[k + 1]>>
  <2>. DEFINE n == k + 1
              a == SubSeq(s, k + 1, n)
              e == <<s[n]>>
  <2>1. n \in k..Len(s) /\ n - k = 1 /\ n \in 1..Len(s) /\ k + 1 = n
    BY <1>1, <1>4
  <2>. HIDE DEF n
  <2>2. a \in Seq(S) /\ Len(a) = n - k /\ \A i \in 1..(n - k) : a[i] = s[k + i]
    BY ONLY s \in Seq(S), k \in 0..Len(s), <2>1, SubSeqParts
  <2>. HIDE DEF a
  <2>3. s[n] \in S
    BY ONLY s \in Seq(S), <2>1, ElementOfSeq
  <2>4. e \in Seq(S) /\ Len(e) = 1 /\ e[1] = s[n]
    BY <2>3
  <2>. HIDE DEF e
  <2>5. \A i \in 1..1 : a[i] = e[i]
    <3>1. a[1] = s[k + 1]
      BY <2>1, <2>2
    <3>. QED BY <2>1, <2>4, <3>1
  <2>6. a = e
    BY <2>1, <2>2, <2>4, <2>5, SeqEqual
  <2>. QED BY <2>6 DEF a, e, n
<1>. QED BY <1>3, <1>4

\* one element more
LEMMA OneMore ==
  ASSUME NEW S, NEW s \in Seq(S), NEW x \in S
  PROVE  /\ <<x>> \in Seq(S) /\ Append(s, x) = s \o <<x>>
         /\ s \o <<x>> \in Seq(S) /\ Len(s \o <<x>>) = Len(s) + 1
         /\ \A i \in 1..Len(s) : (s \o <<x>>)[i] = s[i]
         /\ (s \o <<x>>)[Len(s) + 1] = x
<1>. DEFINE y == <<x>>
<1>1. y \in Seq(S) /\ Len(y) = 1 /\ y[1] = x
  OBVIOUS
<1>2. Append(s, x) = s \o y
  <2>1. \A z \in S : Append(s, z) = s \o <<z>>
    BY ONLY s \in Seq(S), AppendProperties, AppendIsConcat
  <2>. QED BY <2>1
<1>. HIDE DEF y
<1>3. /\ s \o y \in Seq(S) /\ Len(s \o y) = Len(s) + Len(y)
      /\ \A i \in 1..Len(s) : (s \o y)[i] = s[i]
      /\ \A i \in 1..Len(y) : (s \o y)[Len(s) + i] = y[i]
  BY ONLY s \in Seq(S), <1>1, ConcatParts
<1>4. 1 \in 1..1
  OBVIOUS
<1>5. (s \o y)[Len(s) + 1] = x
  BY <1>1, <1>3, <1>4
<1>6. Len(s \o y) = Len(s) + 1
  BY <1>1, <1>3
<1>. QED BY <1>1, <1>2, <1>3, <1>5, <1>6 DEF y
-----------------------------------------------------------------------------
(***************************************************************************)
(* Residues.                                                               *)
(***************************************************************************)
Res(a, m) == a % m

\* what is left of a division
LEMMA Division ==
  ASSUME NEW m \in Nat \ {0}, NEW a \in Int
  PROVE  /\ Res(a, m) \in 0..(m - 1) /\ Res(a, m) \in Int
         /\ a \div m \in Int /\ a = ((a \div m) * m) + Res(a, m)
BY DEF Res

\* a natural number is a multiple and a residue
LEMMA Quotient ==
  ASSUME NEW m \in Nat \ {0}, NEW a \in Nat
  PROVE  Res(a, m) \in 0..(m - 1) /\ \E q \in Nat : a = (q * m) + Res(a, m)
<1>. DEFINE q == a \div m
            r == Res(a, m)
<1>0. a \in Int
  OBVIOUS
<1>1. r \in 0..(m - 1) /\ q \in Int /\ a = (q * m) + r
  BY <1>0, Division
<1>. HIDE DEF q, r
<1>2. r \in Int /\ r < m /\ a = (q * m) + r
  BY <1>1
<1>3. ASSUME q < 0 PROVE FALSE
  <2>1. q + 1 <= 0
    BY <1>1, <1>3
  <2>2. (q + 1) * m <= 0
    BY <1>1, <2>1
  <2>3. (q + 1) * m = (q * m) + m
    BY <1>1
  <2>. QED BY <1>1, <1>2, <2>2, <2>3
<1>4. q \in Nat
  BY <1>1, <1>3
<1>. QED BY <1>1, <1>2, <1>4 DEF r

\* there is one residue
LEMMA ResUnique ==
  ASSUME NEW m \in Nat \ {0}, NEW a \in Int, NEW q \in Int, NEW r \in 0..(m - 1), a = (q * m) + r
  PROVE  Res(a, m) = r
BY DEF Res

\* a residue is its own
LEMMA ResSmall ==
  ASSUME NEW m \in Nat \ {0}, NEW r \in 0..(m - 1)
  PROVE  Res(r, m) = r
<1>1. r \in Int /\ 0 \in Int /\ r = (0 * m) + r
  OBVIOUS
<1>. QED BY <1>1, ResUnique

\* multiples of m do not change it
LEMMA ResOf ==
  ASSUME NEW m \in Nat \ {0}, NEW a \in Int, NEW b \in Int, NEW q \in Int, a = (q * m) + b
  PROVE  Res(a, m) = Res(b, m)
<1>. DEFINE r == Res(b, m)
            p == b \div m
<1>1. r \in 0..(m - 1) /\ p \in Int /\ b = (p * m) + r
  BY Division
<1>. HIDE DEF r, p
<1>2. a = ((q + p) * m) + r /\ q + p \in Int
  BY <1>1
<1>. QED BY <1>1, <1>2, ResUnique DEF r

\* and nothing else leaves it as it is
LEMMA ResSame ==
  ASSUME NEW m \in Nat \ {0}, NEW a \in Int, NEW b \in Int, Res(a, m) = Res(b, m)
  PROVE  \E q \in Int : a = (q * m) + b
<1>. DEFINE r == Res(b, m)
            p == b \div m
            s == a \div m
<1>1. r \in 0..(m - 1) /\ p \in Int /\ b = (p * m) + r /\ s \in Int /\ a = (s * m) + r
  BY Division
<1>. HIDE DEF r, p, s
<1>2. a = ((s - p) * m) + b /\ s - p \in Int
  BY <1>1
<1>. QED BY <1>2

\* sums, differences and products of what has the same residues have the same
LEMMA ResOps ==
  ASSUME NEW m \in Nat \ {0}, NEW a \in Int, NEW b \in Int, NEW c \in Int, NEW d \in Int,
         Res(a, m) = Res(c, m), Res(b, m) = Res(d, m)
  PROVE  /\ Res(a + b, m) = Res(c + d, m)
         /\ Res(a - b, m) = Res(c - d, m)
         /\ Res(a * b, m) = Res(c * d, m)
<1>1. PICK p \in Int : a = (p * m) + c
  BY ResSame
<1>2. PICK q \in Int : b = (q * m) + d
  BY ResSame
<1>3. Res(a + b, m) = Res(c + d, m)
  <2>. DEFINE x == a + b
              y == c + d
              k == p + q
  <2>1. x = (k * m) + y /\ k \in Int /\ x \in Int /\ y \in Int
    BY <1>1, <1>2
  <2>. HIDE DEF x, y, k
  <2>2. Res(x, m) = Res(y, m)
    BY ONLY m \in Nat \ {0}, <2>1, ResOf
  <2>. QED BY <2>2 DEF x, y
<1>4. Res(a - b, m) = Res(c - d, m)
  <2>. DEFINE x == a - b
              y == c - d
              k == p - q
  <2>1. x = (k * m) + y /\ k \in Int /\ x \in Int /\ y \in Int
    BY <1>1, <1>2
  <2>. HIDE DEF x, y, k
  <2>2. Res(x, m) = Res(y, m)
    BY ONLY m \in Nat \ {0}, <2>1, ResOf
  <2>. QED BY <2>2 DEF x, y
<1>5. Res(a * b, m) = Res(c * d, m)
  <2>. DEFINE x == a * b
              y == c * d
              k == (p * (q * m)) + (p * d) + (c * q)
  <2>1. k \in Int /\ x \in Int /\ y \in Int
    OBVIOUS
  <2>2. x = (k * m) + y
    BY <1>1, <1>2
  <2>. HIDE DEF x, y, k
  <2>3. Res(x, m) = Res(y, m)
    BY ONLY m \in Nat \ {0}, <2>1, <2>2, ResOf
  <2>. QED BY <2>3 DEF x, y
<1>. QED BY <1>3, <1>4, <1>5

\* each by itself, as it is cited
LEMMA ResPlus ==
  ASSUME NEW m \in Nat \ {0}, NEW a \in Int, NEW b \in Int, NEW c \in Int, NEW d \in Int,
         Res(a, m) = Res(c, m), Res(b, m) = Res(d, m)
  PROVE  Res(a + b, m) = Res(c + d, m)
BY ResOps

\* differences
LEMMA ResMinus ==
  ASSUME NEW m \in Nat \ {0}, NEW a \in Int, NEW b \in Int, NEW c \in Int, NEW d \in Int,
         Res(a, m) = Res(c, m), Res(b, m) = Res(d, m)
  PROVE  Res(a - b, m) = Res(c - d, m)
BY ResOps

\* products
LEMMA ResTimes ==
  ASSUME NEW m \in Nat \ {0}, NEW a \in Int, NEW b \in Int, NEW c \in Int, NEW d \in Int,
         Res(a, m) = Res(c, m), Res(b, m) = Res(d, m)
  PROVE  Res(a * b, m) = Res(c * d, m)
BY ResOps

\* taking residues inside makes no difference
LEMMA ResIn ==
  ASSUME NEW m \in Nat \ {0}, NEW a \in Int, NEW b \in Int
  PROVE  /\ Res(Res(a, m), m) = Res(a, m)
         /\ Res(Res(a, m) + b, m) = Res(a + b, m) /\ Res(a + Res(b, m), m) = Res(a + b, m)
         /\ Res(Res(a, m) - b, m) = Res(a - b, m) /\ Res(a - Res(b, m), m) = Res(a - b, m)
         /\ Res(Res(a, m) * b, m) = Res(a * b, m) /\ Res(a * Res(b, m), m) = Res(a * b, m)
<1>1. Res(a, m) \in 0..(m - 1) /\ Res(a, m) \in Int /\ Res(b, m) \in 0..(m - 1) /\ Res(b, m) \in Int
  BY Division
<1>2. Res(Res(a, m), m) = Res(a, m) /\ Res(Res(b, m), m) = Res(b, m)
  BY <1>1, ResSmall
<1>. DEFINE r == Res(a, m)
            s == Res(b, m)
<1>3. r \in Int /\ s \in Int /\ Res(r, m) = Res(a, m) /\ Res(s, m) = Res(b, m)
  BY <1>1, <1>2
<1>. HIDE DEF r, s
<1>4. Res(r + b, m) = Res(a + b, m) /\ Res(r - b, m) = Res(a - b, m) /\ Res(r * b, m) = Res(a * b, m)
  BY <1>3, ResOps
<1>5. Res(a + s, m) = Res(a + b, m) /\ Res(a - s, m) = Res(a - b, m) /\ Res(a * s, m) = Res(a * b, m)
  BY <1>3, ResOps
<1>. QED BY <1>2, <1>4, <1>5 DEF r, s

\* the same with one operand that stays
LEMMA ResPlusBy ==
  ASSUME NEW m \in Nat \ {0}, NEW a \in Int, NEW b \in Int, NEW c \in Int, Res(a, m) = Res(c, m)
  PROVE  Res(a + b, m) = Res(c + b, m)
<1>1. Res(Res(a, m) + b, m) = Res(a + b, m) /\ Res(Res(c, m) + b, m) = Res(c + b, m)
  BY ResIn
<1>. QED BY <1>1

\* a difference with the same number
LEMMA ResMinusBy ==
  ASSUME NEW m \in Nat \ {0}, NEW a \in Int, NEW b \in Int, NEW c \in Int, Res(a, m) = Res(c, m)
  PROVE  Res(a - b, m) = Res(c - b, m)
<1>1. Res(Res(a, m) - b, m) = Res(a - b, m) /\ Res(Res(c, m) - b, m) = Res(c - b, m)
  BY ResIn
<1>. QED BY <1>1

\* the other operand of a difference
LEMMA ResMinusOf ==
  ASSUME NEW m \in Nat \ {0}, NEW a \in Int, NEW b \in Int, NEW c \in Int, Res(b, m) = Res(c, m)
  PROVE  Res(a - b, m) = Res(a - c, m)
<1>1. Res(a - Res(b, m), m) = Res(a - b, m) /\ Res(a - Res(c, m), m) = Res(a - c, m)
  BY ResIn
<1>. QED BY <1>1

\* a product by the same number
LEMMA ResTimesBy ==
  ASSUME NEW m \in Nat \ {0}, NEW a \in Int, NEW b \in Int, NEW c \in Int, Res(a, m) = Res(c, m)
  PROVE  Res(a * b, m) = Res(c * b, m)
<1>1. Res(Res(a, m) * b, m) = Res(a * b, m) /\ Res(Res(c, m) * b, m) = Res(c * b, m)
  BY ResIn
<1>. QED BY <1>1
-----------------------------------------------------------------------------
(***************************************************************************)
(* Congruences.  The results are named, so that the provers find them.     *)
(***************************************************************************)
Cong(a, b, m) == Res(a, m) = Res(b, m)

\* congruence is an equivalence
LEMMA CongSelf ==
  ASSUME NEW m \in Nat \ {0}, NEW a \in Int
  PROVE  Cong(a, a, m)
BY DEF Cong

\* either way round
LEMMA CongBack ==
  ASSUME NEW m \in Nat \ {0}, NEW a \in Int, NEW b \in Int, Cong(a, b, m)
  PROVE  Cong(b, a, m)
BY DEF Cong

\* and from one to the next
LEMMA CongTrans ==
  ASSUME NEW m \in Nat \ {0}, NEW a \in Int, NEW b \in Int, NEW c \in Int, Cong(a, b, m), Cong(b, c, m)
  PROVE  Cong(a, c, m)
BY DEF Cong

\* it holds of sums
LEMMA CongPlus ==
  ASSUME NEW m \in Nat \ {0}, NEW a \in Int, NEW b \in Int, NEW c \in Int, NEW d \in Int,
         NEW p \in Int, NEW q \in Int, Cong(a, c, m), Cong(b, d, m), p = a + b, q = c + d
  PROVE  Cong(p, q, m)
<1>1. Res(a + b, m) = Res(c + d, m)
  BY ResPlus DEF Cong
<1>. QED BY <1>1 DEF Cong

\* of differences
LEMMA CongMinus ==
  ASSUME NEW m \in Nat \ {0}, NEW a \in Int, NEW b \in Int, NEW c \in Int, NEW d \in Int,
         NEW p \in Int, NEW q \in Int, Cong(a, c, m), Cong(b, d, m), p = a - b, q = c - d
  PROVE  Cong(p, q, m)
<1>1. Res(a - b, m) = Res(c - d, m)
  BY ResMinus DEF Cong
<1>. QED BY <1>1 DEF Cong

\* and of products
LEMMA CongTimes ==
  ASSUME NEW m \in Nat \ {0}, NEW a \in Int, NEW b \in Int, NEW c \in Int, NEW d \in Int,
         NEW p \in Int, NEW q \in Int, Cong(a, c, m), Cong(b, d, m), p = a * b, q = c * d
  PROVE  Cong(p, q, m)
<1>1. Res(a * b, m) = Res(c * d, m)
  BY ResTimes DEF Cong
<1>. QED BY <1>1 DEF Cong

\* a number and its residue
LEMMA CongRes ==
  ASSUME NEW m \in Nat \ {0}, NEW a \in Int, NEW r, r = Res(a, m)
  PROVE  Cong(r, a, m) /\ r \in Int /\ r \in 0..(m - 1)
BY ResIn, Division DEF Cong

\* residues that are congruent are the same
LEMMA CongSmall ==
  ASSUME NEW m \in Nat \ {0}, NEW a \in 0..(m - 1), NEW b \in 0..(m - 1), Cong(a, b, m)
  PROVE  a = b
BY ResSmall DEF Cong

\* sums of congruent numbers
LEMMA CongAdd ==
  ASSUME NEW m \in Nat \ {0}, NEW a \in Int, NEW b \in Int, NEW c \in Int, NEW d \in Int,
         Cong(a, c, m), Cong(b, d, m)
  PROVE  Cong(a + b, c + d, m)
BY ResPlus DEF Cong

\* their differences
LEMMA CongSub ==
  ASSUME NEW m \in Nat \ {0}, NEW a \in Int, NEW b \in Int, NEW c \in Int, NEW d \in Int,
         Cong(a, c, m), Cong(b, d, m)
  PROVE  Cong(a - b, c - d, m)
BY ResMinus DEF Cong

\* and their products
LEMMA CongMul ==
  ASSUME NEW m \in Nat \ {0}, NEW a \in Int, NEW b \in Int, NEW c \in Int, NEW d \in Int,
         Cong(a, c, m), Cong(b, d, m)
  PROVE  Cong(a * b, c * d, m)
BY ResTimes DEF Cong

\* a product by the same number
LEMMA CongBy ==
  ASSUME NEW m \in Nat \ {0}, NEW a \in Int, NEW b \in Int, NEW c \in Int, Cong(a, b, m)
  PROVE  Cong(c * a, c * b, m)
BY CongMul, CongSelf

\* congruent through a number in the middle
LEMMA CongVia ==
  ASSUME NEW m \in Nat \ {0}, NEW a \in Int, NEW b \in Int, NEW c \in Int, Cong(a, b, m), Cong(c, b, m)
  PROVE  Cong(a, c, m)
BY DEF Cong
-----------------------------------------------------------------------------
(***************************************************************************)
(* Prime numbers.                                                          *)
(***************************************************************************)
Prime(m) == m \in Nat /\ m > 1 /\ \A d \in 2..(m - 1) : m % d # 0

\* whatever is not 0 has an inverse
LEMMA Invertible ==
  ASSUME NEW m \in Nat \ {0}, Prime(m), NEW a \in Int, Res(a, m) # 0
  PROVE  \E b \in Int : Res(a * b, m) = 1
<1>1. m \in Nat \ {0} /\ m > 1
  BY DEF Prime
<1>. DEFINE T == {d \in 1..(m - 1) : \E b \in Int : Res(a * b, m) = d}
<1>2. T \subseteq Nat
  OBVIOUS
<1>3. Res(a, m) \in T
  <2>1. a * 1 = a /\ 1 \in Int
    OBVIOUS
  <2>2. Res(a, m) \in 1..(m - 1)
    BY <1>1, Division
  <2>. QED BY <2>1, <2>2
<1>4. PICK d \in T : \A e \in T : d <= e
  <2>. HIDE DEF T
  <2>. QED BY <1>2, <1>3, LeastNatural
<1>5. PICK b \in Int : Res(a * b, m) = d
  BY <1>4
<1>6. d \in 1..(m - 1) /\ d \in Nat \ {0} /\ d \in Int /\ m \in Int
  BY <1>1, <1>4
<1>7. d = 1
  <2>. SUFFICES ASSUME d # 1 PROVE FALSE
    OBVIOUS
  <2>. DEFINE r == Res(m, d)
              q == m \div d
  <2>1. r \in 0..(d - 1) /\ r \in Int /\ q \in Int /\ m = (q * d) + r
    BY <1>6, Division
  <2>2. r # 0
    <3>1. d \in 2..(m - 1)
      BY <1>6
    <3>. QED BY <3>1 DEF Prime, Res
  <2>. HIDE DEF r, q
  <2>3. Res(a * (-(q * b)), m) = r
    <3>1. a * b \in Int /\ -(q * b) \in Int /\ a * (-(q * b)) = (-q) * (a * b) /\ -q \in Int
      BY <2>1
    <3>. DEFINE u == a * b
    <3>2. u \in Int /\ Res(u, m) = d
      BY <1>5, <3>1
    <3>3. PICK k \in Int : u = (k * m) + d
      <4>1. u \div m \in Int /\ u = ((u \div m) * m) + Res(u, m)
        BY ONLY <1>1, <3>2, Division
      <4>. QED BY <3>2, <4>1
    <3>. HIDE DEF u
    <3>4. (-q) * u = (((-q) * k) * m) - (q * d)
      BY <2>1, <3>3, <1>6
    <3>5. -(q * d) = ((-1) * m) + r
      BY <2>1, <1>6
    <3>6. (-q) * u = ((((-q) * k) - 1) * m) + r
      BY <3>4, <3>5, <3>3, <2>1, <1>6
    <3>7. r \in 0..(m - 1)
      BY <2>1, <1>6
    <3>8. (-q) * u \in Int /\ ((-q) * k) - 1 \in Int
      BY <2>1, <3>3, <3>2
    <3>9. Res((-q) * u, m) = r
      BY ONLY <1>1, <3>6, <3>7, <3>8, ResUnique
    <3>. QED BY <3>1, <3>9 DEF u
  <2>4. r \in 1..(m - 1) /\ -(q * b) \in Int
    BY <1>6, <2>1, <2>2
  <2>5. r \in T
    BY <2>3, <2>4
  <2>6. ~(d <= r)
    BY <1>6, <2>1
  <2>. HIDE DEF T
  <2>. QED BY <1>4, <2>5, <2>6
<1>. QED BY <1>5, <1>7

\* and can be cancelled
LEMMA Cancel ==
  ASSUME NEW m \in Nat \ {0}, Prime(m), NEW a \in Int, NEW b \in Int, NEW c \in Int, Res(c, m) # 0,
         Res(a * c, m) = Res(b * c, m)
  PROVE  Res(a, m) = Res(b, m)
<1>1. m \in Nat \ {0}
  BY DEF Prime
<1>2. PICK i \in Int : Res(c * i, m) = 1
  BY Invertible
<1>3. ASSUME NEW x \in Int PROVE Res((x * c) * i, m) = Res(x, m)
  <2>1. (x * c) * i = x * (c * i) /\ c * i \in Int /\ x * 1 = x /\ 1 \in Int
    OBVIOUS
  <2>2. Res(x * Res(c * i, m), m) = Res(x * (c * i), m)
    BY ONLY ZenonT(30), <1>1, <2>1, x \in Int, ResIn
  <2>. QED BY <1>2, <2>1, <2>2
<1>4. Res((a * c) * i, m) = Res((b * c) * i, m)
  <2>. DEFINE x == a * c
              y == b * c
  <2>1. x \in Int /\ y \in Int /\ Res(x, m) = Res(y, m)
    OBVIOUS
  <2>. HIDE DEF x, y
  <2>2. Res(x * i, m) = Res(y * i, m)
    BY ONLY <1>1, <2>1, i \in Int, ResTimesBy
  <2>. QED BY <2>2 DEF x, y
<1>. QED BY <1>3, <1>4

\* so that a product is 0 only if a factor is
LEMMA NoZeroDivisors ==
  ASSUME NEW m \in Nat \ {0}, Prime(m), NEW a \in Int, NEW c \in Int, Res(a, m) # 0, Res(c, m) # 0
  PROVE  Res(a * c, m) # 0
<1>. SUFFICES ASSUME Res(a * c, m) = 0 PROVE FALSE
  OBVIOUS
<1>1. m \in Nat \ {0} /\ 0 \in 0..(m - 1)
  BY DEF Prime
<1>2. Res(0, m) = 0
  BY <1>1, ResSmall
<1>3. 0 * c = 0 /\ 0 \in Int
  OBVIOUS
<1>4. Res(a * c, m) = Res(0 * c, m)
  BY <1>2, <1>3
<1>5. Res(a, m) = Res(0, m)
  BY <1>3, <1>4, Cancel
<1>. QED BY <1>2, <1>5

\* cancelling what is not 0
LEMMA CongCancel ==
  ASSUME NEW m \in Nat \ {0}, Prime(m), NEW a \in Int, NEW b \in Int, NEW c \in Int, Res(c, m) # 0,
         NEW p, NEW q, p = a * c, q = b * c, Cong(p, q, m)
  PROVE  Cong(a, b, m)
BY Cancel DEF Cong

\* induction over all numbers, for a set
LEMMA CountOn ==
  ASSUME NEW T, 0 \in T, \A k \in Nat : k \in T => k + 1 \in T
  PROVE  \A k \in Nat : k \in T
<1>1. ASSUME NEW n \in Nat PROVE n \in T
  <2>1. \A k \in 0..(n - 1) : k \in T => k + 1 \in T
    OBVIOUS
  <2>2. \A k \in 0..n : k \in T
    BY <2>1, CountUp
  <2>. QED BY <2>2
<1>. QED BY <1>1
-----------------------------------------------------------------------------
(***************************************************************************)
(* Loops over the numbers in a set: the value so far is changed by what f  *)
(* has for the number.                                                     *)
(***************************************************************************)
Folds(z, M, f, n, e, op) ==
  /\ z \in [0..n -> M] /\ z[0] = e
  /\ \A i \in 1..n : z[i] = IF i \in DOMAIN f THEN op[<<z[i - 1], f[i]>>] ELSE z[i - 1]

FoldOf(M, f, n, e, op) == (CHOOSE z : Folds(z, M, f, n, e, op))[n]

\* two changes have the same effect in either order
Commutes(op, M, A) == \A v \in M, a, b \in A : op[<<op[<<v, a>>], b>>] = op[<<op[<<v, b>>], a>>]

Without(f, x) == [i \in DOMAIN f \ {x} |-> f[i]]

\* there is such a loop
LEMMA FoldExists ==
  ASSUME NEW M, NEW A, NEW n \in Nat, NEW S \in SUBSET (1..n), NEW f \in [S -> A], NEW e \in M,
         NEW op \in [M \X A -> M]
  PROVE  \E z : Folds(z, M, f, n, e, op)
<1>. DEFINE step == [x \in M \X (1..n) |-> IF x[2] \in S THEN op[<<x[1], f[x[2]]>>] ELSE x[1]]
<1>1. step \in [M \X (1..n) -> M]
  <2>1. ASSUME NEW x \in M \X (1..n) PROVE (IF x[2] \in S THEN op[<<x[1], f[x[2]]>>] ELSE x[1]) \in M
    <3>1. x[1] \in M
      OBVIOUS
    <3>2. ASSUME x[2] \in S PROVE op[<<x[1], f[x[2]]>>] \in M
      <4>1. f[x[2]] \in A
        BY <3>2
      <4>2. <<x[1], f[x[2]]>> \in M \X A
        BY <3>1, <4>1
      <4>. QED BY <4>2
    <3>. QED BY <3>1, <3>2
  <2>. QED BY <2>1
<1>2. \A v \in M, i \in 1..n : step[<<v, i>>] = IF i \in S THEN op[<<v, f[i]>>] ELSE v
  OBVIOUS
<1>. HIDE DEF step
<1>3. PICK z : Iterates(z, M, n, e, step)
  BY <1>1, Iterated
<1>4. z \in [0..n -> M] /\ z[0] = e /\ \A i \in 1..n : z[i] = step[<<z[i - 1], i>>]
  BY <1>3 DEF Iterates
<1>5. ASSUME NEW i \in 1..n PROVE z[i] = IF i \in S THEN op[<<z[i - 1], f[i]>>] ELSE z[i - 1]
  <2>1. i - 1 \in 0..n
    OBVIOUS
  <2>2. z[i - 1] \in M
    BY <1>4, <2>1
  <2>. QED BY <1>2, <1>4, <2>2
<1>6. DOMAIN f = S
  OBVIOUS
<1>. QED BY <1>4, <1>5, <1>6 DEF Folds

\* and only one
LEMMA FoldUnique ==
  ASSUME NEW M, NEW f, NEW n \in Nat, NEW e, NEW op, NEW y, NEW z,
         Folds(y, M, f, n, e, op), Folds(z, M, f, n, e, op)
  PROVE  y[n] = z[n]
<1>. DEFINE T == {k \in 0..n : y[k] = z[k]}
<1>1. 0 \in T
  BY DEF Folds
<1>2. ASSUME NEW k \in 0..(n - 1), k \in T PROVE k + 1 \in T
  <2>1. k + 1 \in 1..n /\ k + 1 \in 0..n /\ k + 1 - 1 = k
    OBVIOUS
  <2>2. y[k + 1] = IF k + 1 \in DOMAIN f THEN op[<<y[k], f[k + 1]>>] ELSE y[k]
    BY <2>1 DEF Folds
  <2>3. z[k + 1] = IF k + 1 \in DOMAIN f THEN op[<<z[k], f[k + 1]>>] ELSE z[k]
    BY <2>1 DEF Folds
  <2>. QED BY <1>2, <2>1, <2>2, <2>3
<1>. HIDE DEF T
<1>3. \A k \in 0..n : k \in T
  BY <1>1, <1>2, CountUp
<1>4. n \in T
  BY <1>3
<1>. QED BY <1>4 DEF T

\* whatever is a loop has its value
LEMMA FoldIs ==
  ASSUME NEW M, NEW f, NEW n \in Nat, NEW e, NEW op, NEW z, Folds(z, M, f, n, e, op)
  PROVE  FoldOf(M, f, n, e, op) = z[n] /\ FoldOf(M, f, n, e, op) \in M
<1>. DEFINE y == CHOOSE y : Folds(y, M, f, n, e, op)
<1>1. Folds(y, M, f, n, e, op)
  OBVIOUS
<1>. HIDE DEF y
<1>2. y[n] = z[n]
  BY <1>1, FoldUnique
<1>3. z[n] \in M
  BY DEF Folds
<1>. QED BY <1>2, <1>3 DEF FoldOf, y

\* the value of a loop is where the steps lead
LEMMA FoldType ==
  ASSUME NEW M, NEW A, NEW n \in Nat, NEW S \in SUBSET (1..n), NEW f \in [S -> A], NEW e \in M,
         NEW op \in [M \X A -> M]
  PROVE  FoldOf(M, f, n, e, op) \in M
<1>1. PICK z : Folds(z, M, f, n, e, op)
  BY FoldExists
<1>. QED BY <1>1, FoldIs

\* with nothing to go through, the value stays
LEMMA FoldNone ==
  ASSUME NEW M, NEW n \in Nat, NEW f, DOMAIN f = {}, NEW e \in M, NEW op
  PROVE  FoldOf(M, f, n, e, op) = e
<1>. DEFINE z == [i \in 0..n |-> e]
<1>1. Folds(z, M, f, n, e, op)
  BY DEF Folds
<1>2. z[n] = e
  OBVIOUS
<1>. HIDE DEF z
<1>. QED BY <1>1, <1>2, FoldIs

\* when the order does not matter, any number can be the last
LEMMA FoldTakes ==
  ASSUME NEW M, NEW A, NEW n \in Nat, NEW S \in SUBSET (1..n), NEW f \in [S -> A], NEW e \in M,
         NEW op \in [M \X A -> M], Commutes(op, M, A), NEW x \in S
  PROVE  FoldOf(M, f, n, e, op) = op[<<FoldOf(M, Without(f, x), n, e, op), f[x]>>]
<1>. DEFINE g == Without(f, x)
            R == S \ {x}
<1>1. g \in [R -> A] /\ DOMAIN g = R /\ DOMAIN f = S /\ R \in SUBSET (1..n)
  BY DEF Without
<1>2. \A i \in R : g[i] = f[i]
  BY DEF Without
<1>. HIDE DEF g
<1>3. PICK z : Folds(z, M, f, n, e, op)
  BY FoldExists
<1>4. PICK y : Folds(y, M, g, n, e, op)
  BY <1>1, FoldExists
<1>5. /\ z \in [0..n -> M] /\ z[0] = e
      /\ \A i \in 1..n : z[i] = IF i \in S THEN op[<<z[i - 1], f[i]>>] ELSE z[i - 1]
  BY <1>1, <1>3 DEF Folds
<1>6. /\ y \in [0..n -> M] /\ y[0] = e
      /\ \A i \in 1..n : y[i] = IF i \in R THEN op[<<y[i - 1], f[i]>>] ELSE y[i - 1]
  BY <1>1, <1>2, <1>4 DEF Folds
<1>. DEFINE T == {k \in 0..n : z[k] = IF k < x THEN y[k] ELSE op[<<y[k], f[x]>>]}
<1>7. x \in 1..n /\ f[x] \in A
  OBVIOUS
<1>8. 0 \in T
  BY <1>5, <1>6, <1>7
<1>9. ASSUME NEW k \in 0..(n - 1), k \in T PROVE k + 1 \in T
  <2>1. k + 1 \in 1..n /\ k + 1 \in 0..n /\ k + 1 - 1 = k /\ k \in 0..n
    OBVIOUS
  <2>2. z[k + 1] = IF k + 1 \in S THEN op[<<z[k], f[k + 1]>>] ELSE z[k]
    BY <1>5, <2>1
  <2>3. y[k + 1] = IF k + 1 \in R THEN op[<<y[k], f[k + 1]>>] ELSE y[k]
    BY <1>6, <2>1
  <2>4. y[k] \in M
    BY <1>6, <2>1
  <2>5. CASE k + 1 < x
    <3>1. k < x /\ (k + 1 \in R <=> k + 1 \in S)
      BY <1>7, <2>5
    <3>. QED BY <1>9, <2>1, <2>2, <2>3, <2>5, <3>1
  <2>6. CASE k + 1 = x
    <3>1. k < x /\ ~(k + 1 < x) /\ k + 1 \in S /\ k + 1 \notin R
      BY <1>7, <2>6
    <3>2. z[k] = y[k]
      BY <1>9, <3>1
    <3>3. z[k + 1] = op[<<y[k + 1], f[x]>>]
      BY <2>2, <2>3, <2>6, <3>1, <3>2
    <3>. QED BY <2>1, <3>1, <3>3
  <2>7. CASE ~(k + 1 < x) /\ k + 1 # x
    <3>1. ~(k < x) /\ (k + 1 \in R <=> k + 1 \in S)
      BY <1>7, <2>7
    <3>2. z[k] = op[<<y[k], f[x]>>]
      BY <1>9, <3>1
    <3>3. ASSUME k + 1 \in S PROVE z[k + 1] = op[<<y[k + 1], f[x]>>]
      <4>1. f[k + 1] \in A
        BY <3>3
      <4>2. op[<<op[<<y[k], f[x]>>], f[k + 1]>>] = op[<<op[<<y[k], f[k + 1]>>], f[x]>>]
        BY <1>7, <2>4, <4>1 DEF Commutes
      <4>3. z[k + 1] = op[<<z[k], f[k + 1]>>] /\ y[k + 1] = op[<<y[k], f[k + 1]>>]
        BY <2>2, <2>3, <3>1, <3>3
      <4>. QED BY <3>2, <4>2, <4>3
    <3>4. ASSUME k + 1 \notin S PROVE z[k + 1] = op[<<y[k + 1], f[x]>>]
      BY <2>2, <2>3, <3>1, <3>2, <3>4
    <3>5. z[k + 1] = op[<<y[k + 1], f[x]>>]
      BY <3>3, <3>4
    <3>. QED BY <2>1, <2>7, <3>5
  <2>8. k + 1 < x \/ k + 1 = x \/ (~(k + 1 < x) /\ k + 1 # x)
    OBVIOUS
  <2>. QED BY <2>5, <2>6, <2>7, <2>8
<1>. HIDE DEF T
<1>10. \A k \in 0..n : k \in T
  BY <1>8, <1>9, CountUp
<1>11. n \in T /\ ~(n < x)
  BY <1>7, <1>10
<1>12. z[n] = op[<<y[n], f[x]>>]
  BY <1>11 DEF T
<1>13. FoldOf(M, f, n, e, op) = z[n] /\ FoldOf(M, g, n, e, op) = y[n]
  BY <1>3, <1>4, FoldIs
<1>. QED BY <1>12, <1>13 DEF g

\* induction over the sets of numbers up to n
LEMMA SubsetInduction ==
  ASSUME NEW n \in Nat, NEW T, {} \in T,
         \A S \in SUBSET (1..n) : (\E x \in S : S \ {x} \in T) => S \in T
  PROVE  \A S \in SUBSET (1..n) : S \in T
<1>. DEFINE U == {k \in 0..n : \A S \in SUBSET (1..k) : S \in T}
<1>1. 0 \in U
  <2>1. 1..0 = {}
    OBVIOUS
  <2>2. \A S \in SUBSET (1..0) : S = {}
    BY <2>1
  <2>3. \A S \in SUBSET (1..0) : S \in T
    BY <2>2
  <2>4. 0 \in 0..n
    OBVIOUS
  <2>. QED BY <2>3, <2>4
<1>2. ASSUME NEW k \in 0..(n - 1), k \in U PROVE k + 1 \in U
  <2>1. k + 1 \in 0..n /\ 1..(k + 1) \subseteq 1..n
    OBVIOUS
  <2>2. ASSUME NEW S \in SUBSET (1..(k + 1)) PROVE S \in T
    <3>1. CASE k + 1 \in S
      <4>1. S \ {k + 1} \in SUBSET (1..k)
        OBVIOUS
      <4>2. S \ {k + 1} \in T
        BY <1>2, <4>1
      <4>3. S \in SUBSET (1..n)
        BY <2>1
      <4>. QED BY <3>1, <4>2, <4>3
    <3>2. CASE k + 1 \notin S
      <4>1. S \in SUBSET (1..k)
        BY <3>2
      <4>. QED BY <1>2, <4>1
    <3>. QED BY <3>1, <3>2
  <2>. QED BY <2>1, <2>2
<1>. HIDE DEF U
<1>3. \A k \in 0..n : k \in U
  BY <1>1, <1>2, CountUp
<1>4. n \in U
  BY <1>3
<1>. QED BY <1>4 DEF U
-----------------------------------------------------------------------------
(***************************************************************************)
(* Recursive functions that are not bounded.                               *)
(***************************************************************************)
\* a definition by the value before has a function on all numbers
IteratesForever(f, S, z, step) ==
  f \in [Nat -> S] /\ f[0] = z /\ \A i \in Nat \ {0} : f[i] = step[<<f[i - 1], i>>]

\* there is such a function
LEMMA IteratedForever ==
  ASSUME NEW S, NEW z \in S, NEW step \in [S \X (Nat \ {0}) -> S]
  PROVE  \E f : IteratesForever(f, S, z, step)
<1>. DEFINE at(n) == CHOOSE h : Iterates(h, S, n, z, step)
            f == [n \in Nat |-> at(n)[n]]
<1>1. ASSUME NEW n \in Nat PROVE Iterates(at(n), S, n, z, step)
  <2>. DEFINE part == [x \in S \X (1..n) |-> step[x]]
  <2>1. \A x \in S \X (1..n) : x \in S \X (Nat \ {0})
    OBVIOUS
  <2>2. part \in [S \X (1..n) -> S]
    BY <2>1
  <2>3. \A v \in S, i \in 1..n : part[<<v, i>>] = step[<<v, i>>]
    OBVIOUS
  <2>. HIDE DEF part
  <2>4. PICK h : Iterates(h, S, n, z, part)
    BY <2>2, Iterated
  <2>5. \A i \in 1..n : h[i - 1] \in S
    <3>1. \A i \in 1..n : i - 1 \in 0..n
      OBVIOUS
    <3>. QED BY <2>4, <3>1 DEF Iterates
  <2>6. Iterates(h, S, n, z, step)
    BY <2>3, <2>4, <2>5 DEF Iterates
  <2>. QED BY <2>6
<1>. HIDE DEF at
<1>2. ASSUME NEW n \in Nat, NEW m \in n..(n + 1) PROVE at(m)[n] = at(n)[n]
  <2>. DEFINE T == {k \in 0..n : at(m)[k] = at(n)[k]}
  <2>1. m \in Nat
    OBVIOUS
  <2>2. Iterates(at(m), S, m, z, step) /\ Iterates(at(n), S, n, z, step)
    BY <1>1, <2>1
  <2>3. 0 \in T
    BY <2>2 DEF Iterates
  <2>4. ASSUME NEW k \in 0..(n - 1), k \in T PROVE k + 1 \in T
    <3>1. k + 1 \in 1..n /\ k + 1 \in 1..m /\ k + 1 \in 0..n /\ k + 1 - 1 = k
      BY <2>1
    <3>2. at(m)[k + 1] = step[<<at(m)[k], k + 1>>] /\ at(n)[k + 1] = step[<<at(n)[k], k + 1>>]
      BY <2>2, <3>1 DEF Iterates
    <3>. QED BY <2>4, <3>1, <3>2
  <2>. HIDE DEF T
  <2>5. \A k \in 0..n : k \in T
    BY <2>3, <2>4, CountUp
  <2>6. n \in T
    BY <2>5
  <2>. QED BY <2>6 DEF T
<1>3. \A n \in Nat : f[n] = at(n)[n]
  OBVIOUS
<1>4. f \in [Nat -> S]
  <2>1. ASSUME NEW n \in Nat PROVE at(n)[n] \in S
    BY <1>1 DEF Iterates
  <2>. QED BY <2>1
<1>. HIDE DEF f
<1>5. f[0] = z
  BY <1>1, <1>3 DEF Iterates
<1>6. ASSUME NEW i \in Nat \ {0} PROVE f[i] = step[<<f[i - 1], i>>]
  <2>1. i - 1 \in Nat /\ i \in (i - 1)..((i - 1) + 1) /\ i \in 1..i
    OBVIOUS
  <2>2. at(i)[i] = step[<<at(i)[i - 1], i>>]
    BY <1>1, <2>1 DEF Iterates
  <2>3. at(i)[i - 1] = at(i - 1)[i - 1]
    BY <1>2, <2>1
  <2>4. f[i] = at(i)[i] /\ f[i - 1] = at(i - 1)[i - 1]
    BY <1>3, <2>1
  <2>. QED BY <2>2, <2>3, <2>4
<1>. QED BY <1>4, <1>5, <1>6 DEF IteratesForever

TailCalled(f, D, stop, next, out) == f = [d \in D |-> IF d \in stop THEN out[d] ELSE f[next[d]]]

\* a loop that goes from state to state has a function to what it ends with
LEMMA TailCalls ==
  ASSUME NEW D, NEW stop \in SUBSET D, NEW next \in [D -> D], NEW out
  PROVE  \E f : TailCalled(f, D, stop, next, out)
<1>. DEFINE Way(o, k, d, e) ==
              /\ o \in [0..k -> D] /\ o[0] = d /\ o[k] = e
              /\ \A i \in 1..k : o[i - 1] \notin stop /\ o[i] = next[o[i - 1]]
            Ends(d, e) == e \in stop /\ \E k \in Nat : \E o : Way(o, k, d, e)
            f == [d \in D |-> out[CHOOSE e : Ends(d, e)]]
<1>1. ASSUME NEW d \in stop, NEW e PROVE Ends(d, e) <=> e = d
  <2>1. ASSUME Ends(d, e) PROVE e = d
    <3>1. PICK k \in Nat : \E o : Way(o, k, d, e)
      BY <2>1
    <3>2. PICK o : Way(o, k, d, e)
      BY <3>1
    <3>3. k = 0
      <4>. SUFFICES ASSUME k # 0 PROVE FALSE
        OBVIOUS
      <4>1. 1 \in 1..k /\ 1 - 1 = 0
        OBVIOUS
      <4>2. o[0] \notin stop
        BY <3>2, <4>1
      <4>. QED BY <3>2, <4>2
    <3>. QED BY <3>2, <3>3
  <2>2. Ends(d, d)
    <3>. DEFINE o == [i \in 0..0 |-> d]
    <3>1. d \in D
      OBVIOUS
    <3>2. Way(o, 0, d, d)
      BY <3>1
    <3>. HIDE DEF o, Way
    <3>3. \E p : Way(p, 0, d, d)
      BY <3>2
    <3>4. 0 \in Nat
      OBVIOUS
    <3>. QED BY <3>3, <3>4
  <2>. HIDE DEF Ends
  <2>. QED BY <2>1, <2>2
<1>2. ASSUME NEW d \in D, d \notin stop, NEW e PROVE Ends(d, e) <=> Ends(next[d], e)
  <2>1. ASSUME Ends(d, e) PROVE Ends(next[d], e)
    <3>1. PICK k \in Nat : \E o : Way(o, k, d, e)
      BY <2>1
    <3>2. PICK o : Way(o, k, d, e)
      BY <3>1
    <3>3. k # 0
      BY <1>2, <2>1, <3>2
    <3>. DEFINE p == [i \in 0..(k - 1) |-> o[i + 1]]
    <3>4. k - 1 \in Nat /\ 1 \in 1..k /\ 1 - 1 = 0 /\ 0 \in 0..(k - 1) /\ k - 1 \in 0..(k - 1) /\ k - 1 + 1 = k
      BY <3>3
    <3>5. \A i \in 0..(k - 1) : i + 1 \in 0..k /\ p[i] = o[i + 1]
      OBVIOUS
    <3>6. p \in [0..(k - 1) -> D]
      BY <3>2, <3>5
    <3>. HIDE DEF p
    <3>7. p[0] = next[d] /\ p[k - 1] = e
      <4>1. p[0] = o[0 + 1] /\ 0 + 1 = 1 /\ p[k - 1] = o[k - 1 + 1]
        BY <3>4, <3>5
      <4>. QED BY <3>2, <3>4, <4>1
    <3>8. ASSUME NEW i \in 1..(k - 1) PROVE p[i - 1] \notin stop /\ p[i] = next[p[i - 1]]
      <4>1. i + 1 \in 1..k /\ i + 1 - 1 = i /\ i - 1 \in 0..(k - 1) /\ i \in 0..(k - 1) /\ i - 1 + 1 = i
        OBVIOUS
      <4>2. p[i - 1] = o[i] /\ p[i] = o[i + 1]
        BY <3>5, <4>1
      <4>3. o[i] \notin stop /\ o[i + 1] = next[o[i]]
        BY <3>2, <4>1
      <4>. QED BY <4>2, <4>3
    <3>9. Way(p, k - 1, next[d], e)
      BY <3>6, <3>7, <3>8
    <3>. HIDE DEF Way
    <3>10. \E q : Way(q, k - 1, next[d], e)
      BY <3>9
    <3>. QED BY <2>1, <3>4, <3>10
  <2>2. ASSUME Ends(next[d], e) PROVE Ends(d, e)
    <3>1. PICK k \in Nat : \E o : Way(o, k, next[d], e)
      BY <2>2
    <3>2. PICK o : Way(o, k, next[d], e)
      BY <3>1
    <3>. DEFINE p == [i \in 0..(k + 1) |-> IF i = 0 THEN d ELSE o[i - 1]]
    <3>3. k + 1 \in Nat /\ 0 \in 0..(k + 1) /\ k + 1 \in 0..(k + 1) /\ k + 1 # 0 /\ k + 1 - 1 = k
      OBVIOUS
    <3>4. p[0] = d /\ \A i \in 1..(k + 1) : i - 1 \in 0..k /\ p[i] = o[i - 1]
      OBVIOUS
    <3>5. p \in [0..(k + 1) -> D]
      <4>1. ASSUME NEW i \in 0..(k + 1) PROVE (IF i = 0 THEN d ELSE o[i - 1]) \in D
        <5>1. CASE i = 0
          BY <5>1
        <5>2. CASE i # 0
          <6>1. i - 1 \in 0..k
            BY <5>2
          <6>. QED BY <3>2, <5>2, <6>1
        <5>. QED BY <5>1, <5>2
      <4>. QED BY <4>1
    <3>. HIDE DEF p
    <3>6. p[k + 1] = e
      <4>1. k + 1 \in 1..(k + 1)
        OBVIOUS
      <4>2. p[k + 1] = o[k + 1 - 1]
        BY <3>4, <4>1
      <4>. QED BY <3>2, <3>3, <4>2
    <3>7. ASSUME NEW i \in 1..(k + 1) PROVE p[i - 1] \notin stop /\ p[i] = next[p[i - 1]]
      <4>1. CASE i = 1
        <5>1. i - 1 = 0 /\ p[i] = o[0]
          BY <3>4, <4>1
        <5>. QED BY <1>2, <3>2, <3>4, <5>1
      <4>2. CASE i # 1
        <5>1. i - 1 \in 1..(k + 1) /\ i - 1 \in 1..k
          BY <4>2
        <5>. DEFINE j == i - 1
        <5>2. j \in 1..(k + 1) /\ j \in 1..k
          BY <5>1
        <5>3. p[i] = o[j]
          BY <3>4
        <5>. HIDE DEF j
        <5>4. p[j] = o[j - 1]
          BY <3>4, <5>2
        <5>5. o[j - 1] \notin stop /\ o[j] = next[o[j - 1]]
          BY <3>2, <5>2
        <5>6. p[j] \notin stop /\ p[i] = next[p[j]]
          BY <5>3, <5>4, <5>5
        <5>. QED BY <5>6 DEF j
      <4>. QED BY <4>1, <4>2
    <3>8. Way(p, k + 1, d, e)
      BY <3>4, <3>5, <3>6, <3>7
    <3>. HIDE DEF Way
    <3>9. \E q : Way(q, k + 1, d, e)
      BY <3>8
    <3>. QED BY <2>2, <3>3, <3>9
  <2>. QED BY <2>1, <2>2
<1>. HIDE DEF Ends
<1>a. \A d \in D : f[d] = out[CHOOSE e : Ends(d, e)]
  OBVIOUS
<1>b. DOMAIN f = D /\ f = [d \in D |-> f[d]]
  OBVIOUS
<1>. HIDE DEF f
<1>3. ASSUME NEW d \in D PROVE f[d] = IF d \in stop THEN out[d] ELSE f[next[d]]
  <2>1. CASE d \in stop
    <3>1. \A e : Ends(d, e) <=> e = d
      BY <1>1, <2>1
    <3>2. (CHOOSE e : Ends(d, e)) = d
      BY <3>1
    <3>. QED BY <1>a, <2>1, <3>2
  <2>2. CASE d \notin stop
    <3>1. \A e : Ends(d, e) <=> Ends(next[d], e)
      BY <1>2, <2>2
    <3>2. (CHOOSE e : Ends(d, e)) = (CHOOSE e : Ends(next[d], e))
      BY <3>1
    <3>3. next[d] \in D
      OBVIOUS
    <3>. QED BY <1>a, <2>2, <3>2, <3>3
  <2>. QED BY <2>1, <2>2
<1>4. f = [d \in D |-> IF d \in stop THEN out[d] ELSE f[next[d]]]
  BY <1>3, <1>b
<1>. QED BY <1>4 DEF TailCalled

\* a loop by halves: what holds for n, if it holds for the half of n, holds for all
LEMMA Halving ==
  ASSUME NEW T, 0 \in T, \A n \in Nat \ {0} : n \div 2 \in T => n \in T
  PROVE  \A n \in Nat : n \in T
<1>. SUFFICES ASSUME NEW n \in Nat PROVE n \in T
  OBVIOUS
<1>. DEFINE U == {k \in 0..n : \A j \in 0..k : j \in T}
<1>1. 0 \in U
  OBVIOUS
<1>2. ASSUME NEW k \in 0..(n - 1), k \in U PROVE k + 1 \in U
  <2>1. k + 1 \in Nat \ {0} /\ (k + 1) \div 2 \in 0..k /\ k + 1 \in 0..n
    OBVIOUS
  <2>2. (k + 1) \div 2 \in T
    BY <1>2, <2>1
  <2>3. k + 1 \in T
    BY <2>1, <2>2
  <2>4. \A j \in 0..(k + 1) : j = k + 1 \/ j \in 0..k
    OBVIOUS
  <2>. QED BY <1>2, <2>1, <2>3, <2>4
<1>. HIDE DEF U
<1>3. \A k \in 0..n : k \in U
  BY <1>1, <1>2, CountUp
<1>4. n \in U
  BY <1>3
<1>5. n \in 0..n
  OBVIOUS
<1>. QED BY <1>4, <1>5 DEF U

\* a loop over <<r, x, n>> that halves n: where n is odd, r takes x; and x is doubled
HalvesAway(f, M, take, dbl) ==
  f = [d \in M \X M \X Nat |->
         IF d[3] = 0 THEN d[1]
         ELSE f[<<IF d[3] % 2 = 1 THEN take[<<d[1], d[2]>>] ELSE d[1], dbl[d[2]], d[3] \div 2>>]]

\* there is such a loop
LEMMA HalvingLoop ==
  ASSUME NEW M, NEW take \in [M \X M -> M], NEW dbl \in [M -> M]
  PROVE  \E f : HalvesAway(f, M, take, dbl)
<1>. DEFINE D == M \X M \X Nat
            nx(d) == <<IF d[3] % 2 = 1 THEN take[<<d[1], d[2]>>] ELSE d[1], dbl[d[2]], d[3] \div 2>>
            next == [d \in D |-> nx(d)]
            stop == {d \in D : d[3] = 0}
            out == [d \in D |-> d[1]]
<1>1. ASSUME NEW d \in D PROVE nx(d) \in D
  <2>1. d[1] \in M /\ d[2] \in M /\ d[3] \in Nat
    OBVIOUS
  <2>2. <<d[1], d[2]>> \in M \X M
    BY <2>1
  <2>3. take[<<d[1], d[2]>>] \in M /\ dbl[d[2]] \in M
    BY <2>1, <2>2
  <2>4. d[3] \div 2 \in Nat
    BY <2>1
  <2>. QED BY <2>1, <2>3, <2>4
<1>2. next \in [D -> D] /\ stop \in SUBSET D
  BY <1>1
<1>3. \A f : TailCalled(f, D, stop, next, out) => HalvesAway(f, M, take, dbl)
  BY DEF TailCalled, HalvesAway
<1>. HIDE DEF next, stop, out, D
<1>4. \E f : TailCalled(f, D, stop, next, out)
  BY <1>2, TailCalls
<1>. QED BY <1>3, <1>4

\* one round of it
LEMMA HalvesOn ==
  ASSUME NEW M, NEW take, NEW dbl, NEW f, HalvesAway(f, M, take, dbl), NEW r \in M, NEW x \in M, NEW n \in Nat
  PROVE  f[<<r, x, n>>] = IF n = 0 THEN r ELSE f[<<IF n % 2 = 1 THEN take[<<r, x>>] ELSE r, dbl[x], n \div 2>>]
<1>. DEFINE d == <<r, x, n>>
<1>1. d \in M \X M \X Nat /\ d[1] = r /\ d[2] = x /\ d[3] = n
  OBVIOUS
<1>. HIDE DEF d
<1>2. f[d] = IF d[3] = 0 THEN d[1] ELSE f[<<IF d[3] % 2 = 1 THEN take[<<d[1], d[2]>>] ELSE d[1], dbl[d[2]], d[3] \div 2>>]
  BY <1>1 DEF HalvesAway
<1>. QED BY <1>1, <1>2 DEF d
-----------------------------------------------------------------------------
(***************************************************************************)
(* Sums and products of residues.                                          *)
(***************************************************************************)
PlusRes(m) == [x \in (0..(m - 1)) \X Int |-> Res(x[1] + x[2], m)]
TimesRes(m) == [x \in (0..(m - 1)) \X Int |-> Res(x[1] * x[2], m)]

ResSum(f, n, m) == FoldOf(0..(m - 1), f, n, 0, PlusRes(m))
ResProduct(f, n, m) == FoldOf(0..(m - 1), f, n, 1, TimesRes(m))

\* addition and multiplication of residues, as the functions they are folded with
LEMMA SumOp ==
  ASSUME NEW m \in Nat \ {0}
  PROVE  /\ PlusRes(m) \in [(0..(m - 1)) \X Int -> 0..(m - 1)]
         /\ \A v \in 0..(m - 1), a \in Int : PlusRes(m)[<<v, a>>] = Res(v + a, m)
         /\ Commutes(PlusRes(m), 0..(m - 1), Int)
<1>. DEFINE op == PlusRes(m)
<1>1. ASSUME NEW x \in (0..(m - 1)) \X Int PROVE Res(x[1] + x[2], m) \in 0..(m - 1)
  <2>1. x[1] \in Int /\ x[2] \in Int
    OBVIOUS
  <2>. DEFINE s == x[1] + x[2]
  <2>2. s \in Int
    BY <2>1
  <2>. HIDE DEF s
  <2>3. Res(s, m) \in 0..(m - 1)
    BY <2>2, Division
  <2>. QED BY <2>3 DEF s
<1>2. op \in [(0..(m - 1)) \X Int -> 0..(m - 1)]
  BY <1>1 DEF PlusRes
<1>3. ASSUME NEW v \in 0..(m - 1), NEW a \in Int PROVE op[<<v, a>>] = Res(v + a, m)
  BY DEF PlusRes
<1>. HIDE DEF op
<1>4. ASSUME NEW v \in 0..(m - 1), NEW a \in Int, NEW b \in Int
      PROVE  op[<<op[<<v, a>>], b>>] = Res((v + a) + b, m)
  <2>. DEFINE s == v + a
  <2>1. s \in Int /\ op[<<v, a>>] = Res(s, m)
    BY <1>3
  <2>. HIDE DEF s
  <2>2. Res(s, m) \in 0..(m - 1)
    BY <2>1, Division
  <2>3. op[<<Res(s, m), b>>] = Res(Res(s, m) + b, m)
    BY <1>3, <2>2
  <2>4. Res(Res(s, m) + b, m) = Res(s + b, m)
    BY <2>1, ResIn
  <2>5. op[<<op[<<v, a>>], b>>] = Res(s + b, m)
    BY <2>1, <2>3, <2>4
  <2>. QED BY <2>5 DEF s
<1>5. ASSUME NEW v \in 0..(m - 1), NEW a \in Int, NEW b \in Int
      PROVE  op[<<op[<<v, a>>], b>>] = op[<<op[<<v, b>>], a>>]
  <2>1. (v + a) + b = (v + b) + a
    OBVIOUS
  <2>2. op[<<op[<<v, a>>], b>>] = Res((v + a) + b, m) /\ op[<<op[<<v, b>>], a>>] = Res((v + b) + a, m)
    BY <1>4
  <2>. QED BY <2>1, <2>2
<1>. QED BY <1>2, <1>3, <1>5 DEF op, Commutes

\* the same for products
LEMMA ProductOp ==
  ASSUME NEW m \in Nat \ {0}
  PROVE  /\ TimesRes(m) \in [(0..(m - 1)) \X Int -> 0..(m - 1)]
         /\ \A v \in 0..(m - 1), a \in Int : TimesRes(m)[<<v, a>>] = Res(v * a, m)
         /\ Commutes(TimesRes(m), 0..(m - 1), Int)
<1>. DEFINE op == TimesRes(m)
<1>1. ASSUME NEW x \in (0..(m - 1)) \X Int PROVE Res(x[1] * x[2], m) \in 0..(m - 1)
  <2>1. x[1] \in Int /\ x[2] \in Int
    OBVIOUS
  <2>. DEFINE s == x[1] * x[2]
  <2>2. s \in Int
    BY <2>1
  <2>. HIDE DEF s
  <2>3. Res(s, m) \in 0..(m - 1)
    BY <2>2, Division
  <2>. QED BY <2>3 DEF s
<1>2. op \in [(0..(m - 1)) \X Int -> 0..(m - 1)]
  BY <1>1 DEF TimesRes
<1>3. ASSUME NEW v \in 0..(m - 1), NEW a \in Int PROVE op[<<v, a>>] = Res(v * a, m)
  BY DEF TimesRes
<1>. HIDE DEF op
<1>4. ASSUME NEW v \in 0..(m - 1), NEW a \in Int, NEW b \in Int
      PROVE  op[<<op[<<v, a>>], b>>] = Res((v * a) * b, m)
  <2>. DEFINE s == v * a
  <2>1. s \in Int /\ op[<<v, a>>] = Res(s, m)
    BY <1>3
  <2>. HIDE DEF s
  <2>2. Res(s, m) \in 0..(m - 1)
    BY <2>1, Division
  <2>3. op[<<Res(s, m), b>>] = Res(Res(s, m) * b, m)
    BY <1>3, <2>2
  <2>4. Res(Res(s, m) * b, m) = Res(s * b, m)
    BY <2>1, ResIn
  <2>5. op[<<op[<<v, a>>], b>>] = Res(s * b, m)
    BY <2>1, <2>3, <2>4
  <2>. QED BY <2>5 DEF s
<1>5. ASSUME NEW v \in 0..(m - 1), NEW a \in Int, NEW b \in Int
      PROVE  op[<<op[<<v, a>>], b>>] = op[<<op[<<v, b>>], a>>]
  <2>1. (v * a) * b = (v * b) * a
    OBVIOUS
  <2>2. op[<<op[<<v, a>>], b>>] = Res((v * a) * b, m) /\ op[<<op[<<v, b>>], a>>] = Res((v * b) * a, m)
    BY <1>4
  <2>. QED BY <2>1, <2>2
<1>. QED BY <1>2, <1>3, <1>5 DEF op, Commutes

\* nothing adds up to 0
LEMMA SumNone ==
  ASSUME NEW m \in Nat \ {0}, NEW n \in Nat, NEW f, DOMAIN f = {}
  PROVE  ResSum(f, n, m) = 0
<1>1. 0 \in 0..(m - 1)
  OBVIOUS
<1>. QED BY <1>1, FoldNone DEF ResSum

\* any number may be added last
LEMMA SumTakes ==
  ASSUME NEW m \in Nat \ {0}, NEW n \in Nat, NEW S \in SUBSET (1..n), NEW f \in [S -> Int]
  PROVE  /\ ResSum(f, n, m) \in 0..(m - 1)
         /\ \A x \in S : ResSum(f, n, m) = Res(ResSum(Without(f, x), n, m) + f[x], m)
<1>. DEFINE op == PlusRes(m)
            M == 0..(m - 1)
<1>1. /\ op \in [M \X Int -> M] /\ Commutes(op, M, Int)
      /\ \A v \in M, a \in Int : op[<<v, a>>] = Res(v + a, m)
  BY SumOp
<1>2. \A g : ResSum(g, n, m) = FoldOf(M, g, n, 0, op)
  BY DEF ResSum
<1>3. 0 \in M
  OBVIOUS
<1>. HIDE DEF op, M
<1>4. FoldOf(M, f, n, 0, op) \in M
  BY <1>1, <1>3, FoldType
<1>5. ASSUME NEW x \in S PROVE ResSum(f, n, m) = Res(ResSum(Without(f, x), n, m) + f[x], m)
  <2>1. FoldOf(M, f, n, 0, op) = op[<<FoldOf(M, Without(f, x), n, 0, op), f[x]>>]
    BY ONLY <1>1, <1>3, n \in Nat, S \in SUBSET (1..n), f \in [S -> Int], x \in S, FoldTakes
  <2>2. Without(f, x) \in [S \ {x} -> Int] /\ S \ {x} \in SUBSET (1..n)
    BY DEF Without
  <2>3. FoldOf(M, Without(f, x), n, 0, op) \in M
    BY <1>1, <1>3, <2>2, FoldType
  <2>4. f[x] \in Int
    OBVIOUS
  <2>. QED BY <1>1, <1>2, <2>1, <2>3, <2>4
<1>. QED BY <1>2, <1>4, <1>5 DEF M

\* the product of nothing is 1
LEMMA ProductNone ==
  ASSUME NEW m \in Nat \ {0}, m > 1, NEW n \in Nat, NEW f, DOMAIN f = {}
  PROVE  ResProduct(f, n, m) = 1
<1>1. 1 \in 0..(m - 1)
  OBVIOUS
<1>. QED BY <1>1, FoldNone DEF ResProduct

\* any factor may be the last
LEMMA ProductTakes ==
  ASSUME NEW m \in Nat \ {0}, m > 1, NEW n \in Nat, NEW S \in SUBSET (1..n), NEW f \in [S -> Int]
  PROVE  /\ ResProduct(f, n, m) \in 0..(m - 1)
         /\ \A x \in S : ResProduct(f, n, m) = Res(ResProduct(Without(f, x), n, m) * f[x], m)
<1>. DEFINE op == TimesRes(m)
            M == 0..(m - 1)
<1>1. /\ op \in [M \X Int -> M] /\ Commutes(op, M, Int)
      /\ \A v \in M, a \in Int : op[<<v, a>>] = Res(v * a, m)
  BY ProductOp
<1>2. \A g : ResProduct(g, n, m) = FoldOf(M, g, n, 1, op)
  BY DEF ResProduct
<1>3. 1 \in M
  OBVIOUS
<1>. HIDE DEF op, M
<1>4. FoldOf(M, f, n, 1, op) \in M
  BY <1>1, <1>3, FoldType
<1>5. ASSUME NEW x \in S PROVE ResProduct(f, n, m) = Res(ResProduct(Without(f, x), n, m) * f[x], m)
  <2>1. FoldOf(M, f, n, 1, op) = op[<<FoldOf(M, Without(f, x), n, 1, op), f[x]>>]
    <3>1. op \in [M \X Int -> M]
      BY <1>1
    <3>2. Commutes(op, M, Int)
      BY <1>1
    <3>. QED BY ONLY <1>3, <3>1, <3>2, n \in Nat, S \in SUBSET (1..n), f \in [S -> Int], x \in S, FoldTakes
  <2>2. Without(f, x) \in [S \ {x} -> Int] /\ S \ {x} \in SUBSET (1..n)
    BY DEF Without
  <2>3. FoldOf(M, Without(f, x), n, 1, op) \in M
    BY <1>1, <1>3, <2>2, FoldType
  <2>4. f[x] \in Int
    OBVIOUS
  <2>. QED BY <1>1, <1>2, <2>1, <2>3, <2>4
<1>. QED BY <1>2, <1>4, <1>5 DEF M

\* a product is 0 only if a factor is
LEMMA ProductNotZero ==
  ASSUME NEW m \in Nat \ {0}, Prime(m), NEW n \in Nat, NEW S \in SUBSET (1..n), NEW f \in [S -> Int],
         \A i \in S : Res(f[i], m) # 0
  PROVE  ResProduct(f, n, m) # 0
<1>. DEFINE Good(R) == \A g \in [R -> Int] : (\A i \in R : Res(g[i], m) # 0) => ResProduct(g, n, m) # 0
            T == {R \in SUBSET (1..n) : Good(R)}
<1>0. m > 1
  BY DEF Prime
<1>1. {} \in T
  <2>1. ASSUME NEW g \in [{} -> Int] PROVE ResProduct(g, n, m) # 0
    <3>1. DOMAIN g = {}
      OBVIOUS
    <3>. QED BY <1>0, <3>1, ProductNone
  <2>2. Good({})
    BY <2>1
  <2>3. {} \in SUBSET (1..n)
    OBVIOUS
  <2>. QED BY <2>2, <2>3
<1>2. ASSUME NEW R \in SUBSET (1..n), NEW x \in R, R \ {x} \in T PROVE R \in T
  <2>1. ASSUME NEW g \in [R -> Int], \A i \in R : Res(g[i], m) # 0 PROVE ResProduct(g, n, m) # 0
    <3>. DEFINE h == Without(g, x)
                p == ResProduct(h, n, m)
                b == g[x]
    <3>1. h \in [R \ {x} -> Int] /\ \A i \in R \ {x} : h[i] = g[i]
      BY DEF Without
    <3>2. p # 0
      BY <1>2, <2>1, <3>1
    <3>3. ResProduct(g, n, m) = Res(p * b, m)
      BY <1>0, ProductTakes
    <3>4. p \in 0..(m - 1)
      <4>1. R \ {x} \in SUBSET (1..n)
        OBVIOUS
      <4>. HIDE DEF h
      <4>. QED BY <1>0, <3>1, <4>1, ProductTakes
    <3>5. b \in Int /\ Res(b, m) # 0
      BY <2>1
    <3>. HIDE DEF h, p, b
    <3>6. Res(p, m) # 0 /\ p \in Int
      BY <3>2, <3>4, ResSmall
    <3>7. Res(p * b, m) # 0
      BY <3>5, <3>6, NoZeroDivisors
    <3>. QED BY <3>3, <3>7
  <2>. QED BY <2>1
<1>. HIDE DEF T
<1>3. \A R \in SUBSET (1..n) : R \in T
  BY <1>1, <1>2, SubsetInduction
<1>4. S \in T
  BY <1>3
<1>. QED BY <1>4 DEF T
-----------------------------------------------------------------------------
(***************************************************************************)
(* Powers.                                                                 *)
(***************************************************************************)
Raised(a) == LET p[i \in Nat] == IF i = 0 THEN 1 ELSE a * p[i - 1] IN p

\* they are numbers, each a times the one before
LEMMA RaisedSteps ==
  ASSUME NEW a \in Int
  PROVE  /\ Raised(a) \in [Nat -> Int] /\ Raised(a)[0] = 1
         /\ \A i \in Nat : Raised(a)[i + 1] = a * Raised(a)[i]
<1>. DEFINE H(p) == [i \in Nat |-> IF i = 0 THEN 1 ELSE a * p[i - 1]]
            g == CHOOSE p : p = H(p)
            step == [x \in Int \X (Nat \ {0}) |-> a * x[1]]
<1>1. Raised(a) = g
  BY DEF Raised
<1>2. step \in [Int \X (Nat \ {0}) -> Int]
  OBVIOUS
<1>3. \A v \in Int, i \in Nat \ {0} : step[<<v, i>>] = a * v
  OBVIOUS
<1>. HIDE DEF step
<1>4. PICK f : f \in [Nat -> Int] /\ f[0] = 1 /\ \A i \in Nat \ {0} : f[i] = step[<<f[i - 1], i>>]
  <2>. DEFINE one == 1
              M == Int
  <2>1. one \in M /\ step \in [M \X (Nat \ {0}) -> M]
    BY <1>2
  <2>. HIDE DEF one, M
  <2>2. \E f : IteratesForever(f, M, one, step)
    BY ONLY <2>1, IteratedForever
  <2>. QED BY <2>2 DEF one, M, IteratesForever
<1>5. ASSUME NEW i \in Nat PROVE f[i] = IF i = 0 THEN 1 ELSE a * f[i - 1]
  <2>1. CASE i = 0
    BY <1>4, <2>1
  <2>2. CASE i # 0
    <3>1. i - 1 \in Nat /\ i \in Nat \ {0}
      BY <2>2
    <3>. QED BY <1>3, <1>4, <2>2, <3>1
  <2>. QED BY <2>1, <2>2
<1>6. f = H(f)
  BY <1>4, <1>5
<1>7. g = H(g)
  <2>1. \E p : p = H(p)
    BY <1>6
  <2>. HIDE DEF H
  <2>. QED BY <2>1
<1>. HIDE DEF g
<1>8. DOMAIN g = Nat /\ g = [i \in Nat |-> g[i]] /\ \A i \in Nat : g[i] = IF i = 0 THEN 1 ELSE a * g[i - 1]
  BY <1>7
<1>9. ASSUME NEW n \in Nat PROVE g[n] \in Int
  <2>. DEFINE T == {k \in 0..n : g[k] \in Int}
  <2>1. 0 \in T
    BY <1>8
  <2>2. ASSUME NEW k \in 0..(n - 1), k \in T PROVE k + 1 \in T
    <3>. DEFINE j == k + 1
    <3>1. j \in Nat /\ j # 0 /\ j - 1 = k /\ j \in 0..n
      OBVIOUS
    <3>. HIDE DEF j
    <3>2. g[j] = a * g[k] /\ g[k] \in Int
      BY <1>8, <2>2, <3>1
    <3>3. j \in T
      BY <3>1, <3>2
    <3>. QED BY <3>3 DEF j
  <2>. HIDE DEF T
  <2>3. \A k \in 0..n : k \in T
    BY <2>1, <2>2, CountUp
  <2>. QED BY <2>3 DEF T
<1>10. \A i \in Nat : g[i + 1] = a * g[i]
  <2>1. ASSUME NEW i \in Nat PROVE g[i + 1] = a * g[i]
    <3>. DEFINE j == i + 1
    <3>1. j \in Nat /\ j # 0 /\ j - 1 = i
      OBVIOUS
    <3>. HIDE DEF j
    <3>2. g[j] = a * g[i]
      BY <1>8, <3>1
    <3>. QED BY <3>2 DEF j
  <2>. QED BY <2>1
<1>. QED BY <1>1, <1>8, <1>9, <1>10

\* powers of a product
LEMMA RaisedProduct ==
  ASSUME NEW a \in Int, NEW b \in Int, NEW n \in Nat
  PROVE  Raised(a * b)[n] = Raised(a)[n] * Raised(b)[n]
<1>. DEFINE c == a * b
            A == Raised(a)
            B == Raised(b)
            C == Raised(c)
            T == {k \in 0..n : C[k] = A[k] * B[k]}
<1>1. c \in Int
  OBVIOUS
<1>. HIDE DEF c
<1>2. /\ A \in [Nat -> Int] /\ A[0] = 1 /\ \A i \in Nat : A[i + 1] = a * A[i]
      /\ B \in [Nat -> Int] /\ B[0] = 1 /\ \A i \in Nat : B[i + 1] = b * B[i]
      /\ C \in [Nat -> Int] /\ C[0] = 1 /\ \A i \in Nat : C[i + 1] = c * C[i]
  BY <1>1, RaisedSteps
<1>. HIDE DEF A, B, C
<1>3. 0 \in T
  BY <1>2
<1>4. ASSUME NEW k \in 0..(n - 1), k \in T PROVE k + 1 \in T
  <2>. DEFINE u == A[k]
              v == B[k]
  <2>1. k \in Nat /\ k + 1 \in 0..n /\ u \in Int /\ v \in Int
    BY <1>2
  <2>2. C[k + 1] = c * (u * v) /\ A[k + 1] = a * u /\ B[k + 1] = b * v
    BY <1>2, <1>4, <2>1
  <2>. HIDE DEF u, v
  <2>3. (a * b) * (u * v) = (a * u) * (b * v)
    BY <2>1
  <2>4. C[k + 1] = A[k + 1] * B[k + 1]
    BY <2>2, <2>3 DEF c
  <2>. QED BY <2>1, <2>4
<1>. HIDE DEF T
<1>5. \A k \in 0..n : k \in T
  BY <1>3, <1>4, CountUp
<1>6. n \in T
  BY <1>5
<1>. QED BY <1>6 DEF T, A, B, C, c

\* powers of a square
LEMMA RaisedSquare ==
  ASSUME NEW a \in Int, NEW n \in Nat
  PROVE  Raised(a * a)[n] = Raised(a)[2 * n]
<1>. DEFINE c == a * a
            A == Raised(a)
            C == Raised(c)
            T == {k \in 0..n : C[k] = A[2 * k]}
<1>1. c \in Int
  OBVIOUS
<1>. HIDE DEF c
<1>2. /\ A \in [Nat -> Int] /\ A[0] = 1 /\ \A i \in Nat : A[i + 1] = a * A[i]
      /\ C \in [Nat -> Int] /\ C[0] = 1 /\ \A i \in Nat : C[i + 1] = c * C[i]
  BY <1>1, RaisedSteps
<1>. HIDE DEF A, C
<1>3. 0 \in T
  BY <1>2, 2 * 0 = 0
<1>4. ASSUME NEW k \in 0..(n - 1), k \in T PROVE k + 1 \in T
  <2>. DEFINE i == 2 * k
              u == A[i]
  <2>1. k \in Nat /\ k + 1 \in 0..n /\ i \in Nat /\ i + 1 \in Nat /\ 2 * (k + 1) = (i + 1) + 1
    OBVIOUS
  <2>2. C[k] = u
    BY <1>4
  <2>. HIDE DEF i
  <2>3. u \in Int /\ A[i + 1] = a * u /\ A[(i + 1) + 1] = a * A[i + 1]
    BY <1>2, <2>1
  <2>4. C[k + 1] = c * u
    BY <1>2, <2>1, <2>2
  <2>. HIDE DEF u
  <2>5. (a * a) * u = a * (a * u)
    BY <2>3
  <2>6. C[k + 1] = A[2 * (k + 1)]
    BY <2>1, <2>3, <2>4, <2>5 DEF c
  <2>. QED BY <2>1, <2>6
<1>. HIDE DEF T
<1>5. \A k \in 0..n : k \in T
  BY <1>3, <1>4, CountUp
<1>6. n \in T
  BY <1>5
<1>. QED BY <1>6 DEF T, A, C, c

\* powers of numbers with the same residue
LEMMA RaisedRes ==
  ASSUME NEW m \in Nat \ {0}, NEW a \in Int, NEW b \in Int, Res(a, m) = Res(b, m), NEW n \in Nat
  PROVE  Res(Raised(a)[n], m) = Res(Raised(b)[n], m)
<1>. DEFINE A == Raised(a)
            B == Raised(b)
            T == {k \in 0..n : Res(A[k], m) = Res(B[k], m)}
<1>2. /\ A \in [Nat -> Int] /\ A[0] = 1 /\ \A i \in Nat : A[i + 1] = a * A[i]
      /\ B \in [Nat -> Int] /\ B[0] = 1 /\ \A i \in Nat : B[i + 1] = b * B[i]
  BY RaisedSteps
<1>. HIDE DEF A, B
<1>3. 0 \in T
  BY <1>2
<1>4. ASSUME NEW k \in 0..(n - 1), k \in T PROVE k + 1 \in T
  <2>. DEFINE u == A[k]
              v == B[k]
  <2>1. k \in Nat /\ k + 1 \in 0..n /\ u \in Int /\ v \in Int /\ Res(u, m) = Res(v, m)
    BY <1>2, <1>4
  <2>2. A[k + 1] = a * u /\ B[k + 1] = b * v
    BY <1>2, <2>1
  <2>. HIDE DEF u, v
  <2>3. Res(a * u, m) = Res(b * v, m)
    BY <2>1, ResTimes
  <2>. QED BY <2>1, <2>2, <2>3
<1>. HIDE DEF T
<1>5. \A k \in 0..n : k \in T
  BY <1>3, <1>4, CountUp
<1>6. n \in T
  BY <1>5
<1>. QED BY <1>6 DEF T, A, B
-----------------------------------------------------------------------------
(***************************************************************************)
(* Fermat's little theorem: the multiples of a are a permutation.          *)
(***************************************************************************)
\* the numbers of S, each for itself
Id(S) == [i \in S |-> i]

\* a product over different numbers is the product of them as a set
LEMMA Rearranged ==
  ASSUME NEW m \in Nat \ {0}, m > 1, NEW n \in Nat, NEW S \in SUBSET (1..n), NEW f \in [S -> 1..n],
         \A i, j \in S : f[i] = f[j] => i = j
  PROVE  ResProduct(f, n, m) = ResProduct(Id({f[i] : i \in S}), n, m)
<1>. DEFINE Image(g, R) == {g[i] : i \in R}
            Same(g, R) == ResProduct(g, n, m) = ResProduct(Id(Image(g, R)), n, m)
            OneToOne(g, R) == \A i, j \in R : g[i] = g[j] => i = j
            T == {R \in SUBSET (1..n) : \A g \in [R -> 1..n] : OneToOne(g, R) => Same(g, R)}
<1>1. {} \in T
  <2>1. ASSUME NEW g \in [{} -> 1..n] PROVE Same(g, {})
    <3>1. DOMAIN g = {} /\ Image(g, {}) = {} /\ DOMAIN Id({}) = {}
      BY DEF Id
    <3>2. ResProduct(g, n, m) = 1 /\ ResProduct(Id({}), n, m) = 1
      BY <3>1, ProductNone
    <3>. QED BY <3>1, <3>2
  <2>2. {} \in SUBSET (1..n)
    OBVIOUS
  <2>. HIDE DEF Same, OneToOne
  <2>. QED BY <2>1, <2>2
<1>2. ASSUME NEW R \in SUBSET (1..n), NEW x \in R, R \ {x} \in T PROVE R \in T
  <2>1. ASSUME NEW g \in [R -> 1..n], OneToOne(g, R) PROVE Same(g, R)
    <3>. DEFINE h == Without(g, x)
                y == g[x]
                J == Image(g, R)
    <3>1. h \in [R \ {x} -> 1..n] /\ \A i \in R \ {x} : h[i] = g[i]
      BY DEF Without
    <3>. HIDE DEF h
    <3>2. OneToOne(h, R \ {x})
      BY <2>1, <3>1
    <3>3. Same(h, R \ {x})
      BY <1>2, <3>1, <3>2
    <3>4. Image(h, R \ {x}) = J \ {y}
      <4>1. ASSUME NEW z \in Image(h, R \ {x}) PROVE z \in J \ {y}
        <5>1. PICK i \in R \ {x} : z = h[i]
          OBVIOUS
        <5>2. z = g[i] /\ g[i] # y
          BY <2>1, <3>1, <5>1
        <5>. QED BY <5>2
      <4>2. ASSUME NEW z \in J \ {y} PROVE z \in Image(h, R \ {x})
        <5>1. PICK i \in R : z = g[i]
          OBVIOUS
        <5>2. i \in R \ {x}
          BY <5>1
        <5>. QED BY <3>1, <5>1, <5>2
      <4>. QED BY <4>1, <4>2
    <3>5. y \in J /\ J \in SUBSET (1..n) /\ y \in Int
      OBVIOUS
    <3>6. g \in [R -> Int]
      OBVIOUS
    <3>7. ResProduct(g, n, m) = Res(ResProduct(h, n, m) * y, m)
      BY <3>6, ProductTakes DEF h
    <3>8. Id(J) \in [J -> Int] /\ Id(J)[y] = y /\ Without(Id(J), y) = Id(J \ {y})
      BY <3>5 DEF Id, Without
    <3>. HIDE DEF J, y
    <3>9. ResProduct(Id(J), n, m) = Res(ResProduct(Id(J \ {y}), n, m) * y, m)
      BY <3>5, <3>8, ProductTakes
    <3>10. ResProduct(h, n, m) = ResProduct(Id(J \ {y}), n, m)
      BY <3>3, <3>4
    <3>11. ResProduct(g, n, m) = ResProduct(Id(J), n, m)
      BY <3>7, <3>9, <3>10
    <3>. QED BY <3>11 DEF J
  <2>. HIDE DEF Same, OneToOne
  <2>. QED BY <2>1
<1>. HIDE DEF T
<1>3. \A R \in SUBSET (1..n) : R \in T
  BY <1>1, <1>2, SubsetInduction
<1>4. S \in T
  BY <1>3
<1>. QED BY <1>4 DEF T

(***************************************************************************)
(* The power m - 1 of what is not 0 modulo a prime m is 1.                 *)
(***************************************************************************)
THEOREM FermatLittle ==
  ASSUME NEW m \in Nat \ {0}, Prime(m), NEW a \in Int, Res(a, m) # 0
  PROVE  Res(Raised(a)[m - 1], m) = 1
<1>. DEFINE n == m - 1
            A == Raised(a)
            f == [i \in 1..n |-> Res(a * i, m)]
<1>1. m > 1 /\ n \in Nat /\ 1..n \in SUBSET (1..n)
  BY DEF Prime
<1>2. ASSUME NEW i \in 1..n PROVE a * i \in Int /\ Res(a * i, m) \in 1..n
  <2>1. i \in 0..(m - 1) /\ i # 0 /\ i \in Int /\ a * i \in Int
    OBVIOUS
  <2>2. Res(i, m) # 0
    BY <2>1, ResSmall
  <2>3. Res(a * i, m) # 0
    BY <2>1, <2>2, NoZeroDivisors
  <2>4. Res(a * i, m) \in 0..(m - 1)
    <3>. DEFINE k == a * i
    <3>1. k \in Int
      BY <2>1
    <3>. HIDE DEF k
    <3>2. Res(k, m) \in 0..(m - 1)
      BY <3>1, Division
    <3>. QED BY <3>2 DEF k
  <2>. QED BY <2>1, <2>3, <2>4
<1>3. f \in [1..n -> 1..n]
  BY <1>2
<1>4. ASSUME NEW i \in 1..n, NEW j \in 1..n, f[i] = f[j] PROVE i = j
  <2>1. i \in 0..(m - 1) /\ j \in 0..(m - 1) /\ i \in Int /\ j \in Int
    OBVIOUS
  <2>2. i * a = a * i /\ j * a = a * j
    BY <2>1
  <2>3. Res(i * a, m) = Res(j * a, m)
    BY <1>4, <2>2
  <2>4. Res(i, m) = Res(j, m)
    BY <2>1, <2>3, Cancel
  <2>. QED BY <2>1, <2>4, ResSmall
<1>5. {f[i] : i \in 1..n} = 1..n
  <2>0. \A i, j \in 1..n : f[i] = f[j] => i = j
    BY <1>4
  <2>1. f \in Injection(1..n, 1..n)
    <3>. HIDE DEF f
    <3>. QED BY <1>3, <2>0 DEF Injection, IsInjective
  <2>2. IsFiniteSet(1..n)
    BY <1>1, FS_Interval
  <2>. HIDE DEF f
  <2>3. f \in Surjection(1..n, 1..n)
    BY <2>1, <2>2, FS_Injection
  <2>. QED BY <1>3, <2>3 DEF Surjection
<1>6. \A i \in 1..n : f[i] = Res(a * i, m)
  OBVIOUS
<1>. HIDE DEF f
<1>7. ResProduct(f, n, m) = ResProduct(Id(1..n), n, m)
  <2>. DEFINE S == 1..n
  <2>1. S \in SUBSET (1..n) /\ f \in [S -> 1..n] /\ {f[i] : i \in S} = S
    BY <1>1, <1>3, <1>5
  <2>2. \A i, j \in S : f[i] = f[j] => i = j
    BY <1>4
  <2>3. n \in Nat /\ m > 1
    BY <1>1
  <2>. HIDE DEF S, n
  <2>4. ResProduct(f, n, m) = ResProduct(Id({f[i] : i \in S}), n, m)
    BY ONLY m \in Nat \ {0}, <2>1, <2>2, <2>3, Rearranged
  <2>. QED BY <2>1, <2>4 DEF S
<1>8. A \in [Nat -> Int] /\ A[0] = 1 /\ \A i \in Nat : A[i + 1] = a * A[i]
  BY RaisedSteps
<1>. HIDE DEF A
<1>. DEFINE F(k) == [i \in 1..k |-> f[i]]
            T == {k \in 0..n : ResProduct(F(k), n, m) = Res(A[k] * ResProduct(Id(1..k), n, m), m)}
<1>9. 0 \in T
  <2>1. DOMAIN F(0) = {} /\ DOMAIN Id(1..0) = {}
    BY DEF Id
  <2>. HIDE DEF F
  <2>2. ResProduct(F(0), n, m) = 1 /\ ResProduct(Id(1..0), n, m) = 1
    BY <1>1, <2>1, ProductNone
  <2>3. 1 \in 0..(m - 1)
    BY <1>1
  <2>4. Res(1 * 1, m) = 1
    BY <2>3, ResSmall
  <2>5. 0 \in 0..n
    BY <1>1
  <2>. HIDE DEF n
  <2>. QED BY <1>8, <2>2, <2>4, <2>5
<1>10. ASSUME NEW k \in 0..(n - 1), k \in T PROVE k + 1 \in T
  <2>. DEFINE x == k + 1
              p == ResProduct(Id(1..k), n, m)
              u == A[k]
  <2>1. x \in 1..n /\ x \in 0..n /\ x \in Int /\ k \in Nat /\ 1..x \in SUBSET (1..n) /\ 1..k \in SUBSET (1..n)
        /\ (1..x) \ {x} = 1..k /\ x \in 1..x
    BY <1>1
  <2>2. A[x] = a * u /\ u \in Int
    BY <1>8, <2>1
  <2>. HIDE DEF x
  <2>3. F(x) \in [1..x -> Int] /\ Without(F(x), x) = F(k) /\ F(x)[x] = Res(a * x, m)
    <3>1. \A i \in 1..x : f[i] \in Int
      BY <1>3, <2>1
    <3>2. F(x) \in [1..x -> Int]
      BY <3>1
    <3>3. Without(F(x), x) = F(k)
      BY <2>1 DEF Without
    <3>. QED BY <1>6, <2>1, <3>2, <3>3
  <2>4. Id(1..x) \in [1..x -> Int] /\ Without(Id(1..x), x) = Id(1..k) /\ Id(1..x)[x] = x
    BY <2>1 DEF Without, Id
  <2>5. ResProduct(F(x), n, m) = Res(ResProduct(F(k), n, m) * Res(a * x, m), m)
    <3>. DEFINE g == F(x)
                S == 1..x
    <3>1. S \in SUBSET (1..n) /\ g \in [S -> Int] /\ x \in S
      BY <2>1, <2>3
    <3>2. Without(g, x) = F(k) /\ g[x] = Res(a * x, m)
      BY <2>3
    <3>3. m > 1 /\ n \in Nat
      BY <1>1
    <3>. HIDE DEF g, S, F, n
    <3>4. ResProduct(g, n, m) = Res(ResProduct(Without(g, x), n, m) * g[x], m)
      BY ONLY m \in Nat \ {0}, <3>1, <3>3, ProductTakes
    <3>. QED BY <3>2, <3>4 DEF g
  <2>6. ResProduct(Id(1..x), n, m) = Res(p * x, m)
    <3>. DEFINE S == 1..x
                g == Id(S)
    <3>1. S \in SUBSET (1..n) /\ g \in [S -> Int] /\ x \in S
      BY <2>1, <2>4
    <3>2. Without(g, x) = Id(1..k) /\ g[x] = x
      BY <2>4
    <3>3. m > 1 /\ n \in Nat
      BY <1>1
    <3>. HIDE DEF g, S, n
    <3>4. ResProduct(g, n, m) = Res(ResProduct(Without(g, x), n, m) * g[x], m)
      BY ONLY m \in Nat \ {0}, <3>1, <3>3, ProductTakes
    <3>. QED BY <3>2, <3>4 DEF g, S
  <2>7. p \in Int
    <3>1. Id(1..k) \in [1..k -> Int]
      BY <2>1 DEF Id
    <3>2. p \in 0..(m - 1)
      BY <1>1, <2>1, <3>1, ProductTakes
    <3>. QED BY <3>2
  <2>8. ResProduct(F(k), n, m) = Res(u * p, m)
    BY <1>10
  <2>. HIDE DEF p, u
  <2>9. Res(Res(u * p, m) * Res(a * x, m), m) = Res((a * u) * Res(p * x, m), m)
    <3>. DEFINE b == u * p
                c == a * x
                d == a * u
                e == p * x
    <3>1. b \in Int /\ c \in Int /\ d \in Int /\ e \in Int
      BY <2>1, <2>2, <2>7
    <3>2. b * c = d * e
      BY <2>1, <2>2, <2>7
    <3>. HIDE DEF b, c, d, e
    <3>3. Res(b, m) \in Int
      BY <3>1, Division
    <3>4. Res(Res(b, m) * Res(c, m), m) = Res(Res(b, m) * c, m) /\ Res(Res(b, m) * c, m) = Res(b * c, m)
      BY <3>1, <3>3, ResIn
    <3>5. Res(d * Res(e, m), m) = Res(d * e, m)
      BY <3>1, ResIn
    <3>6. Res(Res(b, m) * Res(c, m), m) = Res(d * Res(e, m), m)
      BY <3>2, <3>4, <3>5
    <3>. QED BY <3>6 DEF b, c, d, e
  <2>10. ResProduct(F(x), n, m) = Res(A[x] * ResProduct(Id(1..x), n, m), m)
    <3>. HIDE DEF F
    <3>. QED BY <2>2, <2>5, <2>6, <2>8, <2>9
  <2>11. x \in T
    BY <2>1, <2>10
  <2>. QED BY <2>11 DEF x
<1>. HIDE DEF T, n
<1>11. \A k \in 0..n : k \in T
  BY <1>1, <1>9, <1>10, CountUp
<1>12. n \in T
  BY <1>1, <1>11
<1>. DEFINE q == ResProduct(Id(1..n), n, m)
            w == A[n]
<1>13. F(n) = f
  BY <1>3
<1>14. q = Res(w * q, m)
  BY <1>7, <1>12, <1>13 DEF T
<1>15. Id(1..n) \in [1..n -> Int] /\ \A i \in 1..n : Id(1..n)[i] = i
  BY DEF Id
<1>16. q \in 0..(m - 1) /\ w \in Int
  BY <1>1, <1>8, <1>15, ProductTakes
<1>17. q # 0
  <2>1. ASSUME NEW i \in 1..n PROVE Res(Id(1..n)[i], m) # 0
    <3>1. i \in 0..(m - 1) /\ i # 0
      BY <1>1 DEF n
    <3>2. Res(i, m) = i
      BY <3>1, ResSmall
    <3>. QED BY <1>15, <3>1, <3>2
  <2>. QED BY <1>1, <1>15, <2>1, ProductNotZero
<1>. HIDE DEF q, w
<1>18. Res(q, m) = q /\ q \in Int /\ 1 * q = q /\ 1 \in Int /\ 1 \in 0..(m - 1)
  BY <1>1, <1>16, ResSmall
<1>19. Res(w * q, m) = Res(1 * q, m)
  BY <1>14, <1>18
<1>20. Res(w, m) = Res(1, m)
  BY <1>16, <1>17, <1>18, <1>19, Cancel
<1>21. Res(1, m) = 1
  BY <1>18, ResSmall
<1>. QED BY <1>20, <1>21 DEF w, A, n

\* h is c times f and d times g
Combines(h, c, f, d, g, S, m) == \A i \in S : Res(h[i], m) = Res((c * f[i]) + (d * g[i]), m)

\* sums are linear
LEMMA SumLinear ==
  ASSUME NEW m \in Nat \ {0}, NEW n \in Nat, NEW S \in SUBSET (1..n), NEW c \in Int, NEW d \in Int,
         NEW f \in [S -> Int], NEW g \in [S -> Int], NEW h \in [S -> Int],
         Combines(h, c, f, d, g, S, m)
  PROVE  ResSum(h, n, m) = Res((c * ResSum(f, n, m)) + (d * ResSum(g, n, m)), m)
<1>. DEFINE Lin(a, b, k, R) == \A i \in R : Res(k[i], m) = Res((c * a[i]) + (d * b[i]), m)
            Sums(a, b, k) == ResSum(k, n, m) = Res((c * ResSum(a, n, m)) + (d * ResSum(b, n, m)), m)
            T == {R \in SUBSET (1..n) : \A a, b, k \in [R -> Int] : Lin(a, b, k, R) => Sums(a, b, k)}
<1>1. {} \in T
  <2>1. ASSUME NEW a \in [{} -> Int], NEW b \in [{} -> Int], NEW k \in [{} -> Int] PROVE Sums(a, b, k)
    <3>1. DOMAIN a = {} /\ DOMAIN b = {} /\ DOMAIN k = {}
      OBVIOUS
    <3>2. ResSum(a, n, m) = 0 /\ ResSum(b, n, m) = 0 /\ ResSum(k, n, m) = 0
      BY <3>1, SumNone
    <3>3. (c * 0) + (d * 0) = 0 /\ 0 \in 0..(m - 1)
      OBVIOUS
    <3>4. Res(0, m) = 0
      BY <3>3, ResSmall
    <3>. QED BY <3>2, <3>3, <3>4
  <2>2. {} \in SUBSET (1..n)
    OBVIOUS
  <2>. HIDE DEF Sums, Lin
  <2>. QED BY <2>1, <2>2
<1>2. ASSUME NEW R \in SUBSET (1..n), NEW x \in R, R \ {x} \in T PROVE R \in T
  <2>1. ASSUME NEW a \in [R -> Int], NEW b \in [R -> Int], NEW k \in [R -> Int], Lin(a, b, k, R)
        PROVE  Sums(a, b, k)
    <3>. DEFINE a1 == Without(a, x)
                b1 == Without(b, x)
                k1 == Without(k, x)
    <3>1. /\ a1 \in [R \ {x} -> Int] /\ b1 \in [R \ {x} -> Int] /\ k1 \in [R \ {x} -> Int]
          /\ \A i \in R \ {x} : a1[i] = a[i] /\ b1[i] = b[i] /\ k1[i] = k[i]
      BY DEF Without
    <3>2. R \ {x} \in SUBSET (1..n)
      OBVIOUS
    <3>3. /\ ResSum(a, n, m) = Res(ResSum(a1, n, m) + a[x], m)
          /\ ResSum(b, n, m) = Res(ResSum(b1, n, m) + b[x], m)
          /\ ResSum(k, n, m) = Res(ResSum(k1, n, m) + k[x], m)
      BY SumTakes
    <3>. HIDE DEF a1, b1, k1
    <3>4. ResSum(a1, n, m) \in Int /\ ResSum(b1, n, m) \in Int /\ ResSum(k1, n, m) \in Int
      <4>1. ResSum(a1, n, m) \in 0..(m - 1) /\ ResSum(b1, n, m) \in 0..(m - 1) /\ ResSum(k1, n, m) \in 0..(m - 1)
        BY <3>1, <3>2, SumTakes
      <4>. QED BY <4>1
    <3>5. Lin(a1, b1, k1, R \ {x})
      BY <2>1, <3>1
    <3>6. ResSum(k1, n, m) = Res((c * ResSum(a1, n, m)) + (d * ResSum(b1, n, m)), m)
      BY <1>2, <3>1, <3>5
    <3>7. a[x] \in Int /\ b[x] \in Int /\ k[x] \in Int /\ Res(k[x], m) = Res((c * a[x]) + (d * b[x]), m)
      BY <2>1
    <3>. DEFINE p == ResSum(a1, n, m)
                q == ResSum(b1, n, m)
                r == ResSum(k1, n, m)
                u == a[x]
                v == b[x]
                w == k[x]
                s == (c * p) + (d * q)
                t == (c * u) + (d * v)
                pu == p + u
                qv == q + v
    <3>8. p \in Int /\ q \in Int /\ r \in Int /\ u \in Int /\ v \in Int /\ w \in Int
          /\ r = Res(s, m) /\ Res(w, m) = Res(t, m)
      BY <3>4, <3>6, <3>7
    <3>9. /\ ResSum(a, n, m) = Res(pu, m) /\ ResSum(b, n, m) = Res(qv, m) /\ ResSum(k, n, m) = Res(r + w, m)
      BY <3>3
    <3>. HIDE DEF p, q, r, u, v, w, Lin
    <3>10. s \in Int /\ t \in Int /\ pu \in Int /\ qv \in Int /\ s + t = (c * pu) + (d * qv)
      BY <3>8
    <3>. HIDE DEF s, t, pu, qv
    <3>11. Res(r + w, m) = Res(s + t, m)
      <4>1. Res(r, m) = Res(s, m)
        BY <3>8, <3>10, ResIn
      <4>. QED BY <4>1, <3>8, <3>10, ResPlus
    <3>. DEFINE A == Res(pu, m)
                B == Res(qv, m)
                cA == c * A
                dB == d * B
                cpu == c * pu
                dqv == d * qv
    <3>12. A \in Int /\ B \in Int /\ cA \in Int /\ dB \in Int /\ cpu \in Int /\ dqv \in Int
      <4>1. A \in Int /\ B \in Int
        BY <3>10, Division
      <4>. HIDE DEF A, B
      <4>. QED BY <4>1, <3>10
    <3>13. Res(cA, m) = Res(cpu, m) /\ Res(dB, m) = Res(dqv, m)
      BY ZenonT(30), <3>10, ResIn
    <3>. HIDE DEF cA, dB, cpu, dqv
    <3>14. Res(cA + dB, m) = Res(cpu + dqv, m)
      BY <3>12, <3>13, ResPlus
    <3>15. ResSum(k, n, m) = Res((c * A) + (d * B), m)
      BY <3>9, <3>10, <3>11, <3>14 DEF cA, dB, cpu, dqv
    <3>. QED BY <3>9, <3>15
  <2>. HIDE DEF Lin, Sums
  <2>. QED BY <2>1
<1>3. \A R \in SUBSET (1..n) : R \in T
  <2>. HIDE DEF T
  <2>. QED BY <1>1, <1>2, SubsetInduction
<1>4. S \in T
  BY <1>3
<1>. HIDE DEF Lin, Sums
<1>5. Lin(f, g, h, S) => Sums(f, g, h)
  BY <1>4
<1>. QED BY <1>5 DEF Lin, Sums, Combines
-----------------------------------------------------------------------------
(***************************************************************************)
(* Lagrange's coefficients, from what they say of each other.              *)
(***************************************************************************)
LagrangeSum(S, l, f, n, m) == ResSum([i \in S |-> l[S][i] * f[i]], n, m)

\* coefficients for all parts of 1..n
Coefficients(l, n, m) ==
  /\ l \in [SUBSET (1..n) -> [1..n -> Int]]
  /\ \A k \in 1..n : Res(l[{k}][k], m) = 1
  /\ \A S \in SUBSET (1..n) : \A k \in S : \A i \in S \ {k} :
       Res(l[S][i] * (k - i), m) = Res(k * l[S \ {k}][i], m)

Ones(S) == [i \in S |-> 1]

\* f(x) is c + (x - k) * h(x)
Through(f, c, k, h, S, m) ==
  Res(f[k], m) = Res(c, m) /\ \A i \in S \ {k} : Res(f[i], m) = Res(c + ((i - k) * h[i]), m)

\* the sum for f from the one for h
LEMMA LagrangeStep ==
  ASSUME NEW m \in Nat \ {0}, NEW n \in Nat, NEW l, Coefficients(l, n, m), NEW S \in SUBSET (1..n), NEW k \in S,
         NEW c \in Int, NEW f \in [S -> Int], NEW h \in [S \ {k} -> Int], Through(f, c, k, h, S, m)
  PROVE  LagrangeSum(S, l, f, n, m)
           = Res((c * LagrangeSum(S, l, Ones(S), n, m)) - (k * LagrangeSum(S \ {k}, l, h, n, m)), m)
<1>. DEFINE one == [i \in S |-> l[S][i] * Ones(S)[i]]
            all == [i \in S |-> l[S][i] * f[i]]
            less == [i \in S \ {k} |-> l[S \ {k}][i] * h[i]]
            rest == [i \in S |-> IF i = k THEN 0 ELSE k * (l[S \ {k}][i] * h[i])]
            rest1 == Without(rest, k)
            e == 0 - 1
<1>1. S \in SUBSET (1..n) /\ S \ {k} \in SUBSET (1..n) /\ k \in Int /\ \A i \in S : i \in Int /\ i \in 1..n
  OBVIOUS
<1>2. \A R \in SUBSET (1..n), i \in 1..n : l[R][i] \in Int
  BY DEF Coefficients
<1>3. /\ one \in [S -> Int] /\ all \in [S -> Int] /\ less \in [S \ {k} -> Int] /\ rest \in [S -> Int]
      /\ rest1 \in [S \ {k} -> Int]
  <2>1. \A i \in S : l[S][i] \in Int /\ f[i] \in Int /\ Ones(S)[i] = 1
    BY <1>1, <1>2 DEF Ones
  <2>2. \A i \in S \ {k} : l[S \ {k}][i] \in Int /\ h[i] \in Int
    BY <1>1, <1>2
  <2>. DEFINE b == l[S \ {k}]
              a == l[S]
  <2>3. \A i \in S \ {k} : b[i] \in Int /\ h[i] \in Int
    BY <2>2
  <2>4. \A i \in S : a[i] \in Int /\ f[i] \in Int /\ Ones(S)[i] \in Int
    BY <2>1
  <2>. HIDE DEF a, b
  <2>5. \A i \in S \ {k} : b[i] * h[i] \in Int /\ k * (b[i] * h[i]) \in Int
    BY <1>1, <2>3
  <2>6. \A i \in S : (IF i = k THEN 0 ELSE k * (b[i] * h[i])) \in Int
    BY <2>5
  <2>7. less \in [S \ {k} -> Int] /\ rest \in [S -> Int]
    BY <2>5, <2>6 DEF b
  <2>8. \A i \in S : a[i] * f[i] \in Int /\ a[i] * Ones(S)[i] \in Int
    BY <2>4
  <2>9. one \in [S -> Int] /\ all \in [S -> Int]
    BY <2>8 DEF a
  <2>. QED BY <2>7, <2>9 DEF Without
<1>4. rest[k] = 0 /\ \A i \in S \ {k} : rest1[i] = k * less[i]
  BY DEF Without
<1>5. \A i \in S \ {k} : rest[i] = k * less[i]
  OBVIOUS
<1>6. /\ LagrangeSum(S, l, f, n, m) = ResSum(all, n, m) /\ LagrangeSum(S, l, Ones(S), n, m) = ResSum(one, n, m)
      /\ LagrangeSum(S \ {k}, l, h, n, m) = ResSum(less, n, m)
  BY DEF LagrangeSum
<1>7. /\ \A i \in S : one[i] = l[S][i] /\ all[i] = l[S][i] * f[i]
      /\ \A i \in S \ {k} : less[i] = l[S \ {k}][i] * h[i]
  <2>1. \A i \in S : l[S][i] \in Int
    BY <1>1, <1>2
  <2>. QED BY <2>1 DEF Ones
<1>8. rest1 = Without(rest, k)
  OBVIOUS
<1>. HIDE DEF one, all, less, rest, rest1
<1>9. ASSUME NEW i \in S PROVE Res(all[i], m) = Res((c * one[i]) + (e * rest[i]), m)
  <2>. DEFINE a == l[S][i]
  <2>1. a \in Int /\ f[i] \in Int /\ one[i] = a /\ all[i] = a * f[i]
    BY <1>1, <1>2, <1>7
  <2>2. CASE i = k
    <3>1. Res(f[i], m) = Res(c, m)
      BY <2>2 DEF Through
    <3>. HIDE DEF a
    <3>2. Res(f[i] * a, m) = Res(c * a, m)
      BY <2>1, <3>1, ResTimesBy
    <3>3. all[i] = f[i] * a /\ (c * one[i]) + (e * rest[i]) = c * a
      BY <1>4, <2>1, <2>2
    <3>. QED BY <3>2, <3>3
  <2>3. CASE i # k
    <3>. DEFINE b == l[S \ {k}][i]
                g == h[i]
                w == c + ((i - k) * g)
                v == k * b
                u == a * (k - i)
    <3>1. i \in S \ {k} /\ i \in Int /\ b \in Int /\ g \in Int
      BY <1>1, <1>2, <2>3
    <3>2. Res(f[i], m) = Res(w, m)
      BY <3>1 DEF Through
    <3>3. Res(u, m) = Res(v, m)
      BY <3>1 DEF Coefficients
    <3>4. rest[i] = k * (b * g)
      BY <1>5, <1>7, <3>1
    <3>. HIDE DEF a, b, g
    <3>5. w \in Int /\ u \in Int /\ v \in Int
      BY <1>1, <2>1, <3>1
    <3>6. (a * w) = (c * a) - (u * g) /\ (c * a) + (e * rest[i]) = (c * a) - (v * g)
      BY <1>1, <2>1, <3>1, <3>4
    <3>. HIDE DEF u, v, w
    <3>7. Res(f[i] * a, m) = Res(w * a, m)
      <4>. DEFINE y == f[i]
      <4>1. y \in Int /\ Res(y, m) = Res(w, m) /\ a \in Int /\ w \in Int
        BY <2>1, <3>2, <3>5
      <4>. HIDE DEF y
      <4>2. Res(y * a, m) = Res(w * a, m)
        BY ONLY m \in Nat \ {0}, <4>1, ResTimesBy, Zenon
      <4>. QED BY <4>2 DEF y
    <3>8. Res(u * g, m) = Res(v * g, m)
      BY ONLY m \in Nat \ {0}, <3>1, <3>3, <3>5, ResTimesBy, Zenon
    <3>. DEFINE ca == c * a
                ug == u * g
                vg == v * g
    <3>9. ca \in Int /\ ug \in Int /\ vg \in Int
      BY <2>1, <3>1, <3>5
    <3>10. Res(ca - ug, m) = Res(ca - vg, m)
      <4>. HIDE DEF ca, ug, vg
      <4>1. Res(ug, m) = Res(vg, m)
        BY <3>8 DEF ug, vg
      <4>. QED BY ONLY m \in Nat \ {0}, <3>9, <4>1, ResMinusOf
    <3>11. f[i] * a = all[i] /\ w * a = a * w
      BY <2>1, <3>5
    <3>. QED BY <2>1, <3>6, <3>7, <3>10, <3>11
  <2>. QED BY <2>2, <2>3
<1>10. ResSum(all, n, m) = Res((c * ResSum(one, n, m)) + (e * ResSum(rest, n, m)), m)
  <2>1. e \in Int /\ Combines(all, c, one, e, rest, S, m)
    BY <1>9 DEF Combines
  <2>. HIDE DEF e
  <2>2. ResSum(all, n, m) = Res((c * ResSum(one, n, m)) + (e * ResSum(rest, n, m)), m)
    BY ONLY m \in Nat \ {0}, n \in Nat, S \in SUBSET (1..n), c \in Int, <1>3, <2>1, SumLinear
  <2>. QED BY <2>2
<1>11. ResSum(rest1, n, m) = Res(k * ResSum(less, n, m), m)
  <2>. DEFINE z == 0
              R == S \ {k}
  <2>1. z \in Int /\ R \in SUBSET (1..n) /\ less \in [R -> Int] /\ rest1 \in [R -> Int]
    BY <1>1, <1>3
  <2>2. Combines(rest1, k, less, z, less, R, m)
    <3>1. \A i \in R : less[i] \in Int /\ rest1[i] = k * less[i]
      BY <1>3, <1>4
    <3>2. \A i \in R : (k * less[i]) + (z * less[i]) = k * less[i]
      BY <1>1, <3>1
    <3>. QED BY <3>1, <3>2 DEF Combines
  <2>. HIDE DEF z, R
  <2>3. ResSum(rest1, n, m) = Res((k * ResSum(less, n, m)) + (z * ResSum(less, n, m)), m)
    BY ONLY m \in Nat \ {0}, n \in Nat, <2>1, <2>2, k \in Int, <1>1, SumLinear
  <2>4. ResSum(less, n, m) \in Int
    <3>1. ResSum(less, n, m) \in 0..(m - 1)
      BY <2>1, SumTakes
    <3>. QED BY <3>1
  <2>5. (k * ResSum(less, n, m)) + (z * ResSum(less, n, m)) = k * ResSum(less, n, m)
    BY <2>4, <1>1 DEF z
  <2>. QED BY <2>3, <2>5
<1>12. ResSum(rest, n, m) = Res(ResSum(rest1, n, m) + 0, m)
  BY <1>3, <1>4, <1>8, SumTakes
<1>. DEFINE A == ResSum(one, n, m)
            B == ResSum(less, n, m)
            C == ResSum(rest, n, m)
            D == ResSum(rest1, n, m)
<1>13. A \in Int /\ B \in Int /\ C \in Int /\ D \in Int /\ D \in 0..(m - 1)
  <2>1. A \in 0..(m - 1) /\ B \in 0..(m - 1) /\ C \in 0..(m - 1) /\ D \in 0..(m - 1)
    BY <1>1, <1>3, SumTakes
  <2>. QED BY <2>1
<1>. HIDE DEF A, B, C, D
<1>14. C = D
  BY <1>12, <1>13, ResSmall DEF C, D
<1>. DEFINE cA == c * A
            kB == k * B
<1>15. cA \in Int /\ kB \in Int /\ (c * A) + (e * C) = cA - C
  BY <1>1, <1>13
<1>16. C = Res(kB, m)
  BY <1>11, <1>14 DEF D, B
<1>. HIDE DEF cA, kB
<1>17. Res(cA - C, m) = Res(cA - kB, m)
  BY <1>15, <1>16, ResIn
<1>18. ResSum(all, n, m) = Res((c * A) + (e * C), m)
  BY <1>10 DEF A, C
<1>19. ResSum(all, n, m) = Res((c * A) - (k * B), m)
  BY <1>15, <1>17, <1>18 DEF cA, kB
<1>. QED BY <1>6, <1>19 DEF A, B

\* sets of numbers up to n are finite, and lose one with each that is taken out
LEMMA SubsetSize ==
  ASSUME NEW n \in Nat, NEW S \in SUBSET (1..n)
  PROVE  /\ Cardinality(S) \in 0..n
         /\ Cardinality(S) = 0 <=> S = {}
         /\ \A x \in S : Cardinality(S \ {x}) = Cardinality(S) - 1
<1>1. IsFiniteSet(1..n) /\ Cardinality(1..n) = n
  BY FS_Interval
<1>2. IsFiniteSet(S) /\ Cardinality(S) <= n
  BY <1>1, FS_Subset
<1>3. Cardinality(S) \in Nat
  BY <1>2, FS_CardinalityType
<1>4. Cardinality(S) \in 0..n
  BY <1>2, <1>3
<1>5. Cardinality(S) = 0 <=> S = {}
  BY <1>2, FS_EmptySet
<1>6. \A x \in S : Cardinality(S \ {x}) = Cardinality(S) - 1
  BY <1>2, FS_RemoveElement
<1>. QED BY <1>4, <1>5, <1>6

\* induction over the sets of numbers up to n, from all those with one less
LEMMA SmallerSets ==
  ASSUME NEW n \in Nat, NEW T,
         \A S \in SUBSET (1..n) : (\A x \in S : S \ {x} \in T) => S \in T
  PROVE  \A S \in SUBSET (1..n) : S \in T
<1>. DEFINE U == {k \in 0..n : \A S \in SUBSET (1..n) : Cardinality(S) = k => S \in T}
<1>1. 0 \in U
  <2>1. ASSUME NEW S \in SUBSET (1..n), Cardinality(S) = 0 PROVE S \in T
    <3>1. S = {}
      BY <2>1, SubsetSize
    <3>. QED BY <3>1
  <2>2. 0 \in 0..n
    OBVIOUS
  <2>. QED BY <2>1, <2>2
<1>2. ASSUME NEW k \in 0..(n - 1), k \in U PROVE k + 1 \in U
  <2>1. ASSUME NEW S \in SUBSET (1..n), Cardinality(S) = k + 1 PROVE S \in T
    <3>1. ASSUME NEW x \in S PROVE S \ {x} \in T
      <4>1. Cardinality(S \ {x}) = k /\ S \ {x} \in SUBSET (1..n)
        <5>1. Cardinality(S \ {x}) = Cardinality(S) - 1
          BY SubsetSize
        <5>. QED BY <2>1, <5>1
      <4>. QED BY <1>2, <4>1
    <3>. QED BY <3>1
  <2>2. k + 1 \in 0..n
    OBVIOUS
  <2>. QED BY <2>1, <2>2
<1>. HIDE DEF U
<1>3. \A k \in 0..n : k \in U
  BY <1>1, <1>2, CountUp
<1>4. ASSUME NEW S \in SUBSET (1..n) PROVE S \in T
  <2>1. Cardinality(S) \in U
    BY <1>3, SubsetSize
  <2>. QED BY <2>1 DEF U
<1>. QED BY <1>4

\* a sum of Lagrange's is a number
LEMMA LagrangeType ==
  ASSUME NEW m \in Nat \ {0}, NEW n \in Nat, NEW l, Coefficients(l, n, m), NEW S \in SUBSET (1..n), NEW f \in [S -> Int]
  PROVE  LagrangeSum(S, l, f, n, m) \in 0..(m - 1) /\ LagrangeSum(S, l, f, n, m) \in Int
<1>. DEFINE a == l[S]
            g == [i \in S |-> a[i] * f[i]]
<1>1. \A i \in S : a[i] \in Int /\ f[i] \in Int
  BY DEF Coefficients
<1>. HIDE DEF a
<1>2. \A i \in S : a[i] * f[i] \in Int
  BY <1>1
<1>3. g \in [S -> Int]
  BY <1>2
<1>. HIDE DEF g
<1>4. ResSum(g, n, m) \in 0..(m - 1)
  BY <1>3, SumTakes
<1>5. LagrangeSum(S, l, f, n, m) = ResSum(g, n, m)
  BY DEF LagrangeSum, g, a
<1>. QED BY <1>4, <1>5

\* ones are numbers
LEMMA OnesType ==
  ASSUME NEW S
  PROVE  Ones(S) \in [S -> Int] /\ \A i \in S : Ones(S)[i] = 1
BY DEF Ones

\* the coefficients add up to 1
LEMMA LagrangeOne ==
  ASSUME NEW m \in Nat \ {0}, Prime(m), NEW n \in Nat, n < m, NEW l, Coefficients(l, n, m),
         NEW S \in SUBSET (1..n), S # {}
  PROVE  LagrangeSum(S, l, Ones(S), n, m) = 1
<1>. DEFINE Sum1(R) == LagrangeSum(R, l, Ones(R), n, m)
            T == {R \in SUBSET (1..n) : R # {} => Sum1(R) = 1}
<1>0. m > 1 /\ 1 \in 0..(m - 1) /\ Res(1, m) = 1
  <2>1. m > 1 /\ 1 \in 0..(m - 1)
    BY DEF Prime
  <2>. QED BY <2>1, ResSmall
<1>1. ASSUME NEW R \in SUBSET (1..n), \A x \in R : R \ {x} \in T, NEW x \in R, R = {x} PROVE Sum1(R) = 1
  <2>. DEFINE f == [i \in R |-> l[R][i] * Ones(R)[i]]
  <2>1. l[R][x] \in Int /\ Res(l[R][x], m) = 1
    BY <1>1 DEF Coefficients
  <2>2. f \in [R -> Int] /\ f[x] = l[R][x] /\ DOMAIN Without(f, x) = {}
    BY <1>1, <2>1 DEF Ones, Without
  <2>3. Sum1(R) = ResSum(f, n, m)
    BY DEF LagrangeSum
  <2>. HIDE DEF f
  <2>4. ResSum(f, n, m) = Res(ResSum(Without(f, x), n, m) + f[x], m)
    BY <2>2, SumTakes
  <2>5. ResSum(Without(f, x), n, m) = 0 /\ 0 + l[R][x] = l[R][x]
    BY <2>1, <2>2, SumNone
  <2>. QED BY <2>1, <2>2, <2>3, <2>4, <2>5
<1>2. ASSUME NEW R \in SUBSET (1..n), NEW k \in R, R \ {k} \in T, R \ {k} # {}
      PROVE  LagrangeSum(R, l, [i \in R |-> i - k], n, m) = Res(0 - k, m)
  <2>. DEFINE f == [i \in R |-> i - k]
              z == 0
              h == Ones(R \ {k})
  <2>1. /\ f \in [R -> Int] /\ f[k] = z /\ z \in Int /\ h \in [R \ {k} -> Int]
        /\ \A i \in R \ {k} : f[i] = z + ((i - k) * h[i])
    BY OnesType
  <2>2. LagrangeSum(R \ {k}, l, h, n, m) = 1
    BY <1>2
  <2>3. Sum1(R) \in Int
    BY LagrangeType, OnesType
  <2>. HIDE DEF f, z, h
  <2>4. LagrangeSum(R, l, f, n, m)
          = Res((z * LagrangeSum(R, l, Ones(R), n, m)) - (k * LagrangeSum(R \ {k}, l, h, n, m)), m)
    <3>1. Through(f, z, k, h, R, m)
      BY <2>1 DEF Through
    <3>. QED BY <2>1, <3>1, LagrangeStep
  <2>5. (z * Sum1(R)) - (k * 1) = 0 - k
    BY <2>3 DEF z
  <2>. QED BY <2>2, <2>4, <2>5 DEF f
<1>3. ASSUME NEW R \in SUBSET (1..n), \A x \in R : R \ {x} \in T, NEW k \in R, NEW j \in R, j # k PROVE Sum1(R) = 1
  <2>. DEFINE f == [i \in R |-> l[R][i] * (i - k)]
              g == [i \in R |-> l[R][i] * (i - j)]
              h == [i \in R |-> l[R][i] * Ones(R)[i]]
              c == j - k
              e == 0 - 1
              w == 1
              a == Res(0 - k, m)
              b == Res(0 - j, m)
              s == Sum1(R)
  <2>1. /\ LagrangeSum(R, l, [i \in R |-> i - k], n, m) = a
        /\ LagrangeSum(R, l, [i \in R |-> i - j], n, m) = b
    BY <1>2, <1>3
  <2>2. \A u : ResSum([i \in R |-> l[R][i] * [v \in R |-> v - u][i]], n, m) = ResSum([i \in R |-> l[R][i] * (i - u)], n, m)
    <3>1. ASSUME NEW u PROVE [i \in R |-> l[R][i] * [v \in R |-> v - u][i]] = [i \in R |-> l[R][i] * (i - u)]
      OBVIOUS
    <3>. QED BY <3>1
  <2>3. ResSum(f, n, m) = a /\ ResSum(g, n, m) = b /\ s = ResSum(h, n, m)
    <3>1. \A u : LagrangeSum(R, l, [i \in R |-> i - u], n, m) = ResSum([i \in R |-> l[R][i] * (i - u)], n, m)
      BY <2>2 DEF LagrangeSum
    <3>2. s = ResSum(h, n, m)
      BY DEF LagrangeSum
    <3>. QED BY <2>1, <3>1, <3>2
  <2>4. \A i \in R : l[R][i] \in Int /\ i \in Int /\ k \in Int /\ j \in Int /\ h[i] = l[R][i]
    BY OnesType DEF Coefficients
  <2>5. f \in [R -> Int] /\ g \in [R -> Int] /\ h \in [R -> Int]
    <3>. DEFINE q == l[R]
    <3>1. \A i \in R : q[i] \in Int /\ i - k \in Int /\ i - j \in Int /\ Ones(R)[i] \in Int
      BY <2>4, OnesType
    <3>. HIDE DEF q
    <3>2. \A i \in R : q[i] * (i - k) \in Int /\ q[i] * (i - j) \in Int /\ q[i] * Ones(R)[i] \in Int
      BY <3>1
    <3>. QED BY <3>2 DEF q
  <2>6. c \in Int /\ e \in Int /\ w \in Int /\ k \in Int /\ j \in Int
    BY <2>4
  <2>7. Combines(f, w, g, c, h, R, m)
    <3>1. ASSUME NEW i \in R PROVE f[i] = (w * g[i]) + (c * h[i])
      <4>. DEFINE q == l[R][i]
      <4>1. q \in Int /\ i \in Int /\ f[i] = q * (i - k) /\ g[i] = q * (i - j) /\ h[i] = q
        BY <2>4
      <4>. HIDE DEF q
      <4>. QED BY <2>6, <4>1
    <3>. QED BY <3>1 DEF Combines
  <2>. HIDE DEF f, g, h, c, w
  <2>8. ResSum(f, n, m) = Res((w * ResSum(g, n, m)) + (c * ResSum(h, n, m)), m)
    BY ONLY m \in Nat \ {0}, n \in Nat, R \in SUBSET (1..n), <2>5, <2>6, <2>7, SumLinear
  <2>9. a = Res((w * b) + (c * s), m)
    BY <2>3, <2>8
  <2>10. a \in Int /\ b \in Int /\ s \in Int /\ s \in 0..(m - 1)
    <3>1. 0 - k \in Int /\ 0 - j \in Int
      BY <2>6
    <3>2. a \in Int /\ b \in Int
      BY <3>1, Division
    <3>. QED BY <3>2, LagrangeType, OnesType
  <2>. HIDE DEF s
  <2>. DEFINE cs == c * s
              nk == 0 - k
              nj == 0 - j
  <2>11. cs \in Int /\ nk \in Int /\ nj \in Int /\ (w * b) + (c * s) = b + cs /\ nk - nj = c
    BY <2>6, <2>10 DEF w, c
  <2>12. Res(nk, m) = Res(nj + cs, m)
    <3>1. Res(nk, m) = Res(Res(nj, m) + cs, m)
      BY <2>9, <2>11
    <3>. HIDE DEF cs, nk, nj
    <3>2. Res(Res(nj, m) + cs, m) = Res(nj + cs, m)
      BY <2>11, ResIn
    <3>. QED BY <3>1, <3>2
  <2>13. Res(s * c, m) = Res(1 * c, m)
    <3>1. nj + cs \in Int /\ (nj + cs) - nj = s * c /\ nk - nj = 1 * c
      BY <2>6, <2>10, <2>11
    <3>. DEFINE t == nj + cs
    <3>. HIDE DEF nk, nj
    <3>2. Res(nk - nj, m) = Res(t - nj, m)
      <4>. HIDE DEF t
      <4>. QED BY <2>11, <2>12, <3>1, ResMinusBy DEF t
    <3>. QED BY <3>1, <3>2
  <2>14. Res(c, m) # 0
    <3>1. k \in 0..(m - 1) /\ j \in 0..(m - 1)
      OBVIOUS
    <3>2. Res(k, m) = k /\ Res(j, m) = j
      BY <3>1, ResSmall
    <3>3. ASSUME Res(c, m) = 0 PROVE FALSE
      <4>. DEFINE z == 0
      <4>1. Res(z, m) = 0 /\ z \in Int
        <5>1. 0 \in 0..(m - 1)
          OBVIOUS
        <5>. QED BY <5>1, ResSmall
      <4>. HIDE DEF z
      <4>2. Res(c, m) = Res(z, m)
        BY <3>3, <4>1
      <4>3. Res(c + k, m) = Res(z + k, m)
        BY <2>6, <4>1, <4>2, ResPlusBy
      <4>4. c + k = j /\ 0 + k = k
        BY <2>6 DEF c
      <4>5. Res(z + k, m) = Res(0 + k, m)
        BY <4>1 DEF z
      <4>. QED BY <1>3, <3>2, <4>3, <4>4, <4>5
    <3>. QED BY <3>3
  <2>15. Res(s, m) = Res(1, m)
    <3>. DEFINE one == 1
    <3>1. one \in Int /\ Res(s * c, m) = Res(one * c, m)
      BY <2>13
    <3>. HIDE DEF one
    <3>2. Res(s, m) = Res(one, m)
      BY <2>6, <2>10, <2>14, <3>1, Cancel
    <3>. QED BY <3>2 DEF one
  <2>16. Res(s, m) = s
    BY <2>10, ResSmall
  <2>. QED BY <1>0, <2>15, <2>16 DEF s
<1>4. ASSUME NEW R \in SUBSET (1..n), \A x \in R : R \ {x} \in T PROVE R \in T
  <2>. HIDE DEF Sum1
  <2>1. ASSUME R # {} PROVE Sum1(R) = 1
    <3>1. PICK k \in R : TRUE
      BY <2>1
    <3>2. CASE R = {k}
      BY <1>1, <1>4, <3>2
    <3>3. CASE R # {k}
      <4>1. PICK j \in R : j # k
        BY <3>3
      <4>. QED BY <1>3, <1>4, <4>1
    <3>. QED BY <3>2, <3>3
  <2>. QED BY <2>1
<1>. HIDE DEF T
<1>5. \A R \in SUBSET (1..n) : R \in T
  BY <1>4, SmallerSets
<1>6. S \in T
  BY <1>5
<1>. QED BY <1>6 DEF T
-----------------------------------------------------------------------------
(***************************************************************************)
(* Polynomials, by Horner's rule.                                          *)
(***************************************************************************)
Horner(at, c, x, m) ==
  /\ at \in [1..(Len(c) + 1) -> 0..(m - 1)] /\ at[Len(c) + 1] = 0
  /\ \A i \in 1..Len(c) : at[i] = Res(c[i] + (x * at[i + 1]), m)

\* v is the value at x of the polynomial with coefficients c
Value(v, c, x, m) == \E at : Horner(at, c, x, m) /\ v = at[1]

\* there is a value
LEMMA HornerExists ==
  ASSUME NEW m \in Nat \ {0}, NEW c \in Seq(Int), NEW x \in Int
  PROVE  \E at : Horner(at, c, x, m)
<1>. DEFINE n == Len(c)
            M == 0..(m - 1)
            step == [s \in M \X (1..n) |-> Res(c[(n + 1) - s[2]] + (x * s[1]), m)]
            z == 0
<1>1. n \in Nat /\ \A i \in 1..n : c[i] \in Int
  OBVIOUS
<1>2. ASSUME NEW s \in M \X (1..n) PROVE Res(c[(n + 1) - s[2]] + (x * s[1]), m) \in M
  <2>. DEFINE i == (n + 1) - s[2]
              a == c[i]
              b == x * s[1]
              k == a + b
  <2>1. i \in 1..n /\ s[1] \in Int
    BY <1>1
  <2>2. a \in Int
    BY <1>1, <2>1
  <2>3. b \in Int
    BY <2>1
  <2>. HIDE DEF a, b
  <2>4. k \in Int
    BY <2>2, <2>3
  <2>. HIDE DEF k
  <2>5. Res(k, m) \in M
    BY <2>4, Division
  <2>. QED BY <2>5 DEF k, a, b
<1>3. step \in [M \X (1..n) -> M]
  BY <1>2
<1>4. \A v \in M, j \in 1..n : step[<<v, j>>] = Res(c[(n + 1) - j] + (x * v), m)
  OBVIOUS
<1>5. z \in M
  OBVIOUS
<1>. HIDE DEF step, M, n
<1>6. PICK f : Iterates(f, M, n, z, step)
  BY <1>1, <1>3, <1>5, Iterated
<1>. DEFINE at == [i \in 1..(n + 1) |-> f[(n + 1) - i]]
<1>7. \A i \in 1..(n + 1) : (n + 1) - i \in 0..n
  BY <1>1
<1>8. at \in [1..(n + 1) -> M]
  BY <1>6, <1>7 DEF Iterates
<1>9. at[n + 1] = 0
  <2>1. n + 1 \in 1..(n + 1) /\ (n + 1) - (n + 1) = 0
    BY <1>1
  <2>. QED BY <1>6, <2>1 DEF Iterates, z
<1>10. ASSUME NEW i \in 1..n PROVE at[i] = Res(c[i] + (x * at[i + 1]), m)
  <2>. DEFINE j == (n + 1) - i
  <2>1. j \in 1..n /\ i \in 1..(n + 1) /\ i + 1 \in 1..(n + 1) /\ (n + 1) - j = i /\ j - 1 = (n + 1) - (i + 1) /\ j - 1 \in 0..n
    BY <1>1
  <2>2. at[i] = f[j] /\ at[i + 1] = f[j - 1]
    BY <2>1
  <2>. HIDE DEF j, at
  <2>3. f[j] = step[<<f[j - 1], j>>] /\ f[j - 1] \in M
    BY <1>6, <2>1 DEF Iterates
  <2>4. f[j] = Res(c[(n + 1) - j] + (x * f[j - 1]), m)
    BY <1>4, <2>1, <2>3
  <2>. QED BY <2>1, <2>2, <2>4
<1>. HIDE DEF at
<1>11. Horner(at, c, x, m)
  BY <1>8, <1>9, <1>10 DEF Horner, n, M
<1>. QED BY <1>11

\* every polynomial has a value
LEMMA ValueExists ==
  ASSUME NEW m \in Nat \ {0}, NEW c \in Seq(Int), NEW x \in Int
  PROVE  \E v \in 0..(m - 1) : Value(v, c, x, m)
<1>1. PICK at : Horner(at, c, x, m)
  BY HornerExists
<1>2. at[1] \in 0..(m - 1)
  BY <1>1 DEF Horner
<1>. QED BY <1>1, <1>2 DEF Value

\* it is a residue
LEMMA ValueType ==
  ASSUME NEW m \in Nat \ {0}, NEW c \in Seq(Int), NEW x \in Int, NEW v, Value(v, c, x, m)
  PROVE  v \in 0..(m - 1)
<1>1. PICK at : Horner(at, c, x, m) /\ v = at[1]
  BY DEF Value
<1>2. 1 \in 1..(Len(c) + 1)
  OBVIOUS
<1>. QED BY <1>1, <1>2 DEF Horner

\* and only one
LEMMA ValueUnique ==
  ASSUME NEW m \in Nat \ {0}, NEW c \in Seq(Int), NEW x \in Int, NEW v, Value(v, c, x, m), NEW w, Value(w, c, x, m)
  PROVE  v = w
<1>. DEFINE n == Len(c)
<1>1. PICK f : Horner(f, c, x, m) /\ v = f[1]
  BY DEF Value
<1>2. PICK g : Horner(g, c, x, m) /\ w = g[1]
  BY DEF Value
<1>. DEFINE T == {k \in 0..n : f[k + 1] = g[k + 1]}
<1>3. n \in T
  BY <1>1, <1>2 DEF Horner
<1>4. ASSUME NEW k \in 0..(n - 1), k + 1 \in T PROVE k \in T
  <2>. DEFINE i == k + 1
  <2>1. i \in 1..n /\ k \in 0..n
    OBVIOUS
  <2>2. f[i + 1] = g[i + 1]
    BY <1>4
  <2>. HIDE DEF i
  <2>3. f[i] = g[i]
    BY <1>1, <1>2, <2>1, <2>2 DEF Horner
  <2>. QED BY <2>1, <2>3 DEF i
<1>. HIDE DEF T
<1>5. n \in Nat
  OBVIOUS
<1>. HIDE DEF n
<1>6. \A k \in 0..n : k \in T
  BY <1>3, <1>4, <1>5, CountDown
<1>7. 0 \in T
  BY <1>5, <1>6
<1>. QED BY <1>1, <1>2, <1>7 DEF T

\* the polynomial without its value at k, divided by x - k
Divided(c, ak) == [i \in 1..(Len(c) - 1) |-> ak[i + 1]]

\* the quotient has a coefficient less
LEMMA DividedType ==
  ASSUME NEW m \in Nat \ {0}, NEW c \in Seq(Int), Len(c) >= 1, NEW k, NEW ak, Horner(ak, c, k, m)
  PROVE  Divided(c, ak) \in Seq(Int) /\ Len(Divided(c, ak)) = Len(c) - 1
<1>. DEFINE n == Len(c) - 1
<1>1. n \in Nat /\ \A i \in 1..n : i + 1 \in 1..(Len(c) + 1)
  OBVIOUS
<1>2. \A i \in 1..n : ak[i + 1] \in Int
  <2>1. \A i \in 1..(Len(c) + 1) : ak[i] \in 0..(m - 1)
    BY DEF Horner
  <2>. QED BY <1>1, <2>1
<1>. QED BY <1>1, <1>2 DEF Divided

\* what a polynomial is, from its value at k and its quotient by x - k
LEMMA HornerDivides ==
  ASSUME NEW m \in Nat \ {0}, NEW c \in Seq(Int), Len(c) >= 1, NEW x \in Int, NEW k \in Int,
         NEW ak, Horner(ak, c, k, m), NEW v, Value(v, c, x, m), NEW w, Value(w, Divided(c, ak), x, m)
  PROVE  Res(v, m) = Res(ak[1] + ((x - k) * w), m)
<1>. DEFINE n == Len(c)
            p == n - 1
            h == Divided(c, ak)
<1>1. PICK ax : Horner(ax, c, x, m) /\ v = ax[1]
  BY DEF Value
<1>2. PICK hx : Horner(hx, h, x, m) /\ w = hx[1]
  BY DEF Value
<1>3. n \in Nat /\ p \in Nat /\ Len(h) = p /\ (\A i \in 1..p : h[i] = ak[i + 1]) /\ p + 1 = n /\ 0 \in 0..p /\ 1 \in 1..n
  BY DividedType DEF Divided
<1>4. \A i \in 1..n : c[i] \in Int
  OBVIOUS
<1>. HIDE DEF n, p, h
<1>5. /\ ax[n + 1] = 0 /\ ak[n + 1] = 0 /\ hx[n] = 0
      /\ \A i \in 1..n : ax[i] = Res(c[i] + (x * ax[i + 1]), m) /\ ak[i] = Res(c[i] + (k * ak[i + 1]), m)
      /\ \A i \in 1..p : hx[i] = Res(ak[i + 1] + (x * hx[i + 1]), m)
      /\ \A i \in 1..(n + 1) : ax[i] \in Int /\ ak[i] \in Int
      /\ \A i \in 1..n : hx[i] \in Int
  <2>1. /\ ax[n + 1] = 0 /\ ak[n + 1] = 0
        /\ \A i \in 1..n : ax[i] = Res(c[i] + (x * ax[i + 1]), m) /\ ak[i] = Res(c[i] + (k * ak[i + 1]), m)
    BY <1>1 DEF Horner, n
  <2>2. \A i \in 1..(n + 1) : ax[i] \in Int /\ ak[i] \in Int
    <3>1. \A i \in 1..(n + 1) : ax[i] \in 0..(m - 1) /\ ak[i] \in 0..(m - 1)
      BY <1>1 DEF Horner, n
    <3>. QED BY <3>1
  <2>3. hx[n] = 0 /\ \A i \in 1..n : hx[i] \in Int
    BY <1>2, <1>3 DEF Horner
  <2>4. \A i \in 1..p : hx[i] = Res(h[i] + (x * hx[i + 1]), m)
    BY <1>2, <1>3 DEF Horner
  <2>5. \A i \in 1..p : hx[i] = Res(ak[i + 1] + (x * hx[i + 1]), m)
    BY <1>3, <2>4
  <2>. QED BY <2>1, <2>2, <2>3, <2>5
<1>. DEFINE T == {j \in 0..p : Res(ax[j + 1], m) = Res(ak[j + 1] + ((x - k) * hx[j + 1]), m)}
<1>6. p \in T
  <2>1. n \in 1..n
    BY <1>3
  <2>2. c[n] \in Int /\ c[n] + (x * 0) = c[n] /\ c[n] + (k * 0) = c[n]
    BY <1>4, <2>1
  <2>3. ax[n] = ak[n]
    BY <1>5, <2>1, <2>2
  <2>4. ak[n] \in Int /\ ak[n] + ((x - k) * 0) = ak[n]
    <3>1. n \in 1..(n + 1)
      BY <1>3
    <3>2. ak[n] \in Int
      BY <1>5, <3>1
    <3>. QED BY <3>2
  <2>5. Res(ax[p + 1], m) = Res(ak[p + 1] + ((x - k) * hx[p + 1]), m)
    BY <1>3, <1>5, <2>3, <2>4
  <2>. QED BY <1>3, <2>5
<1>7. ASSUME NEW j \in 0..(p - 1), j + 1 \in T PROVE j \in T
  <2>. DEFINE i == j + 1
              b == ak[i + 1]
              e == hx[i + 1]
              a == ax[i + 1]
              d == c[i]
              y == x - k
  <2>1. i \in 1..p /\ i \in 1..n /\ i + 1 \in 1..n /\ i + 1 \in 1..(n + 1) /\ j \in 0..p
    BY <1>3
  <2>2. Res(a, m) = Res(b + (y * e), m)
    BY <1>7
  <2>. HIDE DEF i
  <2>3. a \in Int /\ b \in Int /\ e \in Int /\ d \in Int /\ y \in Int
    BY <1>4, <1>5, <2>1
  <2>4. ax[i] = Res(d + (x * a), m) /\ ak[i] = Res(d + (k * b), m) /\ hx[i] = Res(b + (x * e), m)
    BY <1>5, <2>1
  <2>. HIDE DEF a, b, e, d
  <2>. DEFINE r == b + (y * e)
              xr == x * r
              xa == x * a
              f == d + (k * b)
              g == b + (x * e)
              yg == y * g
              hd == hx[i]
              q == y * hd
  <2>5. r \in Int /\ xr \in Int /\ xa \in Int /\ f \in Int /\ g \in Int /\ yg \in Int /\ d + xr = f + yg
    BY <2>3
  <2>6. hd \in Int /\ Res(hd, m) = Res(g, m)
    <3>. HIDE DEF g
    <3>1. Res(g, m) \in Int /\ Res(Res(g, m), m) = Res(g, m)
      BY <2>5, ResIn, Division
    <3>. QED BY <2>4, <3>1 DEF g
  <2>7. Res(d + xa, m) = Res(d + xr, m)
    <3>. DEFINE dxa == d + xa
                dxr == d + xr
    <3>1. xa = x * a /\ xr = x * r /\ Cong(a, r, m) /\ Cong(x, x, m) /\ Cong(d, d, m)
          /\ dxa = d + xa /\ dxr = d + xr /\ dxa \in Int /\ dxr \in Int /\ x \in Int
      BY <2>2, <2>3, <2>5, CongSelf DEF Cong
    <3>. HIDE DEF xa, xr, r, dxa, dxr
    <3>2. Cong(xa, xr, m)
      BY ONLY m \in Nat \ {0}, <2>3, <2>5, <3>1, CongTimes
    <3>3. Cong(dxa, dxr, m)
      BY ONLY m \in Nat \ {0}, <2>3, <2>5, <3>1, <3>2, CongPlus
    <3>. QED BY <3>3 DEF Cong, dxa, dxr
  <2>8. Res(q, m) = Res(yg, m) /\ q \in Int
    <3>1. q = y * hd /\ yg = y * g /\ q \in Int /\ y \in Int /\ Cong(hd, g, m) /\ Cong(y, y, m)
      BY <2>3, <2>5, <2>6, CongSelf DEF Cong
    <3>. HIDE DEF y, hd, g, q, yg
    <3>2. Cong(q, yg, m)
      BY ONLY m \in Nat \ {0}, <2>3, <2>5, <2>6, <3>1, CongTimes
    <3>. QED BY <3>1, <3>2 DEF Cong
  <2>9. Res(Res(f, m) + q, m) = Res(f + yg, m)
    <3>. HIDE DEF f, q, yg
    <3>1. Res(Res(f, m) + q, m) = Res(f + q, m)
      BY ZenonT(30), <2>5, <2>8, ResIn
    <3>2. Res(q + f, m) = Res(yg + f, m)
      BY <2>5, <2>8, ResPlusBy
    <3>3. q + f = f + q /\ yg + f = f + yg
      BY <2>5, <2>8
    <3>. QED BY <3>1, <3>2, <3>3
  <2>10. Res(ax[i], m) = Res(d + xa, m)
    <3>1. d + xa \in Int
      BY <2>3, <2>5
    <3>. DEFINE u == d + xa
    <3>2. u \in Int /\ ax[i] = Res(u, m)
      BY <2>4, <3>1
    <3>. HIDE DEF u
    <3>. QED BY <3>2, ResIn DEF u
  <2>11. Res(ax[i], m) = Res(ak[i] + (y * hx[i]), m)
    BY <2>4, <2>5, <2>7, <2>9, <2>10
  <2>. QED BY <2>1, <2>11 DEF i
<1>. HIDE DEF T
<1>8. \A j \in 0..p : j \in T
  BY <1>3, <1>6, <1>7, CountDown
<1>9. 0 \in T
  BY <1>3, <1>8
<1>. QED BY <1>1, <1>2, <1>9 DEF T
-----------------------------------------------------------------------------
(***************************************************************************)
(* Interpolation.                                                          *)
(***************************************************************************)
\* the sum of nothing but zeros
LEMMA LagrangeZero ==
  ASSUME NEW m \in Nat \ {0}, NEW n \in Nat, NEW l, Coefficients(l, n, m), NEW S \in SUBSET (1..n), NEW f \in [S -> Int],
         \A i \in S : f[i] = 0
  PROVE  LagrangeSum(S, l, f, n, m) = 0
<1>. DEFINE a == l[S]
            g == [i \in S |-> a[i] * f[i]]
            z == 0
<1>1. \A i \in S : a[i] \in Int /\ f[i] = 0
  BY DEF Coefficients
<1>2. LagrangeSum(S, l, f, n, m) = ResSum(g, n, m)
  BY DEF LagrangeSum
<1>. HIDE DEF a
<1>3. \A i \in S : g[i] = 0
  BY <1>1
<1>4. g \in [S -> Int] /\ Combines(g, z, g, z, g, S, m)
  BY <1>3 DEF Combines
<1>5. z \in Int /\ n \in Nat /\ S \in SUBSET (1..n)
  OBVIOUS
<1>. HIDE DEF g, z
<1>6. ResSum(g, n, m) = Res((z * ResSum(g, n, m)) + (z * ResSum(g, n, m)), m)
  BY ONLY m \in Nat \ {0}, <1>4, <1>5, SumLinear
<1>7. ResSum(g, n, m) \in 0..(m - 1)
  BY <1>4, <1>5, SumTakes
<1>8. (z * ResSum(g, n, m)) + (z * ResSum(g, n, m)) = 0
  BY <1>7 DEF z
<1>9. 0 \in 0..(m - 1)
  OBVIOUS
<1>10. Res(0, m) = 0
  BY <1>9, ResSmall
<1>. QED BY <1>2, <1>6, <1>8, <1>10

\* v are the values of the polynomial with coefficients c over S, and v0 the one at 0
Values(v, v0, c, S, m) == (\A i \in S : Value(v[i], c, i, m)) /\ Value(v0, c, 0, m)

\* v and v0 are the values of c, and w and w0 those of c divided at k, over the others
Reduces(S, k, c, v, v0, ak, Q, w, w0, n, m) ==
  /\ S \in SUBSET (1..n) /\ k \in S /\ c \in Seq(Int) /\ v \in [S -> Int]
  /\ Len(c) >= 1 /\ Values(v, v0, c, S, m) /\ Horner(ak, c, k, m)
  /\ Q = S \ {k} /\ w \in [Q -> Int] /\ Values(w, w0, Divided(c, ak), Q, m)

\* one more officer and one more coefficient: it comes out right if it did without
LEMMA LagrangeMore ==
  ASSUME NEW m \in Nat \ {0}, Prime(m), NEW n \in Nat, n < m, NEW l, Coefficients(l, n, m),
         NEW S, NEW k, NEW c, NEW v, NEW v0, NEW ak, NEW Q, NEW w, NEW w0,
         Reduces(S, k, c, v, v0, ak, Q, w, w0, n, m)
  PROVE  LagrangeSum(S, l, v, n, m) = v0 <=> LagrangeSum(Q, l, w, n, m) = w0
<1>. DEFINE h == Divided(c, ak)
            a == ak[1]
            A == LagrangeSum(S, l, v, n, m)
            B == LagrangeSum(S \ {k}, l, w, n, m)
            kB == k * B
            kw == k * w0
<1>0. /\ (\A i \in S : Value(v[i], c, i, m)) /\ Value(v0, c, 0, m)
      /\ (\A i \in S \ {k} : Value(w[i], h, i, m)) /\ Value(w0, h, 0, m)
      /\ Len(c) >= 1 /\ Horner(ak, c, k, m) /\ w \in [S \ {k} -> Int]
  BY DEF Values, Reduces
<1>q. Q = S \ {k} /\ S \in SUBSET (1..n) /\ k \in S /\ c \in Seq(Int) /\ v \in [S -> Int]
  BY DEF Reduces
<1>1. k \in 1..n /\ k \in Int /\ 0 \in Int /\ \A i \in S : i \in Int
  BY <1>q
<1>2. a \in Int /\ a \in 0..(m - 1)
  <2>1. 1 \in 1..(Len(c) + 1)
    BY <1>q
  <2>2. a \in 0..(m - 1)
    BY <1>q, <1>0, <2>1 DEF Horner
  <2>. QED BY <2>2
<1>3. h \in Seq(Int)
  BY <1>q, <1>0, <1>1, DividedType
<1>4. v0 \in 0..(m - 1) /\ w0 \in 0..(m - 1)
  BY <1>q, <1>0, <1>1, <1>3, ValueType
<1>5. A \in 0..(m - 1) /\ B \in 0..(m - 1)
  BY <1>q, <1>0, LagrangeType
<1>6. v0 \in Int /\ w0 \in Int /\ A \in Int /\ B \in Int
  BY <1>4, <1>5
<1>7. Res(v[k], m) = Res(a, m)
  <2>1. Value(a, c, k, m)
    BY <1>q, <1>0 DEF Value
  <2>2. v[k] = a
    BY <1>q, <1>0, <1>1, <2>1, ValueUnique
  <2>. QED BY <2>2
<1>8. ASSUME NEW i \in S \ {k} PROVE Res(v[i], m) = Res(a + ((i - k) * w[i]), m)
  <2>. DEFINE y == v[i]
              u == w[i]
  <2>1. i \in Int /\ Value(y, c, i, m) /\ Value(u, h, i, m)
    BY <1>0, <1>1
  <2>. HIDE DEF y, u
  <2>2. Res(y, m) = Res(ak[1] + ((i - k) * u), m)
    BY <1>q, <1>0, <1>1, <2>1, HornerDivides
  <2>. QED BY <2>2 DEF y, u
<1>9. Res(v0, m) = Res(a + ((0 - k) * w0), m)
  <2>. DEFINE z == 0
  <2>1. z \in Int /\ Value(v0, c, z, m) /\ Value(w0, h, z, m)
    BY <1>0
  <2>. HIDE DEF z
  <2>2. Res(v0, m) = Res(ak[1] + ((z - k) * w0), m)
    BY <1>q, <1>0, <1>1, <2>1, HornerDivides
  <2>. QED BY <2>2 DEF z
<1>10. LagrangeSum(S, l, Ones(S), n, m) = 1
  <2>1. S # {}
    BY <1>q
  <2>. QED BY <1>q, <2>1, LagrangeOne
<1>. HIDE DEF a
<1>11. A = Res((a * LagrangeSum(S, l, Ones(S), n, m)) - (k * B), m)
  <2>1. Through(v, a, k, w, S, m)
    BY <1>7, <1>8 DEF Through
  <2>2. w \in [S \ {k} -> Int]
    BY <1>0
  <2>. QED BY ONLY m \in Nat \ {0}, n \in Nat, Coefficients(l, n, m), <1>q,
                   <1>2, <2>1, <2>2, LagrangeStep
<1>. HIDE DEF A, B
<1>12. kB \in Int /\ kw \in Int /\ (a * 1) - (k * B) = a - kB /\ a + ((0 - k) * w0) = a - kw
  BY <1>1, <1>2, <1>6
<1>13. A = Res(a - kB, m) /\ v0 = Res(a - kw, m)
  <2>1. Res(v0, m) = v0
    BY <1>4, ResSmall
  <2>. QED BY <1>9, <1>10, <1>11, <1>12, <2>1
<1>. HIDE DEF kB, kw
<1>14. ASSUME B = w0 PROVE A = v0
  BY <1>13, <1>14 DEF kB, kw
<1>15. ASSUME A = v0 PROVE B = w0
  <2>. DEFINE p == a - kB
              q == a - kw
  <2>1. p \in Int /\ q \in Int /\ Cong(p, q, m) /\ Cong(a, a, m) /\ kB = a - p /\ kw = a - q
    BY <1>2, <1>12, <1>13, <1>15 DEF Cong
  <2>. HIDE DEF p, q
  <2>2. Cong(kB, kw, m)
    BY ONLY m \in Nat \ {0}, <1>2, <1>12, <2>1, CongMinus
  <2>3. Res(B * k, m) = Res(w0 * k, m)
    <3>1. B * k = kB /\ w0 * k = kw
      BY <1>1, <1>6 DEF kB, kw
    <3>. QED BY <2>2, <3>1 DEF Cong
  <2>4. Res(k, m) # 0
    <3>1. k \in 0..(m - 1) /\ k # 0
      BY <1>1
    <3>. QED BY <3>1, ResSmall
  <2>5. Res(B, m) = Res(w0, m)
    BY <1>1, <1>6, <2>3, <2>4, Cancel
  <2>. QED BY <1>4, <1>5, <2>5, ResSmall
<1>. QED BY <1>q, <1>14, <1>15 DEF A, B

(***************************************************************************)
(* As many values of a polynomial as it has coefficients give its value at *)
(* 0, with any coefficients that satisfy what Coefficients says; one value *)
(* too few does not, unless the highest coefficient is 0.                  *)
(***************************************************************************)
THEOREM Interpolation ==
  ASSUME NEW m \in Nat \ {0}, Prime(m), NEW n \in Nat, n < m, NEW l, Coefficients(l, n, m),
         NEW S \in SUBSET (1..n), NEW c \in Seq(Int),
         NEW v \in [S -> Int], NEW v0, Values(v, v0, c, S, m)
  PROVE  /\ Cardinality(S) >= Len(c) => LagrangeSum(S, l, v, n, m) = v0
         /\ Cardinality(S) + 1 = Len(c) /\ Res(c[Len(c)], m) # 0 => LagrangeSum(S, l, v, n, m) # v0
<1>. DEFINE Right(a, b, b0, R) ==
              /\ Cardinality(R) >= Len(a) => LagrangeSum(R, l, b, n, m) = b0
              /\ Cardinality(R) + 1 = Len(a) /\ Res(a[Len(a)], m) # 0 => LagrangeSum(R, l, b, n, m) # b0
            T == {R \in SUBSET (1..n) : \A a \in Seq(Int) : \A b \in [R -> Int] : \A b0 :
                                          Values(b, b0, a, R, m) => Right(a, b, b0, R)}
<1>1. ASSUME NEW R \in SUBSET (1..n), NEW a \in Seq(Int), NEW b \in [R -> Int], NEW b0, Values(b, b0, a, R, m), Len(a) = 0
      PROVE  Right(a, b, b0, R)
  <2>1. ASSUME NEW x, NEW y, Value(y, a, x, m) PROVE y = 0
    <3>1. PICK at : Horner(at, a, x, m) /\ y = at[1]
      BY <2>1 DEF Value
    <3>2. at[Len(a) + 1] = 0 /\ Len(a) + 1 = 1
      BY <1>1, <3>1 DEF Horner
    <3>. QED BY <3>1, <3>2
  <2>2. b0 = 0 /\ \A i \in R : b[i] = 0
    BY <1>1, <2>1 DEF Values
  <2>3. LagrangeSum(R, l, b, n, m) = 0
    BY <2>2, LagrangeZero
  <2>4. Cardinality(R) \in 0..n
    BY SubsetSize
  <2>5. Cardinality(R) + 1 # 0
    BY <2>4
  <2>. QED BY <1>1, <2>2, <2>3, <2>5
<1>2. ASSUME NEW a \in Seq(Int), NEW b \in [{} -> Int], NEW b0, Values(b, b0, a, {}, m) PROVE Right(a, b, b0, {})
  <2>1. {} \in SUBSET (1..n) /\ Cardinality({}) = 0 /\ Len(a) \in Nat
    BY FS_EmptySet
  <2>2. CASE Len(a) = 0
    BY <1>1, <1>2, <2>1, <2>2
  <2>3. CASE Len(a) = 1
    <3>1. PICK at : Horner(at, a, 0, m) /\ b0 = at[1]
      BY <1>2 DEF Value, Values
    <3>0. 1 \in 1..Len(a) /\ Len(a) + 1 = 2 /\ 1 + 1 = 2
      BY <2>3
    <3>2. at[1] = Res(a[1] + (0 * at[2]), m) /\ at[2] = 0 /\ a[1] \in Int
      BY <3>0, <3>1 DEF Horner
    <3>3. a[1] + (0 * 0) = a[1]
      BY <3>2
    <3>4. b0 = Res(a[1], m)
      BY <3>1, <3>2, <3>3
    <3>5. DOMAIN [i \in {} |-> l[{}][i] * b[i]] = {}
      OBVIOUS
    <3>6. LagrangeSum({}, l, b, n, m) = 0
      BY <3>5, SumNone DEF LagrangeSum
    <3>. QED BY <2>1, <2>3, <3>4, <3>6
  <2>4. CASE Len(a) # 0 /\ Len(a) # 1
    <3>1. ~(0 >= Len(a)) /\ 0 + 1 # Len(a)
      BY <2>1, <2>4
    <3>. QED BY <2>1, <3>1
  <2>. QED BY <2>2, <2>3, <2>4
<1>3. {} \in T
  <2>1. {} \in SUBSET (1..n)
    OBVIOUS
  <2>. HIDE DEF Right
  <2>. QED BY <1>2, <2>1
<1>4. ASSUME NEW R \in SUBSET (1..n), NEW k \in R, R \ {k} \in T,
             NEW a \in Seq(Int), NEW b \in [R -> Int], NEW b0, Values(b, b0, a, R, m), Len(a) # 0
      PROVE  Right(a, b, b0, R)
  <2>. DEFINE Q == R \ {k}
  <2>1. Len(a) >= 1 /\ k \in Int /\ 0 \in Int /\ \A i \in Q : i \in Int
    BY <1>4
  <2>2. PICK ak : Horner(ak, a, k, m)
    BY <2>1, HornerExists
  <2>. DEFINE h == Divided(a, ak)
              w == [i \in Q |-> CHOOSE y \in 0..(m - 1) : Value(y, h, i, m)]
  <2>3. h \in Seq(Int) /\ Len(h) = Len(a) - 1
    BY <2>1, <2>2, DividedType
  <2>4. (Len(a) >= 2) => h[Len(h)] = ak[Len(a)]
    BY <2>3 DEF Divided
  <2>. HIDE DEF h
  <2>5. PICK w0 \in 0..(m - 1) : Value(w0, h, 0, m)
    BY <2>1, <2>3, ValueExists
  <2>6. ASSUME NEW i \in Q PROVE w[i] \in 0..(m - 1) /\ Value(w[i], h, i, m)
    <3>1. \E y \in 0..(m - 1) : Value(y, h, i, m)
      BY <2>1, <2>3, ValueExists
    <3>. QED BY <3>1
  <2>7. w \in [Q -> Int]
    <3>1. \A i \in Q : w[i] \in 0..(m - 1)
      BY <2>6
    <3>. HIDE DEF w
    <3>2. \A i \in Q : w[i] \in Int
      BY <3>1
    <3>. QED BY <3>2 DEF w
  <2>. HIDE DEF w
  <2>8. LagrangeSum(R, l, b, n, m) = b0 <=> LagrangeSum(Q, l, w, n, m) = w0
    <3>1. Values(w, w0, h, Q, m) /\ Values(b, b0, a, R, m)
      BY <1>4, <2>5, <2>6 DEF Values
    <3>2. h = Divided(a, ak) /\ Q = R \ {k}
      BY DEF h
    <3>3. Reduces(R, k, a, b, b0, ak, Q, w, w0, n, m)
      BY <1>4, <2>1, <2>2, <2>7, <3>1, <3>2 DEF Reduces
    <3>. HIDE DEF Q
    <3>. QED BY <3>3, LagrangeMore
  <2>9. Cardinality(Q) = Cardinality(R) - 1 /\ Cardinality(R) \in Nat /\ Cardinality(R) # 0
    BY SubsetSize
  <2>10. Right(h, w, w0, Q)
    <3>1. Values(w, w0, h, Q, m)
      BY <2>5, <2>6 DEF Values
    <3>. HIDE DEF Right
    <3>. QED BY <1>4, <2>3, <2>7, <3>1
  <2>11. ASSUME Cardinality(R) >= Len(a) PROVE LagrangeSum(R, l, b, n, m) = b0
    <3>1. Cardinality(Q) >= Len(h)
      BY <2>1, <2>3, <2>9, <2>11
    <3>. QED BY <2>8, <2>10, <3>1
  <2>12. ASSUME Cardinality(R) + 1 = Len(a), Res(a[Len(a)], m) # 0 PROVE LagrangeSum(R, l, b, n, m) # b0
    <3>1. Len(a) \in Nat /\ Len(h) \in Nat /\ Cardinality(Q) \in Nat
      BY <2>1, <2>3, <2>9
    <3>1a. Len(a) >= 2 /\ Len(a) \in 1..Len(a) /\ Cardinality(Q) + 1 = Len(h)
      BY SMTT(30), <3>1, <2>1, <2>3, <2>9, <2>12
    <3>2. a[Len(a)] \in Int
      BY <3>1a
    <3>3. ak[Len(a)] = Res(a[Len(a)] + (k * ak[Len(a) + 1]), m) /\ ak[Len(a) + 1] = 0
      BY <2>2, <3>1a DEF Horner
    <3>4. a[Len(a)] + (k * 0) = a[Len(a)]
      BY <2>1, <3>2
    <3>5. h[Len(h)] = Res(a[Len(a)], m)
      BY <2>4, <3>1a, <3>3, <3>4
    <3>6. Res(h[Len(h)], m) # 0
      BY ZenonT(30), <2>12, <3>2, <3>5, ResIn
    <3>. QED BY <2>8, <2>10, <3>1a, <3>6
  <2>. QED BY <2>11, <2>12
<1>5. ASSUME NEW R \in SUBSET (1..n), NEW k \in R, R \ {k} \in T PROVE R \in T
  <2>. HIDE DEF Right
  <2>1. ASSUME NEW a \in Seq(Int), NEW b \in [R -> Int], NEW b0, Values(b, b0, a, R, m) PROVE Right(a, b, b0, R)
    <3>1. CASE Len(a) = 0
      BY <1>1, <2>1, <3>1
    <3>2. CASE Len(a) # 0
      BY <1>4, <1>5, <2>1, <3>2
    <3>. QED BY <3>1, <3>2
  <2>. QED BY <2>1
<1>6. \A R \in SUBSET (1..n) : R \in T
  <2>. HIDE DEF T
  <2>. QED BY <1>3, <1>5, SubsetInduction
<1>7. S \in T
  BY <1>6
<1>8. Right(c, v, v0, S)
  <2>. HIDE DEF Right
  <2>. QED BY <1>7
<1>. QED BY <1>8
=============================================================================
