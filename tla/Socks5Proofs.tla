---------------------------- MODULE Socks5Proofs ----------------------------
(***************************************************************************)
(* The SOCKS client for any bodies, any cut of the stream and any end of   *)
(* it: dechunking a part of a chunked body gives a part of the body, and   *)
(* so does a request that resolves.                                        *)
(***************************************************************************)
EXTENDS Socks5, Integers, CommonLemmas, SequenceTheorems, TLAPS

\* what a stream is made of, and what it decodes to
Char == STRING \cup {"00", "04", "05", "FF", "head", "chunkedHead", "emptyLine",
                     "0", CR, LF, Lead, Trail, Wide, Broken}

-----------------------------------------------------------------------------
(***************************************************************************)
(* The size that a line stands for.                                        *)
(***************************************************************************)
LEMMA DigitValue ==
  /\ \A t : IsDigit(t) => Digit(t) \in 0..15 /\ t \notin {CR, Lead, Trail}
  /\ IsDigit("0") /\ Digit("0") = 0
<1>1. ASSUME NEW t, IsDigit(t) PROVE Digit(t) \in 0..15 /\ t \notin {CR, Lead, Trail}
  <2>1. PICK n \in 1..16 : Digit(t) = n - 1
    BY <1>1 DEF IsDigit, Digit
  <2>2. PICK m \in 1..16 : HexDigits[m] = t
    BY <1>1 DEF IsDigit
  <2>3. m \in {1, 2, 3, 4, 5, 6, 7, 8, 9, 10, 11, 12, 13, 14, 15, 16}
    OBVIOUS
  <2>4. t \in {"0", "1", "2", "3", "4", "5", "6", "7",
               "8", "9", "a", "b", "c", "d", "e", "f"}
    BY <2>2, <2>3 DEF HexDigits
  <2>. QED BY <2>1, <2>4 DEF CR, Lead, Trail
<1>2. \A n \in 1..16 : HexDigits[n] = "0" => n = 1
  <2>1. \A n \in 1..16 : n \in {1, 2, 3, 4, 5, 6, 7, 8, 9, 10, 11, 12, 13, 14, 15, 16}
    OBVIOUS
  <2>. QED BY <2>1 DEF HexDigits
<1>3. 1 \in 1..16 /\ HexDigits[1] = "0"
  BY DEF HexDigits
<1>4. IsDigit("0")
  BY <1>3 DEF IsDigit
<1>5. Digit("0") = 0
  <2>1. (CHOOSE n \in 1..16 : HexDigits[n] = "0") = 1
    BY <1>2, <1>3
  <2>. QED BY <2>1 DEF Digit
<1>. QED BY <1>1, <1>4, <1>5

\* one more sign of a line
Read(line) == [xi \in Nat \X (1..Len(line)) |->
                 IF InNumber(line, xi[2]) THEN (16 * xi[1]) + Digit(line[xi[2]]) ELSE xi[1]]

\* a size is a number, and that of the line "0" is 0
LEMMA SizeType ==
  ASSUME NEW line \in Seq(Char)
  PROVE  SizeOf(line) \in Nat /\ (Len(line) = 1 /\ line[1] = "0" => SizeOf(line) = 0)
<1>. DEFINE L == Len(line)
            E(x, k) == IF InNumber(line, k) THEN (16 * x) + Digit(line[k]) ELSE x
            G(f) == [k \in 0..L |-> IF k = 0 THEN 0
                                    ELSE IF InNumber(line, k) THEN (16 * f[k - 1]) + Digit(line[k])
                                    ELSE f[k - 1]]
            g == CHOOSE f : f = G(f)
<1>1. L \in Nat
  OBVIOUS
<1>2. SizeOf(line) = g[L]
  BY DEF SizeOf
<1>3. ASSUME NEW k \in 1..L, InNumber(line, k) PROVE Digit(line[k]) \in 0..15
  <2>1. PICK h \in 0..(k - 1) : \A i \in (h + 1)..k : IsDigit(line[i])
    BY <1>3 DEF InNumber
  <2>2. k \in (h + 1)..k
    BY <1>1
  <2>. QED BY <2>1, <2>2, DigitValue
<1>4. ASSUME NEW x \in Nat, NEW k \in 1..L PROVE E(x, k) \in Nat
  <2>1. CASE InNumber(line, k)
    <3>1. Digit(line[k]) \in Nat
      BY <1>3, <2>1
    <3>. QED BY <2>1, <3>1
  <2>. QED BY <2>1
<1>5. \E f : f = G(f)
  <2>1. Read(line) \in [Nat \X (1..L) -> Nat]
    <3>1. \A xi \in Nat \X (1..L) : xi[1] \in Nat /\ xi[2] \in 1..L
      OBVIOUS
    <3>2. \A xi \in Nat \X (1..L) : E(xi[1], xi[2]) \in Nat
      BY <1>4, <3>1
    <3>. QED BY <3>2 DEF Read
  <2>2. PICK f : Iterates(f, Nat, L, 0, Read(line))
    BY <1>1, <2>1, Iterated
  <2>3. f \in [0..L -> Nat] /\ f[0] = 0
    BY <2>2 DEF Iterates
  <2>4. \A k \in 1..L : f[k] = E(f[k - 1], k)
    <3>1. ASSUME NEW k \in 1..L PROVE f[k] = E(f[k - 1], k)
      <4>1. k - 1 \in 0..L
        BY <1>1
      <4>2. <<f[k - 1], k>> \in Nat \X (1..L)
        BY <2>3, <4>1
      <4>3. f[k] = Read(line)[<<f[k - 1], k>>]
        BY <2>2 DEF Iterates
      <4>. QED BY <4>2, <4>3 DEF Read
    <3>. QED BY <3>1
  <2>5. \A k \in 0..L : k = 0 \/ k \in 1..L
    BY <1>1
  <2>6. \A k \in 0..L : f[k] = IF k = 0 THEN 0 ELSE E(f[k - 1], k)
    BY <2>3, <2>4, <2>5
  <2>7. f = G(f)
    BY <2>3, <2>6
  <2>. QED BY <2>7
<1>6. g = G(g)
  <2>. HIDE DEF G
  <2>. QED BY <1>5
<1>. HIDE DEF g
<1>7. \A k \in 0..L : g[k] = IF k = 0 THEN 0 ELSE E(g[k - 1], k)
  BY <1>6
<1>. DEFINE T == {k \in 0..L : g[k] \in Nat}
<1>8. 0 \in T
  BY <1>1, <1>7
<1>9. ASSUME NEW k \in 0..(L - 1), k \in T PROVE k + 1 \in T
  <2>1. k + 1 \in 1..L /\ k + 1 \in 0..L /\ k + 1 - 1 = k /\ k + 1 # 0
    BY <1>1
  <2>2. g[k + 1] = E(g[k], k + 1)
    BY <1>7, <2>1
  <2>. HIDE DEF E
  <2>. QED BY <1>4, <1>9, <2>1, <2>2
<1>10. g[L] \in Nat
  <2>. HIDE DEF T
  <2>1. \A k \in 0..L : k \in T
    BY <1>1, <1>8, <1>9, CountUp
  <2>2. L \in T
    BY <1>1, <2>1
  <2>. QED BY <2>2 DEF T
<1>11. ASSUME L = 1, line[1] = "0" PROVE g[L] = 0
  <2>1. g[0] = 0 /\ g[1] = E(g[0], 1)
    BY <1>7, <1>11
  <2>2. E(0, 1) = 0
    BY <1>11, DigitValue
  <2>. QED BY <1>11, <2>1, <2>2
<1>. QED BY <1>2, <1>10, <1>11

\* the first line break from i on, if there is one
LEMMA LineEndIs ==
  ASSUME NEW s \in Seq(Char), NEW i \in Nat
  PROVE  \/ LineEnd(s, i) = 0 /\ \A j \in i..(Len(s) - 1) : ~(s[j] = CR /\ s[j + 1] = LF)
         \/ /\ LineEnd(s, i) \in i..(Len(s) - 1)
            /\ s[LineEnd(s, i)] = CR /\ s[LineEnd(s, i) + 1] = LF
            /\ \A j \in i..(Len(s) - 1) : s[j] = CR /\ s[j + 1] = LF => LineEnd(s, i) <= j
<1>. DEFINE I == LineBreaks(s, i)
<1>1. LineEnd(s, i) = IF I = {} THEN 0 ELSE CHOOSE j \in I : \A k \in I : j <= k
  BY DEF LineEnd
<1>2. CASE I = {}
  BY <1>1, <1>2 DEF LineBreaks
<1>3. CASE I # {}
  <2>1. I \subseteq Nat
    BY DEF LineBreaks
  <2>. HIDE DEF I
  <2>2. \E x \in I : \A y \in I : x <= y
    BY <1>3, <2>1, LeastNatural
  <2>3. LineEnd(s, i) \in I /\ \A y \in I : LineEnd(s, i) <= y
    BY <1>1, <1>3, <2>2
  <2>. QED BY <2>3 DEF I, LineBreaks
<1>. QED BY <1>2, <1>3

\* the size at i is a number, and 0 where no line ends
LEMMA SizeAtType ==
  ASSUME NEW s \in Seq(Char), NEW i \in Nat \ {0}
  PROVE  /\ SizeAt(s, i) \in Nat
         /\ SizeAt(s, i) # 0 => LineEnd(s, i) \in i..(Len(s) - 1)
<1>1. CASE LineEnd(s, i) = 0
  BY <1>1 DEF SizeAt
<1>2. CASE LineEnd(s, i) # 0
  <2>. DEFINE e == LineEnd(s, i)
              m == i - 1
              n == e - 1
              line == SubSeq(s, i, e - 1)
  <2>1. e \in i..(Len(s) - 1) /\ Len(s) \in Nat
    BY <1>2, LineEndIs
  <2>. HIDE DEF e
  <2>2. m \in 0..Len(s) /\ n \in m..Len(s) /\ m + 1 = i
    BY <2>1
  <2>3. SubSeq(s, m + 1, n) \in Seq(Char)
    <3>. HIDE DEF m, n
    <3>. QED BY ONLY <2>2, s \in Seq(Char), SubSeqParts
  <2>4. line \in Seq(Char)
    BY <2>2, <2>3
  <2>5. SizeOf(line) \in Nat
    <3>. HIDE DEF line
    <3>. QED BY <2>4, SizeType
  <2>6. SizeAt(s, i) = SizeOf(line)
    BY <1>2 DEF SizeAt, e
  <2>. QED BY <2>1, <2>5, <2>6 DEF e
<1>. QED BY <1>1, <1>2

-----------------------------------------------------------------------------
(***************************************************************************)
(* dechunk(), which moves on to the next chunk until one is missing.       *)
(***************************************************************************)

\* the chunk at i, and where the next one starts
DataAt(s, i) == Slice(s, LineEnd(s, i) + 2, LineEnd(s, i) + 2 + SizeAt(s, i) - 1)
NextAt(s, i) == NextChunk(s, LineEnd(s, i) + 2, SizeAt(s, i))

\* dechunk, step by step
LEMMA DechunkSteps ==
  ASSUME NEW s \in Seq(Char)
  PROVE  \E f : /\ Dechunk(s) = f[1]
                /\ \A i \in 1..(Len(s) + 1) :
                     f[i] = IF SizeAt(s, i) = 0 THEN <<>> ELSE DataAt(s, i) \o f[NextAt(s, i)]
<1>. DEFINE L == Len(s) + 1
            Nx(i) == NextAt(s, i)
            E(x, i) == IF SizeAt(s, i) = 0 THEN <<>> ELSE DataAt(s, i) \o x
            G(f, k) == [i \in k..L |-> E(f[Nx(i)], i)]
            Made == {k \in 1..L : \E f : f = G(f, k)}
<1>1. Len(s) \in Nat /\ L \in Nat /\ L >= 1
  OBVIOUS
<1>2. ASSUME NEW i \in 1..L, SizeAt(s, i) # 0 PROVE Nx(i) \in (i + 1)..L
  <2>1. i \in Nat \ {0}
    BY <1>1
  <2>2. SizeAt(s, i) \in Nat /\ LineEnd(s, i) \in i..(Len(s) - 1)
    BY <1>2, <2>1, SizeAtType
  <2>. QED BY <1>1, <2>2 DEF NextAt, NextChunk, Least
<1>3. \A i, x, y : SizeAt(s, i) = 0 => E(x, i) = E(y, i)
  OBVIOUS
<1>4. SizeAt(s, L) = 0
  <2>1. L \in Nat \ {0}
    BY <1>1
  <2>2. SizeAt(s, L) # 0 => LineEnd(s, L) \in L..(Len(s) - 1)
    BY <2>1, SizeAtType
  <2>. QED BY <1>1, <2>2
<1>5. Dechunk(s) = (CHOOSE f : f = G(f, 1))[1]
  BY DEF Dechunk, DataAt, NextAt
<1>. HIDE DEF E, L, Nx
<1>6. \A k \in 0..(L - 1) : k + 1 \in Made
  <2>. DEFINE Up == {k \in 0..(L - 1) : k + 1 \in Made}
  <2>1. L \in Made
    <3>. DEFINE e == [i \in L..L |-> E(0, i)]
    <3>1. \A i \in L..L : E(0, i) = E(e[Nx(i)], i)
      <4>1. \A i \in L..L : i = L
        BY <1>1
      <4>. QED BY <1>3, <1>4, <4>1
    <3>2. e = G(e, L)
      BY <3>1
    <3>3. \E f : f = G(f, L)
      BY <3>2
    <3>4. L \in 1..L
      BY <1>1
    <3>. QED BY <3>3, <3>4
  <2>2. ASSUME NEW k \in 1..(L - 1), k + 1 \in Made PROVE k \in Made
    <3>1. PICK f : f = G(f, k + 1)
      BY <2>2
    <3>2. \A i \in (k + 1)..L : f[i] = E(f[Nx(i)], i)
      BY <3>1
    <3>. DEFINE h == [i \in k..L |-> E(f[Nx(i)], i)]
    <3>3. \A i \in (k + 1)..L : i \in k..L /\ h[i] = f[i]
      <4>1. \A i \in (k + 1)..L : i \in k..L
        BY <1>1
      <4>. QED BY <3>2, <4>1
    <3>4. \A i \in k..L : E(h[Nx(i)], i) = E(f[Nx(i)], i)
      <4>1. ASSUME NEW i \in k..L PROVE E(h[Nx(i)], i) = E(f[Nx(i)], i)
        <5>1. CASE SizeAt(s, i) = 0
          BY <1>3, <5>1
        <5>2. CASE SizeAt(s, i) # 0
          <6>1. i \in 1..L
            BY <1>1
          <6>2. Nx(i) \in (i + 1)..L
            BY <1>2, <5>2, <6>1
          <6>3. Nx(i) \in (k + 1)..L
            BY <1>1, <6>2
          <6>. QED BY <3>3, <6>3
        <5>. QED BY <5>1, <5>2
      <4>. QED BY <4>1
    <3>5. h = G(h, k)
      BY <3>4
    <3>6. \E x : x = G(x, k)
      BY <3>5
    <3>7. k \in 1..L
      BY <1>1
    <3>. QED BY <3>6, <3>7
  <2>. HIDE DEF Made
  <2>. DEFINE top == L - 1
  <2>3. top \in Nat /\ top + 1 = L /\ top \in 0..top
    BY <1>1
  <2>4. top \in Up
    BY <2>1, <2>3
  <2>5. \A k \in 0..(top - 1) : k + 1 \in Up => k \in Up
    <3>1. ASSUME NEW k \in 0..(top - 1), k + 1 \in Up PROVE k \in Up
      <4>1. k + 1 \in 1..(L - 1) /\ k \in 0..top
        BY <1>1
      <4>. QED BY <2>2, <3>1, <4>1
    <3>. QED BY <3>1
  <2>. HIDE DEF Up, top
  <2>6. \A k \in 0..top : k \in Up
    BY <2>3, <2>4, <2>5, CountDown
  <2>. QED BY <2>6 DEF Up, top
<1>. DEFINE g == CHOOSE f : f = G(f, 1)
<1>7. g = G(g, 1)
  <2>1. 1 \in Made
    <3>1. 0 \in 0..(L - 1) /\ 0 + 1 = 1
      BY <1>1
    <3>. HIDE DEF Made
    <3>. QED BY <1>6, <3>1
  <2>2. \E f : f = G(f, 1)
    BY <2>1
  <2>. HIDE DEF G
  <2>. QED BY <2>2
<1>8. Dechunk(s) = g[1]
  BY <1>5
<1>. HIDE DEF g
<1>9. \A i \in 1..L : g[i] = E(g[Nx(i)], i)
  BY <1>7
<1>. QED BY <1>8, <1>9 DEF E, L, Nx

\* a chunk with its size line
Good(c) ==
  /\ c \in Seq(Char) /\ Len(c) \in Nat \ {0}
  /\ SizeLine(Len(c)) \in Seq(Char) /\ SizeOf(SizeLine(Len(c))) = Len(c)
  /\ \A j \in 1..Len(SizeLine(Len(c))) : IsDigit(SizeLine(Len(c))[j])

\* how long that line is, and the line break after it as well
LineLen(c) == Len(SizeLine(Len(c)))
FrontLen(c) == LineLen(c) + 2

\* a size, a line break, the characters and a line break
LEMMA ChunkShape ==
  ASSUME NEW c, Good(c)
  PROVE  /\ LineLen(c) \in Nat /\ FrontLen(c) \in Nat
         /\ Chunk(c) \in Seq(Char) /\ Len(Chunk(c)) = FrontLen(c) + Len(c) + 2
         /\ \A j \in 1..LineLen(c) : Chunk(c)[j] = SizeLine(Len(c))[j]
         /\ Chunk(c)[LineLen(c) + 1] = CR /\ Chunk(c)[LineLen(c) + 2] = LF
         /\ \A j \in 1..Len(c) : Chunk(c)[FrontLen(c) + j] = c[j]
<1>. DEFINE line == SizeLine(Len(c))
            w == Len(line)
            e == <<CR, LF>>
            h == line \o e
            hc == h \o c
<1>1. line \in Seq(Char) /\ c \in Seq(Char) /\ w \in Nat /\ Len(c) \in Nat
  BY DEF Good
<1>2. e \in Seq(Char) /\ Len(e) = 2 /\ e[1] = CR /\ e[2] = LF
  <2>1. CR \in Char /\ LF \in Char
    BY DEF Char
  <2>2. \A x, y \in Char : /\ <<x, y>> \in Seq(Char) /\ Len(<<x, y>>) = 2
                           /\ <<x, y>>[1] = x /\ <<x, y>>[2] = y
    OBVIOUS
  <2>. QED BY <2>1, <2>2
<1>3. Chunk(c) = hc \o e
  BY DEF Chunk
<1>. HIDE DEF line, e
<1>4. /\ h \in Seq(Char) /\ Len(h) = w + 2
      /\ \A j \in 1..w : h[j] = line[j]
      /\ h[w + 1] = CR /\ h[w + 2] = LF
  <2>1. /\ h \in Seq(Char) /\ Len(h) = Len(line) + Len(e)
        /\ \A k \in 1..Len(line) : h[k] = line[k]
        /\ \A k \in 1..Len(e) : h[Len(line) + k] = e[k]
    <3>1. line \in Seq(Char) /\ e \in Seq(Char)
      BY <1>1, <1>2
    <3>. QED BY ONLY <3>1, ConcatParts
  <2>. HIDE DEF h
  <2>2. 1 \in 1..Len(e) /\ 2 \in 1..Len(e)
    BY <1>2
  <2>. QED BY <1>2, <2>1, <2>2
<1>. HIDE DEF h
<1>5. /\ hc \in Seq(Char) /\ Len(hc) = w + 2 + Len(c)
      /\ \A j \in 1..(w + 2) : hc[j] = h[j]
      /\ \A j \in 1..Len(c) : hc[w + 2 + j] = c[j]
  <2>1. /\ hc \in Seq(Char) /\ Len(hc) = Len(h) + Len(c)
        /\ \A k \in 1..Len(h) : hc[k] = h[k]
        /\ \A k \in 1..Len(c) : hc[Len(h) + k] = c[k]
    <3>1. h \in Seq(Char) /\ c \in Seq(Char)
      BY <1>1, <1>4
    <3>. QED BY ONLY <3>1, ConcatParts
  <2>. HIDE DEF hc
  <2>. QED BY <1>4, <2>1
<1>. HIDE DEF hc
<1>6. /\ hc \o e \in Seq(Char) /\ Len(hc \o e) = w + 2 + Len(c) + 2
      /\ \A k \in 1..(w + 2 + Len(c)) : (hc \o e)[k] = hc[k]
  <2>1. /\ hc \o e \in Seq(Char) /\ Len(hc \o e) = Len(hc) + Len(e)
        /\ \A k \in 1..Len(hc) : (hc \o e)[k] = hc[k]
    <3>1. hc \in Seq(Char) /\ e \in Seq(Char)
      BY <1>2, <1>5
    <3>. QED BY ONLY <3>1, ConcatParts
  <2>. QED BY <1>2, <1>5, <2>1
<1>. DEFINE z == hc \o e
<1>7. z = Chunk(c)
  BY <1>3
<1>8. w = LineLen(c) /\ w + 2 = FrontLen(c)
  BY DEF LineLen, FrontLen, line
<1>. HIDE DEF w, z
<1>9. /\ \A j \in 1..w : j \in 1..(w + 2) /\ j \in 1..(w + 2 + Len(c))
      /\ w + 1 \in 1..(w + 2) /\ w + 2 \in 1..(w + 2)
      /\ w + 1 \in 1..(w + 2 + Len(c)) /\ w + 2 \in 1..(w + 2 + Len(c))
      /\ \A j \in 1..Len(c) : w + 2 + j \in 1..(w + 2 + Len(c))
      /\ w \in Nat /\ w + 2 \in Nat
  BY <1>1
<1>10. /\ z \in Seq(Char) /\ Len(z) = w + 2 + Len(c) + 2
       /\ \A k \in 1..(w + 2 + Len(c)) : z[k] = hc[k]
  BY <1>6 DEF z
<1>11. \A j \in 1..w : z[j] = line[j]
  BY <1>4, <1>5, <1>9, <1>10
<1>12. z[w + 1] = CR /\ z[w + 2] = LF
  BY <1>4, <1>5, <1>9, <1>10
<1>13. \A j \in 1..Len(c) : z[w + 2 + j] = c[j]
  BY <1>5, <1>9, <1>10
<1>. QED BY <1>7, <1>8, <1>9, <1>10, <1>11, <1>12, <1>13 DEF line

\* the chunk that ends a body
LastChunk == <<"0", CR, LF, CR, LF>>

LEMMA LastShape ==
  /\ LastChunk \in Seq(Char) /\ Len(LastChunk) = 5
  /\ LastChunk[1] = "0" /\ LastChunk[2] = CR /\ LastChunk[3] = LF
<1>1. "0" \in Char /\ CR \in Char /\ LF \in Char
  BY DEF Char
<1>2. \A x, y, z \in Char : LET t == <<x, y, z, y, z>> IN
        t \in Seq(Char) /\ Len(t) = 5 /\ t[1] = x /\ t[2] = y /\ t[3] = z
  OBVIOUS
<1>. QED BY <1>1, <1>2 DEF LastChunk

\* where the chunks of a body are
LEMMA ChunksShape ==
  ASSUME NEW b \in Seq(Seq(Char)), \A i \in 1..Len(b) : Good(b[i])
  PROVE  /\ Chunks(b) \in Seq(Char)
         /\ \E C \in [0..Len(b) -> Seq(Char)] :
              /\ C[0] = <<>> /\ Len(Chunks(b)) = Len(C[Len(b)]) + 5
              /\ \A j \in 1..5 : Chunks(b)[Len(C[Len(b)]) + j] = LastChunk[j]
              /\ \A k \in 0..(Len(b) - 1) :
                   /\ Len(C[k + 1]) = Len(C[k]) + (FrontLen(b[k + 1]) + Len(b[k + 1]) + 2)
                   /\ Len(C[k + 1]) <= Len(C[Len(b)])
                   /\ \A j \in 1..(FrontLen(b[k + 1]) + Len(b[k + 1]) + 2) :
                        Chunks(b)[Len(C[k]) + j] = Chunk(b[k + 1])[j]
<1>. DEFINE n == Len(b)
            cs == [i \in DOMAIN b |-> Chunk(b[i])]
            tail == LastChunk
            size(i) == FrontLen(b[i]) + Len(b[i]) + 2
<1>1. n \in Nat /\ DOMAIN b = 1..n
  OBVIOUS
<1>2. \A i \in 1..n : Good(b[i])
  OBVIOUS
<1>3. \A i \in 1..n : Chunk(b[i]) \in Seq(Char) /\ Len(Chunk(b[i])) = size(i) /\ size(i) \in Nat
  <2>1. \A i \in 1..n : Len(b[i]) \in Nat
    BY <1>2 DEF Good
  <2>. HIDE DEF n
  <2>. QED BY <1>2, <2>1, ChunkShape
<1>4. cs \in Seq(Seq(Char)) /\ Len(cs) = n /\ \A i \in 1..n : cs[i] = Chunk(b[i])
  <2>1. cs \in [1..n -> Seq(Char)]
    BY <1>1, <1>3
  <2>. QED BY <1>1, <2>1
<1>5. tail \in Seq(Char) /\ Len(tail) = 5
  BY LastShape
<1>6. Chunks(b) = FlattenSeq(cs) \o tail
  BY DEF Chunks, LastChunk
<1>. HIDE DEF cs, tail
<1>7. PICK C \in [0..Len(cs) -> Seq(Char)] :
        /\ C[0] = <<>> /\ C[Len(cs)] = FlattenSeq(cs)
        /\ \A i \in 1..Len(cs) : C[i] = C[i - 1] \o cs[i]
        /\ \A i \in 0..Len(cs) : IsPrefix(C[i], C[Len(cs)])
  BY <1>4, Flattened
<1>. HIDE DEF n
<1>8. /\ C \in [0..n -> Seq(Char)] /\ C[0] = <<>> /\ C[n] = FlattenSeq(cs)
      /\ \A i \in 1..n : C[i] = C[i - 1] \o Chunk(b[i])
      /\ \A i \in 0..n : IsPrefix(C[i], C[n])
  BY <1>4, <1>7
<1>9. C[n] \in Seq(Char) /\ Len(C[n]) \in Nat
  BY <1>1, <1>8
<1>10. /\ Chunks(b) \in Seq(Char) /\ Len(Chunks(b)) = Len(C[n]) + 5
       /\ \A q \in 1..Len(C[n]) : Chunks(b)[q] = C[n][q]
       /\ \A q \in 1..5 : Chunks(b)[Len(C[n]) + q] = tail[q]
  <2>1. /\ C[n] \o tail \in Seq(Char) /\ Len(C[n] \o tail) = Len(C[n]) + Len(tail)
        /\ \A q \in 1..Len(C[n]) : (C[n] \o tail)[q] = C[n][q]
        /\ \A q \in 1..Len(tail) : (C[n] \o tail)[Len(C[n]) + q] = tail[q]
    <3>1. C[n] \in Seq(Char) /\ tail \in Seq(Char)
      BY <1>5, <1>9
    <3>. QED BY ONLY <3>1, ConcatParts
  <2>2. Chunks(b) = C[n] \o tail
    BY <1>6, <1>8
  <2>. QED BY <1>5, <2>1, <2>2
<1>11. ASSUME NEW k \in 0..(n - 1)
       PROVE  /\ Len(C[k + 1]) = Len(C[k]) + size(k + 1)
              /\ Len(C[k + 1]) <= Len(C[n])
              /\ \A j \in 1..size(k + 1) : Chunks(b)[Len(C[k]) + j] = Chunk(b[k + 1])[j]
  <2>. DEFINE m == k + 1
              x == C[k]
              y == Chunk(b[m])
              v == C[m]
  <2>1. m \in 1..n /\ m \in 0..n /\ m - 1 = k /\ k \in 0..n
    BY <1>1
  <2>. HIDE DEF m
  <2>2. /\ v = x \o y /\ x \in Seq(Char) /\ v \in Seq(Char) /\ y \in Seq(Char)
        /\ Len(y) = size(m) /\ size(m) \in Nat /\ IsPrefix(v, C[n])
    BY <1>3, <1>8, <2>1
  <2>. HIDE DEF x, y, v, size
  <2>3. /\ Len(v) = Len(x) + Len(y) /\ \A j \in 1..Len(y) : v[Len(x) + j] = y[j]
    <3>1. Len(x \o y) = Len(x) + Len(y) /\ \A j \in 1..Len(y) : (x \o y)[Len(x) + j] = y[j]
      <4>1. x \in Seq(Char) /\ y \in Seq(Char)
        BY <2>2
      <4>. QED BY ONLY <4>1, ConcatParts
    <3>. QED BY ONLY <2>2, <3>1
  <2>4. Len(v) <= Len(C[n]) /\ \A q \in 1..Len(v) : v[q] = C[n][q]
    <3>1. v \in Seq(Char) /\ C[n] \in Seq(Char) /\ IsPrefix(v, C[n])
      BY <1>9, <2>2
    <3>. QED BY ONLY <3>1, PrefixPointwise
  <2>5. Len(x) \in Nat /\ Len(v) \in Nat
    BY ONLY <2>2, LenProperties
  <2>6. ASSUME NEW j \in 1..size(m) PROVE Chunks(b)[Len(x) + j] = y[j]
    <3>. DEFINE q == Len(x) + j
    <3>1. j \in 1..Len(y) /\ q \in 1..Len(v) /\ q \in 1..Len(C[n])
      BY <1>9, <2>2, <2>3, <2>4, <2>5
    <3>2. v[q] = y[j]
      BY <2>3, <3>1
    <3>3. v[q] = C[n][q] /\ Chunks(b)[q] = C[n][q]
      BY <1>10, <2>4, <3>1
    <3>. QED BY <3>2, <3>3
  <2>7. Len(v) = Len(x) + size(m)
    BY <2>2, <2>3
  <2>. QED BY <2>4, <2>6, <2>7 DEF m, x, y, v
<1>. QED BY <1>8, <1>10, <1>11 DEF n, tail, size


\* the size of a chunk is read where its line has arrived
LEMMA ChunkSizeAt ==
  ASSUME NEW s \in Seq(Char), NEW c, Good(c), NEW x \in Nat,
         \A q \in 1..FrontLen(c) : x + q <= Len(s) => s[x + q] = Chunk(c)[q]
  PROVE  IF x + FrontLen(c) <= Len(s)
         THEN LineEnd(s, x + 1) = x + LineLen(c) + 1 /\ SizeAt(s, x + 1) = Len(c)
         ELSE SizeAt(s, x + 1) = 0
<1>. DEFINE w == LineLen(c)
            line == SizeLine(Len(c))
            e == LineEnd(s, x + 1)
            n == Len(s)
<1>1. /\ w \in Nat /\ FrontLen(c) = w + 2 /\ n \in Nat /\ w = Len(line)
      /\ line \in Seq(Char) /\ SizeOf(line) = Len(c)
  <2>1. w \in Nat
    BY ChunkShape
  <2>. QED BY <2>1 DEF FrontLen, LineLen, Good
<1>2. \A j \in 1..w : Chunk(c)[j] = line[j] /\ line[j] # CR
  <2>1. \A j \in 1..w : Chunk(c)[j] = line[j]
    BY ChunkShape
  <2>2. \A j \in 1..w : IsDigit(line[j])
    BY DEF Good, LineLen
  <2>. QED BY <2>1, <2>2, DigitValue
<1>3. Chunk(c)[w + 1] = CR /\ Chunk(c)[w + 2] = LF
  BY ChunkShape
<1>4. \A q \in 1..(w + 2) : x + q <= n => s[x + q] = Chunk(c)[q]
  BY <1>1
<1>5. /\ e = 0 \/ (e \in (x + 1)..(n - 1) /\ s[e] = CR)
      /\ e = 0 => \A j \in (x + 1)..(n - 1) : ~(s[j] = CR /\ s[j + 1] = LF)
      /\ \A j \in (x + 1)..(n - 1) : s[j] = CR /\ s[j + 1] = LF => e <= j
  <2>1. x + 1 \in Nat
    OBVIOUS
  <2>2. \/ e = 0 /\ \A j \in (x + 1)..(n - 1) : ~(s[j] = CR /\ s[j + 1] = LF)
        \/ /\ e \in (x + 1)..(n - 1) /\ s[e] = CR /\ s[e + 1] = LF
           /\ \A j \in (x + 1)..(n - 1) : s[j] = CR /\ s[j + 1] = LF => e <= j
    BY <2>1, LineEndIs
  <2>. HIDE DEF e, n
  <2>3. e \in (x + 1)..(n - 1) => e # 0
    BY <1>1
  <2>. QED BY <2>2, <2>3
<1>. HIDE DEF w, line, e, n
<1>6. ASSUME NEW j \in (x + 1)..(x + w), j <= n PROVE s[j] # CR
  <2>1. j - x \in 1..w /\ j - x \in 1..(w + 2) /\ x + (j - x) = j
    BY <1>1
  <2>. QED BY <1>2, <1>4, <1>6, <2>1
<1>7. CASE x + (w + 2) <= n
  <2>1. w + 1 \in 1..(w + 2) /\ w + 2 \in 1..(w + 2) /\ x + (w + 1) = x + w + 1
        /\ x + (w + 2) = x + w + 1 + 1 /\ x + w + 1 <= n /\ x + w + 1 \in (x + 1)..(n - 1)
    BY <1>1, <1>7
  <2>2. s[x + w + 1] = CR /\ s[x + w + 1 + 1] = LF
    BY <1>3, <1>4, <1>7, <2>1
  <2>3. e # 0 /\ e \in (x + 1)..(n - 1) /\ s[e] = CR /\ e <= x + w + 1
    BY <1>5, <2>1, <2>2
  <2>4. ~(e \in (x + 1)..(x + w))
    <3>1. e <= n
      BY <1>1, <2>3
    <3>. QED BY <1>6, <2>3, <3>1
  <2>5. e = x + w + 1
    <3>1. w \in Nat /\ n \in Nat /\ x \in Nat
      BY <1>1
    <3>2. e \in (x + 1)..(n - 1) /\ e <= x + w + 1
      BY <2>3
    <3>. QED BY ONLY <3>1, <3>2, <2>4
  <2>. DEFINE v == x + w
              t == SubSeq(s, x + 1, v)
  <2>6. x \in 0..n /\ v \in x..n /\ v - x = w /\ e - 1 = v
    BY <1>1, <1>7, <2>5
  <2>7. t \in Seq(Char) /\ Len(t) = w /\ \A j \in 1..w : t[j] = s[x + j]
    <3>. HIDE DEF v
    <3>1. s \in Seq(Char) /\ x \in 0..Len(s) /\ v \in x..Len(s)
      BY <2>6 DEF n
    <3>2. t \in Seq(Char) /\ Len(t) = v - x /\ \A j \in 1..(v - x) : t[j] = s[x + j]
      BY ONLY <3>1, SubSeqParts
    <3>. HIDE DEF t
    <3>. QED BY <2>6, <3>2
  <2>. HIDE DEF t
  <2>8. \A j \in 1..w : t[j] = line[j]
    <3>1. \A j \in 1..w : j \in 1..(w + 2) /\ x + j <= n
      BY <1>1, <1>7
    <3>. QED BY <1>2, <1>4, <2>7, <3>1
  <2>9. t = line
    BY <1>1, <2>7, <2>8, SeqEqual
  <2>10. SizeAt(s, x + 1) = SizeOf(t)
    <3>1. LineEnd(s, x + 1) # 0 /\ LineEnd(s, x + 1) - 1 = v
      BY <2>3, <2>6 DEF e
    <3>. HIDE DEF v
    <3>2. SizeAt(s, x + 1) = SizeOf(SubSeq(s, x + 1, v))
      BY <3>1 DEF SizeAt
    <3>. QED BY <3>2 DEF t
  <2>11. x + FrontLen(c) <= Len(s)
    BY <1>1, <1>7 DEF n
  <2>12. SizeAt(s, x + 1) = Len(c)
    BY <1>1, <2>9, <2>10
  <2>. QED BY <2>5, <2>11, <2>12 DEF e, w
<1>8. CASE ~(x + (w + 2) <= n)
  <2>1. e = 0
    <3>. SUFFICES ASSUME e \in (x + 1)..(n - 1), s[e] = CR PROVE FALSE
      BY <1>5
    <3>1. e \in (x + 1)..(x + w) /\ e <= n
      BY <1>1, <1>8
    <3>. QED BY <1>6, <3>1
  <2>2. SizeAt(s, x + 1) = 0
    BY <2>1 DEF SizeAt, e
  <2>3. ~(x + FrontLen(c) <= Len(s))
    BY <1>1, <1>8 DEF n
  <2>. QED BY <2>2, <2>3
<1>. QED BY <1>7, <1>8

\* and the last one has none
LEMMA LastSizeAt ==
  ASSUME NEW s \in Seq(Char), NEW x \in Nat,
         \A q \in 1..5 : x + q <= Len(s) => s[x + q] = LastChunk[q]
  PROVE  SizeAt(s, x + 1) = 0
<1>. DEFINE e == LineEnd(s, x + 1)
            n == Len(s)
<1>1. n \in Nat /\ x + 1 \in Nat
  OBVIOUS
<1>2. \/ e = 0
      \/ /\ e \in (x + 1)..(n - 1) /\ s[e] = CR
         /\ \A j \in (x + 1)..(n - 1) : s[j] = CR /\ s[j + 1] = LF => e <= j
  BY <1>1, LineEndIs
<1>3. CASE e = 0
  BY <1>3 DEF SizeAt
<1>. HIDE DEF e, n
<1>4. CASE /\ e \in (x + 1)..(n - 1) /\ s[e] = CR
           /\ \A j \in (x + 1)..(n - 1) : s[j] = CR /\ s[j + 1] = LF => e <= j
  <2>1. s[x + 1] = "0"
    <3>1. 1 \in 1..5 /\ x + 1 <= n
      BY <1>1, <1>4
    <3>. QED BY <3>1, LastShape DEF n
  <2>2. e # x + 1 /\ e # 0
    BY <1>1, <1>4, <2>1 DEF CR
  <2>3. x + 2 \in (x + 1)..(n - 1) /\ x + 2 + 1 = x + 3 /\ x + 2 <= n /\ x + 3 <= n
    BY <1>1, <1>4, <2>2
  <2>4. s[x + 2] = CR /\ s[x + 3] = LF
    <3>1. 2 \in 1..5 /\ 3 \in 1..5
      OBVIOUS
    <3>. QED BY <2>3, <3>1, LastShape DEF n
  <2>5. e = x + 2
    BY <1>1, <1>4, <2>2, <2>3, <2>4
  <2>. DEFINE v == x + 1
              t == SubSeq(s, x + 1, v)
  <2>6. x \in 0..n /\ v \in x..n /\ v - x = 1 /\ e - 1 = v
    BY <1>1, <2>3, <2>5
  <2>7. t \in Seq(Char) /\ Len(t) = 1 /\ t[1] = s[x + 1]
    <3>. HIDE DEF v
    <3>1. s \in Seq(Char) /\ x \in 0..Len(s) /\ v \in x..Len(s)
      BY <2>6 DEF n
    <3>2. t \in Seq(Char) /\ Len(t) = v - x /\ \A j \in 1..(v - x) : t[j] = s[x + j]
      BY ONLY <3>1, SubSeqParts
    <3>. HIDE DEF t
    <3>. QED BY <2>6, <3>2
  <2>. HIDE DEF t
  <2>8. SizeOf(t) = 0
    BY <2>1, <2>7, SizeType
  <2>9. SizeAt(s, x + 1) = SizeOf(t)
    <3>1. LineEnd(s, x + 1) # 0 /\ LineEnd(s, x + 1) - 1 = v
      BY <2>2, <2>6 DEF e
    <3>. HIDE DEF v
    <3>2. SizeAt(s, x + 1) = SizeOf(SubSeq(s, x + 1, v))
      BY <3>1 DEF SizeAt
    <3>. QED BY <3>2 DEF t
  <2>. QED BY <2>8, <2>9
<1>. QED BY <1>2, <1>3, <1>4

(***************************************************************************)
(* Dechunking a part of a chunked body gives a part of the body, and       *)
(* dechunking all of it gives all of it (socks5.js:49-60), if the sizes    *)
(* count the characters.                                                   *)
(***************************************************************************)
LEMMA DechunkPart ==
  ASSUME NEW b \in Seq(Seq(Char)), \A i \in 1..Len(b) : Good(b[i]),
         NEW text \in Seq(Char), IsPrefix(text, Chunks(b))
  PROVE  /\ Dechunk(text) \in Seq(Char) /\ IsPrefix(Dechunk(text), Plain(b))
         /\ text = Chunks(b) => Dechunk(text) = Plain(b)
<1>. DEFINE n == Len(b)
            all == Chunks(b)
            len == Len(text)
            size(i) == FrontLen(b[i]) + Len(b[i]) + 2
<1>1. n \in Nat /\ len \in Nat
  OBVIOUS
<1>2. PICK P \in [0..n -> Seq(Char)] :
        /\ P[0] = <<>> /\ P[n] = Plain(b)
        /\ \A i \in 1..n : P[i] = P[i - 1] \o b[i]
        /\ \A i \in 0..n : IsPrefix(P[i], P[n])
  BY Flattened DEF Plain
<1>3. PICK C \in [0..n -> Seq(Char)] :
        /\ C[0] = <<>> /\ Len(all) = Len(C[n]) + 5
        /\ \A j \in 1..5 : all[Len(C[n]) + j] = LastChunk[j]
        /\ \A k \in 0..(n - 1) :
             /\ Len(C[k + 1]) = Len(C[k]) + size(k + 1)
             /\ Len(C[k + 1]) <= Len(C[n])
             /\ \A j \in 1..size(k + 1) : all[Len(C[k]) + j] = Chunk(b[k + 1])[j]
  BY ChunksShape
<1>4. PICK f : /\ Dechunk(text) = f[1]
               /\ \A i \in 1..(len + 1) :
                    f[i] = IF SizeAt(text, i) = 0 THEN <<>> ELSE DataAt(text, i) \o f[NextAt(text, i)]
  BY DechunkSteps
<1>5. all \in Seq(Char) /\ len <= Len(all) /\ \A q \in 1..len : text[q] = all[q]
  <2>1. all \in Seq(Char)
    BY ChunksShape
  <2>. QED BY <2>1, PrefixPointwise
<1>. HIDE DEF all
<1>6. \A k \in 0..n : P[k] \in Seq(Char) /\ C[k] \in Seq(Char) /\ Len(C[k]) \in Nat
  <2>1. \A k \in 0..n : P[k] \in Seq(Char)
    BY <1>2
  <2>2. \A k \in 0..n : C[k] \in Seq(Char)
    BY <1>3
  <2>. QED BY <2>1, <2>2, LenProperties
<1>7. \A i \in 1..n : Good(b[i])
  OBVIOUS
<1>15. \A a, d, g \in Seq(Char) : (a \o d) \o g = a \o (d \o g)
  BY SMTT(30), ConcatAssociative
<1>. DEFINE p(k) == Len(C[k]) + 1
            T == {k \in 0..n : p(k) \in 1..(len + 1) =>
                    /\ f[p(k)] \in Seq(Char)
                    /\ IsPrefix(P[k] \o f[p(k)], P[n])
                    /\ text = all => P[k] \o f[p(k)] = P[n]}
<1>. HIDE DEF n, len
<1>8. <<>> \in Seq(Char) /\ \A s \in Seq(Char) : s \o <<>> = s
  BY ConcatEmptySeq, EmptySeq
<1>9. n \in T
  <2>. SUFFICES ASSUME p(n) \in 1..(len + 1)
                PROVE  /\ f[p(n)] \in Seq(Char) /\ IsPrefix(P[n] \o f[p(n)], P[n])
                       /\ text = all => P[n] \o f[p(n)] = P[n]
    BY <1>1
  <2>. DEFINE x == Len(C[n])
  <2>1. P[n] \in Seq(Char) /\ x \in Nat
    BY <1>1, <1>6
  <2>2. \A q \in 1..5 : x + q <= Len(text) => text[x + q] = LastChunk[q]
    <3>1. \A q \in 1..5 : all[x + q] = LastChunk[q]
      BY <1>3
    <3>. HIDE DEF x
    <3>2. \A q \in 1..5 : x + q <= len => x + q \in 1..len
      BY <1>1, <2>1
    <3>. QED BY <1>5, <3>1, <3>2 DEF len
  <2>3. SizeAt(text, x + 1) = 0
    <3>. HIDE DEF x
    <3>. QED BY <2>1, <2>2, LastSizeAt
  <2>4. f[p(n)] = <<>>
    BY <1>4, <2>3
  <2>. QED BY <1>8, <2>1, <2>4, PrefixSelf
<1>10. ASSUME NEW k \in 0..(n - 1), k + 1 \in T PROVE k \in T
  <2>1. k \in 0..n
    BY <1>1
  <2>. SUFFICES ASSUME p(k) \in 1..(len + 1)
                PROVE  /\ f[p(k)] \in Seq(Char) /\ IsPrefix(P[k] \o f[p(k)], P[n])
                       /\ text = all => P[k] \o f[p(k)] = P[n]
    BY <2>1
  <2>. DEFINE m == k + 1
              c == b[m]
              x == Len(C[k])
              y == Len(c)
              w == FrontLen(c)
              u == x + w
              z == Len(C[n])
              e == Len(C[m])
  <2>2. m \in 0..n /\ m \in 1..n /\ n \in 0..n /\ m - 1 = k
    BY <1>1
  <2>3. /\ e = x + (w + y + 2) /\ e <= z
        /\ \A j \in 1..(w + y + 2) : all[x + j] = Chunk(c)[j]
    BY <1>3
  <2>. HIDE DEF m
  <2>4. Good(c)
    BY <1>7, <2>2
  <2>5. c \in Seq(Char) /\ y \in Nat /\ y # 0
    BY <2>4 DEF Good
  <2>6. /\ P[m] = P[k] \o c /\ P[k] \in Seq(Char) /\ P[m] \in Seq(Char) /\ P[n] \in Seq(Char)
        /\ IsPrefix(P[k], P[n]) /\ IsPrefix(P[m], P[n])
    <3>1. P[m] = P[m - 1] \o b[m]
      BY <1>2, <2>2
    <3>. QED BY <1>2, <1>6, <2>1, <2>2, <3>1
  <2>7. x \in Nat /\ e \in Nat /\ z \in Nat
    BY <1>6, <2>1, <2>2
  <2>8. /\ w \in Nat /\ LineLen(c) \in Nat /\ w = LineLen(c) + 2
        /\ \A j \in 1..y : Chunk(c)[w + j] = c[j]
    BY <2>4, ChunkShape DEF FrontLen
  <2>. HIDE DEF x, y, c, w, z, e
  <2>9. /\ x \in Nat /\ y \in Nat /\ w \in Nat /\ e \in Nat /\ z \in Nat /\ y # 0
         /\ e = x + (w + y + 2) /\ e <= z
    BY <2>3, <2>5, <2>7, <2>8
  <2>10. /\ u \in Nat /\ \A j \in 1..y : all[u + j] = c[j]
        /\ p(k) = x + 1 /\ p(m) = u + y + 3
    <3>1. \A j \in 1..y : w + j \in 1..(w + y + 2) /\ x + (w + j) = u + j
      BY SMTT(30), <2>5, <2>7, <2>8
    <3>2. p(k) = x + 1 /\ p(m) = e + 1
      BY DEF x, e
    <3>3. u \in Nat /\ e + 1 = u + y + 3
      BY ONLY <2>9 DEF u
    <3>4. \A j \in 1..y : all[u + j] = c[j]
      BY <2>3, <2>8, <3>1
    <3>. QED BY <3>2, <3>3, <3>4
  <2>11. IF u <= Len(text)
         THEN LineEnd(text, x + 1) = x + LineLen(c) + 1 /\ SizeAt(text, x + 1) = Len(c)
         ELSE SizeAt(text, x + 1) = 0
    <3>1. ASSUME NEW q \in 1..w, x + q <= Len(text) PROVE text[x + q] = Chunk(c)[q]
      <4>1. x + q <= len
        BY <3>1 DEF len
      <4>2. q \in Nat /\ 1 <= q /\ q <= w
        BY ONLY q \in 1..w, <2>9
      <4>3. q <= w + y + 2
        BY ONLY <4>2, <2>9
      <4>4. x + q \in Nat /\ 1 <= x + q
        BY ONLY <4>2, <2>9
      <4>5. x + q \in 1..len /\ q \in 1..(w + y + 2)
        BY ONLY <1>1, <2>9, <4>1, <4>2, <4>3, <4>4
      <4>. QED BY <1>5, <2>3, <4>5
    <3>. QED BY <2>4, <2>7, <3>1, ChunkSizeAt DEF w
  <2>12. text = all => u + y < len
    <3>. SUFFICES ASSUME text = all PROVE u + y < len
      OBVIOUS
    <3>1. len = z + 5
      BY <1>3 DEF len, z
    <3>. QED BY ONLY <2>9, <3>1 DEF u
  <2>. HIDE DEF u
  <2>13. CASE ~(u <= len)
    <3>1. SizeAt(text, x + 1) = 0
      BY <2>11, <2>13 DEF len
    <3>2. f[x + 1] = <<>>
      BY <1>4, <2>10, <3>1
    <3>3. ~(u + y < len)
      BY <1>1, <2>5, <2>10, <2>13
    <3>4. f[p(k)] = <<>> /\ text # all
      BY <2>10, <2>12, <3>2, <3>3
    <3>5. P[k] \o <<>> = P[k]
      BY <1>8, <2>6
    <3>. QED BY <1>8, <2>6, <3>4, <3>5
  <2>14. CASE u <= len
    <3>. DEFINE to == Least(u + y, len)
                part == SubSeq(text, u + 1, to)
                next == Least(u + y + 3, len + 1)
                rest == f[next]
    <3>1. LineEnd(text, x + 1) + 2 = u + 1 /\ SizeAt(text, x + 1) = y
      <4>1. LineEnd(text, x + 1) = x + LineLen(c) + 1 /\ SizeAt(text, x + 1) = y
        BY <2>11, <2>14 DEF len, y
      <4>2. x + LineLen(c) + 1 + 2 = u + 1
        BY <2>7, <2>8 DEF u
      <4>. QED BY <4>1, <4>2
    <3>2. f[x + 1] = part \o rest
      <4>1. f[x + 1] = DataAt(text, x + 1) \o f[NextAt(text, x + 1)]
        BY <1>4, <2>5, <2>10, <3>1
      <4>2. u + 1 + y - 1 = u + y /\ u + 1 + y + 2 = u + y + 3
        BY <2>5, <2>10
      <4>3. DataAt(text, x + 1) = part
        BY <3>1, <4>2 DEF DataAt, Slice, len
      <4>4. NextAt(text, x + 1) = next
        BY <3>1, <4>2 DEF NextAt, NextChunk, len
      <4>. QED BY <4>1, <4>3, <4>4
    <3>3. to \in u..len /\ u \in 0..len /\ (to = IF u + y <= len THEN u + y ELSE len)
      BY <1>1, <2>5, <2>10, <2>14 DEF Least
    <3>4. next = IF u + y + 3 <= len + 1 THEN u + y + 3 ELSE len + 1
      BY DEF Least
    <3>. HIDE DEF to, next
    <3>5. part \in Seq(Char) /\ Len(part) = to - u /\ \A j \in 1..(to - u) : part[j] = text[u + j]
      <4>1. text \in Seq(Char) /\ u \in 0..Len(text) /\ to \in u..Len(text)
        BY <3>3 DEF len
      <4>. QED BY ONLY <4>1, SubSeqParts
    <3>. HIDE DEF part
    <3>6. Len(part) <= Len(c) /\ \A j \in 1..Len(part) : part[j] = c[j]
      <4>1. Len(part) <= y
        <5>1. to - u <= y
          BY SMTT(30), <1>1, <2>5, <2>10, <3>3
        <5>. QED BY <3>5, <5>1
      <4>2. ASSUME NEW j \in 1..(to - u) PROVE u + j \in 1..len /\ j \in 1..y
        BY SMTT(30), <1>1, <2>5, <2>10, <3>3
      <4>3. \A j \in 1..(to - u) : part[j] = c[j]
        BY <1>5, <2>10, <3>5, <4>2
      <4>. QED BY <3>5, <4>1, <4>3 DEF y
    <3>7. IsPrefix(part, c)
      BY <2>5, <3>5, <3>6, PrefixPointwise
    <3>8. CASE u + y + 3 <= len + 1
      <4>1. next = p(m) /\ p(m) \in 1..(len + 1)
        BY SMTT(30), <1>1, <2>5, <2>10, <3>4, <3>8
      <4>2. /\ rest \in Seq(Char) /\ IsPrefix(P[m] \o rest, P[n])
            /\ text = all => P[m] \o rest = P[n]
        <5>1. m \in T
          BY <1>10 DEF m
        <5>. QED BY <4>1, <5>1
      <4>3. part = c
        <5>1. Len(part) = Len(c)
          <6>1. u + y <= len
            BY <1>1, <2>5, <2>10, <3>8
          <6>2. to - u = y
            BY <2>5, <2>10, <3>3, <6>1
          <6>. QED BY <3>5, <6>2 DEF y
        <5>. QED BY <2>5, <3>5, <3>7, <5>1, PrefixWhole
      <4>. HIDE DEF rest
      <4>4. c \o rest \in Seq(Char) /\ P[k] \o (c \o rest) = (P[k] \o c) \o rest
        <5>1. P[k] \in Seq(Char) /\ c \in Seq(Char) /\ rest \in Seq(Char)
          BY <2>5, <2>6, <4>2
        <5>2. c \o rest \in Seq(Char)
          BY ONLY <5>1, ConcatProperties
        <5>. QED BY ONLY ZenonT(30), <5>1, <5>2, <1>15
      <4>. QED BY <2>6, <2>10, <3>2, <4>2, <4>3, <4>4
    <3>9. CASE ~(u + y + 3 <= len + 1)
      <4>1. next = len + 1 /\ next \in 1..(len + 1) /\ len + 1 \in Nat \ {0} /\ len + 1 \in Nat
        BY <1>1, <3>4, <3>9
      <4>2. SizeAt(text, next) = 0
        <5>1. SizeAt(text, len + 1) # 0 => LineEnd(text, len + 1) \in (len + 1)..(len - 1)
          BY <4>1, SizeAtType DEF len
        <5>2. (len + 1)..(len - 1) = {}
          BY <1>1
        <5>. QED BY <4>1, <5>1, <5>2
      <4>3. rest = <<>>
        BY <1>4, <4>1, <4>2
      <4>4. f[x + 1] = part
        BY <1>8, <3>2, <3>5, <4>3
      <4>5. IsPrefix(P[k] \o part, P[m]) /\ P[k] \o part \in Seq(Char)
        BY <2>5, <2>6, <3>5, <3>7, PrefixConcat, ConcatProperties
      <4>6. IsPrefix(P[k] \o part, P[n])
        BY <2>6, <4>5, PrefixTrans
      <4>7. text # all
        <5>. SUFFICES ASSUME text = all PROVE FALSE
          OBVIOUS
        <5>1. len = z + 5
          BY <1>3 DEF len, z
        <5>2. p(m) = e + 1
          BY DEF e
        <5>. QED BY <2>3, <2>7, <2>10, <3>9, <5>1, <5>2
      <4>. QED BY <2>10, <3>5, <4>4, <4>6, <4>7
    <3>. QED BY <3>8, <3>9
  <2>. QED BY <2>13, <2>14
<1>11. 0 \in T
  <2>. HIDE DEF T
  <2>1. \A k \in 0..n : k \in T
    BY <1>1, <1>9, <1>10, CountDown
  <2>. QED BY <1>1, <2>1
<1>12. p(0) = 1 /\ 1 \in 1..(len + 1)
  BY <1>1, <1>3
<1>13. /\ f[1] \in Seq(Char) /\ IsPrefix(P[0] \o f[1], P[n])
       /\ text = all => P[0] \o f[1] = P[n]
  BY <1>11, <1>12
<1>14. P[0] \o f[1] = f[1] /\ P[n] \in Seq(Char)
  BY <1>1, <1>2, <1>6, <1>13, ConcatEmptySeq
<1>. QED BY <1>2, <1>4, <1>13, <1>14 DEF all

-----------------------------------------------------------------------------
(***************************************************************************)
(* raw.toString(): where every character is one byte, it changes nothing.  *)
(***************************************************************************)
OneByte == Char \ {Lead, Trail}

\* the characters that start with a byte
LEMMA CharsAtType ==
  ASSUME NEW s \in Seq(Char), NEW i \in 1..Len(s)
  PROVE  CharsAt(s, i) \in Seq(Char) /\ (s[i] \notin {Lead, Trail} => CharsAt(s, i) = <<s[i]>>)
<1>1. s[i] \in Char /\ Wide \in Char /\ Broken \in Char
  BY DEF Char
<1>2. \A c \in Char : <<c>> \in Seq(Char)
  OBVIOUS
<1>. QED BY <1>1, <1>2, EmptySeq DEF CharsAt

\* characters are what they decode to
LEMMA DecodedType ==
  ASSUME NEW s \in Seq(Char)
  PROVE  /\ [i \in 1..Len(s) |-> CharsAt(s, i)] \in Seq(Seq(Char))
         /\ Decoded(s) \in Seq(Char)
<1>. DEFINE cs == [i \in 1..Len(s) |-> CharsAt(s, i)]
<1>1. cs \in Seq(Seq(Char))
  <2>1. Len(s) \in Nat /\ cs \in [1..Len(s) -> Seq(Char)]
    BY CharsAtType
  <2>. QED BY <2>1
<1>2. Decoded(s) = FlattenSeq(cs)
  BY DEF Decoded
<1>. HIDE DEF cs
<1>. QED BY <1>1, <1>2, FlattenConcat DEF cs

\* a text of bytes that are characters decodes to itself
LEMMA DecodedPlain ==
  ASSUME NEW s \in Seq(Char), OneByteEach(s)
  PROVE  Decoded(s) = s
<1>. DEFINE n == Len(s)
            cs == [i \in 1..n |-> CharsAt(s, i)]
<1>1. n \in Nat /\ \A i \in 1..n : s[i] \in Char
  OBVIOUS
<1>2. cs \in Seq(Seq(Char)) /\ Len(cs) = n /\ Decoded(s) = FlattenSeq(cs)
  <2>1. cs \in Seq(Seq(Char))
    BY DecodedType
  <2>2. Decoded(s) = FlattenSeq(cs)
    BY DEF Decoded
  <2>3. Len(cs) = n
    BY <1>1
  <2>. QED BY <2>1, <2>2, <2>3
<1>3. \A i \in 1..n : cs[i] = <<s[i]>>
  BY CharsAtType DEF OneByteEach
<1>. HIDE DEF cs, n
<1>4. PICK F \in [0..n -> Seq(Char)] :
        /\ F[0] = <<>> /\ F[n] = FlattenSeq(cs)
        /\ \A i \in 1..n : F[i] = F[i - 1] \o cs[i]
  BY <1>2, Flattened
<1>. DEFINE T == {k \in 0..n : Len(F[k]) = k /\ \A j \in 1..k : F[k][j] = s[j]}
<1>5. 0 \in T
  BY <1>1, <1>4
<1>6. ASSUME NEW k \in 0..(n - 1), k \in T PROVE k + 1 \in T
  <2>. DEFINE a == F[k]
              e == <<s[k + 1]>>
  <2>1. k + 1 \in 1..n /\ k + 1 \in 0..n /\ k + 1 - 1 = k /\ k \in 0..n /\ k \in Nat
    BY <1>1
  <2>2. F[k + 1] = a \o e
    <3>. DEFINE i == k + 1
    <3>1. i \in 1..n /\ i - 1 = k
      BY <2>1
    <3>. HIDE DEF i
    <3>2. F[i] = F[i - 1] \o cs[i] /\ cs[i] = <<s[i]>>
      BY <1>3, <1>4, <3>1
    <3>. QED BY <3>1, <3>2 DEF i
  <2>3. a \in Seq(Char) /\ Len(a) = k /\ \A j \in 1..k : a[j] = s[j]
    BY <1>4, <1>6, <2>1
  <2>4. e \in Seq(Char) /\ Len(e) = 1 /\ e[1] = s[k + 1]
    BY <1>1, <2>1
  <2>. HIDE DEF a, e
  <2>5. /\ Len(a \o e) = Len(a) + Len(e)
        /\ \A j \in 1..Len(a) : (a \o e)[j] = a[j]
        /\ \A j \in 1..Len(e) : (a \o e)[Len(a) + j] = e[j]
    <3>1. a \in Seq(Char) /\ e \in Seq(Char)
      BY <2>3, <2>4
    <3>. QED BY ONLY <3>1, ConcatParts
  <2>6. \A j \in 1..(k + 1) : j \in 1..k \/ j = k + 1
    BY <2>1
  <2>7. (a \o e)[k + 1] = s[k + 1]
    BY <2>3, <2>4, <2>5
  <2>8. Len(a \o e) = k + 1 /\ \A j \in 1..(k + 1) : (a \o e)[j] = s[j]
    BY <2>3, <2>4, <2>5, <2>6, <2>7
  <2>. QED BY <2>1, <2>2, <2>8
<1>7. n \in T
  <2>. HIDE DEF T
  <2>1. \A k \in 0..n : k \in T
    BY <1>1, <1>5, <1>6, CountUp
  <2>. QED BY <1>1, <2>1
<1>8. F[n] \in Seq(Char) /\ Len(F[n]) = n /\ \A j \in 1..n : F[n][j] = s[j]
  BY <1>1, <1>4, <1>7
<1>. QED BY <1>2, <1>4, <1>8, SeqEqual DEF n

\* and what follows it decodes on its own
LEMMA DecodedAfter ==
  ASSUME NEW a \in Seq(Char), NEW b \in Seq(Char), OneByteEach(a)
  PROVE  Decoded(a \o b) = a \o Decoded(b)
<1>. DEFINE s == a \o b
            m == Len(a)
            n == Len(b)
            ca == [i \in 1..m |-> CharsAt(a, i)]
            cb == [i \in 1..n |-> CharsAt(b, i)]
            cs == [i \in 1..Len(s) |-> CharsAt(s, i)]
<1>1. m \in Nat /\ n \in Nat
  OBVIOUS
<1>2. /\ s \in Seq(Char) /\ Len(s) = m + n
      /\ \A i \in 1..m : s[i] = a[i]
      /\ \A i \in 1..n : s[m + i] = b[i]
  BY ConcatParts
<1>3. \A i \in 1..m : a[i] \notin {Lead, Trail}
  BY DEF OneByteEach
<1>4. ca \in Seq(Seq(Char)) /\ cb \in Seq(Seq(Char)) /\ FlattenSeq(ca) = a /\ FlattenSeq(cb) = Decoded(b)
  BY DecodedType, DecodedPlain DEF Decoded
<1>5. Decoded(s) = FlattenSeq(cs)
  BY DEF Decoded
<1>6. ASSUME NEW i \in 1..m PROVE CharsAt(s, i) = CharsAt(a, i)
  <2>1. s[i] = a[i] /\ a[i] \notin {Lead, Trail}
    BY <1>2, <1>3
  <2>. QED BY <2>1 DEF CharsAt
<1>7. Len(cs) = m + n
  BY <1>1, <1>2
<1>. HIDE DEF s, m, n
<1>8. /\ \A k \in Int : PairAt(s, k) <=> k \in 1..(m + n - 1) /\ s[k] = Lead /\ s[k + 1] = Trail
      /\ \A k \in Int : PairAt(b, k) <=> k \in 1..(n - 1) /\ b[k] = Lead /\ b[k + 1] = Trail
  <2>1. Len(s) = m + n
    BY <1>2
  <2>2. Len(b) = n
    BY DEF n
  <2>3. \A k \in Int : (k \in 1..(Len(s) - 1) <=> k \in 1..(m + n - 1))
    BY <1>1, <2>1
  <2>4. \A k \in Int : (k \in 1..(Len(b) - 1) <=> k \in 1..(n - 1))
    BY <1>1, <2>2
  <2>. QED BY <2>3, <2>4 DEF PairAt
<1>9. ASSUME NEW i \in 1..n PROVE CharsAt(s, m + i) = CharsAt(b, i)
  <2>. DEFINE at == m + i
  <2>1. s[at] = b[i] /\ at \in 1..(m + n)
    BY <1>1, <1>2
  <2>2. PairAt(s, at) <=> PairAt(b, i)
    <3>1. at \in 1..(m + n - 1) <=> i \in 1..(n - 1)
      BY <1>1
    <3>2. i \in 1..(n - 1) => i + 1 \in 1..n /\ at + 1 = m + (i + 1)
      BY <1>1
    <3>. HIDE DEF at
    <3>3. i \in 1..(n - 1) => s[at + 1] = b[i + 1]
      BY <1>2, <3>2
    <3>. QED BY <1>8, <2>1, <3>1, <3>3
  <2>3. PairAt(s, at - 1) <=> PairAt(b, i - 1)
    <3>1. CASE i = 1
      <4>1. at - 1 = m /\ i - 1 = 0
        BY <1>1, <3>1
      <4>2. ~PairAt(b, 0)
        BY <1>8
      <4>3. ~PairAt(s, m)
        <5>1. m \in 1..(m + n - 1) => s[m] # Lead
          <6>1. m \in 1..(m + n - 1) => m \in 1..m
            BY <1>1
          <6>. QED BY <1>2, <1>3, <6>1
        <5>2. m \in Int
          BY <1>1
        <5>. QED BY <1>8, <5>1, <5>2
      <4>. QED BY <4>1, <4>2, <4>3
    <3>2. CASE i # 1
      <4>1. /\ i - 1 \in 1..n /\ m + (i - 1) = at - 1 /\ at - 1 + 1 = at /\ i - 1 + 1 = i
            /\ at - 1 \in 1..(m + n - 1) /\ i - 1 \in 1..(n - 1)
        BY <1>1, <3>2
      <4>2. s[at - 1] = b[i - 1]
        BY <1>2, <4>1
      <4>. HIDE DEF at
      <4>. QED BY <1>8, <2>1, <4>1, <4>2
    <3>. QED BY <3>1, <3>2
  <2>. HIDE DEF at
  <2>4. CharsAt(s, at) = CharsAt(b, i)
    BY <2>1, <2>2, <2>3 DEF CharsAt
  <2>. QED BY <2>4 DEF at
<1>10. cs = ca \o cb
  <2>. DEFINE c == ca \o cb
  <2>1. Len(ca) = m /\ Len(cb) = n
    BY <1>1
  <2>2. cs \in Seq(Seq(Char)) /\ Len(cs) = m + n
    BY <1>2, <1>7, DecodedType
  <2>3. /\ \A i \in 1..m : cs[i] = ca[i]
        /\ \A i \in 1..n : cs[m + i] = cb[i]
    <3>1. \A i \in 1..m : i \in 1..Len(s)
      BY <1>1, <1>2
    <3>2. \A i \in 1..n : m + i \in 1..Len(s)
      BY <1>1, <1>2
    <3>3. \A i \in 1..m : cs[i] = ca[i]
      BY <1>6, <3>1
    <3>4. \A i \in 1..n : cs[m + i] = cb[i]
      BY <1>9, <3>2
    <3>. QED BY <3>3, <3>4
  <2>. HIDE DEF ca, cb, cs
  <2>4. /\ c \in Seq(Seq(Char)) /\ Len(c) = Len(ca) + Len(cb)
        /\ \A i \in 1..Len(ca) : c[i] = ca[i]
        /\ \A i \in 1..Len(cb) : c[Len(ca) + i] = cb[i]
    <3>1. ca \in Seq(Seq(Char)) /\ cb \in Seq(Seq(Char))
      BY <1>4
    <3>. QED BY ONLY <3>1, ConcatParts
  <2>. HIDE DEF c
  <2>5. ASSUME NEW i \in 1..(m + n) PROVE cs[i] = c[i]
    <3>1. CASE i \in 1..m
      BY <2>1, <2>3, <2>4, <3>1
    <3>2. CASE i \notin 1..m
      <4>1. i - m \in 1..n /\ m + (i - m) = i
        BY <1>1, <3>2
      <4>2. cs[m + (i - m)] = c[m + (i - m)]
        BY <2>1, <2>3, <2>4, <4>1
      <4>. QED BY <4>1, <4>2
    <3>. QED BY <3>1, <3>2
  <2>6. cs = c
    BY <2>1, <2>2, <2>4, <2>5, SeqEqual
  <2>. QED BY <2>6 DEF c
<1>11. FlattenSeq(ca \o cb) = FlattenSeq(ca) \o FlattenSeq(cb)
  <2>1. ca \in Seq(Seq(Char)) /\ cb \in Seq(Seq(Char))
    BY <1>4
  <2>. HIDE DEF ca, cb
  <2>. QED BY ONLY <2>1, FlattenConcat
<1>. HIDE DEF ca, cb, cs
<1>. QED BY <1>4, <1>5, <1>10, <1>11 DEF s

\* a beginning of such a text is one
LEMMA OneBytePart ==
  ASSUME NEW s \in Seq(Char), NEW t \in Seq(Char), IsPrefix(s, t), OneByteEach(t)
  PROVE  OneByteEach(s)
<1>1. Len(s) \in Nat /\ Len(t) \in Nat /\ Len(s) <= Len(t) /\ \A i \in 1..Len(s) : s[i] = t[i]
  BY PrefixPointwise
<1>2. \A i \in 1..Len(s) : i \in DOMAIN t
  BY <1>1
<1>. QED BY <1>1, <1>2 DEF OneByteEach

\* and the chunks of a body of such characters are such a text
LEMMA OneByteChunks ==
  ASSUME NEW b \in Seq(Seq(Char)), \A i \in 1..Len(b) : Good(b[i]), OneByteEach(Plain(b))
  PROVE  Chunks(b) \in Seq(Char) /\ OneByteEach(Chunks(b))
<1>. DEFINE n == Len(b)
            cs == [i \in DOMAIN b |-> Chunk(b[i])]
<1>1. n \in Nat /\ DOMAIN b = 1..n
  OBVIOUS
<1>2. PICK P \in [0..n -> Seq(Char)] :
        /\ P[n] = Plain(b)
        /\ \A i \in 1..n : P[i] = P[i - 1] \o b[i]
        /\ \A i \in 0..n : IsPrefix(P[i], P[n])
  BY Flattened DEF Plain
<1>3. /\ CR \in OneByte /\ LF \in OneByte /\ "0" \in OneByte
      /\ \A t : IsDigit(t) /\ t \in Char => t \in OneByte
  <2>1. CR \in OneByte /\ LF \in OneByte /\ "0" \in OneByte
    BY DEF OneByte, Char, CR, LF, Lead, Trail
  <2>. QED BY <2>1, DigitValue DEF OneByte
<1>4. ASSUME NEW i \in 1..n PROVE b[i] \in Seq(OneByte)
  <2>. DEFINE c == b[i]
              x == P[i - 1]
              y == P[i]
              z == P[n]
  <2>1. i - 1 \in 0..n /\ i \in 0..n /\ n \in 0..n
    BY <1>1
  <2>2. /\ c \in Seq(Char) /\ x \in Seq(Char) /\ y \in Seq(Char) /\ z \in Seq(Char)
        /\ y = x \o c /\ IsPrefix(y, z)
    BY <1>2, <2>1, ElementOfSeq
  <2>3. OneByteEach(z)
    BY <1>2
  <2>. HIDE DEF c, x, y, z
  <2>4. OneByteEach(y)
    BY <2>2, <2>3, OneBytePart
  <2>5. /\ Len(x \o c) = Len(x) + Len(c) /\ \A j \in 1..Len(c) : (x \o c)[Len(x) + j] = c[j]
    <3>1. x \in Seq(Char) /\ c \in Seq(Char)
      BY <2>2
    <3>. QED BY ONLY <3>1, ConcatParts
  <2>6. ASSUME NEW j \in 1..Len(c) PROVE c[j] \in OneByte
    <3>1. Len(x) \in Nat /\ Len(c) \in Nat /\ c[j] \in Char
      BY <2>2
    <3>2. Len(x) + j \in 1..(Len(x) + Len(c))
      BY <3>1
    <3>3. Len(x) + j \in DOMAIN y
      BY <2>2, <2>5, <3>2
    <3>4. y[Len(x) + j] = c[j]
      BY <2>2, <2>5
    <3>. QED BY <2>4, <3>1, <3>3, <3>4 DEF OneByteEach, OneByte
  <2>7. c \in Seq(OneByte)
    <3>. DEFINE l == Len(c)
    <3>1. l \in Nat /\ c \in [1..l -> Char]
      BY <2>2
    <3>2. c \in [1..l -> OneByte]
      BY <2>6, <3>1
    <3>. HIDE DEF l
    <3>. QED BY <3>1, <3>2
  <2>. QED BY <2>7 DEF c
<1>5. ASSUME NEW i \in 1..n PROVE Chunk(b[i]) \in Seq(OneByte)
  <2>. DEFINE c == b[i]
              line == SizeLine(Len(c))
              e == <<CR, LF>>
  <2>1. Good(c)
    OBVIOUS
  <2>2. line \in Seq(OneByte)
    <3>1. line \in Seq(Char) /\ \A j \in 1..Len(line) : IsDigit(line[j])
      BY <2>1 DEF Good
    <3>. HIDE DEF line
    <3>2. \A j \in 1..Len(line) : line[j] \in OneByte
      BY <1>3, <3>1
    <3>. QED BY <3>1, <3>2
  <2>3. e \in Seq(OneByte)
    <3>1. \A p, q \in OneByte : <<p, q>> \in Seq(OneByte)
      OBVIOUS
    <3>. QED BY <1>3, <3>1
  <2>4. c \in Seq(OneByte)
    BY <1>4
  <2>5. Chunk(c) = line \o e \o c \o e
    BY DEF Chunk
  <2>. HIDE DEF line, e, c
  <2>6. \A p, q \in Seq(OneByte) : p \o q \in Seq(OneByte)
    OBVIOUS
  <2>7. Chunk(c) \in Seq(OneByte)
    BY ONLY <2>2, <2>3, <2>4, <2>5, <2>6
  <2>. QED BY <2>7 DEF c
<1>6. cs \in Seq(Seq(OneByte))
  <2>1. cs \in [1..n -> Seq(OneByte)]
    BY <1>1, <1>5
  <2>. QED BY <1>1, <2>1
<1>7. LastChunk \in Seq(OneByte)
  <2>1. \A x, y, z \in OneByte : <<x, y, z, y, z>> \in Seq(OneByte)
    OBVIOUS
  <2>. QED BY <1>3, <2>1 DEF LastChunk
<1>8. Chunks(b) = FlattenSeq(cs) \o LastChunk
  BY DEF Chunks, LastChunk
<1>. HIDE DEF cs
<1>9. FlattenSeq(cs) \in Seq(OneByte)
  BY <1>6, FlattenConcat
<1>10. Chunks(b) \in Seq(OneByte)
  BY <1>7, <1>8, <1>9, ConcatProperties
<1>11. \A s \in Seq(OneByte) : OneByteEach(s)
  BY DEF OneByteEach, OneByte
<1>12. Chunks(b) \in Seq(Char)
  BY ChunksShape
<1>. QED BY <1>10, <1>11, <1>12

-----------------------------------------------------------------------------
(***************************************************************************)
(* What request() makes of the response.                                   *)
(***************************************************************************)
LEMMA BodyType ==
  ASSUME NEW b \in Bodies
  PROVE  /\ b \in Seq(Seq(Char)) /\ \A i \in 1..Len(b) : Good(b[i])
         /\ Plain(b) \in Seq(Char) /\ Chunks(b) \in Seq(Char)
<1>1. /\ b \in Seq(Seq(STRING))
      /\ \A i \in DOMAIN b :
           /\ Len(b[i]) > 0 /\ SizeLine(Len(b[i])) \in Seq(STRING)
           /\ \A j \in DOMAIN SizeLine(Len(b[i])) : IsDigit(SizeLine(Len(b[i]))[j])
           /\ SizeOf(SizeLine(Len(b[i]))) = Len(b[i])
  BY Socks5Assumption
<1>2. \A c \in Seq(STRING) : c \in Seq(Char)
  <2>1. ASSUME NEW c \in Seq(STRING) PROVE c \in Seq(Char)
    <3>1. Len(c) \in Nat /\ c \in [1..Len(c) -> STRING]
      OBVIOUS
    <3>2. c \in [1..Len(c) -> Char]
      BY <3>1 DEF Char
    <3>. QED BY <3>1, <3>2
  <2>. QED BY <2>1
<1>3. b \in Seq(Seq(Char))
  <2>1. Len(b) \in Nat /\ b \in [1..Len(b) -> Seq(STRING)]
    BY <1>1
  <2>2. b \in [1..Len(b) -> Seq(Char)]
    BY <1>2, <2>1
  <2>. QED BY <2>1, <2>2
<1>4. ASSUME NEW i \in 1..Len(b) PROVE Good(b[i])
  <2>. DEFINE c == b[i]
              line == SizeLine(Len(c))
  <2>1. i \in DOMAIN b /\ c \in Seq(STRING) /\ c \in Seq(Char)
    BY <1>1, <1>3
  <2>2. /\ Len(c) > 0 /\ line \in Seq(STRING) /\ SizeOf(line) = Len(c)
        /\ \A j \in DOMAIN line : IsDigit(line[j])
    BY <1>1, <2>1
  <2>. HIDE DEF c, line
  <2>3. line \in Seq(Char) /\ DOMAIN line = 1..Len(line) /\ Len(c) \in Nat
    BY <1>2, <2>1, <2>2
  <2>4. Len(c) \in Nat \ {0}
    BY <2>2, <2>3
  <2>5. Good(c)
    BY <2>1, <2>2, <2>3, <2>4 DEF Good, line
  <2>. QED BY <2>5 DEF c
<1>5. Chunks(b) \in Seq(Char)
  BY <1>3, <1>4, ChunksShape
<1>6. Plain(b) \in Seq(Char)
  BY <1>3, FlattenConcat DEF Plain
<1>. QED BY <1>3, <1>4, <1>5, <1>6

\* the head ends with the first empty line, if there is one
LEMMA HeadEndIs ==
  ASSUME NEW s \in Seq(Char)
  PROVE  \/ HeadEnd(s) = 0 /\ \A i \in 1..Len(s) : s[i] # "emptyLine"
         \/ /\ HeadEnd(s) \in 1..Len(s) /\ s[HeadEnd(s)] = "emptyLine"
            /\ \A i \in 1..Len(s) : s[i] = "emptyLine" => HeadEnd(s) <= i
<1>. DEFINE I == {i \in 1..Len(s) : s[i] = "emptyLine"}
<1>1. HeadEnd(s) = IF I # {} THEN CHOOSE x \in I : \A y \in I : x <= y ELSE 0
  BY DEF HeadEnd, SelectInSeq, Min
<1>2. CASE I = {}
  BY <1>1, <1>2
<1>3. CASE I # {}
  <2>1. I \subseteq Nat
    <3>1. \A i \in 1..Len(s) : i \in Nat
      OBVIOUS
    <3>. QED BY <3>1
  <2>. HIDE DEF I
  <2>2. \E x \in I : \A y \in I : x <= y
    BY <1>3, <2>1, LeastNatural
  <2>3. HeadEnd(s) \in I /\ \A y \in I : HeadEnd(s) <= y
    BY <1>1, <1>3, <2>2
  <2>. QED BY <2>3 DEF I
<1>. QED BY <1>2, <1>3

Zeros(z) == [i \in 1..z |-> "00"]

\* the rest of a SOCKS reply
LEMMA ZerosType ==
  ASSUME NEW z \in Nat
  PROVE  Zeros(z) \in Seq(Char) /\ Len(Zeros(z)) = z /\ \A i \in 1..z : Zeros(z)[i] = "00"
<1>1. "00" \in Char
  BY DEF Char
<1>2. Zeros(z) \in [1..z -> Char]
  BY <1>1 DEF Zeros
<1>. QED BY <1>2 DEF Zeros

\* what is left over of it, up to the empty line
Preface(z) == Zeros(z) \o <<IF chunked THEN "chunkedHead" ELSE "head", "emptyLine">>

LEMMA PrefaceShape ==
  ASSUME chunked \in BOOLEAN, NEW z \in Nat
  PROVE  /\ Preface(z) \in Seq(Char) /\ Len(Preface(z)) = z + 2
         /\ \A i \in 1..z : Preface(z)[i] = "00"
         /\ Preface(z)[z + 1] = IF chunked THEN "chunkedHead" ELSE "head"
         /\ Preface(z)[z + 2] = "emptyLine"
         /\ OneByteEach(Preface(z))
<1>. DEFINE h == IF chunked THEN "chunkedHead" ELSE "head"
            head == <<h, "emptyLine">>
            zs == Zeros(z)
            A == zs \o head
<1>1. head \in Seq(Char) /\ Len(head) = 2 /\ head[1] = h /\ head[2] = "emptyLine"
  <2>1. h \in Char /\ "emptyLine" \in Char
    BY DEF Char
  <2>. HIDE DEF h
  <2>2. \A x, y \in Char : /\ <<x, y>> \in Seq(Char) /\ Len(<<x, y>>) = 2
                           /\ <<x, y>>[1] = x /\ <<x, y>>[2] = y
    OBVIOUS
  <2>. QED BY <2>1, <2>2
<1>2. zs \in Seq(Char) /\ Len(zs) = z /\ \A i \in 1..z : zs[i] = "00"
  BY ZerosType
<1>3. A = Preface(z)
  BY DEF Preface
<1>. HIDE DEF head, zs
<1>4. /\ A \in Seq(Char) /\ Len(A) = z + 2
      /\ \A i \in 1..z : A[i] = "00"
      /\ A[z + 1] = h /\ A[z + 2] = "emptyLine"
  <2>1. /\ A \in Seq(Char) /\ Len(A) = Len(zs) + Len(head)
        /\ \A k \in 1..Len(zs) : A[k] = zs[k]
        /\ \A k \in 1..Len(head) : A[Len(zs) + k] = head[k]
    <3>1. zs \in Seq(Char) /\ head \in Seq(Char)
      BY <1>1, <1>2
    <3>. QED BY ONLY <3>1, ConcatParts
  <2>. HIDE DEF A, h
  <2>2. 1 \in 1..Len(head) /\ 2 \in 1..Len(head)
    BY <1>1
  <2>. QED BY <1>1, <1>2, <2>1, <2>2
<1>. HIDE DEF A
<1>5. \A i \in 1..(z + 2) : i \in 1..z \/ i = z + 1 \/ i = z + 2
  OBVIOUS
<1>6. \A i \in 1..(z + 2) : A[i] \in {"00", "chunkedHead", "head", "emptyLine"}
  BY <1>4, <1>5
<1>7. DOMAIN A = 1..(z + 2)
  BY <1>4
<1>8. OneByteEach(A)
  BY <1>6, <1>7 DEF OneByteEach, Lead, Trail
<1>. QED BY <1>3, <1>4, <1>8

Rest == IF chunked THEN Chunks(body) ELSE Plain(body)

\* what is left of the proxy's answer, and the server's
LEMMA ReplyShape ==
  ASSUME body \in Bodies, chunked \in BOOLEAN, NEW z \in Nat
  PROVE  /\ HttpReply \in Seq(Char) /\ Rest \in Seq(Char) /\ Zeros(z) \o HttpReply \in Seq(Char)
         /\ Zeros(z) \o HttpReply = Preface(z) \o Rest
<1>. DEFINE head == <<IF chunked THEN "chunkedHead" ELSE "head", "emptyLine">>
            zs == Zeros(z)
            rest == Rest
<1>1. rest \in Seq(Char)
  BY BodyType DEF Rest
<1>2. head \in Seq(Char)
  <2>1. "chunkedHead" \in Char /\ "head" \in Char /\ "emptyLine" \in Char
    BY DEF Char
  <2>2. \A x, y \in Char : <<x, y>> \in Seq(Char)
    OBVIOUS
  <2>. QED BY <2>1, <2>2
<1>3. zs \in Seq(Char)
  BY ZerosType
<1>4. HttpReply = head \o rest /\ Preface(z) = zs \o head
  BY DEF HttpReply, Rest, Preface
<1>. HIDE DEF head, zs, rest
<1>5. \A x, y \in Seq(Char) : x \o y \in Seq(Char)
  OBVIOUS
<1>6. \A x, y, w \in Seq(Char) : (x \o y) \o w = x \o (y \o w)
  BY ConcatAssociative
<1>7. (zs \o head) \o rest = zs \o (head \o rest)
  BY ONLY <1>1, <1>2, <1>3, <1>6
<1>8. head \o rest \in Seq(Char) /\ zs \o (head \o rest) \in Seq(Char)
  BY ONLY <1>1, <1>2, <1>3, <1>5
<1>. QED BY <1>1, <1>4, <1>7, <1>8 DEF zs, rest

\* request() takes what comes after the empty line
LEMMA AfterPreface ==
  ASSUME chunked \in BOOLEAN, NEW z \in Nat, NEW t \in Seq(Char)
  PROVE  LET s == Preface(z) \o t IN
         HeadEnd(s) # 0 /\ BodyOf(s) = IF chunked THEN Dechunk(t) ELSE t
<1>. DEFINE A == Preface(z)
            s == A \o t
            e == HeadEnd(s)
            n == Len(s)
            text == SubSeq(s, e + 1, n)
            front == SubSeq(s, 1, e)
<1>1. /\ A \in Seq(Char) /\ Len(A) = z + 2
      /\ \A i \in 1..z : A[i] = "00"
      /\ A[z + 1] = (IF chunked THEN "chunkedHead" ELSE "head")
      /\ A[z + 2] = "emptyLine"
  BY PrefaceShape
<1>. HIDE DEF A
<1>2. /\ s \in Seq(Char) /\ Len(s) = Len(A) + Len(t)
      /\ \A i \in 1..Len(A) : s[i] = A[i]
      /\ \A i \in 1..Len(t) : s[Len(A) + i] = t[i]
  <2>1. A \in Seq(Char) /\ t \in Seq(Char)
    BY <1>1
  <2>. QED BY ONLY <2>1, ConcatParts
<1>. HIDE DEF s
<1>3. Len(t) \in Nat /\ n = z + 2 + Len(t) /\ n \in Nat
  BY <1>1, <1>2
<1>4. /\ \A i \in 1..z : s[i] = "00"
      /\ s[z + 1] = (IF chunked THEN "chunkedHead" ELSE "head") /\ s[z + 2] = "emptyLine"
      /\ \A i \in 1..Len(t) : s[z + 2 + i] = t[i]
  <2>1. z + 1 \in 1..(z + 2) /\ z + 2 \in 1..(z + 2) /\ \A i \in 1..z : i \in 1..(z + 2)
    OBVIOUS
  <2>. QED BY <1>1, <1>2, <2>1
<1>5. \/ e = 0 /\ \A i \in 1..n : s[i] # "emptyLine"
      \/ /\ e \in 1..n /\ s[e] = "emptyLine"
         /\ \A i \in 1..n : s[i] = "emptyLine" => e <= i
  BY <1>2, HeadEndIs
<1>. HIDE DEF e, n
<1>6. e = z + 2
  <2>1. z + 2 \in 1..n
    BY <1>3
  <2>2. e \in 1..n /\ s[e] = "emptyLine" /\ e <= z + 2
    BY <1>4, <1>5, <2>1
  <2>3. e \in 1..z \/ e = z + 1 \/ e = z + 2
    BY <1>3, <2>2
  <2>. QED BY <1>4, <2>2, <2>3
<1>7. Contains(front, "chunkedHead") <=> chunked
  <2>1. Len(front) = z + 2 /\ \A i \in 1..(z + 2) : front[i] = s[i]
    <3>. DEFINE m == z + 2
    <3>1. m \in 0..Len(s) /\ s \in Seq(Char)
      BY <1>2, <1>3 DEF n
    <3>2. front = SubSeq(s, 1, m)
      BY <1>6
    <3>. HIDE DEF m, front
    <3>3. Len(SubSeq(s, 1, m)) = m /\ \A i \in 1..m : SubSeq(s, 1, m)[i] = s[i]
      BY ONLY <3>1, Split
    <3>4. Len(front) = m /\ \A i \in 1..m : front[i] = s[i]
      BY <3>2, <3>3
    <3>. QED BY <3>4 DEF m
  <2>. HIDE DEF front
  <2>2. Contains(front, "chunkedHead") <=> \E i \in 1..(z + 2) : s[i] = "chunkedHead"
    BY <2>1 DEF Contains
  <2>3. \A i \in 1..(z + 2) : i \in 1..z \/ i = z + 1 \/ i = z + 2
    OBVIOUS
  <2>4. \A i \in 1..(z + 2) : s[i] = "chunkedHead" => i = z + 1
    BY <1>4, <2>3
  <2>5. z + 1 \in 1..(z + 2)
    OBVIOUS
  <2>6. s[z + 1] = "chunkedHead" <=> chunked
    BY <1>4
  <2>. QED BY <2>2, <2>4, <2>5, <2>6
<1>8. text = t
  <2>. DEFINE m == z + 2
  <2>1. m \in 0..Len(s) /\ s \in Seq(Char) /\ Len(s) - m = Len(t) /\ n = Len(s)
    <3>1. n = Len(s)
      BY DEF n
    <3>2. m \in 0..n /\ n - m = Len(t)
      BY <1>3
    <3>. QED BY <1>2, <3>1, <3>2
  <2>2. text = SubSeq(s, m + 1, Len(s))
    BY <1>6, <2>1
  <2>3. \A i \in 1..Len(t) : s[m + i] = t[i]
    BY <1>4
  <2>. HIDE DEF m, text
  <2>4. /\ SubSeq(s, m + 1, Len(s)) \in Seq(Char) /\ Len(SubSeq(s, m + 1, Len(s))) = Len(s) - m
        /\ \A i \in 1..(Len(s) - m) : SubSeq(s, m + 1, Len(s))[i] = s[m + i]
    BY ONLY <2>1, Split
  <2>5. text \in Seq(Char) /\ Len(text) = Len(t) /\ \A i \in 1..Len(t) : text[i] = t[i]
    BY <2>1, <2>2, <2>3, <2>4
  <2>. QED BY <2>5, SeqEqual
<1>9. BodyOf(s) = IF Contains(front, "chunkedHead") THEN Dechunk(text) ELSE text
  BY DEF BodyOf, e, n
<1>10. HeadEnd(s) # 0
  BY <1>6 DEF e
<1>. HIDE DEF text, front
<1>11. BodyOf(s) = IF chunked THEN Dechunk(t) ELSE t
  BY <1>7, <1>8, <1>9
<1>. QED BY <1>10, <1>11 DEF s, A

\* a beginning of a text is the first characters of it
LEMMA Beginning ==
  ASSUME NEW s \in Seq(Char), NEW t \in Seq(Char), IsPrefix(s, t)
  PROVE  Len(s) \in 0..Len(t) /\ s = SubSeq(t, 1, Len(s))
<1>. DEFINE m == Len(s)
            a == SubSeq(t, 1, m)
<1>1. Len(s) \in Nat /\ Len(t) \in Nat /\ Len(s) <= Len(t) /\ \A i \in 1..Len(s) : s[i] = t[i]
  BY PrefixPointwise
<1>2. m \in 0..Len(t)
  BY <1>1
<1>. HIDE DEF m
<1>3. a \in Seq(Char) /\ Len(a) = m /\ \A i \in 1..m : a[i] = t[i]
  BY <1>2, Split
<1>. HIDE DEF a
<1>4. s = a
  BY <1>1, <1>3, SeqEqual DEF m
<1>. QED BY <1>2, <1>4 DEF m, a

(***************************************************************************)
(* Of a part of the response with an empty line in it, what request()      *)
(* returns is a part of the body, and all of it of the whole response.     *)
(***************************************************************************)
LEMMA BodyOfPart ==
  ASSUME body \in Bodies, chunked \in BOOLEAN, NEW z \in Nat, NEW s \in Seq(Char),
         IsPrefix(s, Zeros(z) \o HttpReply), HeadEnd(Decoded(s)) # 0,
         chunked => OneByteEach(Plain(body))
  PROVE  \E n \in 0..Len(Plain(body)) :
           /\ BodyOf(Decoded(s)) = Decoded(SubSeq(Plain(body), 1, n))
           /\ s = Zeros(z) \o HttpReply => n = Len(Plain(body))
<1>. DEFINE R == Zeros(z) \o HttpReply
            A == Preface(z)
            rest == Rest
            plain == Plain(body)
            m == z + 2
<1>1. rest \in Seq(Char) /\ R \in Seq(Char) /\ R = A \o rest
  BY ReplyShape
<1>2. /\ A \in Seq(Char) /\ Len(A) = m /\ OneByteEach(A)
      /\ \A i \in 1..z : A[i] = "00"
      /\ A[z + 1] = IF chunked THEN "chunkedHead" ELSE "head"
  BY PrefaceShape
<1>3. plain \in Seq(Char) /\ body \in Seq(Seq(Char)) /\ \A i \in 1..Len(body) : Good(body[i])
  BY BodyType
<1>4. /\ \A t \in Seq(Char) : BodyOf(A \o t) = IF chunked THEN Dechunk(t) ELSE t
  BY AfterPreface
<1>5. IsPrefix(s, R) /\ HeadEnd(Decoded(s)) # 0
  OBVIOUS
<1>. HIDE DEF R, A, rest, plain
<1>6. Len(R) = m + Len(rest) /\ (\A i \in 1..m : R[i] = A[i]) /\ \A i \in 1..Len(rest) : R[m + i] = rest[i]
  <2>1. A \in Seq(Char) /\ rest \in Seq(Char)
    BY <1>1, <1>2
  <2>2. /\ Len(A \o rest) = Len(A) + Len(rest)
        /\ \A i \in 1..Len(A) : (A \o rest)[i] = A[i]
        /\ \A i \in 1..Len(rest) : (A \o rest)[Len(A) + i] = rest[i]
    BY ONLY <2>1, ConcatParts
  <2>. QED BY <1>1, <1>2, <2>2
<1>7. Len(s) \in Nat /\ Len(rest) \in Nat /\ Len(s) <= Len(R) /\ \A i \in 1..Len(s) : s[i] = R[i]
  <2>1. Len(s) <= Len(R) /\ \A i \in 1..Len(s) : s[i] = R[i]
    <3>1. s \in Seq(Char) /\ R \in Seq(Char) /\ IsPrefix(s, R)
      BY <1>1, <1>5
    <3>. QED BY ONLY <3>1, PrefixPointwise
  <2>. QED BY <1>1, <2>1
<1>8. m <= Len(s)
  <2>. SUFFICES ASSUME ~(m <= Len(s)) PROVE FALSE
    OBVIOUS
  <2>1. \A i \in 1..Len(s) : i \in 1..m /\ (i \in 1..z \/ i = z + 1)
    BY <1>7
  <2>2. \A i \in 1..Len(s) : s[i] \in {"00", "head", "chunkedHead"}
    BY <1>2, <1>6, <1>7, <2>1
  <2>3. OneByteEach(s) /\ \A i \in 1..Len(s) : s[i] # "emptyLine"
    BY <2>2 DEF OneByteEach, Lead, Trail
  <2>4. Decoded(s) = s
    BY <2>3, DecodedPlain
  <2>. QED BY <1>5, <2>3, <2>4, HeadEndIs
<1>. DEFINE front == SubSeq(s, 1, m)
            r == SubSeq(s, m + 1, Len(s))
<1>9. /\ front \in Seq(Char) /\ Len(front) = m /\ \A i \in 1..m : front[i] = s[i]
      /\ r \in Seq(Char) /\ Len(r) = Len(s) - m /\ \A i \in 1..(Len(s) - m) : r[i] = s[m + i]
      /\ front \o r = s
  <2>1. s \in Seq(Char) /\ m \in 0..Len(s)
    BY <1>7, <1>8
  <2>. HIDE DEF m
  <2>. QED BY ONLY <2>1, Split
<1>. HIDE DEF front, r
<1>10. front = A
  <2>1. \A i \in 1..m : i \in 1..Len(s)
    BY <1>7, <1>8
  <2>2. \A i \in 1..m : front[i] = A[i]
    BY <1>6, <1>7, <1>9, <2>1
  <2>. QED BY <1>2, <1>9, <2>2, SeqEqual
<1>11. IsPrefix(r, rest) /\ (s = R => r = rest)
  <2>1. Len(r) <= Len(rest)
    BY <1>6, <1>7, <1>9
  <2>2. ASSUME NEW i \in 1..Len(r) PROVE r[i] = rest[i]
    <3>1. i \in 1..(Len(s) - m) /\ i \in 1..Len(rest) /\ m + i \in 1..Len(s)
      BY SMTT(30), <1>7, <1>8, <1>9, <2>1
    <3>. QED BY <1>6, <1>7, <1>9, <3>1
  <2>3. IsPrefix(r, rest)
    BY <1>1, <1>9, <2>1, <2>2, PrefixPointwise
  <2>4. s = R => Len(r) = Len(rest)
    BY <1>6, <1>7, <1>9
  <2>. QED BY <1>1, <1>9, <2>3, <2>4, PrefixWhole
<1>12. Decoded(s) = A \o Decoded(r) /\ Decoded(r) \in Seq(Char)
  <2>1. s = A \o r
    BY <1>9, <1>10
  <2>. QED BY ZenonT(30), <1>2, <1>9, <2>1, DecodedAfter, DecodedType
<1>13. BodyOf(Decoded(s)) = IF chunked THEN Dechunk(Decoded(r)) ELSE Decoded(r)
  BY <1>4, <1>12
<1>14. CASE chunked
  <2>1. rest = Chunks(body) /\ OneByteEach(plain)
    BY <1>14 DEF rest, Rest, plain
  <2>2. OneByteEach(rest)
    BY <1>3, <2>1, OneByteChunks DEF plain
  <2>3. Decoded(r) = r
    BY <1>1, <1>9, <1>11, <2>2, OneBytePart, DecodedPlain
  <2>. DEFINE q == Dechunk(r)
  <2>4. q \in Seq(Char) /\ IsPrefix(q, plain) /\ (r = rest => q = plain)
    BY <1>3, <1>9, <1>11, <2>1, DechunkPart DEF plain
  <2>. HIDE DEF q
  <2>5. Len(q) \in 0..Len(plain) /\ q = SubSeq(plain, 1, Len(q))
    BY <1>3, <2>4, Beginning
  <2>6. Decoded(q) = q
    BY <1>3, <2>1, <2>4, OneBytePart, DecodedPlain
  <2>7. BodyOf(Decoded(s)) = q
    BY <1>13, <1>14, <2>3 DEF q
  <2>8. BodyOf(Decoded(s)) = Decoded(SubSeq(plain, 1, Len(q))) /\ (s = R => Len(q) = Len(plain))
    BY <1>11, <2>4, <2>5, <2>6, <2>7
  <2>. QED BY <2>5, <2>8 DEF plain, R
<1>15. CASE ~chunked
  <2>1. rest = plain
    BY <1>15 DEF rest, Rest, plain
  <2>2. Len(r) \in 0..Len(plain) /\ r = SubSeq(plain, 1, Len(r))
    BY <1>3, <1>9, <1>11, <2>1, Beginning
  <2>3. BodyOf(Decoded(s)) = Decoded(SubSeq(plain, 1, Len(r)))
    BY <1>13, <1>15, <2>2
  <2>4. s = R => Len(r) = Len(plain)
    BY <1>11, <2>1
  <2>. QED BY <2>2, <2>3, <2>4 DEF plain, R
<1>. QED BY <1>14, <1>15

-----------------------------------------------------------------------------
(***************************************************************************)
(* The invariant: before the tunnel stands nothing is collected; from then *)
(* on what is collected and under way is left over from the proxy's        *)
(* answer, followed by a part of the response once the server has given    *)
(* it, or by all of it if the stream was not cut.                          *)
(***************************************************************************)
SocksType ==
  /\ stage \in 0..2 /\ toProxy \in {<<>>, <<"greeting">>, <<"request">>, <<"http">>}
  /\ arriving \in Seq(Char) /\ raw \in Seq(Char)
  /\ body \in Bodies /\ chunked \in BOOLEAN /\ ended \in {"no", "early", "done"}

AtGreeting ==
  stage = 0 =>
    /\ toProxy \in {<<>>, <<"greeting">>} /\ (toProxy # <<>> => arriving = <<>>)
    /\ raw = <<>> /\ ended # "done" /\ Len(arriving) <= 2

AtRequest ==
  stage = 1 =>
    /\ toProxy \in {<<>>, <<"request">>} /\ (toProxy # <<>> => arriving = <<>>)
    /\ raw = <<>> /\ ended # "done" /\ Len(arriving) <= 2 + ReplyTail
    /\ \A i \in 3..Len(arriving) : arriving[i] = "00"

OnlyLeftover == \E z \in 0..ReplyTail : raw \o arriving = Zeros(z)

LeftoverAndReply ==
  \E z \in 0..ReplyTail :
    /\ IsPrefix(raw \o arriving, Zeros(z) \o HttpReply)
    /\ ended = "done" => raw \o arriving = Zeros(z) \o HttpReply

Collecting ==
  stage = 2 =>
    \/ toProxy = <<"http">> /\ ended # "done" /\ OnlyLeftover
    \/ toProxy = <<>> /\ ended # "no" /\ LeftoverAndReply

SocksInv ==
  SocksType /\ AtGreeting /\ AtRequest /\ Collecting /\ ResponseIntact /\ OneTimerWaits

\* what is left over has no empty line in it
LEMMA NoHead ==
  ASSUME NEW z \in Nat
  PROVE  HeadEnd(Decoded(Zeros(z))) = 0
<1>. DEFINE s == Zeros(z)
<1>1. s \in Seq(Char) /\ Len(s) = z /\ \A i \in 1..z : s[i] = "00"
  BY ZerosType
<1>. HIDE DEF s
<1>2. OneByteEach(s) /\ \A i \in 1..z : s[i] # "emptyLine"
  BY <1>1 DEF OneByteEach, Lead, Trail
<1>3. Decoded(s) = s
  BY <1>1, <1>2, DecodedPlain
<1>4. HeadEnd(s) \in 1..z => s[HeadEnd(s)] # "emptyLine"
  BY <1>2
<1>5. HeadEnd(s) = 0
  BY <1>1, <1>4, HeadEndIs
<1>. QED BY <1>3, <1>5 DEF s

-----------------------------------------------------------------------------
(***************************************************************************)
(* Each action keeps it.                                                   *)
(***************************************************************************)
LEMMA SocksInitial == SocksInit => SocksInv
<1>. SUFFICES ASSUME SocksInit PROVE SocksInv
  OBVIOUS
<1>1. <<>> \in Seq(Char) /\ Len(<<>>) = 0
  BY EmptySeq
<1>2. SocksType
  BY <1>1 DEF SocksInit, SocksType
<1>3. AtGreeting /\ AtRequest /\ Collecting /\ ResponseIntact
  BY <1>1 DEF SocksInit, AtGreeting, AtRequest, Collecting, ResponseIntact, Pending
<1>4. OneTimerWaits
  BY DEF SocksInit, OneTimerWaits, Pending
<1>. QED BY <1>2, <1>3, <1>4 DEF SocksInv

\* nothing is resolved yet
LEMMA StillOpen ==
  ASSUME outcome' = Pending \/ outcome' = Rejects
  PROVE  ResponseIntact'
BY DEF ResponseIntact, Pending, Rejects

\* the timers are as they were
LEMMA SameTimers ==
  ASSUME OneTimerWaits, stage' = stage, sock' = sock, timers' = timers, outcome' = outcome
  PROVE  OneTimerWaits'
BY DEF OneTimerWaits, Open

\* no timer has to be set for a request that has failed
LEMMA FailedTimers ==
  ASSUME outcome' = Rejects
  PROVE  OneTimerWaits'
BY DEF OneTimerWaits, Open, Pending, Rejects

\* each action preserves the invariant: the proxy's,
LEMMA SocksProxyAnswers ==
  ASSUME SocksInv, ProxyAnswers
  PROVE  SocksInv'
<1>. USE DEF ProxyAnswers, server
<1>1. SocksType /\ AtGreeting /\ AtRequest /\ Collecting /\ ResponseIntact /\ OneTimerWaits
  BY DEF SocksInv
<1>2. /\ stage' = stage /\ raw' = raw /\ body' = body /\ chunked' = chunked
      /\ ended' = ended /\ outcome' = outcome /\ ended = "no" /\ toProxy' = <<>> /\ toProxy # <<>>
  OBVIOUS
<1>3. OneTimerWaits'
  BY <1>1, SameTimers
<1>4. "00" \in Char /\ "04" \in Char /\ "05" \in Char /\ "FF" \in Char
  BY DEF Char
<1>5. CASE /\ toProxy = <<"greeting">>
           /\ \E ok \in {"00", "FF"} : arriving' = arriving \o <<"05", ok>>
  <2>1. PICK ok \in {"00", "FF"} : arriving' = arriving \o <<"05", ok>>
    BY <1>5
  <2>2. stage = 0 /\ arriving = <<>>
    BY <1>1, <1>5 DEF SocksType, AtGreeting, AtRequest, Collecting
  <2>3. arriving' = <<"05", ok>>
    BY <2>1, <2>2
  <2>4. arriving' \in Seq(Char) /\ Len(arriving') = 2
    BY <1>4, <2>3
  <2>5. outcome.is # "resolved"
    BY <1>1, <2>2 DEF ResponseIntact
  <2>6. ResponseIntact'
    BY <1>2, <2>5 DEF ResponseIntact
  <2>. QED BY <1>1, <1>2, <1>3, <2>2, <2>4, <2>6
         DEF SocksInv, SocksType, AtGreeting, AtRequest, Collecting
<1>6. CASE /\ toProxy = <<"request">>
           /\ \E code \in {"00", "04"} :
                arriving' = arriving \o <<"05", code>> \o [i \in 1..ReplyTail |-> "00"]
  <2>1. PICK code \in {"00", "04"} :
          arriving' = arriving \o <<"05", code>> \o [i \in 1..ReplyTail |-> "00"]
    BY <1>6
  <2>2. stage = 1 /\ arriving = <<>>
    BY <1>1, <1>6 DEF SocksType, AtGreeting, AtRequest, Collecting
  <2>. DEFINE front == <<"05", code>>
  <2>3. front \in Seq(Char) /\ Len(front) = 2
    BY <1>4
  <2>4. arriving' = front \o Zeros(ReplyTail)
    BY <2>1, <2>2, <2>3 DEF Zeros
  <2>5. ReplyTail \in Nat
    BY Socks5Assumption
  <2>6. Zeros(ReplyTail) \in Seq(Char) /\ Len(Zeros(ReplyTail)) = ReplyTail
        /\ \A i \in 1..ReplyTail : Zeros(ReplyTail)[i] = "00"
    BY <2>5, ZerosType
  <2>. HIDE DEF front
  <2>7. /\ arriving' \in Seq(Char) /\ Len(arriving') = 2 + ReplyTail
        /\ \A k \in 1..ReplyTail : arriving'[2 + k] = "00"
    <3>. DEFINE zs == Zeros(ReplyTail)
    <3>1. zs \in Seq(Char) /\ front \in Seq(Char)
      BY <2>3, <2>6
    <3>. HIDE DEF zs
    <3>2. /\ front \o zs \in Seq(Char) /\ Len(front \o zs) = Len(front) + Len(zs)
          /\ \A k \in 1..Len(zs) : (front \o zs)[Len(front) + k] = zs[k]
      BY ONLY <3>1, ConcatParts
    <3>3. Len(zs) = ReplyTail /\ arriving' = front \o zs /\ \A i \in 1..ReplyTail : zs[i] = "00"
      BY <2>4, <2>6 DEF zs
    <3>. QED BY <2>3, <3>2, <3>3
  <2>8. \A i \in 3..Len(arriving') : arriving'[i] = "00"
    <3>1. ASSUME NEW i \in 3..Len(arriving') PROVE arriving'[i] = "00"
      <4>1. i - 2 \in 1..ReplyTail /\ 2 + (i - 2) = i
        BY <2>5, <2>7
      <4>. QED BY <2>7, <4>1
    <3>. QED BY <3>1
  <2>9. ResponseIntact'
    BY <1>1, <1>2, <2>2 DEF ResponseIntact
  <2>. QED BY <1>1, <1>2, <1>3, <2>2, <2>5, <2>7, <2>8, <2>9
         DEF SocksInv, SocksType, AtGreeting, AtRequest, Collecting
<1>. QED BY <1>5, <1>6

\* the server's,
LEMMA SocksServerAnswers ==
  ASSUME SocksInv, ServerAnswers
  PROVE  SocksInv'
<1>. USE DEF ServerAnswers, server
<1>1. SocksType /\ AtGreeting /\ AtRequest /\ Collecting /\ ResponseIntact /\ OneTimerWaits
  BY DEF SocksInv
<1>2. /\ stage' = stage /\ raw' = raw /\ body' = body /\ chunked' = chunked
      /\ outcome' = outcome /\ ended' = "done" /\ toProxy' = <<>> /\ toProxy = <<"http">>
      /\ arriving' = arriving \o HttpReply
  OBVIOUS
<1>3. stage = 2 /\ OnlyLeftover
  BY <1>1, <1>2 DEF SocksType, AtGreeting, AtRequest, Collecting
<1>4. PICK z \in 0..ReplyTail : raw \o arriving = Zeros(z)
  BY <1>3 DEF OnlyLeftover
<1>5. z \in Nat /\ HttpReply \in Seq(Char) /\ Zeros(z) \o HttpReply \in Seq(Char)
      /\ body \in Bodies /\ chunked \in BOOLEAN
  <2>1. z \in Nat /\ body \in Bodies /\ chunked \in BOOLEAN
    BY <1>1 DEF SocksType
  <2>. QED BY <2>1, ReplyShape
<1>6. raw \in Seq(Char) /\ arriving \in Seq(Char)
  BY <1>1 DEF SocksType
<1>7. raw \o (arriving \o HttpReply) = Zeros(z) \o HttpReply
  <2>. DEFINE reply == HttpReply
  <2>1. raw \in Seq(Char) /\ arriving \in Seq(Char) /\ reply \in Seq(Char)
    BY <1>5, <1>6
  <2>. HIDE DEF reply
  <2>2. (raw \o arriving) \o reply = raw \o (arriving \o reply)
    BY ONLY <2>1, ConcatAssociative
  <2>3. (raw \o arriving) \o reply = Zeros(z) \o reply
    BY <1>4
  <2>. QED BY <2>2, <2>3 DEF reply
<1>8. HttpReply' = HttpReply
  BY <1>2 DEF HttpReply
<1>9. LeftoverAndReply'
  <2>1. raw' \o arriving' = Zeros(z) \o HttpReply'
    BY <1>2, <1>7, <1>8
  <2>2. IsPrefix(Zeros(z) \o HttpReply', Zeros(z) \o HttpReply')
    BY <1>5, <1>8, PrefixSelf
  <2>. QED BY <2>1, <2>2 DEF LeftoverAndReply
<1>10. arriving' \in Seq(Char)
  BY <1>2, <1>5, <1>6, ConcatProperties
<1>11. ResponseIntact'
  BY <1>1, <1>2 DEF ResponseIntact
<1>12. OneTimerWaits'
  BY <1>1, SameTimers
<1>. QED BY <1>1, <1>2, <1>3, <1>9, <1>10, <1>11, <1>12
       DEF SocksInv, SocksType, AtGreeting, AtRequest, Collecting

\* a break of the stream,
LEMMA SocksCut ==
  ASSUME SocksInv, Cut
  PROVE  SocksInv'
<1>. USE DEF Cut, server
<1>1. SocksType /\ AtGreeting /\ AtRequest /\ Collecting /\ ResponseIntact /\ OneTimerWaits
  BY DEF SocksInv
<1>2. /\ stage' = stage /\ raw' = raw /\ body' = body /\ chunked' = chunked /\ toProxy' = toProxy
      /\ outcome' = outcome /\ ended' = "early" /\ outcome = Pending
  BY DEF Open
<1>3. PICK n \in 0..Len(arriving) : arriving' = SubSeq(arriving, 1, n)
  OBVIOUS
<1>4. raw \in Seq(Char) /\ arriving \in Seq(Char) /\ Len(arriving) \in Nat
  BY <1>1 DEF SocksType
<1>5. /\ arriving' \in Seq(Char) /\ Len(arriving') = n /\ n <= Len(arriving)
      /\ \A i \in 1..n : arriving'[i] = arriving[i]
      /\ IsPrefix(arriving', arriving)
  <2>. DEFINE a == SubSeq(arriving, 1, n)
  <2>1. /\ a \in Seq(Char) /\ Len(a) = n
        /\ \A i \in 1..n : a[i] = arriving[i]
        /\ IsPrefix(a, arriving)
    BY ONLY <1>4, n \in 0..Len(arriving), Split
  <2>2. n <= Len(arriving)
    BY <1>4
  <2>. HIDE DEF a
  <2>3. arriving' = a
    BY <1>3 DEF a
  <2>. QED BY <2>1, <2>2, <2>3
<1>6. ResponseIntact'
  BY <1>2, StillOpen
<1>7. AtGreeting'
  <2>1. arriving = <<>> => arriving' = <<>>
    BY <1>3, <1>4, <1>5
  <2>. QED BY <1>1, <1>2, <1>4, <1>5, <2>1 DEF AtGreeting
<1>8. AtRequest'
  <2>. SUFFICES ASSUME stage = 1
                PROVE  /\ toProxy \in {<<>>, <<"request">>} /\ (toProxy # <<>> => arriving' = <<>>)
                       /\ raw = <<>> /\ Len(arriving') <= 2 + ReplyTail
                       /\ \A i \in 3..Len(arriving') : arriving'[i] = "00"
    BY <1>2 DEF AtRequest
  <2>1. arriving = <<>> => arriving' = <<>>
    BY <1>3, <1>4, <1>5
  <2>2. \A i \in 3..Len(arriving') : i \in 1..n /\ i \in 3..Len(arriving)
    BY <1>4, <1>5
  <2>3. ReplyTail \in Nat
    BY Socks5Assumption
  <2>. QED BY <1>1, <1>4, <1>5, <2>1, <2>2, <2>3 DEF AtRequest
<1>9. Collecting'
  <2>. SUFFICES ASSUME stage = 2 PROVE Collecting'
    BY <1>2 DEF Collecting
  <2>1. IsPrefix(raw \o arriving', raw \o arriving) /\ raw \o arriving' \in Seq(Char)
        /\ raw \o arriving \in Seq(Char)
    BY <1>4, <1>5, PrefixConcat, ConcatProperties
  <2>2. CASE toProxy = <<"http">> /\ OnlyLeftover
    <3>1. PICK z \in 0..ReplyTail : raw \o arriving = Zeros(z)
      BY <2>2 DEF OnlyLeftover
    <3>. DEFINE s == raw \o arriving'
    <3>2. Zeros(z) \in Seq(Char) /\ Len(Zeros(z)) = z /\ \A i \in 1..z : Zeros(z)[i] = "00"
      BY ZerosType
    <3>3. s \in Seq(Char) /\ IsPrefix(s, Zeros(z))
      BY <2>1, <3>1
    <3>. HIDE DEF s
    <3>4. Len(s) <= z /\ \A i \in 1..Len(s) : s[i] = Zeros(z)[i]
      BY <3>2, <3>3, PrefixPointwise
    <3>5. Len(s) \in Nat
      BY <3>3
    <3>6. \A i \in 1..Len(s) : s[i] = "00"
      BY <3>2, <3>4, <3>5
    <3>7. s = Zeros(Len(s))
      <4>1. /\ Zeros(Len(s)) \in Seq(Char) /\ Len(Zeros(Len(s))) = Len(s)
            /\ \A i \in 1..Len(s) : Zeros(Len(s))[i] = "00"
        BY <3>5, ZerosType
      <4>2. \A i \in 1..Len(s) : s[i] = Zeros(Len(s))[i]
        BY <3>6, <4>1
      <4>. QED BY <3>3, <4>1, <4>2, SeqEqual
    <3>8. Len(s) \in 0..ReplyTail
      BY <3>4, <3>5, Socks5Assumption
    <3>9. OnlyLeftover'
      BY <1>2, <3>7, <3>8 DEF OnlyLeftover, s
    <3>. QED BY <1>2, <2>2, <3>9 DEF Collecting
  <2>3. CASE toProxy = <<>> /\ LeftoverAndReply
    <3>1. PICK z \in 0..ReplyTail : IsPrefix(raw \o arriving, Zeros(z) \o HttpReply)
      BY <2>3 DEF LeftoverAndReply
    <3>2. Zeros(z) \o HttpReply \in Seq(Char)
      <4>1. z \in Nat /\ body \in Bodies /\ chunked \in BOOLEAN
        BY <1>1 DEF SocksType
      <4>. QED BY <4>1, ReplyShape
    <3>3. IsPrefix(raw \o arriving', Zeros(z) \o HttpReply)
      <4>. DEFINE a == raw \o arriving'
                  b == raw \o arriving
                  c == Zeros(z) \o HttpReply
      <4>1. a \in Seq(Char) /\ b \in Seq(Char) /\ c \in Seq(Char) /\ IsPrefix(a, b) /\ IsPrefix(b, c)
        BY <2>1, <3>1, <3>2
      <4>. HIDE DEF a, b, c
      <4>2. IsPrefix(a, c)
        BY ONLY <4>1, PrefixTrans
      <4>. QED BY <4>2 DEF a, c
    <3>4. HttpReply' = HttpReply
      BY <1>2 DEF HttpReply
    <3>5. LeftoverAndReply'
      BY <1>2, <3>3, <3>4 DEF LeftoverAndReply
    <3>. QED BY <1>2, <2>3, <3>5 DEF Collecting
  <2>. QED BY <1>1, <2>2, <2>3 DEF Collecting
<1>10. SocksType'
  BY <1>1, <1>2, <1>5 DEF SocksType
<1>11. OneTimerWaits'
  BY <1>1, SameTimers
<1>. QED BY <1>6, <1>7, <1>8, <1>9, <1>10, <1>11 DEF SocksInv

\* data for the handshake,
LEMMA SocksHandshakeData ==
  ASSUME SocksInv, HandshakeData
  PROVE  SocksInv'
<1>1. SocksType /\ AtGreeting /\ AtRequest /\ Collecting /\ ResponseIntact /\ OneTimerWaits
  BY DEF SocksInv
<1>2. /\ raw' = raw /\ body' = body /\ chunked' = chunked
      /\ ended' = ended /\ outcome = Pending /\ stage \in {0, 1}
  BY DEF HandshakeData, Open, server
<1>3. arriving \in Seq(Char) /\ Len(arriving) \in Nat /\ ReplyTail \in Nat
  BY <1>1, Socks5Assumption DEF SocksType
<1>4. PICK n \in 1..Len(arriving) :
        /\ arriving' = SubSeq(arriving, n + 1, Len(arriving))
        /\ IF Accepts(SubSeq(arriving, 1, n))
           THEN /\ stage' = stage + 1
                /\ toProxy' = <<IF stage = 0 THEN "request" ELSE "http">>
                /\ timers' = (IF stage = 0 THEN timers ELSE HandOver(timers))
                /\ sock' = sock /\ outcome' = outcome
           ELSE outcome' = Rejects /\ stage' = stage /\ toProxy' = toProxy
  BY DEF HandshakeData, Take, Fail
<1>5. n \in Nat /\ n >= 1 /\ n <= Len(arriving) /\ n \in 0..Len(arriving) /\ arriving # <<>>
  BY <1>3
<1>6. /\ arriving' \in Seq(Char) /\ Len(arriving') = Len(arriving) - n
      /\ \A i \in 1..(Len(arriving) - n) : arriving'[i] = arriving[n + i]
      /\ Len(SubSeq(arriving, 1, n)) = n
  <2>. DEFINE b == SubSeq(arriving, n + 1, Len(arriving))
              a == SubSeq(arriving, 1, n)
  <2>1. /\ Len(a) = n /\ b \in Seq(Char) /\ Len(b) = Len(arriving) - n
        /\ \A i \in 1..(Len(arriving) - n) : b[i] = arriving[n + i]
    BY ONLY <1>3, <1>5, Split
  <2>. HIDE DEF b
  <2>2. arriving' = b
    BY <1>4 DEF b
  <2>. QED BY <2>1, <2>2
<1>7. ResponseIntact'
  BY <1>2, <1>4, StillOpen
<1>8. toProxy = <<>>
  BY <1>1, <1>2, <1>5 DEF AtGreeting, AtRequest
<1>9. CASE ~Accepts(SubSeq(arriving, 1, n))
  <2>1. stage' = stage /\ toProxy' = toProxy
    BY <1>4, <1>9
  <2>2. SocksType'
    BY <1>1, <1>2, <1>6, <2>1 DEF SocksType
  <2>3. AtGreeting'
    BY <1>1, <1>2, <1>3, <1>5, <1>6, <1>8, <2>1 DEF AtGreeting
  <2>4. AtRequest'
    <3>. SUFFICES ASSUME stage = 1
                  PROVE  /\ raw = <<>> /\ ended # "done" /\ Len(arriving') <= 2 + ReplyTail
                         /\ \A i \in 3..Len(arriving') : arriving'[i] = "00"
      BY <1>2, <1>8, <2>1 DEF AtRequest
    <3>1. raw = <<>> /\ ended # "done" /\ Len(arriving) <= 2 + ReplyTail
          /\ \A i \in 3..Len(arriving) : arriving[i] = "00"
      BY <1>1 DEF AtRequest
    <3>2. \A i \in 3..Len(arriving') : n + i \in 3..Len(arriving) /\ i \in 1..(Len(arriving) - n)
      BY <1>3, <1>5, <1>6
    <3>. QED BY <1>3, <1>5, <1>6, <3>1, <3>2
  <2>5. Collecting'
    BY <1>2, <2>1 DEF Collecting
  <2>6. OneTimerWaits'
    BY <1>4, <1>9, FailedTimers
  <2>. QED BY <1>7, <2>2, <2>3, <2>4, <2>5, <2>6 DEF SocksInv
<1>10. CASE Accepts(SubSeq(arriving, 1, n)) /\ stage = 0
  <2>1. stage' = 1 /\ toProxy' = <<"request">>
    BY <1>4, <1>10
  <2>2. n >= 2 /\ Len(arriving) <= 2 /\ raw = <<>> /\ ended # "done"
    BY <1>1, <1>6, <1>10 DEF Accepts, AtGreeting
  <2>3. Len(arriving') = 0
    BY <1>3, <1>5, <1>6, <2>2
  <2>4. arriving' = <<>>
    BY <1>6, <2>3
  <2>5. SocksType'
    BY <1>1, <1>2, <1>6, <2>1 DEF SocksType
  <2>6. AtGreeting' /\ Collecting'
    BY <2>1 DEF AtGreeting, Collecting
  <2>7. AtRequest'
    BY <1>2, <1>3, <2>1, <2>2, <2>3, <2>4 DEF AtRequest
  <2>8. OneTimerWaits'
    BY <1>1, <1>2, <1>4, <1>10, <2>1 DEF OneTimerWaits, Open, Pending
  <2>. QED BY <1>7, <2>5, <2>6, <2>7, <2>8 DEF SocksInv
<1>11. CASE Accepts(SubSeq(arriving, 1, n)) /\ stage = 1
  <2>1. stage' = 2 /\ toProxy' = <<"http">>
    BY <1>4, <1>11
  <2>2. /\ n >= 2 /\ Len(arriving) <= 2 + ReplyTail /\ raw = <<>> /\ ended # "done"
        /\ \A i \in 3..Len(arriving) : arriving[i] = "00"
    BY <1>1, <1>6, <1>11 DEF Accepts, AtRequest
  <2>3. SocksType'
    BY <1>1, <1>2, <1>6, <2>1 DEF SocksType
  <2>4. AtGreeting' /\ AtRequest'
    BY <2>1 DEF AtGreeting, AtRequest
  <2>5. OnlyLeftover'
    <3>. DEFINE s == arriving'
    <3>1. s \in Seq(Char) /\ Len(s) = Len(arriving) - n
          /\ \A i \in 1..(Len(arriving) - n) : s[i] = arriving[n + i]
      BY <1>6
    <3>. HIDE DEF s
    <3>2. Len(s) \in 0..ReplyTail
      BY <1>3, <1>5, <2>2, <3>1
    <3>3. ASSUME NEW i \in 1..Len(s) PROVE s[i] = "00"
      <4>1. i \in 1..(Len(arriving) - n) /\ n + i \in 3..Len(arriving)
        BY <1>3, <1>5, <2>2, <3>1
      <4>. QED BY <2>2, <3>1, <4>1
    <3>4. /\ Zeros(Len(s)) \in Seq(Char) /\ Len(Zeros(Len(s))) = Len(s)
          /\ \A i \in 1..Len(s) : Zeros(Len(s))[i] = "00"
      BY SMTT(30), <3>2, ZerosType
    <3>5. s = Zeros(Len(s))
      BY <3>1, <3>3, <3>4, SeqEqual
    <3>6. raw' \o s = s
      BY <1>2, <2>2, <3>1, ConcatEmptySeq
    <3>. QED BY <3>2, <3>5, <3>6 DEF OnlyLeftover, s
  <2>6. Collecting'
    BY <1>2, <2>1, <2>2, <2>5 DEF Collecting
  <2>7. OneTimerWaits'
    BY <1>1, <1>2, <1>4, <1>11, <2>1 DEF OneTimerWaits, Open, Pending, HandOver
  <2>. QED BY <1>7, <2>3, <2>4, <2>6, <2>7 DEF SocksInv
<1>. QED BY <1>2, <1>9, <1>10, <1>11

\* data of the response,
LEMMA SocksResponseData ==
  ASSUME SocksInv, ResponseData
  PROVE  SocksInv'
<1>1. SocksType /\ AtGreeting /\ AtRequest /\ Collecting /\ ResponseIntact /\ OneTimerWaits
  BY DEF SocksInv
<1>2. /\ stage' = stage /\ toProxy' = toProxy /\ body' = body /\ chunked' = chunked
      /\ ended' = ended /\ outcome' = outcome /\ outcome = Pending /\ stage = 2
  BY DEF ResponseData, Open, server
<1>3. arriving \in Seq(Char) /\ Len(arriving) \in Nat /\ raw \in Seq(Char)
  BY <1>1 DEF SocksType
<1>4. PICK n \in 1..Len(arriving) :
        /\ arriving' = SubSeq(arriving, n + 1, Len(arriving))
        /\ raw' = raw \o SubSeq(arriving, 1, n)
  BY DEF ResponseData, Take
<1>5. n \in 0..Len(arriving)
  BY <1>3
<1>6. arriving' \in Seq(Char) /\ raw' \in Seq(Char) /\ raw' \o arriving' = raw \o arriving
  <2>. DEFINE a == SubSeq(arriving, 1, n)
              b == SubSeq(arriving, n + 1, Len(arriving))
  <2>1. a \in Seq(Char) /\ b \in Seq(Char) /\ a \o b = arriving
    BY ONLY <1>3, <1>5, Split
  <2>2. arriving' = b /\ raw' = raw \o a
    BY <1>4
  <2>. HIDE DEF a, b
  <2>3. raw \o a \in Seq(Char) /\ (raw \o a) \o b = raw \o (a \o b)
    <3>1. a \in Seq(Char) /\ b \in Seq(Char) /\ raw \in Seq(Char)
      BY <1>3, <2>1
    <3>2. raw \o a \in Seq(Char)
      BY ONLY <3>1, ConcatProperties
    <3>3. (raw \o a) \o b = raw \o (a \o b)
      BY ONLY SMTT(30), <3>1, ConcatAssociative
    <3>. QED BY <3>2, <3>3
  <2>. QED BY <2>1, <2>2, <2>3
<1>7. HttpReply' = HttpReply
  BY <1>2 DEF HttpReply
<1>8. (OnlyLeftover' <=> OnlyLeftover) /\ (LeftoverAndReply' <=> LeftoverAndReply)
  BY <1>2, <1>6, <1>7 DEF OnlyLeftover, LeftoverAndReply
<1>9. SocksType'
  BY <1>1, <1>2, <1>6 DEF SocksType
<1>10. AtGreeting' /\ AtRequest' /\ Collecting'
  BY <1>1, <1>2, <1>8 DEF AtGreeting, AtRequest, Collecting
<1>11. ResponseIntact'
  BY <1>2, StillOpen
<1>12. OneTimerWaits'
  BY <1>1, SameTimers DEF ResponseData
<1>. QED BY <1>9, <1>10, <1>11, <1>12 DEF SocksInv


\* the end of the stream,
LEMMA SocksOnEnd ==
  ASSUME SocksInv, OnEnd
  PROVE  SocksInv'
<1>1. SocksType /\ AtGreeting /\ AtRequest /\ Collecting /\ ResponseIntact /\ OneTimerWaits
  BY DEF SocksInv
<1>2. /\ stage' = stage /\ toProxy' = toProxy /\ body' = body /\ chunked' = chunked
      /\ ended' = ended /\ arriving' = arriving /\ raw' = raw /\ stage = 2 /\ arriving = <<>>
      /\ outcome = Pending /\ timers' = timers \ {"request"}
  BY DEF OnEnd, Open, server
<1>. DEFINE text == Decoded(raw)
<1>3. outcome' = IF HeadEnd(text) = 0 THEN Rejects ELSE Resolves(BodyOf(text))
  BY DEF OnEnd
<1>4. SocksType' /\ AtGreeting' /\ AtRequest'
  BY <1>1, <1>2 DEF SocksType, AtGreeting, AtRequest
<1>5. HttpReply' = HttpReply
  BY <1>2 DEF HttpReply
<1>6. Collecting'
  BY <1>1, <1>2, <1>5 DEF Collecting, OnlyLeftover, LeftoverAndReply
<1>7. OneTimerWaits'
  <2>1. timers' = {}
    BY <1>1, <1>2 DEF OneTimerWaits, Open
  <2>2. outcome' # Pending
    BY <1>3 DEF Pending, Rejects, Resolves
  <2>. QED BY <2>1, <2>2 DEF OneTimerWaits, Open
<1>8. raw \in Seq(Char) /\ raw \o arriving = raw /\ body \in Bodies /\ chunked \in BOOLEAN
  <2>1. raw \in Seq(Char) /\ body \in Bodies /\ chunked \in BOOLEAN
    BY <1>1 DEF SocksType
  <2>2. raw \o <<>> = raw
    BY ONLY <2>1, ConcatEmptySeq
  <2>. QED BY <1>2, <2>1, <2>2
<1>9. ASSUME HeadEnd(text) = 0 PROVE ResponseIntact'
  BY <1>3, <1>9, StillOpen
<1>10. ASSUME HeadEnd(text) # 0 PROVE ResponseIntact'
  <2>1. ~OnlyLeftover
    <3>. SUFFICES ASSUME NEW z \in 0..ReplyTail, raw = Zeros(z) PROVE FALSE
      BY <1>8 DEF OnlyLeftover
    <3>1. z \in Nat
      BY Socks5Assumption
    <3>2. HeadEnd(Decoded(Zeros(z))) = 0
      BY <3>1, NoHead
    <3>. QED BY <1>10, <3>2
  <2>2. toProxy = <<>> /\ ended # "no" /\ LeftoverAndReply
    BY <1>1, <1>2, <2>1 DEF Collecting
  <2>3. PICK z \in 0..ReplyTail : /\ IsPrefix(raw, Zeros(z) \o HttpReply)
                                  /\ ended = "done" => raw = Zeros(z) \o HttpReply
    BY <1>8, <2>2 DEF LeftoverAndReply
  <2>4. z \in Nat
    BY Socks5Assumption
  <2>5. outcome'.body = BodyOf(text)
    BY <1>3, <1>10 DEF Resolves
  <2>6. stage' = 2 /\ toProxy' # <<"http">>
    BY <1>2, <2>2
  <2>7. ASSUME chunked => OneByteEach(Plain(body))
        PROVE  \E n \in 0..Len(Plain(body)) :
                 /\ outcome'.body = Decoded(SubSeq(Plain(body), 1, n))
                 /\ ended = "done" => n = Len(Plain(body))
    <3>1. \E n \in 0..Len(Plain(body)) :
            /\ BodyOf(text) = Decoded(SubSeq(Plain(body), 1, n))
            /\ raw = Zeros(z) \o HttpReply => n = Len(Plain(body))
      BY <1>8, <1>10, <2>3, <2>4, <2>7, BodyOfPart
    <3>. QED BY <2>3, <2>5, <3>1
  <2>8. (chunked' => OneByteEach(Plain(body'))) =>
          \E n \in 0..Len(Plain(body')) :
            /\ outcome'.body = Decoded(SubSeq(Plain(body'), 1, n))
            /\ ended' = "done" => n = Len(Plain(body'))
    BY <1>2, <2>7
  <2>. QED BY <2>6, <2>8 DEF ResponseIntact
<1>. QED BY <1>4, <1>6, <1>7, <1>9, <1>10 DEF SocksInv

\* what is left of the invariant where nothing is written or read
LEMMA SocksQuiet ==
  ASSUME SocksInv, UNCHANGED <<stage, toProxy, arriving, raw, server, ended>>
  PROVE  SocksType' /\ AtGreeting' /\ AtRequest' /\ Collecting'
<1>1. UNCHANGED <<stage, toProxy, arriving, raw, body, chunked, ended>>
  BY DEF server
<1>2. HttpReply' = HttpReply
  BY <1>1 DEF HttpReply
<1>3. SocksType' /\ AtGreeting' /\ AtRequest'
  BY <1>1 DEF SocksInv, SocksType, AtGreeting, AtRequest
<1>4. Collecting'
  BY <1>1, <1>2 DEF SocksInv, Collecting, OnlyLeftover, LeftoverAndReply
<1>. QED BY <1>3, <1>4

\* and what is settled stays so
LEMMA SameResponse ==
  ASSUME ResponseIntact, UNCHANGED <<stage, toProxy, server, ended, outcome>>
  PROVE  ResponseIntact'
<1>1. UNCHANGED <<stage, toProxy, body, chunked, ended, outcome>>
  BY DEF server
<1>. QED BY <1>1 DEF ResponseIntact

\* an error of the socket,
LEMMA SocksSocketError ==
  ASSUME SocksInv, SocketError
  PROVE  SocksInv'
<1>1. UNCHANGED <<stage, toProxy, arriving, raw, server, ended>> /\ outcome' = Rejects
  BY DEF SocketError, Fail
<1>. QED BY <1>1, SocksQuiet, StillOpen, FailedTimers DEF SocksInv

\* and the timers: that of the handshake,
LEMMA SocksHandshakeTimeout ==
  ASSUME SocksInv, HandshakeTimeout
  PROVE  SocksInv'
<1>1. /\ UNCHANGED <<stage, toProxy, arriving, raw, server, ended>>
      /\ outcome' = IF Open /\ stage < 2 THEN Rejects ELSE outcome
      /\ "handshake" \in timers
  BY DEF HandshakeTimeout
<1>2. OneTimerWaits /\ ResponseIntact
  BY DEF SocksInv
<1>3. CASE Open /\ stage < 2
  BY <1>1, <1>3, SocksQuiet, StillOpen, FailedTimers DEF SocksInv
<1>4. CASE ~(Open /\ stage < 2)
  <2>1. ~Open /\ outcome.is # "resolved"
    BY <1>1, <1>2, <1>4 DEF OneTimerWaits
  <2>2. outcome' = outcome
    BY <1>1, <1>4
  <2>3. OneTimerWaits'
    BY <2>1, <2>2 DEF OneTimerWaits, Open
  <2>4. ResponseIntact'
    BY <1>1, <1>2, <2>2, SameResponse
  <2>. QED BY <1>1, <2>3, <2>4, SocksQuiet DEF SocksInv
<1>. QED BY <1>3, <1>4

\* and that of the exchange
LEMMA SocksRequestTimeout ==
  ASSUME SocksInv, RequestTimeout
  PROVE  SocksInv'
<1>1. /\ UNCHANGED <<stage, toProxy, arriving, raw, server, ended>>
      /\ outcome' = IF Open THEN Rejects ELSE outcome
      /\ "request" \in timers
  BY DEF RequestTimeout
<1>2. OneTimerWaits /\ ResponseIntact
  BY DEF SocksInv
<1>3. CASE Open
  BY <1>1, <1>3, SocksQuiet, StillOpen, FailedTimers DEF SocksInv
<1>4. CASE ~Open
  <2>1. outcome.is # "resolved"
    BY <1>1, <1>2 DEF OneTimerWaits
  <2>2. outcome' = outcome
    BY <1>1, <1>4
  <2>3. OneTimerWaits'
    BY <1>4, <2>1, <2>2 DEF OneTimerWaits, Open
  <2>4. ResponseIntact'
    BY <1>1, <1>2, <2>2, SameResponse
  <2>. QED BY <1>1, <2>3, <2>4, SocksQuiet DEF SocksInv
<1>. QED BY <1>3, <1>4

\* so every step does
LEMMA SocksStep == SocksInv /\ [SocksNext]_socksVars => SocksInv'
<1>1. SocksInv /\ UNCHANGED socksVars => SocksInv'
  <2>. SUFFICES ASSUME SocksInv, UNCHANGED socksVars PROVE SocksInv'
    OBVIOUS
  <2>1. /\ UNCHANGED <<stage, toProxy, arriving, raw, server, ended>>
        /\ UNCHANGED <<sock, timers, outcome>>
    BY DEF socksVars
  <2>2. ResponseIntact' /\ OneTimerWaits'
    BY <2>1, SameResponse, SameTimers DEF SocksInv
  <2>. QED BY <2>1, <2>2, SocksQuiet DEF SocksInv
<1>. QED BY <1>1, SocksProxyAnswers, SocksServerAnswers, SocksCut, SocksHandshakeData,
         SocksResponseData, SocksOnEnd, SocksSocketError, SocksHandshakeTimeout,
         SocksRequestTimeout DEF SocksNext

(***************************************************************************)
(* socks5.js:18-94, for any bodies of chunks and any way to write their    *)
(* sizes, any cut of the stream and any end of it: a request that resolves *)
(* went through a tunnel, and what it returns is the body the server sent  *)
(* or, if the stream was cut off, its beginning, decoded, whatever the     *)
(* proxy's answer left over.  Of a body in chunks this holds where every   *)
(* character is one byte, and dechunk() gets wrong what has others.        *)
(***************************************************************************)
THEOREM SocksResponseIntact == SocksSpec => []ResponseIntact
<1>1. SocksInv => ResponseIntact
  BY DEF SocksInv
<1>. QED BY <1>1, SocksInitial, SocksStep, PTL DEF SocksSpec

(***************************************************************************)
(* socks5.js:13, 39, 67, 70, 72: an open request has its socket and the    *)
(* one timer of its phase, and one that has resolved leaves none.          *)
(***************************************************************************)
THEOREM SocksOneTimer == SocksSpec => []OneTimerWaits
<1>1. SocksInv => OneTimerWaits
  BY DEF SocksInv
<1>. QED BY <1>1, SocksInitial, SocksStep, PTL DEF SocksSpec
=============================================================================
