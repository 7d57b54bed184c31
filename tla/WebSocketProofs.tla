-------------------------- MODULE WebSocketProofs --------------------------
(***************************************************************************)
(* The WebSocket server for any payloads, masks and lengths of the fields, *)
(* any number of frames and any cut of the stream: what it makes of the    *)
(* bytes are the client's frames, and its answers can be read as frames.   *)
(***************************************************************************)
EXTENDS WebSocket, Integers, CommonLemmas, SequenceTheorems, TLAPS

(***************************************************************************)
(* Numbers and their digits.                                               *)
(***************************************************************************)
LEMMA ShiftedSteps ==
  ASSUME NEW n \in Nat, NEW k \in Nat
  PROVE  /\ Shifted(n, k) \in [0..k -> Nat] /\ Shifted(n, k)[0] = n
         /\ \A j \in 1..k : Shifted(n, k)[j] = Shifted(n, k)[j - 1] \div Base
<1>. DEFINE G(f) == [j \in 0..k |-> IF j = 0 THEN n ELSE f[j - 1] \div Base]
            step == [x \in Nat \X (1..k) |-> x[1] \div Base]
            g == CHOOSE f : f = G(f)
<1>1. Base \in Nat \ {0}
  BY WebSocketAssumption
<1>2. step \in [Nat \X (1..k) -> Nat]
  BY <1>1
<1>3. \A x \in Nat, j \in 1..k : step[<<x, j>>] = x \div Base
  OBVIOUS
<1>. HIDE DEF step
<1>4. PICK f : Iterates(f, Nat, k, n, step)
  BY ONLY <1>2, n \in Nat, k \in Nat, Iterated
<1>. USE <1>4 DEF Iterates
<1>5. f = G(f)
  <2>1. ASSUME NEW j \in 0..k PROVE f[j] = IF j = 0 THEN n ELSE f[j - 1] \div Base
    <3>1. CASE j = 0
      BY <1>4, <3>1
    <3>2. CASE j # 0
      <4>1. j \in 1..k /\ j - 1 \in 0..k
        BY <3>2
      <4>2. f[j - 1] \in Nat
        BY <4>1
      <4>. QED BY <1>3, <1>4, <3>2, <4>1, <4>2
    <3>. QED BY <3>1, <3>2
  <2>. QED BY <2>1
<1>6. g = G(g)
  <2>1. \E h : h = G(h)
    BY <1>5
  <2>. HIDE DEF G
  <2>. QED BY <2>1
<1>7. Shifted(n, k) = g
  BY DEF Shifted
<1>. HIDE DEF g
<1>8. g[0] = n /\ \A j \in 0..k : g[j] = IF j = 0 THEN n ELSE g[j - 1] \div Base
  BY <1>6
<1>9. \A j \in 1..k : g[j] = g[j - 1] \div Base
  <2>1. \A j \in 1..k : j \in 0..k /\ j # 0
    OBVIOUS
  <2>. QED BY <1>8, <2>1
<1>10. \A j \in 0..k : g[j] \in Nat
  <2>. DEFINE T == {j \in 0..k : g[j] \in Nat}
  <2>1. 0 \in T
    BY <1>8
  <2>2. ASSUME NEW j \in 0..(k - 1), j \in T PROVE j + 1 \in T
    <3>1. j + 1 \in 1..k /\ j + 1 \in 0..k /\ j + 1 - 1 = j
      OBVIOUS
    <3>2. g[j + 1] = g[j] \div Base
      BY <1>9, <3>1
    <3>3. g[j] \in Nat
      BY <2>2
    <3>4. g[j] \div Base \in Nat
      <4>. DEFINE x == g[j]
      <4>1. x \in Nat /\ Base \in Nat /\ Base > 0
        BY <1>1, <3>3
      <4>. HIDE DEF x
      <4>2. x \div Base \in Nat
        BY ONLY <4>1
      <4>. QED BY <4>2 DEF x
    <3>. QED BY <3>1, <3>2, <3>4
  <2>. HIDE DEF T
  <2>3. \A j \in 0..k : j \in T
    BY <2>1, <2>2, CountUp
  <2>. QED BY <2>3 DEF T
<1>11. g \in [0..k -> Nat]
  <2>1. DOMAIN g = 0..k /\ g = [j \in 0..k |-> g[j]]
    BY <1>6
  <2>. QED BY <1>10, <2>1
<1>. QED BY <1>7, <1>8, <1>9, <1>11

\* a number, digit by digit
LEMMA NumberSteps ==
  ASSUME NEW s \in Seq(Nat)
  PROVE  \E f \in [0..Len(s) -> Nat] :
           /\ f[0] = 0 /\ f[Len(s)] = Number(s)
           /\ \A i \in 1..Len(s) : f[i] = (f[i - 1] * Base) + s[i]
<1>. DEFINE n == Len(s)
            G(f) == [i \in 0..n |-> IF i = 0 THEN 0 ELSE (f[i - 1] * Base) + s[i]]
            step == [x \in Nat \X (1..n) |-> (x[1] * Base) + s[x[2]]]
            g == CHOOSE f : f = G(f)
<1>1. Base \in Nat /\ n \in Nat /\ \A i \in 1..n : s[i] \in Nat
  BY WebSocketAssumption
<1>2. Number(s) = g[n]
  BY DEF Number
<1>. HIDE DEF n
<1>3. step \in [Nat \X (1..n) -> Nat]
  <2>1. ASSUME NEW x \in Nat \X (1..n) PROVE (x[1] * Base) + s[x[2]] \in Nat
    <3>1. x[1] \in Nat /\ x[2] \in 1..n
      OBVIOUS
    <3>2. x[1] * Base \in Nat /\ s[x[2]] \in Nat
      BY <1>1, <3>1
    <3>. QED BY <3>2
  <2>. QED BY <2>1
<1>4. \A x \in Nat, j \in 1..n : step[<<x, j>>] = (x * Base) + s[j]
  OBVIOUS
<1>. HIDE DEF step
<1>5. PICK f : Iterates(f, Nat, n, 0, step)
  BY ONLY <1>1, <1>3, 0 \in Nat, Iterated
<1>. USE <1>5 DEF Iterates
<1>6. f = G(f)
  <2>1. ASSUME NEW j \in 0..n PROVE f[j] = IF j = 0 THEN 0 ELSE (f[j - 1] * Base) + s[j]
    <3>1. CASE j = 0
      BY <1>5, <3>1
    <3>2. CASE j # 0
      <4>1. j \in 1..n /\ j - 1 \in 0..n
        BY <1>1, <3>2
      <4>2. f[j - 1] \in Nat
        BY <4>1
      <4>. QED BY <1>4, <1>5, <3>2, <4>1, <4>2
    <3>. QED BY <3>1, <3>2
  <2>. QED BY <2>1
<1>7. g = G(g)
  <2>1. \E h : h = G(h)
    BY <1>6
  <2>. HIDE DEF G
  <2>. QED BY <2>1
<1>. HIDE DEF g
<1>8. g[0] = 0 /\ \A j \in 0..n : g[j] = IF j = 0 THEN 0 ELSE (g[j - 1] * Base) + s[j]
  BY <1>1, <1>7
<1>9. \A j \in 1..n : g[j] = (g[j - 1] * Base) + s[j]
  <2>1. \A j \in 1..n : j \in 0..n /\ j # 0
    BY <1>1
  <2>. QED BY <1>8, <2>1
<1>10. \A j \in 0..n : g[j] \in Nat
  <2>. DEFINE T == {j \in 0..n : g[j] \in Nat}
  <2>1. 0 \in T
    BY <1>1, <1>8
  <2>2. ASSUME NEW j \in 0..(n - 1), j \in T PROVE j + 1 \in T
    <3>1. j + 1 \in 1..n /\ j + 1 \in 0..n /\ j + 1 - 1 = j
      BY <1>1
    <3>2. g[j + 1] = (g[j] * Base) + s[j + 1]
      BY <1>9, <3>1
    <3>3. g[j] \in Nat /\ s[j + 1] \in Nat
      BY <1>1, <2>2, <3>1
    <3>4. g[j] * Base \in Nat
      BY <1>1, <3>3
    <3>. QED BY <3>1, <3>2, <3>3, <3>4
  <2>. HIDE DEF T
  <2>3. \A j \in 0..n : j \in T
    BY <1>1, <2>1, <2>2, CountUp
  <2>. QED BY <2>3 DEF T
<1>11. g \in [0..n -> Nat]
  <2>1. DOMAIN g = 0..n /\ g = [j \in 0..n |-> g[j]]
    BY <1>7
  <2>. QED BY <1>10, <2>1
<1>. QED BY <1>2, <1>8, <1>9, <1>11 DEF n

\* and it is one
LEMMA NumberType ==
  ASSUME NEW s \in Seq(Nat)
  PROVE  Number(s) \in Nat
<1>1. PICK f \in [0..Len(s) -> Nat] : f[Len(s)] = Number(s)
  BY NumberSteps
<1>2. Len(s) \in 0..Len(s)
  OBVIOUS
<1>. QED BY <1>1, <1>2

\* writing a number that fits, and reading it
LEMMA NumberOfDigits ==
  ASSUME NEW n \in Nat, NEW k \in Nat, Fits(n, k)
  PROVE  /\ Digits(n, k) \in Seq(Nat) /\ Len(Digits(n, k)) = k
         /\ Number(Digits(n, k)) = n
<1>. DEFINE q == Shifted(n, k)
            d == Digits(n, k)
<1>1. Base \in Nat \ {0}
  BY WebSocketAssumption
<1>2. /\ q \in [0..k -> Nat] /\ q[0] = n
      /\ \A j \in 1..k : q[j] = q[j - 1] \div Base
  BY ShiftedSteps
<1>3. q[k] = 0
  BY DEF Fits
<1>. HIDE DEF q
<1>4. \A i \in 1..k : k - i \in 0..k /\ q[k - i] \in Nat /\ q[k - i] % Base \in Nat
  <2>1. ASSUME NEW i \in 1..k PROVE k - i \in 0..k /\ q[k - i] \in Nat /\ q[k - i] % Base \in Nat
    <3>1. k - i \in 0..k
      OBVIOUS
    <3>2. q[k - i] \in Nat
      BY <1>2, <3>1
    <3>. QED BY <1>1, <3>1, <3>2
  <2>. QED BY <2>1
<1>5. d = [i \in 1..k |-> q[k - i] % Base]
  BY DEF Digits, q
<1>. HIDE DEF d
<1>6. d \in Seq(Nat) /\ Len(d) = k /\ \A i \in 1..k : d[i] = q[k - i] % Base
  BY <1>4, <1>5
<1>7. PICK f \in [0..k -> Nat] : /\ f[0] = 0 /\ f[k] = Number(d)
                                 /\ \A i \in 1..k : f[i] = (f[i - 1] * Base) + d[i]
  BY <1>6, NumberSteps
<1>8. \A i \in 0..k : f[i] = q[k - i]
  <2>. DEFINE T == {i \in 0..k : f[i] = q[k - i]}
  <2>1. 0 \in T
    BY <1>3, <1>7, k - 0 = k
  <2>2. ASSUME NEW i \in 0..(k - 1), i \in T PROVE i + 1 \in T
    <3>. DEFINE j == i + 1
                x == q[k - j]
    <3>1. j \in 1..k /\ j \in 0..k /\ j - 1 = i /\ k - i \in 1..k /\ k - i - 1 = k - j /\ k - j \in 0..k
      OBVIOUS
    <3>. HIDE DEF j
    <3>2. x \in Nat
      BY <1>2, <3>1
    <3>3. f[i] = x \div Base
      <4>1. q[k - i] = q[k - i - 1] \div Base
        BY <1>2, <3>1
      <4>. QED BY <2>2, <3>1, <4>1
    <3>4. d[j] = x % Base
      BY <1>6, <3>1
    <3>5. f[j] = (f[i] * Base) + d[j]
      BY <1>7, <3>1
    <3>. HIDE DEF x
    <3>6. x = ((x \div Base) * Base) + (x % Base)
      BY <1>1, <3>2
    <3>7. f[j] = x
      BY <3>3, <3>4, <3>5, <3>6
    <3>8. j \in T
      BY <3>1, <3>7 DEF x
    <3>. QED BY <3>8 DEF j
  <2>. HIDE DEF T
  <2>3. \A i \in 0..k : i \in T
    BY <2>1, <2>2, CountUp
  <2>. QED BY <2>3 DEF T
<1>9. f[k] = n
  <2>1. k \in 0..k /\ k - k = 0
    OBVIOUS
  <2>2. f[k] = q[k - k]
    BY <1>8, <2>1
  <2>. QED BY <1>2, <2>1, <2>2
<1>. QED BY <1>6, <1>7, <1>9 DEF d

\* a mask undoes itself
LEMMA MaskTwice ==
  ASSUME NEW p \in Seq(Byte), NEW m \in Seq(Byte), Len(m) = MaskSize
  PROVE  /\ Masked(p, m) \in Seq(Byte) /\ Len(Masked(p, m)) = Len(p)
         /\ Unmask(Masked(p, m), m) = p
<1>. DEFINE n == Len(p)
            at(i) == ((i - 1) % MaskSize) + 1
            a == [i \in 1..n |-> Xor(p[i], m[at(i)])]
            b == [i \in 1..n |-> Xor(a[i], m[at(i)])]
<1>1. n \in Nat /\ DOMAIN p = 1..n /\ MaskSize \in Nat \ {0}
  BY WebSocketAssumption
<1>2. Masked(p, m) = a
  BY <1>1 DEF Masked
<1>. HIDE DEF n
<1>3. ASSUME NEW i \in 1..n PROVE p[i] \in Byte /\ m[at(i)] \in Byte
  <2>. DEFINE j == i - 1
  <2>1. j \in Nat
    BY <1>1
  <2>. HIDE DEF j
  <2>2. j % MaskSize \in 0..(MaskSize - 1)
    BY <1>1, <2>1
  <2>3. (j % MaskSize) + 1 \in 1..MaskSize
    BY <1>1, <2>2
  <2>4. at(i) \in 1..Len(m)
    BY <2>3 DEF j
  <2>5. p[i] \in Byte
    BY <1>1 DEF n
  <2>. QED BY <2>4, <2>5
<1>. HIDE DEF at
<1>4. \A i \in 1..n : Xor(p[i], m[at(i)]) \in Byte /\ Xor(Xor(p[i], m[at(i)]), m[at(i)]) = p[i]
  BY <1>3, WebSocketAssumption
<1>5. a \in Seq(Byte) /\ Len(a) = n /\ DOMAIN a = 1..n
  BY <1>1, <1>4
<1>6. \A i \in 1..n : b[i] = p[i]
  BY <1>4
<1>. HIDE DEF a
<1>7. Unmask(a, m) = b
  BY <1>5 DEF Unmask, Masked, at
<1>8. b = p
  <2>1. b \in Seq(Byte) /\ Len(b) = n
    <3>1. \A i \in 1..n : b[i] \in Byte
      BY <1>3, <1>6
    <3>2. b = [i \in 1..n |-> b[i]]
      OBVIOUS
    <3>. HIDE DEF b
    <3>3. b \in [1..n -> Byte]
      BY <3>1, <3>2
    <3>. QED BY <1>1, <3>3
  <2>. HIDE DEF b
  <2>. QED BY <1>6, <2>1, SeqEqual DEF n
<1>. QED BY <1>2, <1>5, <1>7, <1>8 DEF n

-----------------------------------------------------------------------------
(***************************************************************************)
(* One frame: what is written, and what a turn of the loop makes of it.    *)
(***************************************************************************)

\* lengths that one of the three forms of a head can tell
Tellable(len) == len < MidLimit \/ Fits(len, LongDigits)
Frames == [opcode: Nat, payload: {p \in Seq(Byte) : Tellable(Len(p))}]

\* a head: the opcode, the flag with the short length, the digits d
HeadOf(h, o, flag, len, short, d) ==
  /\ h \in Seq(Nat) /\ d \in Seq(Nat) /\ short \in 0..(Ext + 1)
  /\ Len(h) = 2 + Len(d) /\ h[1] = o /\ h[2] = flag + short
  /\ \A i \in 1..Len(d) : h[2 + i] = d[i]
  /\ Len(d) = IF short = Ext THEN MidDigits ELSE IF short = Ext + 1 THEN LongDigits ELSE 0
  /\ IF Len(d) = 0 THEN short = len ELSE Number(d) = len

\* what is written before a payload is a head of one of the three forms
LEMMA HeadShape ==
  ASSUME NEW o \in Nat, NEW flag \in Nat, NEW len \in Nat, Tellable(len)
  PROVE  \E short, d : HeadOf(Head2(o, flag, len), o, flag, len, short, d)
<1>1. /\ Ext \in Nat \ {0} /\ MidLimit \in Nat /\ MidLimit >= Ext
      /\ MidDigits \in Nat \ {0} /\ LongDigits \in Nat \ {0}
      /\ \A n \in 0..(MidLimit - 1) : Fits(n, MidDigits)
  BY WebSocketAssumption
<1>2. ASSUME NEW short \in {Ext, Ext + 1}, NEW k \in Nat \ {0}, Fits(len, k),
             k = IF short = Ext THEN MidDigits ELSE LongDigits
      PROVE  HeadOf(<<o, flag + short>> \o Digits(len, k), o, flag, len, short, Digits(len, k))
  <2>. DEFINE d == Digits(len, k)
              a == <<o, flag + short>>
  <2>1. d \in Seq(Nat) /\ Len(d) = k /\ Number(d) = len
    BY <1>2, NumberOfDigits
  <2>2. a \in Seq(Nat) /\ Len(a) = 2 /\ a[1] = o /\ a[2] = flag + short
    BY <1>1
  <2>. HIDE DEF d, a
  <2>3. /\ a \o d \in Seq(Nat) /\ Len(a \o d) = Len(a) + Len(d)
        /\ \A i \in 1..Len(a) : (a \o d)[i] = a[i]
        /\ \A i \in 1..Len(d) : (a \o d)[Len(a) + i] = d[i]
    <3>1. a \in Seq(Nat) /\ d \in Seq(Nat)
      BY <2>1, <2>2
    <3>. QED BY ONLY <3>1, ConcatParts
  <2>4. (a \o d)[1] = o /\ (a \o d)[2] = flag + short /\ \A i \in 1..Len(d) : (a \o d)[2 + i] = d[i]
    <3>1. 1 \in 1..2 /\ 2 \in 1..2
      OBVIOUS
    <3>. QED BY <2>2, <2>3, <3>1
  <2>5. short \in 0..(Ext + 1) /\ (short # Ext => short = Ext + 1)
    BY <1>1
  <2>6. /\ Len(d) = IF short = Ext THEN MidDigits ELSE IF short = Ext + 1 THEN LongDigits ELSE 0
        /\ Len(d) # 0
    BY <1>2, <2>1, <2>5
  <2>7. HeadOf(a \o d, o, flag, len, short, d)
    BY <2>1, <2>2, <2>3, <2>4, <2>5, <2>6 DEF HeadOf
  <2>. QED BY <2>7 DEF a, d
<1>3. CASE len < Ext
  <2>. DEFINE a == <<o, flag + len>>
  <2>1. a \in Seq(Nat) /\ Len(a) = 2 /\ a[1] = o /\ a[2] = flag + len
    OBVIOUS
  <2>2. Head2(o, flag, len) = a
    BY <1>3 DEF Head2
  <2>. HIDE DEF a
  <2>3. <<>> \in Seq(Nat) /\ Len(<<>>) = 0
    BY EmptySeq
  <2>4. len \in 0..(Ext + 1) /\ len # Ext /\ len # Ext + 1
    BY <1>1, <1>3
  <2>5. HeadOf(a, o, flag, len, len, <<>>)
    BY <2>1, <2>3, <2>4 DEF HeadOf
  <2>. QED BY <2>2, <2>5
<1>4. CASE len >= Ext /\ len < MidLimit
  <2>1. Fits(len, MidDigits)
    BY <1>1, <1>4
  <2>2. Head2(o, flag, len) = <<o, flag + Ext>> \o Digits(len, MidDigits)
    BY <1>1, <1>4 DEF Head2
  <2>3. HeadOf(<<o, flag + Ext>> \o Digits(len, MidDigits), o, flag, len, Ext, Digits(len, MidDigits))
    BY <1>1, <1>2, <2>1
  <2>. QED BY <2>2, <2>3
<1>5. CASE len >= Ext /\ ~(len < MidLimit)
  <2>. DEFINE short == Ext + 1
  <2>1. Fits(len, LongDigits)
    BY <1>5 DEF Tellable
  <2>2. Head2(o, flag, len) = <<o, flag + Ext + 1>> \o Digits(len, LongDigits)
    BY <1>1, <1>5 DEF Head2
  <2>3. flag + Ext + 1 = flag + short /\ short # Ext /\ short \in {Ext, Ext + 1}
    BY <1>1
  <2>. HIDE DEF short
  <2>4. HeadOf(<<o, flag + short>> \o Digits(len, LongDigits), o, flag, len, short, Digits(len, LongDigits))
    BY <1>1, <1>2, <2>1, <2>3
  <2>. QED BY <2>2, <2>3, <2>4
<1>. QED BY <1>1, <1>3, <1>4, <1>5

\* the lengths that a turn of the loop computes
LEMMA SizesType ==
  ASSUME NEW b \in Seq(Nat), NEW i \in 0..Len(b), Len(b) - i >= 2
  PROVE  /\ LenDigits(b, i) \in {0, MidDigits, LongDigits} /\ MaskBytes(b, i) \in {0, MaskSize}
         /\ LenDigits(b, i) \in Nat /\ MaskBytes(b, i) \in Nat
         /\ HeadSize(b, i) \in Nat /\ HeadSize(b, i) >= 2
         /\ Len(b) - i >= HeadSize(b, i) => PayloadLen(b, i) \in Nat
<1>1. /\ MidDigits \in Nat /\ LongDigits \in Nat /\ MaskSize \in Nat /\ Flag \in Nat /\ Flag > 0
      /\ Ext \in Nat
  BY WebSocketAssumption
<1>2. Len(b) \in Nat /\ i \in Nat /\ i + 2 \in 1..Len(b)
  OBVIOUS
<1>. DEFINE x == b[i + 2]
<1>3. x \in Nat
  BY <1>2, ElementOfSeq
<1>4. LenDigits(b, i) \in {0, MidDigits, LongDigits}
  BY DEF LenDigits
<1>5. MaskBytes(b, i) \in {0, MaskSize}
  BY DEF MaskBytes
<1>6. LenDigits(b, i) \in Nat /\ MaskBytes(b, i) \in Nat
  BY <1>1, <1>4, <1>5
<1>7. HeadSize(b, i) \in Nat /\ HeadSize(b, i) >= 2 /\ HeadSize(b, i) >= 2 + LenDigits(b, i)
  BY <1>6 DEF HeadSize
<1>8. ASSUME Len(b) - i >= HeadSize(b, i) PROVE PayloadLen(b, i) \in Nat
  <2>1. CASE LenDigits(b, i) = 0
    <3>1. PayloadLen(b, i) = x % Flag
      BY <2>1 DEF PayloadLen
    <3>. HIDE DEF x
    <3>2. x % Flag \in Nat
      BY ONLY <1>1, <1>3
    <3>. QED BY <3>1, <3>2
  <2>2. CASE LenDigits(b, i) # 0
    <3>. DEFINE k == LenDigits(b, i)
                lo == i + 3
                hi == i + 2 + k
    <3>1. PayloadLen(b, i) = Number(SubSeq(b, lo, hi))
      BY <2>2 DEF PayloadLen
    <3>2. lo \in Int /\ hi \in Int /\ \A j \in lo..hi : b[j] \in Nat
      <4>1. k \in Nat /\ hi <= Len(b)
        BY <1>2, <1>6, <1>7, <1>8
      <4>2. \A j \in lo..hi : j \in 1..Len(b)
        BY <1>2, <4>1
      <4>. QED BY <1>2, <4>1, <4>2, ElementOfSeq
    <3>. HIDE DEF lo, hi
    <3>3. SubSeq(b, lo, hi) \in Seq(Nat)
      BY ONLY <3>2, SubSeqProperties
    <3>. QED BY <3>1, <3>3, NumberType
  <2>. QED BY <2>1, <2>2
<1>. QED BY <1>4, <1>5, <1>6, <1>7, <1>8

\* the flag comes off
LEMMA ModOver ==
  ASSUME NEW a \in Nat, NEW f \in Nat, a < f
  PROVE  a % f = a /\ (f + a) % f = a
OBVIOUS

\* b has the bytes x after c, as far as it goes
Has(b, c, x) == \A j \in 1..Len(x) : c + j <= Len(b) => b[c + j] = x[j]

\* a turn of the loop at i finds the frame f, of a size, when all of it is there
Reads(b, i, size, f) ==
  /\ Complete(b, i) <=> i + size <= Len(b)
  /\ i + size <= Len(b) => Step(b, i) = size /\ FrameAt(b, i) = f

\* a head, a mask if the flag says so, and data, as far as they are in b
LEMMA ReadFrame ==
  ASSUME NEW b \in Seq(Nat), NEW i \in 0..Len(b), NEW flag \in Nat, NEW o \in Nat,
         NEW h, NEW short, NEW d, NEW m \in Seq(Nat), NEW data \in Seq(Nat),
         HeadOf(h, o, flag, Len(data), short, d),
         flag = 0 \/ flag = Flag, flag = 0 => Len(m) = 0, flag # 0 => Len(m) = MaskSize,
         Has(b, i, h), Has(b, i + Len(h), m), Has(b, i + Len(h) + Len(m), data)
  PROVE  Reads(b, i, Len(h) + Len(m) + Len(data),
               [opcode |-> o, payload |-> IF flag = 0 THEN data ELSE Unmask(data, m)])
<1>. DEFINE k == Len(d)
            z == Len(m)
            n == Len(data)
            x == b[i + 2]
<1>1. /\ MidDigits \in Nat \ {0} /\ LongDigits \in Nat \ {0} /\ MaskSize \in Nat \ {0}
      /\ Flag \in Nat /\ Flag > Ext + 1 /\ Ext \in Nat
  BY WebSocketAssumption
<1>2. /\ h \in Seq(Nat) /\ d \in Seq(Nat) /\ short \in 0..(Ext + 1)
      /\ Len(h) = 2 + k /\ h[1] = o /\ h[2] = flag + short
      /\ \A j \in 1..k : h[2 + j] = d[j]
      /\ k = IF short = Ext THEN MidDigits ELSE IF short = Ext + 1 THEN LongDigits ELSE 0
      /\ IF k = 0 THEN short = n ELSE Number(d) = n
  BY DEF HeadOf
<1>3. /\ Len(b) \in Nat /\ i \in Nat /\ i <= Len(b) /\ k \in Nat /\ z \in Nat /\ n \in Nat /\ flag \in Nat
      /\ short \in Nat /\ short < Flag /\ MaskSize \in Nat
      /\ (flag = 0 => z = 0) /\ (flag # 0 => z = MaskSize)
  <2>0. Len(b) \in Nat
    BY ONLY LenProperties
  <2>1. Len(b) \in Nat /\ i \in Nat /\ i <= Len(b)
    BY ONLY <2>0
  <2>2. k \in Nat /\ z \in Nat /\ n \in Nat
    <3>1. d \in Seq(Nat)
      BY <1>2
    <3>. QED BY ONLY <3>1, LenProperties, m \in Seq(Nat), data \in Seq(Nat) DEF k, z, n
  <2>3. flag \in Nat /\ MaskSize \in Nat
    BY <1>1
  <2>4. short \in Nat /\ short < Flag
    BY <1>1, <1>2
  <2>5. (flag = 0 => z = 0) /\ (flag # 0 => z = MaskSize)
    OBVIOUS
  <2>. QED BY <2>1, <2>2, <2>3, <2>4, <2>5
<1>. HIDE DEF k, z, n
<1>4. ASSUME Len(b) - i >= 2
      PROVE  /\ LenDigits(b, i) = k /\ MaskBytes(b, i) = z /\ HeadSize(b, i) = 2 + k + z
             /\ b[i + 1] = o /\ b[i + 2] % Flag = short
  <2>1. 1 \in 1..(2 + k) /\ 2 \in 1..(2 + k) /\ i + 1 <= Len(b) /\ i + 2 <= Len(b)
    BY <1>3, <1>4
  <2>2. b[i + 1] = o /\ x = flag + short
    BY <1>2, <2>1 DEF Has
  <2>3. x % Flag = short
    <3>1. CASE flag = 0
      <4>1. x = short
        BY <1>3, <2>2, <3>1
      <4>. HIDE DEF x
      <4>. QED BY <1>1, <1>3, <4>1, ModOver
    <3>2. CASE flag # 0
      <4>1. x = Flag + short
        BY <2>2, <3>2
      <4>. HIDE DEF x
      <4>. QED BY <1>1, <1>3, <4>1, ModOver
    <3>. QED BY <3>1, <3>2
  <2>4. x >= Flag <=> flag # 0
    <3>1. x = flag + short
      BY <2>2
    <3>. HIDE DEF x
    <3>. QED BY <1>1, <1>3, <3>1
  <2>5. LenDigits(b, i) = k
    BY <1>2, <2>3 DEF LenDigits
  <2>6. MaskBytes(b, i) = z
    BY <1>3, <2>4 DEF MaskBytes
  <2>7. HeadSize(b, i) = 2 + k + z
    BY <2>5, <2>6 DEF HeadSize
  <2>. QED BY <2>2, <2>3, <2>5, <2>6, <2>7
<1>5. ASSUME Len(b) - i >= 2 + k + z
      PROVE  PayloadLen(b, i) = n
  <2>1. Len(b) - i >= 2
    BY <1>3, <1>5
  <2>2. LenDigits(b, i) = k /\ b[i + 2] % Flag = short
    BY <1>4, <2>1
  <2>3. CASE k = 0
    BY <1>2, <2>2, <2>3 DEF PayloadLen
  <2>4. CASE k # 0
    <3>. DEFINE c == i + 2
                s == SubSeq(b, c + 1, c + k)
    <3>1. c \in 0..Len(b) /\ c + k \in c..Len(b) /\ c + k - c = k
      BY SMTT(30), <1>3, <1>5
    <3>2. PayloadLen(b, i) = Number(SubSeq(b, i + 3, i + 2 + k))
      BY <2>2, <2>4 DEF PayloadLen
    <3>3. i + 3 = c + 1 /\ i + 2 + k = c + k
      BY <1>3
    <3>4. PayloadLen(b, i) = Number(s)
      BY <3>2, <3>3
    <3>. HIDE DEF c
    <3>5. s \in Seq(Nat) /\ Len(s) = k /\ \A j \in 1..k : s[j] = b[c + j]
      <4>1. c \in Nat /\ k \in Nat /\ c + k <= Len(b)
        BY <1>3, <3>1
      <4>. QED BY ONLY <4>1, b \in Seq(Nat), PartAt
    <3>6. ASSUME NEW j \in 1..k PROVE s[j] = d[j]
      <4>. DEFINE y == 2 + j
      <4>1. y \in 1..(2 + k) /\ i + y <= Len(b) /\ i + y = c + j
        BY <1>3, <3>1 DEF c
      <4>2. h[y] = d[j]
        BY <1>2
      <4>. HIDE DEF y
      <4>3. b[i + y] = h[y]
        BY <1>2, <4>1 DEF Has
      <4>. QED BY <3>5, <4>1, <4>2, <4>3
    <3>. HIDE DEF s
    <3>7. s = d
      BY <1>2, <3>5, <3>6, SeqEqual DEF k
    <3>. QED BY <1>2, <2>4, <3>4, <3>7
  <2>. QED BY <2>3, <2>4
<1>6. Complete(b, i) <=> i + (2 + k + z + n) <= Len(b)
  <2>1. CASE Len(b) - i < 2
    BY <1>3, <2>1 DEF Complete
  <2>2. CASE Len(b) - i >= 2 /\ Len(b) - i < 2 + k + z
    <3>1. HeadSize(b, i) = 2 + k + z
      BY <1>4, <2>2
    <3>2. ~Complete(b, i)
      BY <1>3, <2>2, <3>1 DEF Complete
    <3>. QED BY <1>3, <2>2, <3>2
  <2>3. CASE Len(b) - i >= 2 + k + z
    <3>1. HeadSize(b, i) = 2 + k + z /\ PayloadLen(b, i) = n /\ Len(b) - i >= 2
      BY SMTT(30), <1>3, <1>4, <1>5, <2>3
    <3>2. Complete(b, i) <=> Len(b) - i >= 2 + k + z + n
      BY <1>3, <2>3, <3>1 DEF Complete
    <3>. QED BY <1>3, <3>2
  <2>. QED BY SMTT(30), <1>3, <2>1, <2>2, <2>3
<1>7. ASSUME i + (2 + k + z + n) <= Len(b)
      PROVE  /\ Step(b, i) = 2 + k + z + n
             /\ FrameAt(b, i) = [opcode |-> o, payload |-> IF flag = 0 THEN data ELSE Unmask(data, m)]
  <2>1. Len(b) - i >= 2 + k + z /\ Len(b) - i >= 2
    BY SMTT(30), <1>3, <1>7
  <2>2. /\ HeadSize(b, i) = 2 + k + z /\ MaskBytes(b, i) = z /\ b[i + 1] = o
        /\ PayloadLen(b, i) = n
    BY <1>4, <1>5, <2>1
  <2>. DEFINE off == i + (2 + k + z)
              p == SubSeq(b, off + 1, off + n)
              w == i + (2 + k)
              y == SubSeq(b, w + 1, w + z)
  <2>3. Step(b, i) = 2 + k + z + n
    BY <2>2 DEF Step
  <2>4. FrameAt(b, i) = [opcode |-> o, payload |-> IF z = 0 THEN p ELSE Unmask(p, SubSeq(b, off - MaskSize + 1, off))]
    BY <2>2 DEF FrameAt
  <2>5. off \in 0..Len(b) /\ off + n \in off..Len(b) /\ w \in 0..Len(b) /\ w + z \in w..Len(b) /\ off + n - off = n /\ w + z - w = z
    BY SMTT(30), <1>3, <1>7
  <2>6. w + z = off /\ (z # 0 => w = off - MaskSize)
    BY <1>1, <1>3
  <2>7. p = data
    <3>1. ASSUME NEW j \in 1..n PROVE b[off + j] = data[j]
      <4>1. i + Len(h) + Len(m) + j = off + j
        BY SMTT(30), <1>2, <1>3 DEF z
      <4>2. off + j <= Len(b)
        BY <1>3, <1>7
      <4>. HIDE DEF off
      <4>. QED BY <4>1, <4>2 DEF n, Has
    <3>. HIDE DEF off
    <3>2. p \in Seq(Nat) /\ Len(p) = n /\ \A j \in 1..n : p[j] = b[off + j]
      <4>1. off \in Nat /\ n \in Nat /\ off + n <= Len(b)
        BY <1>3, <2>5
      <4>. QED BY ONLY <4>1, b \in Seq(Nat), PartAt
    <3>. HIDE DEF p
    <3>. QED BY <3>1, <3>2, SeqEqual DEF n
  <2>8. y = m
    <3>1. ASSUME NEW j \in 1..z PROVE b[w + j] = m[j]
      <4>1. i + Len(h) + j = w + j
        BY <1>2, <1>3
      <4>2. w + j <= Len(b)
        BY <1>3, <1>7
      <4>. HIDE DEF w
      <4>. QED BY <4>1, <4>2 DEF z, Has
    <3>. HIDE DEF w
    <3>2. y \in Seq(Nat) /\ Len(y) = z /\ \A j \in 1..z : y[j] = b[w + j]
      <4>1. w \in Nat /\ z \in Nat /\ w + z <= Len(b)
        BY <1>3, <2>5
      <4>. QED BY ONLY <4>1, b \in Seq(Nat), PartAt
    <3>. HIDE DEF y
    <3>. QED BY <3>1, <3>2, SeqEqual DEF z
  <2>9. z # 0 => SubSeq(b, off - MaskSize + 1, off) = m
    BY <2>6, <2>8
  <2>10. z = 0 <=> flag = 0
    BY <1>1, <1>3
  <2>. HIDE DEF p, off
  <2>. QED BY <2>3, <2>4, <2>7, <2>9, <2>10
<1>8. Len(h) + Len(m) + Len(data) = 2 + k + z + n
  BY <1>2 DEF z, n
<1>. QED BY <1>6, <1>7, <1>8 DEF Reads

\* what writes a frame: the server, with no mask, or the client, with one
Encodes(x, f, flag) ==
  \/ flag = 0 /\ x = Frame(f.payload, f.opcode)
  \/ flag = Flag /\ \E m \in Masks : x = ClientFrame(f.payload, f.opcode, m)

\* what a payload is made of can be in a buffer
LEMMA BytesAreNumbers ==
  ASSUME NEW s \in Seq(Byte)
  PROVE  s \in Seq(Nat)
<1>1. Byte \subseteq Nat
  BY WebSocketAssumption
<1>2. \A i \in 1..Len(s) : s[i] \in Nat
  BY <1>1, ElementOfSeq
<1>. QED BY <1>2

\* the bytes of a frame are numbers, at least two, and the loop makes the
\* frame of them when all are there
LEMMA ReadEncoded ==
  ASSUME NEW f \in Frames, NEW flag, NEW x, Encodes(x, f, flag)
  PROVE  /\ x \in Seq(Nat) /\ Len(x) \in Nat /\ Len(x) >= 2
         /\ \A b \in Seq(Nat) : \A i \in 0..Len(b) :
              Has(b, i, x) => Reads(b, i, Len(x), f)
<1>. DEFINE p == f.payload
            o == f.opcode
<1>1. /\ o \in Nat /\ p \in Seq(Byte) /\ Tellable(Len(p)) /\ f = [opcode |-> o, payload |-> p]
  BY DEF Frames
<1>2. p \in Seq(Nat) /\ Len(p) \in Nat
  BY <1>1, BytesAreNumbers
<1>3. Flag \in Nat /\ Flag # 0 /\ MaskSize \in Nat
  BY WebSocketAssumption
<1>. HIDE DEF p, o
<1>4. \E h, m, data :
        /\ flag \in {0, Flag} /\ m \in Seq(Nat) /\ data \in Seq(Nat) /\ Len(data) = Len(p)
        /\ h = Head2(o, flag, Len(p)) /\ (flag = 0 => Len(m) = 0) /\ (flag # 0 => Len(m) = MaskSize)
        /\ (IF flag = 0 THEN data ELSE Unmask(data, m)) = p
        /\ x = h \o m \o data
  <2>1. CASE flag = 0
    <3>. DEFINE h == Head2(o, flag, Len(p))
    <3>1. x = h \o p
      BY <1>3, <2>1 DEF Encodes, Frame, p, o
    <3>2. h \in Seq(Nat)
      <4>1. 0 \in Nat /\ Len(p) \in Nat
        BY <1>2
      <4>2. \E short, d : HeadOf(Head2(o, 0, Len(p)), o, 0, Len(p), short, d)
        BY <1>1, <4>1, HeadShape
      <4>. QED BY <2>1, <4>2 DEF HeadOf
    <3>. HIDE DEF h
    <3>3. h \o <<>> = h
      BY <3>2, ConcatEmptySeq
    <3>4. x = h \o <<>> \o p
      BY <3>1, <3>3
    <3>5. <<>> \in Seq(Nat) /\ Len(<<>>) = 0
      BY EmptySeq
    <3>. QED BY <1>2, <2>1, <3>4, <3>5 DEF h
  <2>2. CASE flag # 0
    <3>1. PICK m \in Masks : flag = Flag /\ x = ClientFrame(p, o, m)
      BY <2>2 DEF Encodes, p, o
    <3>2. m \in Seq(Byte) /\ Len(m) = MaskSize
      BY WebSocketAssumption
    <3>. DEFINE data == Masked(p, m)
    <3>3. data \in Seq(Byte) /\ Len(data) = Len(p) /\ Unmask(data, m) = p
      BY <1>1, <3>2, MaskTwice
    <3>4. x = Head2(o, flag, Len(p)) \o m \o data
      BY <3>1 DEF ClientFrame
    <3>. HIDE DEF data
    <3>5. m \in Seq(Nat) /\ data \in Seq(Nat)
      BY <3>2, <3>3, BytesAreNumbers
    <3>. QED BY <2>2, <3>1, <3>2, <3>3, <3>4, <3>5
  <2>. QED BY <2>1, <2>2
<1>5. PICK h, m, data :
        /\ flag \in {0, Flag} /\ m \in Seq(Nat) /\ data \in Seq(Nat) /\ Len(data) = Len(p)
        /\ h = Head2(o, flag, Len(p)) /\ (flag = 0 => Len(m) = 0) /\ (flag # 0 => Len(m) = MaskSize)
        /\ (IF flag = 0 THEN data ELSE Unmask(data, m)) = p
        /\ x = h \o m \o data
  BY <1>4
<1>6. flag \in Nat /\ (flag = 0 \/ flag = Flag)
  BY <1>3, <1>5
<1>7. PICK short, d : HeadOf(h, o, flag, Len(data), short, d)
  <2>1. \E short, d : HeadOf(Head2(o, flag, Len(p)), o, flag, Len(p), short, d)
    BY ONLY <1>1, <1>2, <1>6, HeadShape
  <2>. QED BY <1>5, <2>1
<1>8. h \in Seq(Nat) /\ Len(h) = 2 + Len(d) /\ Len(d) \in Nat
  BY <1>7 DEF HeadOf
<1>9. /\ m \in Seq(Nat) /\ data \in Seq(Nat) /\ Len(m) \in Nat /\ Len(data) \in Nat
      /\ (flag = 0 => Len(m) = 0) /\ (flag # 0 => Len(m) = MaskSize)
  BY <1>5
<1>10. /\ x \in Seq(Nat) /\ Len(x) = Len(h) + Len(m) + Len(data)
       /\ \A k \in 1..Len(h) : x[k] = h[k]
       /\ \A k \in 1..Len(m) : x[Len(h) + k] = m[k]
       /\ \A k \in 1..Len(data) : x[Len(h) + Len(m) + k] = data[k]
  <2>1. x = h \o m \o data
    BY <1>5
  <2>2. h \in Seq(Nat) /\ m \in Seq(Nat) /\ data \in Seq(Nat)
    BY <1>8, <1>9
  <2>3. /\ h \o m \o data \in Seq(Nat) /\ Len(h \o m \o data) = Len(h) + Len(m) + Len(data)
        /\ \A k \in 1..Len(h) : (h \o m \o data)[k] = h[k]
        /\ \A k \in 1..Len(m) : (h \o m \o data)[Len(h) + k] = m[k]
        /\ \A k \in 1..Len(data) : (h \o m \o data)[Len(h) + Len(m) + k] = data[k]
    BY ONLY <2>2, ThreeParts
  <2>. QED BY <2>1, <2>3
<1>11. Len(h) \in Nat /\ Len(x) \in Nat /\ Len(x) >= 2
  BY <1>8, <1>9, <1>10
<1>13. /\ Len(h) \in Nat /\ Len(m) \in Nat /\ Len(data) \in Nat /\ Len(x) \in Nat
       /\ Len(x) = Len(h) + Len(m) + Len(data)
  BY <1>9, <1>10, <1>11
<1>12. ASSUME NEW b \in Seq(Nat), NEW i \in 0..Len(b), Has(b, i, x)
       PROVE  Reads(b, i, Len(x), f)
  <2>1. \A j \in 1..Len(x) : i + j <= Len(b) => b[i + j] = x[j]
    BY <1>12 DEF Has
  <2>2. i \in Nat /\ Len(b) \in Nat
    <3>1. Len(b) \in Nat
      BY ONLY b \in Seq(Nat), LenProperties
    <3>. QED BY ONLY <3>1, i \in 0..Len(b)
  <2>3. Has(b, i, h)
    <3>1. \A j \in 1..Len(h) : j \in 1..Len(x)
      BY <1>9, <1>10, <1>11
    <3>. QED BY <1>10, <2>1, <3>1 DEF Has
  <2>4. Has(b, i + Len(h), m)
    <3>1. ASSUME NEW j \in 1..Len(m), i + Len(h) + j <= Len(b) PROVE b[i + Len(h) + j] = m[j]
      <4>. DEFINE y == Len(h) + j
      <4>1. y \in 1..Len(x) /\ i + y = i + Len(h) + j /\ i + y <= Len(b)
        BY ONLY <1>13, <2>2, <3>1, j \in 1..Len(m)
      <4>2. x[y] = m[j]
        BY <1>10
      <4>. HIDE DEF y
      <4>. QED BY <2>1, <4>1, <4>2
    <3>. QED BY <3>1 DEF Has
  <2>5. Has(b, i + Len(h) + Len(m), data)
    <3>1. ASSUME NEW j \in 1..Len(data), i + Len(h) + Len(m) + j <= Len(b)
          PROVE  b[i + Len(h) + Len(m) + j] = data[j]
      <4>. DEFINE y == Len(h) + Len(m) + j
      <4>1. y \in 1..Len(x) /\ i + y = i + Len(h) + Len(m) + j /\ i + y <= Len(b)
        BY ONLY <1>13, <2>2, <3>1, j \in 1..Len(data)
      <4>2. x[y] = data[j]
        BY <1>10
      <4>. HIDE DEF y
      <4>. QED BY <2>1, <4>1, <4>2
    <3>. QED BY <3>1 DEF Has
  <2>6. Reads(b, i, Len(h) + Len(m) + Len(data),
              [opcode |-> o, payload |-> IF flag = 0 THEN data ELSE Unmask(data, m)])
    <3>1. o \in Nat
      BY <1>1
    <3>4. m \in Seq(Nat)
      BY <1>9
    <3>5. data \in Seq(Nat)
      BY <1>9
    <3>6. flag \in Nat
      BY <1>6
    <3>7. flag = 0 \/ flag = Flag
      BY <1>6
    <3>2. flag = 0 => Len(m) = 0
      BY <1>9
    <3>3. flag # 0 => Len(m) = MaskSize
      BY <1>9
    <3>. HIDE DEF o
    <3>. QED BY ONLY b \in Seq(Nat), i \in 0..Len(b), <1>7, <2>3, <2>4, <2>5, <3>1, <3>2, <3>3, <3>4, <3>5, <3>6, <3>7, ReadFrame
  <2>. QED BY <1>1, <1>5, <1>10, <2>6
<1>. QED BY <1>10, <1>11, <1>12

\* the loop, turn by turn
LEMMA LoopSteps ==
  ASSUME NEW b \in Seq(Nat)
  PROVE  \E f : /\ Loop(b) = f[0]
                /\ \A i \in 0..Len(b) :
                     f[i] = IF ~Complete(b, i) THEN [frames |-> <<>>, at |-> i]
                            ELSE IF FrameAt(b, i).opcode = Bye
                            THEN [frames |-> <<FrameAt(b, i)>>, at |-> i + Step(b, i)]
                            ELSE [frames |-> <<FrameAt(b, i)>> \o f[i + Step(b, i)].frames,
                                  at |-> f[i + Step(b, i)].at]
<1>. DEFINE L == Len(b)
            Ends(i) == ~Complete(b, i) \/ FrameAt(b, i).opcode = Bye
            Nx(i) == i + Step(b, i)
            E(x, i) == IF ~Complete(b, i) THEN [frames |-> <<>>, at |-> i]
                       ELSE IF FrameAt(b, i).opcode = Bye
                       THEN [frames |-> <<FrameAt(b, i)>>, at |-> i + Step(b, i)]
                       ELSE [frames |-> <<FrameAt(b, i)>> \o x.frames, at |-> x.at]
            G(f, k) == [i \in k..L |-> E(f[Nx(i)], i)]
            Made == {k \in 0..L : \E f : f = G(f, k)}
<1>1. L \in Nat
  BY LenProperties
<1>2. ASSUME NEW i \in 0..L, ~Ends(i) PROVE Nx(i) \in (i + 1)..L
  <2>1. Complete(b, i) /\ i \in Nat
    BY <1>2
  <2>2. Len(b) - i >= 2 /\ Len(b) - i >= HeadSize(b, i) /\ Len(b) - i >= HeadSize(b, i) + PayloadLen(b, i)
    BY <2>1 DEF Complete
  <2>3. HeadSize(b, i) \in Nat /\ HeadSize(b, i) >= 2 /\ PayloadLen(b, i) \in Nat
    <3>1. i \in 0..Len(b)
      OBVIOUS
    <3>. QED BY ONLY <3>1, <2>2, b \in Seq(Nat), SizesType
  <2>4. Step(b, i) = HeadSize(b, i) + PayloadLen(b, i)
    BY DEF Step
  <2>. QED BY ONLY <1>1, <2>1, <2>2, <2>3, <2>4
<1>3. \A i, x, y : Ends(i) => E(x, i) = E(y, i)
  OBVIOUS
<1>4. Ends(L)
  <2>1. ~(L - L >= 2)
    BY <1>1
  <2>. QED BY <2>1 DEF Complete
<1>5. Loop(b) = (CHOOSE f : f = G(f, 0))[0]
  BY DEF Loop
<1>c. \A x, i : E(x, i) = IF ~Complete(b, i) THEN [frames |-> <<>>, at |-> i]
                          ELSE IF FrameAt(b, i).opcode = Bye
                          THEN [frames |-> <<FrameAt(b, i)>>, at |-> i + Step(b, i)]
                          ELSE [frames |-> <<FrameAt(b, i)>> \o x.frames, at |-> x.at]
  OBVIOUS
<1>. HIDE DEF E, L, Nx, Ends
<1>6. \A k \in 0..L : k \in Made
  <2>1. L \in Made
    <3>. DEFINE e == [i \in L..L |-> E(0, i)]
    <3>1. \A i \in L..L : E(0, i) = E(e[Nx(i)], i)
      <4>1. \A i \in L..L : i = L
        BY <1>1
      <4>. QED BY <1>3, <1>4, <4>1
    <3>2. e = G(e, L)
      BY <3>1
    <3>3. \E f : f = G(f, L)
      BY <3>2
    <3>4. L \in 0..L
      BY <1>1
    <3>. QED BY <3>3, <3>4
  <2>2. ASSUME NEW k \in 0..(L - 1), k + 1 \in Made PROVE k \in Made
    <3>1. PICK f : f = G(f, k + 1)
      BY <2>2
    <3>2. \A i \in (k + 1)..L : f[i] = E(f[Nx(i)], i)
      BY <3>1
    <3>. DEFINE h == [i \in k..L |-> E(f[Nx(i)], i)]
    <3>3. \A i \in (k + 1)..L : i \in k..L /\ h[i] = f[i]
      <4>1. \A i \in (k + 1)..L : i \in k..L
        BY <1>1
      <4>. QED BY <3>2, <4>1
    <3>4. \A i \in k..L : E(h[Nx(i)], i) = E(f[Nx(i)], i)
      <4>1. ASSUME NEW i \in k..L PROVE E(h[Nx(i)], i) = E(f[Nx(i)], i)
        <5>1. CASE Ends(i)
          BY <1>3, <5>1
        <5>2. CASE ~Ends(i)
          <6>1. i \in 0..L
            BY <1>1
          <6>2. Nx(i) \in (i + 1)..L
            BY <1>2, <5>2, <6>1
          <6>3. Nx(i) \in (k + 1)..L
            BY <1>1, <6>2
          <6>. QED BY <3>3, <6>3
        <5>. QED BY <5>1, <5>2
      <4>. QED BY <4>1
    <3>5. h = G(h, k)
      BY <3>4
    <3>6. \E x : x = G(x, k)
      BY <3>5
    <3>7. k \in 0..L
      BY <1>1
    <3>. QED BY <3>6, <3>7
  <2>. HIDE DEF Made
  <2>. QED BY <1>1, <2>1, <2>2, CountDown
<1>. DEFINE g == CHOOSE f : f = G(f, 0)
<1>7. g = G(g, 0)
  <2>1. 0 \in 0..L
    BY <1>1
  <2>2. \E f : f = G(f, 0)
    BY <1>6, <2>1
  <2>. HIDE DEF G
  <2>. QED BY <2>2
<1>8. Loop(b) = g[0]
  BY <1>5
<1>. HIDE DEF g
<1>9. \A i \in 0..L : g[i] = E(g[Nx(i)], i)
  BY <1>7
<1>10. \A i \in 0..Len(b) : g[i] = IF ~Complete(b, i) THEN [frames |-> <<>>, at |-> i]
                            ELSE IF FrameAt(b, i).opcode = Bye
                            THEN [frames |-> <<FrameAt(b, i)>>, at |-> i + Step(b, i)]
                            ELSE [frames |-> <<FrameAt(b, i)>> \o g[i + Step(b, i)].frames,
                                  at |-> g[i + Step(b, i)].at]
  BY <1>9, <1>c DEF L, Nx
<1>. QED BY <1>8, <1>10

-----------------------------------------------------------------------------
(***************************************************************************)
(* Frames one after the other.                                             *)
(***************************************************************************)
\* the bytes s are the frames q, the k-th of them ends at at[k]
Stream(q, s, at, flag) ==
  /\ q \in Seq(Frames) /\ s \in Seq(Nat) /\ at \in [0..Len(q) -> Nat]
  /\ at[0] = 0 /\ at[Len(q)] = Len(s)
  /\ \A k \in 1..Len(q) : \E x :
       /\ Encodes(x, q[k], flag) /\ at[k] = at[k - 1] + Len(x)
       /\ \A j \in 1..Len(x) : s[at[k - 1] + j] = x[j]

\* a closing frame is the last one
ByeIsLast(q) == \A k \in 1..(Len(q) - 1) : q[k].opcode # Bye

\* each frame takes some bytes
LEMMA StreamGrows ==
  ASSUME NEW q, NEW s, NEW at, NEW flag, Stream(q, s, at, flag)
  PROVE  /\ Len(q) \in Nat /\ Len(s) \in Nat
         /\ \A k \in 0..(Len(q) - 1) : at[k] < at[k + 1]
         /\ \A k \in 0..Len(q) : at[k] \in Nat /\ at[k] <= Len(s)
         /\ \A k \in 0..Len(q) : \A j \in k..Len(q) : at[k] <= at[j]
<1>. DEFINE n == Len(q)
<1>1. /\ q \in Seq(Frames) /\ s \in Seq(Nat) /\ at \in [0..n -> Nat] /\ at[n] = Len(s)
      /\ \A k \in 1..n : \E x : Encodes(x, q[k], flag) /\ at[k] = at[k - 1] + Len(x)
  BY DEF Stream
<1>2. n \in Nat /\ Len(s) \in Nat
  <2>1. q \in Seq(Frames) /\ s \in Seq(Nat)
    BY <1>1
  <2>. QED BY ONLY <2>1, LenProperties
<1>3. \A k \in 1..n : q[k] \in Frames
  <2>1. q \in Seq(Frames)
    BY <1>1
  <2>. QED BY ONLY <2>1, ElementOfSeq
<1>. HIDE DEF n
<1>4. \A k \in 0..n : at[k] \in Nat
  BY <1>1
<1>5. ASSUME NEW k \in 0..(n - 1) PROVE at[k] < at[k + 1]
  <2>. DEFINE m == k + 1
  <2>1. m \in 1..n /\ m - 1 = k /\ k \in 0..n /\ m \in 0..n
    BY <1>2
  <2>. HIDE DEF m
  <2>2. PICK x : Encodes(x, q[m], flag) /\ at[m] = at[m - 1] + Len(x)
    BY <1>1, <2>1
  <2>3. q[m] \in Frames
    BY <1>3, <2>1
  <2>4. Len(x) \in Nat /\ Len(x) >= 2
    BY <2>2, <2>3, ReadEncoded
  <2>5. at[m] = at[k] + Len(x)
    BY <2>1, <2>2
  <2>6. at[k] \in Nat
    BY <1>4, <2>1
  <2>7. at[k] < at[m]
    BY ONLY <2>4, <2>5, <2>6
  <2>. QED BY <2>7 DEF m
<1>6. ASSUME NEW j \in 0..n PROVE \A k \in 0..j : at[k] <= at[j]
  <2>. DEFINE T == {k \in 0..j : at[k] <= at[j]}
  <2>1. j \in Nat /\ j \in 0..j
    BY <1>2
  <2>2. j \in T
    BY <1>4, <2>1
  <2>3. ASSUME NEW k \in 0..(j - 1), k + 1 \in T PROVE k \in T
    <3>1. k \in 0..(n - 1) /\ k \in 0..n /\ k + 1 \in 0..n /\ k \in 0..j
      BY <1>2, <2>1
    <3>2. at[k] \in Nat /\ at[k + 1] \in Nat /\ at[j] \in Nat
      BY <1>4, <3>1
    <3>3. at[k] < at[k + 1]
      BY <1>5, <3>1
    <3>4. at[k + 1] <= at[j]
      BY <2>3
    <3>5. at[k] <= at[j]
      BY ONLY <3>2, <3>3, <3>4
    <3>. QED BY <3>1, <3>5
  <2>. HIDE DEF T
  <2>4. \A k \in 0..j : k \in T
    BY <2>1, <2>2, <2>3, CountDown
  <2>. QED BY <2>4 DEF T
<1>7. \A k \in 0..n : \A j \in k..n : at[k] <= at[j]
  <2>1. \A k \in 0..n : \A j \in k..n : j \in 0..n /\ k \in 0..j
    BY <1>2
  <2>. QED BY <1>6, <2>1
<1>8. \A k \in 0..n : at[k] <= Len(s)
  <2>1. n \in 0..n /\ \A k \in 0..n : k \in 0..n
    BY <1>2
  <2>. QED BY <1>1, <1>6, <2>1
<1>. QED BY <1>2, <1>4, <1>5, <1>7, <1>8 DEF n

\* the loop reads the frames of a stream that are complete in its buffer,
\* which starts after the k-th
LEMMA LoopReads ==
  ASSUME NEW q, NEW s, NEW at, NEW flag, Stream(q, s, at, flag), ByeIsLast(q),
         NEW k \in 0..Len(q), NEW b \in Seq(Nat), Len(b) <= Len(s) - at[k],
         \A j \in 1..Len(b) : b[j] = s[at[k] + j]
  PROVE  \E m \in k..Len(q) :
           /\ Loop(b) = [frames |-> SubSeq(q, k + 1, m), at |-> at[m] - at[k]]
           /\ at[m] - at[k] <= Len(b)
           /\ m < Len(q) => at[m + 1] - at[k] > Len(b)
<1>. DEFINE n == Len(q)
            L == Len(b)
            z == at[k]
            Read(f, j, m) == /\ f = [frames |-> SubSeq(q, j + 1, m), at |-> at[m] - z]
                             /\ at[m] - z <= L
                             /\ m < n => at[m + 1] - z > L
<1>1. /\ q \in Seq(Frames) /\ s \in Seq(Nat) /\ at[n] = Len(s)
      /\ \A j \in 1..n : \E x :
           /\ Encodes(x, q[j], flag) /\ at[j] = at[j - 1] + Len(x)
           /\ \A y \in 1..Len(x) : s[at[j - 1] + y] = x[y]
  BY DEF Stream
<1>2. /\ n \in Nat /\ \A j \in 0..n : at[j] \in Nat
      /\ \A j \in 0..n : \A m \in j..n : at[j] <= at[m]
  BY StreamGrows
<1>3. L \in Nat /\ k \in 0..n /\ k \in Nat
  <2>1. L \in Nat
    BY ONLY b \in Seq(Nat), LenProperties
  <2>. QED BY <1>2, <2>1
<1>4. PICK f : /\ Loop(b) = f[0]
               /\ \A i \in 0..L :
                     f[i] = IF ~Complete(b, i) THEN [frames |-> <<>>, at |-> i]
                            ELSE IF FrameAt(b, i).opcode = Bye
                            THEN [frames |-> <<FrameAt(b, i)>>, at |-> i + Step(b, i)]
                            ELSE [frames |-> <<FrameAt(b, i)>> \o f[i + Step(b, i)].frames,
                                  at |-> f[i + Step(b, i)].at]
  BY LoopSteps
<1>a. L <= at[n] - z /\ \A j \in 1..L : b[j] = s[z + j]
  BY <1>1
<1>b. z \in Nat /\ \A j \in k..n : at[j] \in Nat /\ at[j] - z \in Nat
  <2>1. \A j \in k..n : j \in 0..n
    BY <1>2, <1>3
  <2>2. ASSUME NEW j \in k..n PROVE at[j] - z \in Nat
    <3>1. at[j] \in Nat /\ at[k] \in Nat /\ at[k] <= at[j]
      BY <1>2, <1>3, <2>1
    <3>. QED BY <3>1
  <2>. QED BY <1>2, <1>3, <2>1, <2>2
<1>c. \A j \in 1..n : q[j] \in Frames
  <2>1. q \in Seq(Frames)
    BY <1>1
  <2>. QED BY ONLY <2>1, ElementOfSeq
<1>d. \A j \in 1..(n - 1) : q[j].opcode # Bye
  BY DEF ByeIsLast
<1>. HIDE DEF n, L, z
<1>. DEFINE T == {j \in 0..n : j >= k /\ at[j] - z <= L => \E m \in j..n : Read(f[at[j] - z], j, m)}
<1>. HIDE DEF Read
<1>5. n \in T
  <2>1. n \in 0..n /\ n \in n..n /\ n \in k..n
    BY <1>2, <1>3
  <2>2. ASSUME at[n] - z <= L PROVE Read(f[at[n] - z], n, n)
    <3>1. at[n] - z = L /\ L \in 0..L
      BY <1>3, <1>a, <1>b, <2>1, <2>2
    <3>2. ~Complete(b, L)
      <4>1. ~(L - L >= 2)
        BY <1>3
      <4>. QED BY <4>1 DEF Complete, L
    <3>3. f[L] = [frames |-> <<>>, at |-> L]
      BY <1>4, <3>1, <3>2
    <3>4. SubSeq(q, n + 1, n) = <<>>
      <4>1. q \in Seq(Frames) /\ n \in 0..Len(q)
        BY <1>1, <2>1 DEF n
      <4>. QED BY ONLY <4>1, SubSeqSmall
    <3>5. ~(n < n)
      BY <1>2
    <3>. QED BY <2>2, <3>1, <3>3, <3>4, <3>5 DEF Read
  <2>. QED BY <2>1, <2>2
<1>6. ASSUME NEW j \in 0..(n - 1), j + 1 \in T PROVE j \in T
  <2>1. j \in 0..n /\ j \in Nat /\ j < n
    BY <1>2
  <2>. SUFFICES ASSUME j >= k, at[j] - z <= L PROVE \E m \in j..n : Read(f[at[j] - z], j, m)
    BY <2>1
  <2>. DEFINE i == at[j] - z
              p == j + 1
  <2>2. /\ p \in 1..n /\ p \in 0..n /\ p - 1 = j /\ j \in k..n /\ p \in k..n
        /\ j \in j..n /\ p \in j..n /\ p >= k
    BY <1>2, <1>3, <2>1
  <2>3. i \in Nat /\ i <= L /\ i \in 0..L /\ at[j] = z + i /\ z \in Nat /\ at[j] \in Nat
    BY <1>3, <1>b, <2>2
  <2>. HIDE DEF i
  <2>p. p = j + 1
    OBVIOUS
  <2>. HIDE DEF p
  <2>4. PICK x : /\ Encodes(x, q[p], flag) /\ at[p] = at[p - 1] + Len(x)
                 /\ \A y \in 1..Len(x) : s[at[p - 1] + y] = x[y]
    BY <1>1, <2>2
  <2>5. q[p] \in Frames
    BY <1>c, <2>2
  <2>6. /\ Len(x) \in Nat /\ Len(x) >= 2
        /\ \A c \in Seq(Nat) : \A e \in 0..Len(c) : Has(c, e, x) => Reads(c, e, Len(x), q[p])
    BY <2>4, <2>5, ReadEncoded
  <2>7. Has(b, i, x)
    <3>1. ASSUME NEW y \in 1..Len(x), i + y <= L PROVE b[i + y] = x[y]
      <4>1. i + y \in 1..L /\ z + (i + y) = at[j] + y
        BY <1>3, <2>3, <2>6, <3>1
      <4>2. b[i + y] = s[z + (i + y)]
        BY <1>a, <4>1
      <4>3. s[at[j] + y] = x[y]
        BY <2>2, <2>4
      <4>. QED BY <4>1, <4>2, <4>3
    <3>. QED BY <3>1 DEF Has, L
  <2>8. Reads(b, i, Len(x), q[p])
    BY <2>3, <2>6, <2>7 DEF L
  <2>9. i + Len(x) = at[p] - z /\ at[p] \in Nat
    <3>1. at[p] = at[j] + Len(x)
      BY <2>2, <2>4
    <3>. QED BY <2>3, <2>6, <3>1
  <2>10. CASE ~(i + Len(x) <= L)
    <3>1. ~Complete(b, i)
      BY <2>8, <2>10 DEF Reads, L
    <3>2. f[i] = [frames |-> <<>>, at |-> i]
      BY <1>4, <2>3, <3>1
    <3>3. SubSeq(q, j + 1, j) = <<>>
      <4>1. q \in Seq(Frames) /\ j \in 0..Len(q)
        BY <1>1, <2>1 DEF n
      <4>. QED BY ONLY <4>1, SubSeqSmall
    <3>4. at[j + 1] - z > L
      BY <1>3, <2>3, <2>6, <2>9, <2>10, <2>p
    <3>5. Read(f[i], j, j)
      BY <2>3, <3>2, <3>3, <3>4 DEF Read, i
    <3>. QED BY <2>2, <3>5 DEF i
  <2>11. CASE i + Len(x) <= L
    <3>1. Complete(b, i) /\ Step(b, i) = Len(x) /\ FrameAt(b, i) = q[p]
      BY <2>8, <2>11 DEF Reads, L
    <3>2. SubSeq(q, j + 1, p) = <<q[p]>>
      <4>1. q \in Seq(Frames) /\ j \in 0..Len(q) /\ j < Len(q)
        BY <1>1, <2>1 DEF n
      <4>2. SubSeq(q, j + 1, j + 1) = <<q[j + 1]>>
        BY ONLY <4>1, SubSeqSmall
      <4>. QED BY <2>p, <4>2
    <3>3. CASE q[p].opcode = Bye
      <4>1. f[i] = [frames |-> <<q[p]>>, at |-> i + Len(x)]
        BY <1>4, <2>3, <3>1, <3>3
      <4>2. ~(p < n)
        <5>1. p \notin 1..(n - 1)
          BY <1>d, <3>3
        <5>. QED BY <1>2, <2>2, <5>1
      <4>3. Read(f[i], j, p)
        BY <2>9, <2>11, <3>2, <4>1, <4>2 DEF Read
      <4>. QED BY <2>2, <4>3 DEF i
    <3>4. CASE q[p].opcode # Bye
      <4>. DEFINE w == f[i + Len(x)]
      <4>1. f[i] = [frames |-> <<q[p]>> \o w.frames, at |-> w.at]
        BY <1>4, <2>3, <3>1, <3>4
      <4>2. w = f[at[p] - z] /\ at[p] - z <= L
        BY <2>9, <2>11
      <4>3. p \in T
        BY <1>6, <2>p
      <4>4. PICK m \in p..n : Read(f[at[p] - z], p, m)
        BY <2>2, <4>2, <4>3
      <4>. HIDE DEF w
      <4>5. /\ w = [frames |-> SubSeq(q, p + 1, m), at |-> at[m] - z]
            /\ at[m] - z <= L /\ (m < n => at[m + 1] - z > L)
        BY <4>2, <4>4 DEF Read
      <4>6. m \in j..n
        BY <1>2, <2>1, <2>p
      <4>7. <<q[p]>> \o SubSeq(q, p + 1, m) = SubSeq(q, j + 1, m)
        <5>1. q \in Seq(Frames) /\ j \in 0..Len(q) /\ p \in j..Len(q) /\ m \in p..Len(q)
          BY <1>1, <2>1, <2>2, <2>p DEF n
        <5>2. SubSeq(q, j + 1, p) \o SubSeq(q, p + 1, m) = SubSeq(q, j + 1, m)
          BY ONLY <5>1, SubSeqJoin
        <5>. QED BY <3>2, <5>2
      <4>8. f[i] = [frames |-> SubSeq(q, j + 1, m), at |-> at[m] - z]
        BY <4>1, <4>5, <4>7
      <4>9. Read(f[i], j, m)
        BY <4>5, <4>8 DEF Read
      <4>. QED BY <4>6, <4>9 DEF i
    <3>. QED BY <3>3, <3>4
  <2>. QED BY <2>10, <2>11
<1>7. \A j \in 0..n : j \in T
  <2>. HIDE DEF T
  <2>. QED BY <1>2, <1>5, <1>6, CountDown
<1>8. \E m \in k..n : Read(f[0], k, m)
  <2>1. at[k] - z = 0
    BY <1>b DEF z
  <2>2. k >= k /\ at[k] - z <= L
    BY <1>3, <2>1
  <2>. QED BY <1>3, <1>7, <2>1, <2>2
<1>. QED BY <1>4, <1>8 DEF Read, n, L, z

\* a frame more
LEMMA StreamAppend ==
  ASSUME NEW q, NEW s, NEW at, NEW flag, Stream(q, s, at, flag),
         NEW f \in Frames, NEW x, Encodes(x, f, flag)
  PROVE  \E at2 : /\ Stream(Append(q, f), s \o x, at2, flag)
                  /\ \A k \in 0..Len(q) : at2[k] = at[k]
                  /\ at2[Len(q) + 1] = Len(s) + Len(x)
<1>. DEFINE n == Len(q)
            m == n + 1
            r == Append(q, f)
            t == s \o x
            end == Len(s) + Len(x)
            at2 == [k \in 0..m |-> IF k <= n THEN at[k] ELSE end]
<1>1. /\ q \in Seq(Frames) /\ s \in Seq(Nat) /\ at \in [0..n -> Nat] /\ at[0] = 0 /\ at[n] = Len(s)
      /\ \A j \in 1..n : \E y :
           /\ Encodes(y, q[j], flag) /\ at[j] = at[j - 1] + Len(y)
           /\ \A i \in 1..Len(y) : s[at[j - 1] + i] = y[i]
  BY DEF Stream
<1>2. /\ n \in Nat /\ Len(s) \in Nat
      /\ \A k \in 0..n : at[k] \in Nat /\ at[k] <= Len(s)
  BY StreamGrows
<1>3. x \in Seq(Nat) /\ Len(x) \in Nat
  BY ReadEncoded
<1>4. r \in Seq(Frames) /\ Len(r) = m /\ r[m] = f /\ \A k \in 1..n : r[k] = q[k]
  <2>1. q \in Seq(Frames)
    BY <1>1
  <2>. QED BY ONLY <2>1, f \in Frames, AppendProperties
<1>5. /\ t \in Seq(Nat) /\ Len(t) = end
      /\ \A k \in 1..Len(s) : t[k] = s[k]
      /\ \A k \in 1..Len(x) : t[Len(s) + k] = x[k]
  <2>1. s \in Seq(Nat) /\ x \in Seq(Nat)
    BY <1>1, <1>3
  <2>. QED BY ONLY <2>1, ConcatParts
<1>m. m \in Nat /\ m = n + 1
  BY <1>2
<1>e. end \in Nat
  BY <1>2, <1>3
<1>t. end = Len(s) + Len(x)
  OBVIOUS
<1>. HIDE DEF n, m, r, t, end
<1>6. /\ \A k \in 0..n : k \in 0..m /\ at2[k] = at[k]
      /\ at2[m] = end
  <2>1. \A k \in 0..n : k \in 0..m /\ k <= n
    BY <1>2, <1>m
  <2>2. m \in 0..m /\ ~(m <= n)
    BY <1>2, <1>m
  <2>. QED BY <2>1, <2>2
<1>7. at2 \in [0..m -> Nat]
  <2>1. \A k \in 0..m : k <= n => k \in 0..n
    BY <1>2, <1>m
  <2>. QED BY <1>2, <1>e, <2>1
<1>. HIDE DEF at2
<1>8. ASSUME NEW k \in 1..m
      PROVE  \E y : /\ Encodes(y, r[k], flag) /\ at2[k] = at2[k - 1] + Len(y)
                    /\ \A i \in 1..Len(y) : t[at2[k - 1] + i] = y[i]
  <2>1. CASE k = m
    <3>1. k - 1 = n /\ n \in 0..n
      BY <1>2, <1>m, <2>1
    <3>2. at2[k - 1] = Len(s)
      BY <1>1, <1>6, <3>1
    <3>3. at2[k] = end /\ r[k] = f
      BY <1>4, <1>6, <2>1
    <3>4. \A i \in 1..Len(x) : t[at2[k - 1] + i] = x[i]
      BY <1>5, <3>2
    <3>. QED BY <1>t, <3>2, <3>3, <3>4
  <2>2. CASE k # m
    <3>1. k \in 1..n /\ k \in 0..n /\ k - 1 \in 0..n
      BY <1>2, <1>m, <2>2
    <3>2. PICK y : /\ Encodes(y, q[k], flag) /\ at[k] = at[k - 1] + Len(y)
                   /\ \A i \in 1..Len(y) : s[at[k - 1] + i] = y[i]
      BY <1>1, <3>1
    <3>3. at2[k] = at[k] /\ at2[k - 1] = at[k - 1] /\ r[k] = q[k]
      BY <1>4, <1>6, <3>1
    <3>4. at[k - 1] \in Nat /\ at[k] <= Len(s)
      BY <1>2, <3>1
    <3>5. Len(y) \in Nat
      <4>1. q[k] \in Frames
        <5>1. q \in Seq(Frames) /\ k \in 1..Len(q)
          BY <1>1, <3>1 DEF n
        <5>. QED BY ONLY <5>1, ElementOfSeq
      <4>. QED BY <3>2, <4>1, ReadEncoded
    <3>6. \A i \in 1..Len(y) : at[k - 1] + i \in 1..Len(s)
      <4>1. at[k - 1] + Len(y) <= Len(s)
        BY <3>2, <3>4
      <4>. QED BY ONLY <1>2, <3>4, <3>5, <4>1
    <3>7. \A i \in 1..Len(y) : t[at2[k - 1] + i] = y[i]
      BY <1>5, <3>2, <3>3, <3>6
    <3>. QED BY <3>2, <3>3, <3>7
  <2>. QED BY <2>1, <2>2
<1>9. at2[0] = 0
  <2>1. 0 \in 0..n
    BY <1>2
  <2>. QED BY <1>1, <1>6, <2>1
<1>10. Stream(r, t, at2, flag)
  BY <1>4, <1>5, <1>6, <1>7, <1>8, <1>9 DEF Stream
<1>. QED BY <1>6, <1>10, <1>m, <1>t DEF r, t, n, end

\* what a frame contributes to a sequence of messages or of bytes
Parts(q, g) == FlattenSeq([i \in DOMAIN q |-> g[q[i]]])
Carried(o) == [f \in Frames |-> IF f.opcode = o THEN <<f.payload>> ELSE <<>>]
Answer == [f \in Frames |-> Reply(f)]

\* the contributions of q, and then those of r
LEMMA PartsConcat ==
  ASSUME NEW S, NEW g \in [Frames -> Seq(S)], NEW q \in Seq(Frames), NEW r \in Seq(Frames)
  PROVE  /\ Parts(q, g) \in Seq(S)
         /\ Parts(q \o r, g) = Parts(q, g) \o Parts(r, g)
<1>. DEFINE m == Len(q)
            n == Len(r)
            a == [i \in 1..m |-> g[q[i]]]
            b == [i \in 1..n |-> g[r[i]]]
            u == q \o r
            v == [i \in 1..(m + n) |-> g[u[i]]]
<1>1. m \in Nat /\ n \in Nat /\ DOMAIN q = 1..m /\ DOMAIN r = 1..n
  BY LenProperties
<1>2. /\ u \in Seq(Frames) /\ Len(u) = m + n
      /\ \A i \in 1..m : u[i] = q[i]
      /\ \A i \in 1..n : u[m + i] = r[i]
  BY ONLY q \in Seq(Frames), r \in Seq(Frames), ConcatParts
<1>3. DOMAIN u = 1..(m + n)
  BY <1>2
<1>q. (\A i \in 1..m : q[i] \in Frames) /\ (\A i \in 1..n : r[i] \in Frames)
  BY ONLY q \in Seq(Frames), r \in Seq(Frames), ElementOfSeq
<1>4. Parts(q, g) = FlattenSeq(a) /\ Parts(r, g) = FlattenSeq(b) /\ Parts(u, g) = FlattenSeq(v)
  BY <1>1, <1>3 DEF Parts
<1>. HIDE DEF m, n, u
<1>5. a \in Seq(Seq(S)) /\ Len(a) = m /\ \A i \in 1..m : a[i] = g[q[i]]
  BY <1>1, <1>q
<1>6. b \in Seq(Seq(S)) /\ Len(b) = n /\ \A i \in 1..n : b[i] = g[r[i]]
  BY <1>1, <1>q
<1>7. /\ a \o b \in Seq(Seq(S)) /\ Len(a \o b) = Len(a) + Len(b)
      /\ \A i \in 1..Len(a) : (a \o b)[i] = a[i]
      /\ \A i \in 1..Len(b) : (a \o b)[Len(a) + i] = b[i]
  <2>1. a \in Seq(Seq(S)) /\ b \in Seq(Seq(S))
    BY <1>5, <1>6
  <2>. HIDE DEF a, b
  <2>. QED BY ONLY <2>1, ConcatParts
<1>8. v = a \o b
  <2>1. v \in Seq(Seq(S)) /\ Len(v) = m + n /\ \A i \in 1..(m + n) : v[i] = g[u[i]]
    <3>1. \A i \in 1..(m + n) : u[i] \in Frames
      BY <1>2, ElementOfSeq
    <3>2. m + n \in Nat
      BY <1>1
    <3>. QED BY SMTT(30), <3>1, <3>2
  <2>. HIDE DEF a, b, v
  <2>. DEFINE w == a \o b
  <2>2. /\ w \in Seq(Seq(S)) /\ Len(w) = m + n
        /\ \A i \in 1..m : w[i] = a[i]
        /\ \A i \in 1..n : w[m + i] = b[i]
    <3>1. Len(a) = m /\ Len(b) = n
      BY <1>5, <1>6
    <3>. QED BY <1>7, <3>1
  <2>. HIDE DEF w
  <2>3. ASSUME NEW i \in 1..(m + n) PROVE v[i] = w[i]
    <3>1. CASE i <= m
      <4>1. i \in 1..m
        BY <1>1, <3>1
      <4>2. u[i] = q[i] /\ a[i] = g[q[i]] /\ w[i] = a[i]
        BY <1>2, <1>5, <2>2, <4>1
      <4>. QED BY <2>1, <4>2
    <3>2. CASE ~(i <= m)
      <4>. DEFINE j == i - m
      <4>1. j \in 1..n /\ m + j = i
        BY <1>1, <3>2
      <4>. HIDE DEF j
      <4>2. w[m + j] = b[j] /\ u[m + j] = r[j] /\ b[j] = g[r[j]]
        BY <1>2, <1>6, <2>2, <4>1
      <4>. QED BY <2>1, <4>1, <4>2
    <3>. QED BY <3>1, <3>2
  <2>4. v = w
    BY <2>1, <2>2, <2>3, SeqEqual
  <2>. QED BY <2>4 DEF w
<1>9. /\ FlattenSeq(a) \in Seq(S)
      /\ FlattenSeq(a \o b) = FlattenSeq(a) \o FlattenSeq(b)
  <2>1. a \in Seq(Seq(S)) /\ b \in Seq(Seq(S))
    BY <1>5, <1>6
  <2>. HIDE DEF a, b
  <2>. QED BY ONLY <2>1, FlattenConcat
<1>. QED BY <1>4, <1>8, <1>9 DEF u

\* no frame, and one frame
LEMMA PartsSmall ==
  ASSUME NEW S, NEW g \in [Frames -> Seq(S)]
  PROVE  Parts(<<>>, g) = <<>> /\ \A f \in Frames : Parts(<<f>>, g) = g[f]
<1>1. Parts(<<>>, g) = <<>>
  <2>1. DOMAIN (<<>>) = {}
    OBVIOUS
  <2>2. [i \in DOMAIN (<<>>) |-> g[(<<>>)[i]]] = <<>>
    BY <2>1
  <2>. QED BY <2>2, FlattenNone DEF Parts
<1>2. ASSUME NEW f \in Frames PROVE Parts(<<f>>, g) = g[f]
  <2>. DEFINE q == <<f>>
              a == [i \in DOMAIN q |-> g[q[i]]]
  <2>1. DOMAIN q = 1..1 /\ q[1] = f
    OBVIOUS
  <2>2. a = <<g[f]>>
    BY <2>1
  <2>3. FlattenSeq(<<g[f]>>) = g[f]
    <3>1. g[f] \in Seq(S)
      OBVIOUS
    <3>. QED BY ONLY <3>1, FlattenOne
  <2>. QED BY <2>2, <2>3 DEF Parts
<1>. QED BY <1>1, <1>2

\* the operators of the server, in these terms
LEMMA CarriedParts ==
  ASSUME NEW q \in Seq(Frames), NEW o
  PROVE  PayloadsOf(q, o) = Parts(q, Carried(o)) /\ Carried(o) \in [Frames -> Seq(Seq(Byte))]
<1>1. DOMAIN q = 1..Len(q) /\ \A i \in 1..Len(q) : q[i] \in Frames
  BY ElementOfSeq, LenProperties
<1>2. ASSUME NEW f \in Frames
      PROVE  (IF f.opcode = o THEN <<f.payload>> ELSE <<>>) \in Seq(Seq(Byte))
  <2>1. f.payload \in Seq(Byte)
    BY DEF Frames
  <2>2. <<f.payload>> \in Seq(Seq(Byte))
    BY <2>1
  <2>3. <<>> \in Seq(Seq(Byte))
    BY EmptySeq
  <2>. QED BY <2>2, <2>3
<1>3. Carried(o) \in [Frames -> Seq(Seq(Byte))]
  BY <1>2 DEF Carried
<1>4. \A i \in DOMAIN q :
        (IF q[i].opcode = o THEN <<q[i].payload>> ELSE <<>>) = Carried(o)[q[i]]
  BY <1>1 DEF Carried
<1>5. PayloadsOf(q, o) = Parts(q, Carried(o))
  BY <1>4 DEF PayloadsOf, Parts
<1>. QED BY <1>3, <1>5

\* what the frames q carry, and then what r carry
LEMMA PayloadsConcat ==
  ASSUME NEW q \in Seq(Frames), NEW r \in Seq(Frames), NEW o
  PROVE  /\ PayloadsOf(q, o) \in Seq(Seq(Byte)) /\ PayloadsOf(r, o) \in Seq(Seq(Byte))
         /\ PayloadsOf(q \o r, o) = PayloadsOf(q, o) \o PayloadsOf(r, o)
<1>1. q \o r \in Seq(Frames)
  BY ONLY q \in Seq(Frames), r \in Seq(Frames), ConcatParts
<1>2. Carried(o) \in [Frames -> Seq(Seq(Byte))]
  BY CarriedParts
<1>3. /\ Parts(q, Carried(o)) \in Seq(Seq(Byte)) /\ Parts(r, Carried(o)) \in Seq(Seq(Byte))
      /\ Parts(q \o r, Carried(o)) = Parts(q, Carried(o)) \o Parts(r, Carried(o))
  BY ONLY q \in Seq(Frames), r \in Seq(Frames), <1>2, PartsConcat
<1>4. /\ PayloadsOf(q, o) = Parts(q, Carried(o)) /\ PayloadsOf(r, o) = Parts(r, Carried(o))
      /\ PayloadsOf(q \o r, o) = Parts(q \o r, Carried(o))
  BY ONLY q \in Seq(Frames), r \in Seq(Frames), <1>1, CarriedParts
<1>. QED BY <1>3, <1>4

\* what no frame, and one frame, carry
LEMMA PayloadsSmall ==
  ASSUME NEW o
  PROVE  /\ PayloadsOf(<<>>, o) = <<>>
         /\ \A f \in Frames : PayloadsOf(<<f>>, o) = IF f.opcode = o THEN <<f.payload>> ELSE <<>>
<1>1. <<>> \in Seq(Frames)
  BY EmptySeq
<1>2. Carried(o) \in [Frames -> Seq(Seq(Byte))] /\ PayloadsOf(<<>>, o) = Parts(<<>>, Carried(o))
  BY <1>1, CarriedParts
<1>3. Parts(<<>>, Carried(o)) = <<>> /\ \A f \in Frames : Parts(<<f>>, Carried(o)) = Carried(o)[f]
  BY <1>2, PartsSmall
<1>4. ASSUME NEW f \in Frames
      PROVE  PayloadsOf(<<f>>, o) = IF f.opcode = o THEN <<f.payload>> ELSE <<>>
  <2>1. <<f>> \in Seq(Frames)
    OBVIOUS
  <2>2. PayloadsOf(<<f>>, o) = Parts(<<f>>, Carried(o))
    BY <2>1, CarriedParts
  <2>. QED BY <1>3, <2>2 DEF Carried
<1>. QED BY <1>2, <1>3, <1>4

\* the empty payload can be told
LEMMA EmptyFrame ==
  ASSUME NEW p \in {<<>>}, NEW o \in Nat
  PROVE  [opcode |-> o, payload |-> p] \in Frames
<1>1. Len(<<>>) = 0 /\ <<>> \in Seq(Byte)
  BY EmptySeq
<1>2. 0 < MidLimit
  BY WebSocketAssumption
<1>. QED BY <1>1, <1>2 DEF Frames, Tellable

\* the server's answer to a frame is the frame's, or none
LEMMA ReplyShape ==
  ASSUME NEW f \in Frames
  PROVE  /\ Reply(f) \in Seq(Nat)
         /\ f.opcode = Ping =>
              /\ [opcode |-> Pong, payload |-> f.payload] \in Frames
              /\ Encodes(Reply(f), [opcode |-> Pong, payload |-> f.payload], 0)
         /\ f.opcode = Bye =>
              /\ [opcode |-> Bye, payload |-> <<>>] \in Frames
              /\ Encodes(Reply(f), [opcode |-> Bye, payload |-> <<>>], 0)
         /\ f.opcode \notin {Ping, Bye} => Reply(f) = <<>>
<1>1. CASE f.opcode = Ping
  <2>. DEFINE g == [opcode |-> Pong, payload |-> f.payload]
  <2>1. g \in Frames
    BY DEF Frames, Pong
  <2>2. Reply(f) = Frame(f.payload, Pong) /\ g.payload = f.payload /\ g.opcode = Pong
    BY <1>1 DEF Reply
  <2>3. Encodes(Reply(f), g, 0)
    BY <2>2 DEF Encodes
  <2>4. Reply(f) \in Seq(Nat)
    <3>. HIDE DEF g
    <3>. QED BY <2>1, <2>3, ReadEncoded
  <2>. QED BY <1>1, <2>1, <2>3, <2>4 DEF Ping, Bye
<1>2. CASE f.opcode = Bye
  <2>. DEFINE g == [opcode |-> Bye, payload |-> <<>>]
  <2>1. g \in Frames
    BY EmptyFrame DEF Bye
  <2>2. Reply(f) = Frame(<<>>, Bye) /\ g.payload = <<>> /\ g.opcode = Bye
    BY <1>2 DEF Reply, Ping, Bye
  <2>3. Encodes(Reply(f), g, 0)
    BY <2>2 DEF Encodes
  <2>4. Reply(f) \in Seq(Nat)
    <3>. HIDE DEF g
    <3>. QED BY <2>1, <2>3, ReadEncoded
  <2>. QED BY <1>2, <2>1, <2>3, <2>4 DEF Ping, Bye
<1>3. CASE f.opcode \notin {Ping, Bye}
  <2>1. Reply(f) = <<>>
    BY <1>3 DEF Reply
  <2>2. <<>> \in Seq(Nat)
    BY EmptySeq
  <2>. QED BY <1>3, <2>1, <2>2
<1>. QED BY <1>1, <1>2, <1>3

\* the answers to q, and then those to r
LEMMA RepliesConcat ==
  ASSUME NEW q \in Seq(Frames), NEW r \in Seq(Frames)
  PROVE  /\ Replies(q) \in Seq(Nat) /\ Replies(r) \in Seq(Nat)
         /\ Replies(q \o r) = Replies(q) \o Replies(r)
         /\ Replies(<<>>) = <<>> /\ \A f \in Frames : Replies(<<f>>) = Reply(f)
<1>1. q \o r \in Seq(Frames) /\ <<>> \in Seq(Frames)
  BY ONLY q \in Seq(Frames), r \in Seq(Frames), ConcatParts, EmptySeq
<1>2. Answer \in [Frames -> Seq(Nat)]
  BY ReplyShape DEF Answer
<1>3. ASSUME NEW u \in Seq(Frames) PROVE Replies(u) = Parts(u, Answer)
  <2>1. DOMAIN u = 1..Len(u) /\ \A i \in 1..Len(u) : u[i] \in Frames
    BY ElementOfSeq, LenProperties
  <2>2. \A i \in DOMAIN u : Reply(u[i]) = Answer[u[i]]
    BY <2>1 DEF Answer
  <2>. QED BY <2>2 DEF Replies, Parts
<1>4. /\ Parts(q, Answer) \in Seq(Nat) /\ Parts(r, Answer) \in Seq(Nat)
      /\ Parts(q \o r, Answer) = Parts(q, Answer) \o Parts(r, Answer)
  BY ONLY q \in Seq(Frames), r \in Seq(Frames), <1>2, PartsConcat
<1>5. Parts(<<>>, Answer) = <<>> /\ \A f \in Frames : Parts(<<f>>, Answer) = Answer[f]
  BY <1>2, PartsSmall
<1>6. ASSUME NEW f \in Frames PROVE Replies(<<f>>) = Reply(f)
  <2>1. <<f>> \in Seq(Frames)
    OBVIOUS
  <2>. QED BY <1>3, <1>5, <2>1 DEF Answer
<1>. QED BY <1>1, <1>3, <1>4, <1>5, <1>6

-----------------------------------------------------------------------------
(***************************************************************************)
(* The answers, read as frames.                                            *)
(***************************************************************************)
NoBye(q) == \A k \in 1..Len(q) : q[k].opcode # Bye

\* the frames a are the answers to the frames q
Answers(a, at, q) ==
  /\ Stream(a, Replies(q), at, 0) /\ ByeIsLast(a)
  /\ PayloadsOf(a, Pong) = PayloadsOf(q, Ping)
  /\ NoBye(q) => NoBye(a) /\ Len(a) = Len(PayloadsOf(q, Ping))

\* the answer to one frame more
LEMMA AnswersMore ==
  ASSUME NEW q \in Seq(Frames), NoBye(q), NEW f \in Frames,
         NEW a, NEW at, Answers(a, at, q)
  PROVE  \E a2, at2 : Answers(a2, at2, q \o <<f>>)
<1>. DEFINE r == q \o <<f>>
<1>1. /\ Stream(a, Replies(q), at, 0) /\ NoBye(a)
      /\ PayloadsOf(a, Pong) = PayloadsOf(q, Ping) /\ Len(a) = Len(PayloadsOf(q, Ping))
  BY DEF Answers
<1>2. <<f>> \in Seq(Frames)
  OBVIOUS
<1>3. /\ r \in Seq(Frames) /\ Len(r) = Len(q) + 1 /\ r[Len(q) + 1] = f /\ Len(q) \in Nat
      /\ \A i \in 1..Len(q) : r[i] = q[i]
  <2>1. Len(q) \in Nat
    BY ONLY q \in Seq(Frames), LenProperties
  <2>2. /\ r \in Seq(Frames) /\ Len(r) = Len(q) + 1 /\ r[Len(q) + 1] = f
        /\ \A i \in 1..Len(q) : r[i] = q[i]
    BY ONLY q \in Seq(Frames), f \in Frames, OneMore
  <2>. QED BY <2>1, <2>2
<1>4. a \in Seq(Frames) /\ Len(a) \in Nat
  <2>1. a \in Seq(Frames)
    BY <1>1 DEF Stream
  <2>. QED BY ONLY <2>1, LenProperties
<1>5. Replies(q) \in Seq(Nat) /\ Replies(r) = Replies(q) \o Reply(f)
  <2>1. Replies(q) \in Seq(Nat) /\ Replies(r) = Replies(q) \o Replies(<<f>>)
    BY ONLY q \in Seq(Frames), <1>2, RepliesConcat
  <2>2. Replies(<<f>>) = Reply(f)
    BY ONLY q \in Seq(Frames), <1>2, f \in Frames, RepliesConcat
  <2>. QED BY <2>1, <2>2
<1>6. /\ PayloadsOf(q, Ping) \in Seq(Seq(Byte))
      /\ PayloadsOf(r, Ping) = PayloadsOf(q, Ping) \o (IF f.opcode = Ping THEN <<f.payload>> ELSE <<>>)
  <2>1. /\ PayloadsOf(q, Ping) \in Seq(Seq(Byte))
        /\ PayloadsOf(r, Ping) = PayloadsOf(q, Ping) \o PayloadsOf(<<f>>, Ping)
    BY ONLY q \in Seq(Frames), <1>2, PayloadsConcat
  <2>2. PayloadsOf(<<f>>, Ping) = IF f.opcode = Ping THEN <<f.payload>> ELSE <<>>
    BY ONLY f \in Frames, PayloadsSmall
  <2>. QED BY <2>1, <2>2
<1>7. NoBye(r) => f.opcode # Bye
  <2>1. Len(q) + 1 \in 1..Len(r)
    BY <1>3
  <2>. QED BY <1>3, <2>1 DEF NoBye
<1>. HIDE DEF r
<1>8. ASSUME NEW g \in Frames, Encodes(Reply(f), g, 0)
      PROVE  /\ \E at2 : Stream(a \o <<g>>, Replies(r), at2, 0)
             /\ ByeIsLast(a \o <<g>>) /\ (g.opcode # Bye => NoBye(a \o <<g>>))
             /\ Len(a \o <<g>>) = Len(a) + 1
             /\ PayloadsOf(a \o <<g>>, Pong)
                  = PayloadsOf(a, Pong) \o (IF g.opcode = Pong THEN <<g.payload>> ELSE <<>>)
  <2>. DEFINE c == a \o <<g>>
  <2>1. /\ <<g>> \in Seq(Frames) /\ Append(a, g) = c
        /\ c \in Seq(Frames) /\ Len(c) = Len(a) + 1 /\ c[Len(a) + 1] = g
        /\ \A i \in 1..Len(a) : c[i] = a[i]
    <3>1. a \in Seq(Frames)
      BY <1>4
    <3>. QED BY ONLY <3>1, g \in Frames, OneMore
  <2>2. \E at2 : Stream(Append(a, g), Replies(q) \o Reply(f), at2, 0)
    BY <1>1, <1>8, StreamAppend
  <2>3. PayloadsOf(c, Pong) = PayloadsOf(a, Pong) \o PayloadsOf(<<g>>, Pong)
    <3>1. a \in Seq(Frames) /\ <<g>> \in Seq(Frames)
      BY <1>4, <2>1
    <3>. QED BY ONLY ZenonT(30), <3>1, PayloadsConcat
  <2>4. PayloadsOf(<<g>>, Pong) = IF g.opcode = Pong THEN <<g.payload>> ELSE <<>>
    BY ONLY g \in Frames, PayloadsSmall
  <2>. HIDE DEF c
  <2>5. \A i \in 1..Len(a) : c[i].opcode # Bye
    BY <1>1, <2>1 DEF NoBye
  <2>6. ByeIsLast(c)
    <3>1. Len(c) - 1 = Len(a)
      BY <1>4, <2>1
    <3>. QED BY <2>5, <3>1 DEF ByeIsLast
  <2>7. ASSUME g.opcode # Bye PROVE NoBye(c)
    <3>1. ASSUME NEW i \in 1..Len(c) PROVE c[i].opcode # Bye
      <4>1. i \in 1..Len(a) \/ i = Len(a) + 1
        BY <1>4, <2>1
      <4>. QED BY <2>1, <2>5, <2>7, <4>1
    <3>. QED BY <3>1 DEF NoBye
  <2>8. \E at2 : Stream(c, Replies(r), at2, 0)
    BY <1>5, <2>1, <2>2
  <2>. QED BY <2>1, <2>3, <2>4, <2>6, <2>7, <2>8 DEF c
<1>9. CASE f.opcode = Ping
  <2>. DEFINE g == [opcode |-> Pong, payload |-> f.payload]
              c == a \o <<g>>
  <2>1. g \in Frames /\ Encodes(Reply(f), g, 0)
    BY <1>9, ReplyShape
  <2>2. g.opcode = Pong /\ g.payload = f.payload /\ Pong # Bye
    BY DEF Pong, Bye
  <2>. HIDE DEF g
  <2>3. PICK at2 : Stream(c, Replies(r), at2, 0)
    BY <1>8, <2>1
  <2>4. /\ ByeIsLast(c) /\ NoBye(c) /\ Len(c) = Len(a) + 1
        /\ PayloadsOf(c, Pong) = PayloadsOf(a, Pong) \o <<f.payload>>
    BY <1>8, <2>1, <2>2
  <2>5. PayloadsOf(r, Ping) = PayloadsOf(q, Ping) \o <<f.payload>>
    BY <1>6, <1>9
  <2>6. Len(PayloadsOf(r, Ping)) = Len(PayloadsOf(q, Ping)) + 1
    <3>. DEFINE s == PayloadsOf(q, Ping)
                x == f.payload
    <3>1. s \in Seq(Seq(Byte)) /\ x \in Seq(Byte)
      BY <1>6 DEF Frames
    <3>. HIDE DEF s, x
    <3>2. Len(s \o <<x>>) = Len(s) + 1
      BY ONLY <3>1, OneMore
    <3>. QED BY <2>5, <3>2 DEF s, x
  <2>. HIDE DEF c
  <2>7. Answers(c, at2, r)
    BY <1>1, <2>3, <2>4, <2>5, <2>6 DEF Answers
  <2>. QED BY <2>7 DEF r
<1>10. CASE f.opcode = Bye
  <2>. DEFINE g == [opcode |-> Bye, payload |-> <<>>]
              c == a \o <<g>>
  <2>1. g \in Frames /\ Encodes(Reply(f), g, 0)
    BY <1>10, ReplyShape
  <2>2. g.opcode = Bye /\ Pong # Bye /\ Ping # Bye
    BY DEF Pong, Ping, Bye
  <2>. HIDE DEF g
  <2>3. PICK at2 : Stream(c, Replies(r), at2, 0)
    BY <1>8, <2>1
  <2>4. ByeIsLast(c) /\ PayloadsOf(c, Pong) = PayloadsOf(a, Pong) \o <<>>
    BY <1>8, <2>1, <2>2
  <2>5. PayloadsOf(r, Ping) = PayloadsOf(q, Ping) \o <<>>
    BY <1>6, <1>10, <2>2
  <2>. HIDE DEF c
  <2>7. Answers(c, at2, r)
    BY <1>1, <1>7, <1>10, <2>3, <2>4, <2>5 DEF Answers
  <2>. QED BY <2>7 DEF r
<1>11. CASE f.opcode \notin {Ping, Bye}
  <2>1. Replies(r) = Replies(q)
    <3>1. Reply(f) = <<>>
      BY <1>11, ReplyShape
    <3>. QED BY <1>5, <3>1, ConcatEmptySeq
  <2>2. PayloadsOf(r, Ping) = PayloadsOf(q, Ping)
    BY <1>6, <1>11, ConcatEmptySeq
  <2>3. Answers(a, at, r)
    BY <1>1, <2>1, <2>2 DEF Answers
  <2>. QED BY <2>3 DEF r
<1>. QED BY <1>9, <1>10, <1>11

\* the answers to all the frames
LEMMA RepliesRead ==
  ASSUME NEW q \in Seq(Frames), ByeIsLast(q)
  PROVE  \E a, at : Answers(a, at, q)
<1>. DEFINE n == Len(q)
            first(k) == SubSeq(q, 1, k)
            T == {k \in 0..n : \E a, at : Answers(a, at, first(k))}
<1>1. n \in Nat
  BY LenProperties
<1>2. ASSUME NEW k \in 0..n
      PROVE  first(k) \in Seq(Frames) /\ Len(first(k)) = k /\ \A i \in 1..k : first(k)[i] = q[i]
  <2>1. k \in 0..Len(q)
    OBVIOUS
  <2>. QED BY ONLY <2>1, q \in Seq(Frames), Split
<1>3. 0 \in T
  <2>. DEFINE at == [i \in 0..0 |-> 0]
  <2>1. 0 \in 0..n
    BY <1>1
  <2>2. first(0) = <<>>
    <3>1. first(0) \in Seq(Frames) /\ Len(first(0)) = 0
      BY <1>2, <2>1
    <3>. QED BY ONLY <3>1, EmptySeq
  <2>3. /\ Replies(<<>>) = <<>> /\ PayloadsOf(<<>>, Pong) = <<>> /\ PayloadsOf(<<>>, Ping) = <<>>
    BY RepliesConcat, PayloadsSmall
  <2>4. <<>> \in Seq(Frames) /\ <<>> \in Seq(Nat) /\ Len(<<>>) = 0
    BY EmptySeq
  <2>5. at \in [0..0 -> Nat] /\ at[0] = 0
    OBVIOUS
  <2>6. Stream(<<>>, <<>>, at, 0)
    BY <2>4, <2>5 DEF Stream
  <2>7. Answers(<<>>, at, <<>>)
    <3>1. ByeIsLast(<<>>) /\ NoBye(<<>>)
      BY <2>4 DEF ByeIsLast, NoBye
    <3>. HIDE DEF at
    <3>. QED BY <2>3, <2>6, <3>1 DEF Answers
  <2>8. \E a, e : Answers(a, e, first(0))
    BY <2>2, <2>7
  <2>. QED BY <2>1, <2>8
<1>4. ASSUME NEW k \in 0..(n - 1), k \in T PROVE k + 1 \in T
  <2>. DEFINE m == k + 1
  <2>1. k \in 0..n /\ m \in 0..n /\ m \in 1..n /\ k \in Nat
    BY <1>1
  <2>2. PICK a, at : Answers(a, at, first(k))
    BY <1>4
  <2>3. NoBye(first(k))
    <3>1. \A i \in 1..k : i \in 1..(n - 1)
      BY <1>1
    <3>. QED BY <1>2, <2>1, <3>1 DEF NoBye, ByeIsLast
  <2>4. q[m] \in Frames
    BY ONLY q \in Seq(Frames), <2>1, ElementOfSeq
  <2>5. first(m) = first(k) \o <<q[m]>>
    <3>1. 0 \in 0..Len(q) /\ k \in 0..Len(q) /\ m \in k..Len(q) /\ k < Len(q) /\ k \in 0..Len(q)
      BY <1>1, <2>1
    <3>2. SubSeq(q, 0 + 1, k) \o SubSeq(q, k + 1, m) = SubSeq(q, 0 + 1, m)
      <4>. HIDE DEF m
      <4>. QED BY ONLY q \in Seq(Frames), <3>1, SubSeqJoin
    <3>3. SubSeq(q, k + 1, k + 1) = <<q[k + 1]>>
      BY ONLY q \in Seq(Frames), <3>1, SubSeqSmall
    <3>4. 0 + 1 = 1
      OBVIOUS
    <3>. QED BY <3>2, <3>3, <3>4
  <2>6. \E a2, at2 : Answers(a2, at2, first(k) \o <<q[m]>>)
    <3>1. first(k) \in Seq(Frames)
      BY <1>2, <2>1
    <3>. HIDE DEF first, m
    <3>. QED BY ONLY <3>1, <2>2, <2>3, <2>4, AnswersMore
  <2>. HIDE DEF first
  <2>7. m \in T
    BY <2>1, <2>5, <2>6
  <2>. QED BY <2>7
<1>5. \A k \in 0..n : k \in T
  <2>. HIDE DEF T, n
  <2>. QED BY ONLY <1>1, <1>3, <1>4, CountUp
<1>6. first(n) = q
  <2>1. n \in 0..n
    BY <1>1
  <2>2. first(n) \in Seq(Frames) /\ Len(first(n)) = n /\ \A i \in 1..n : first(n)[i] = q[i]
    BY <1>2, <2>1
  <2>. HIDE DEF first
  <2>. QED BY <2>2, SeqEqual
<1>7. n \in T
  BY <1>1, <1>5
<1>. HIDE DEF first
<1>. QED BY <1>6, <1>7

-----------------------------------------------------------------------------
(***************************************************************************)
(* The invariant: all bytes the client has written are a stream of its     *)
(* frames; the first k of them have been handled and answered, and the     *)
(* buffer and the wire hold what follows, less than a frame of it in the   *)
(* buffer.                                                                 *)
(***************************************************************************)
Handled(s, at, k) ==
  /\ Stream(sent, s, at, Flag) /\ k \in 0..Len(sent)
  /\ got = PayloadsOf(SubSeq(sent, 1, k), Text)
  /\ back = Replies(SubSeq(sent, 1, k))
  /\ closed => wire = <<>>
  /\ ~closed =>
       /\ \A i \in 1..k : sent[i].opcode # Bye
       /\ Len(buf) + Len(wire) = Len(s) - at[k]
       /\ \A j \in 1..Len(buf) : buf[j] = s[at[k] + j]
       /\ \A j \in 1..Len(wire) : wire[j] = s[at[k] + Len(buf) + j]
       /\ k < Len(sent) => Len(buf) < at[k + 1] - at[k]

WsInv ==
  /\ sent \in Seq(Frames) /\ wire \in Seq(Nat) /\ buf \in Seq(Nat) /\ closed \in BOOLEAN
  /\ ByeIsLast(sent)
  /\ \E s, at, k : Handled(s, at, k)

\* it holds before the first byte
LEMMA WsInvInit == WsInit => WsInv
<1>. SUFFICES ASSUME WsInit PROVE WsInv
  OBVIOUS
<1>. DEFINE at == [i \in 0..0 |-> 0]
<1>1. /\ sent = <<>> /\ wire = <<>> /\ buf = <<>> /\ got = <<>> /\ back = <<>> /\ closed = FALSE
  BY DEF WsInit
<1>2. <<>> \in Seq(Frames) /\ <<>> \in Seq(Nat) /\ Len(<<>>) = 0
  BY EmptySeq
<1>3. at \in [0..0 -> Nat] /\ at[0] = 0
  OBVIOUS
<1>. HIDE DEF at
<1>4. Stream(<<>>, <<>>, at, Flag)
  BY <1>2, <1>3 DEF Stream
<1>5. Replies(<<>>) = <<>> /\ PayloadsOf(<<>>, Text) = <<>>
  BY <1>2, RepliesConcat, PayloadsSmall
<1>6. SubSeq(<<>>, 1, 0) = <<>>
  OBVIOUS
<1>7. Handled(<<>>, at, 0)
  BY <1>1, <1>2, <1>3, <1>4, <1>5, <1>6 DEF Handled
<1>8. ByeIsLast(<<>>)
  BY <1>2 DEF ByeIsLast
<1>. QED BY <1>1, <1>2, <1>7, <1>8 DEF WsInv

\* the client's next frame
LEMMA WsInvSends == WsInv /\ ClientSends => WsInv'
<1>. SUFFICES ASSUME WsInv, ClientSends PROVE WsInv'
  OBVIOUS
<1>1. PICK s, at, k : Handled(s, at, k)
  BY DEF WsInv
<1>2. PICK p \in Payloads, m \in Masks, o \in {Text, Ping, Pong, Bye} :
         /\ o = Bye => p = <<>>
         /\ sent' = Append(sent, [opcode |-> o, payload |-> p])
         /\ wire' = wire \o ClientFrame(p, o, m)
  BY DEF ClientSends
<1>. DEFINE f == [opcode |-> o, payload |-> p]
            x == ClientFrame(p, o, m)
            n == Len(sent)
            t == s \o x
<1>3. f \in Frames
  <2>1. o \in Nat
    BY DEF Text, Ping, Pong, Bye
  <2>2. p \in Seq(Byte) /\ Tellable(Len(p))
    BY WebSocketAssumption DEF Tellable
  <2>. QED BY <2>1, <2>2 DEF Frames
<1>4. Encodes(x, f, Flag)
  BY DEF Encodes
<1>. HIDE DEF f, x
<1>5. x \in Seq(Nat) /\ Len(x) \in Nat /\ Len(x) >= 2
  BY <1>3, <1>4, ReadEncoded
<1>6. /\ Stream(sent, s, at, Flag) /\ k \in 0..n
      /\ got = PayloadsOf(SubSeq(sent, 1, k), Text)
      /\ back = Replies(SubSeq(sent, 1, k))
      /\ \A i \in 1..k : sent[i].opcode # Bye
      /\ Len(buf) + Len(wire) = Len(s) - at[k]
      /\ \A j \in 1..Len(buf) : buf[j] = s[at[k] + j]
      /\ \A j \in 1..Len(wire) : wire[j] = s[at[k] + Len(buf) + j]
      /\ k < n => Len(buf) < at[k + 1] - at[k]
  BY <1>1 DEF Handled, ClientSends
<1>7. /\ n \in Nat /\ Len(s) \in Nat /\ at[n] = Len(s)
      /\ \A j \in 0..n : at[j] \in Nat /\ at[j] <= Len(s)
  <2>1. Stream(sent, s, at, Flag)
    BY <1>6
  <2>2. /\ n \in Nat /\ Len(s) \in Nat
        /\ \A j \in 0..n : at[j] \in Nat /\ at[j] <= Len(s)
    BY ONLY <2>1, StreamGrows
  <2>3. at[n] = Len(s)
    BY <2>1 DEF Stream
  <2>. QED BY <2>2, <2>3
<1>8. PICK at2 : /\ Stream(Append(sent, f), t, at2, Flag)
                 /\ \A j \in 0..n : at2[j] = at[j]
                 /\ at2[n + 1] = Len(s) + Len(x)
  <2>1. Stream(sent, s, at, Flag)
    BY <1>6
  <2>2. \E at2 : /\ Stream(Append(sent, f), s \o x, at2, Flag)
                 /\ \A j \in 0..Len(sent) : at2[j] = at[j]
                 /\ at2[Len(sent) + 1] = Len(s) + Len(x)
    BY ONLY <1>3, <1>4, <2>1, StreamAppend
  <2>. QED BY <2>2
<1>9. sent \in Seq(Frames) /\ wire \in Seq(Nat) /\ buf \in Seq(Nat) /\ s \in Seq(Nat)
  BY <1>6 DEF WsInv, Stream
<1>10. /\ Len(wire) \in Nat /\ Len(buf) \in Nat
  BY ONLY <1>9, LenProperties
<1>11. /\ sent' \in Seq(Frames) /\ Len(sent') = n + 1 /\ sent' = sent \o <<f>>
       /\ \A j \in 1..n : sent'[j] = sent[j]
  <2>1. /\ Append(sent, f) = sent \o <<f>> /\ sent \o <<f>> \in Seq(Frames)
        /\ Len(sent \o <<f>>) = Len(sent) + 1
        /\ \A i \in 1..Len(sent) : (sent \o <<f>>)[i] = sent[i]
    BY ONLY <1>3, <1>9, OneMore
  <2>2. sent' = Append(sent, f)
    BY <1>2 DEF f
  <2>. QED BY <2>1, <2>2
<1>12. /\ wire' \in Seq(Nat) /\ Len(wire') = Len(wire) + Len(x)
       /\ \A j \in 1..Len(wire) : wire'[j] = wire[j]
       /\ \A j \in 1..Len(x) : wire'[Len(wire) + j] = x[j]
  <2>1. /\ wire \o x \in Seq(Nat) /\ Len(wire \o x) = Len(wire) + Len(x)
        /\ \A j \in 1..Len(wire) : (wire \o x)[j] = wire[j]
        /\ \A j \in 1..Len(x) : (wire \o x)[Len(wire) + j] = x[j]
    BY ONLY <1>5, <1>9, ConcatParts
  <2>2. wire' = wire \o x
    BY <1>2 DEF x
  <2>. QED BY <2>1, <2>2
<1>13. /\ t \in Seq(Nat) /\ Len(t) = Len(s) + Len(x)
       /\ \A j \in 1..Len(s) : t[j] = s[j]
       /\ \A j \in 1..Len(x) : t[Len(s) + j] = x[j]
  BY ONLY <1>5, <1>9, ConcatParts
<1>14. buf' = buf /\ got' = got /\ back' = back /\ closed' = closed /\ closed = FALSE
  BY DEF ClientSends, WsInv
<1>15. Stream(sent', t, at2, Flag)
  BY <1>2, <1>8 DEF f
<1>. HIDE DEF n, t
<1>16. at[k] \in Nat /\ at2[k] = at[k] /\ k \in Nat /\ k <= n
  BY <1>6, <1>7, <1>8
<1>a. Len(buf) + Len(wire) = Len(s) - at[k]
  BY <1>6
<1>n. Len(x) \in Nat /\ Len(s) \in Nat /\ Len(buf) \in Nat /\ Len(wire) \in Nat /\ at[k] \in Nat
  BY <1>5, <1>7, <1>10, <1>16
<1>17. SubSeq(sent', 1, k) = SubSeq(sent, 1, k)
  <2>. DEFINE a == SubSeq(sent', 1, k)
              b == SubSeq(sent, 1, k)
  <2>1. k \in 0..Len(sent') /\ k \in 0..Len(sent)
    BY <1>6, <1>7, <1>11 DEF n
  <2>2. a \in Seq(Frames) /\ Len(a) = k /\ \A j \in 1..k : a[j] = sent'[j]
    <3>1. sent' \in Seq(Frames)
      BY <1>11
    <3>. QED BY ONLY <2>1, <3>1, Split
  <2>3. b \in Seq(Frames) /\ Len(b) = k /\ \A j \in 1..k : b[j] = sent[j]
    BY ONLY <1>9, <2>1, Split
  <2>4. \A j \in 1..k : j \in 1..n
    BY <1>7, <1>16
  <2>. HIDE DEF a, b
  <2>5. a = b
    BY <1>11, <2>2, <2>3, <2>4, SeqEqual
  <2>. QED BY <2>5 DEF a, b
<1>18. Len(buf) + Len(wire') = Len(t) - at2[k]
  <2>1. Len(wire') = Len(wire) + Len(x) /\ Len(t) = Len(s) + Len(x) /\ at2[k] = at[k]
    BY <1>12, <1>13, <1>16
  <2>2. Len(buf) + (Len(wire) + Len(x)) = Len(s) + Len(x) - at[k]
    BY ONLY <1>a, <1>n
  <2>. QED BY ONLY <1>n, <2>1, <2>2
<1>19. ASSUME NEW j \in 1..Len(buf) PROVE buf[j] = t[at2[k] + j]
  <2>1. at[k] + j \in 1..Len(s)
    BY ONLY <1>a, <1>n, j \in 1..Len(buf)
  <2>. QED BY <1>6, <1>13, <1>16, <2>1
<1>20. ASSUME NEW j \in 1..Len(wire') PROVE wire'[j] = t[at2[k] + Len(buf) + j]
  <2>1. CASE j \in 1..Len(wire)
    <3>1. at[k] + Len(buf) + j \in 1..Len(s)
      BY ONLY <1>a, <1>n, <2>1
    <3>. QED BY ZenonT(30), <1>6, <1>12, <1>13, <1>16, <2>1, <3>1
  <2>2. CASE j \notin 1..Len(wire)
    <3>. DEFINE i == j - Len(wire)
    <3>1. i \in 1..Len(x) /\ Len(wire) + i = j
      BY <1>5, <1>10, <1>12, <2>2
    <3>2. at[k] + Len(buf) + j = Len(s) + i
      <4>1. j \in Nat
        <5>1. Len(wire') \in Nat
          BY <1>n, <1>12
        <5>. QED BY <5>1
      <4>2. at[k] + Len(buf) + j = Len(s) + (j - Len(wire))
        BY ONLY SMTT(30), <1>a, <1>n, <4>1
      <4>. QED BY <4>2
    <3>. HIDE DEF i
    <3>3. wire'[Len(wire) + i] = x[i] /\ t[Len(s) + i] = x[i]
      BY <1>12, <1>13, <3>1
    <3>. QED BY <1>16, <3>1, <3>2, <3>3
  <2>. QED BY <2>1, <2>2
<1>21. Len(buf) < at2[k + 1] - at2[k]
  <2>1. CASE k < n
    <3>1. k + 1 \in 0..n
      BY <1>7, <1>16, <2>1
    <3>2. at2[k + 1] = at[k + 1] /\ Len(buf) < at[k + 1] - at[k]
      BY <1>6, <1>8, <2>1, <3>1 DEF n
    <3>. QED BY <1>16, <3>2
  <2>2. CASE ~(k < n)
    <3>1. k = n
      BY <1>7, <1>16, <2>2
    <3>2. at2[k + 1] = Len(s) + Len(x) /\ at[k] = Len(s)
      BY <1>7, <1>8, <3>1 DEF n
    <3>3. Len(buf) + Len(wire) = Len(s) - at[k]
      BY <1>6
    <3>. QED BY ONLY <1>5, <1>7, <1>10, <1>16, <3>2, <3>3
  <2>. QED BY <2>1, <2>2
<1>22. \A i \in 1..k : sent'[i].opcode # Bye
  <2>1. \A i \in 1..k : i \in 1..n
    BY <1>7, <1>16
  <2>. QED BY <1>6, <1>11, <2>1
<1>23. Handled(t, at2, k)'
  <2>1. k \in 0..Len(sent')
    BY <1>7, <1>11, <1>16
  <2>2. got' = PayloadsOf(SubSeq(sent', 1, k), Text) /\ back' = Replies(SubSeq(sent', 1, k))
    BY <1>6, <1>14, <1>17
  <2>3. Len(buf') + Len(wire') = Len(t) - at2[k] /\ Len(buf') < at2[k + 1] - at2[k]
    BY <1>14, <1>18, <1>21
  <2>4. \A j \in 1..Len(buf') : buf'[j] = t[at2[k] + j]
    BY <1>14, <1>19
  <2>5. \A j \in 1..Len(wire') : wire'[j] = t[at2[k] + Len(buf') + j]
    BY <1>14, <1>20
  <2>. QED BY <1>14, <1>15, <1>22, <2>1, <2>2, <2>3, <2>4, <2>5 DEF Handled
<1>24. ByeIsLast(sent')
  <2>1. \A i \in DOMAIN sent : sent[i].opcode # Bye
    BY DEF ClientSends
  <2>2. DOMAIN sent = 1..n
    BY <1>9 DEF n
  <2>3. Len(sent') - 1 = n
    BY <1>7, <1>11
  <2>. QED BY <1>11, <2>1, <2>2, <2>3 DEF ByeIsLast
<1>. QED BY <1>9, <1>11, <1>12, <1>14, <1>23, <1>24 DEF WsInv

\* a chunk of bytes, and all the frames it completes
LEMMA WsInvData == WsInv /\ OnData => WsInv'
<1>. SUFFICES ASSUME WsInv, OnData PROVE WsInv'
  OBVIOUS
<1>1. PICK s, at, k : Handled(s, at, k)
  BY DEF WsInv
<1>2. PICK n \in 1..Len(wire) : \E r \in {Loop(buf \o SubSeq(wire, 1, n))} :
         /\ wire' = SubSeq(wire, n + 1, Len(wire))
         /\ buf' = SubSeq(buf \o SubSeq(wire, 1, n), r.at + 1, Len(buf) + n)
         /\ got' = got \o PayloadsOf(r.frames, Text)
         /\ back' = back \o Replies(r.frames)
         /\ closed' = (closed \/ \E i \in DOMAIN r.frames : r.frames[i].opcode = Bye)
  BY DEF OnData
<1>. DEFINE N == Len(sent)
            c == SubSeq(wire, 1, n)
            rest == SubSeq(wire, n + 1, Len(wire))
            b == buf \o c
            w == Len(wire)
            u == Len(buf)
            z == at[k]
<1>3. sent' = sent /\ sent \in Seq(Frames) /\ wire \in Seq(Nat) /\ buf \in Seq(Nat) /\ ByeIsLast(sent)
  BY DEF WsInv, OnData
<1>4. N \in Nat /\ w \in Nat /\ u \in Nat
  BY ONLY <1>3, LenProperties
<1>5. closed = FALSE
  <2>1. closed => wire = <<>>
    BY <1>1 DEF Handled
  <2>2. wire # <<>>
    <3>1. Len(<<>>) = 0
      BY EmptySeq
    <3>2. w # 0
      BY <1>4
    <3>. QED BY <3>1, <3>2
  <2>. QED BY <2>1, <2>2 DEF WsInv
<1>6. /\ Stream(sent, s, at, Flag) /\ k \in 0..N
      /\ got = PayloadsOf(SubSeq(sent, 1, k), Text)
      /\ back = Replies(SubSeq(sent, 1, k))
      /\ \A i \in 1..k : sent[i].opcode # Bye
      /\ u + w = Len(s) - z
      /\ \A j \in 1..u : buf[j] = s[z + j]
      /\ \A j \in 1..w : wire[j] = s[z + u + j]
  BY <1>1, <1>5 DEF Handled
<1>7. /\ Len(s) \in Nat /\ at[N] = Len(s)
      /\ \A j \in 0..N : at[j] \in Nat /\ at[j] <= Len(s)
      /\ \A i \in 0..N : \A j \in i..N : at[i] <= at[j]
  <2>1. Stream(sent, s, at, Flag)
    BY <1>6
  <2>2. /\ Len(s) \in Nat /\ \A j \in 0..N : at[j] \in Nat /\ at[j] <= Len(s)
        /\ \A i \in 0..N : \A j \in i..N : at[i] <= at[j]
    BY ONLY <2>1, StreamGrows
  <2>3. at[N] = Len(s)
    BY <2>1 DEF Stream
  <2>. QED BY <2>2, <2>3
<1>8. /\ c \in Seq(Nat) /\ Len(c) = n /\ \A i \in 1..n : c[i] = wire[i]
      /\ rest \in Seq(Nat) /\ Len(rest) = w - n /\ \A i \in 1..(w - n) : rest[i] = wire[n + i]
  <2>1. n \in 0..Len(wire) /\ wire \in Seq(Nat)
    BY <1>3, <1>4
  <2>. QED BY ONLY <2>1, Split
<1>9. n \in Nat /\ n >= 1 /\ n <= w /\ z \in Nat /\ k \in Nat
  BY <1>4, <1>6, <1>7
<1>w. w = Len(wire) /\ u = Len(buf)
  OBVIOUS
<1>. HIDE DEF c, rest
<1>10. /\ b \in Seq(Nat) /\ Len(b) = u + n
       /\ \A i \in 1..u : b[i] = buf[i]
       /\ \A i \in 1..n : b[u + i] = c[i]
  <2>1. buf \in Seq(Nat) /\ c \in Seq(Nat)
    BY <1>3, <1>8
  <2>2. /\ buf \o c \in Seq(Nat) /\ Len(buf \o c) = Len(buf) + Len(c)
        /\ \A i \in 1..Len(buf) : (buf \o c)[i] = buf[i]
        /\ \A i \in 1..Len(c) : (buf \o c)[Len(buf) + i] = c[i]
    BY ONLY <2>1, ConcatParts
  <2>3. Len(c) = n
    BY <1>8
  <2>. QED BY <2>2, <2>3
<1>11. /\ wire' = rest
       /\ buf' = SubSeq(b, Loop(b).at + 1, u + n)
       /\ got' = got \o PayloadsOf(Loop(b).frames, Text)
       /\ back' = back \o Replies(Loop(b).frames)
       /\ closed' = \E i \in DOMAIN (Loop(b).frames) : Loop(b).frames[i].opcode = Bye
  BY <1>2, <1>5 DEF c, rest
<1>. HIDE DEF N, b, w, u, z
<1>12. ASSUME NEW j \in 1..Len(b) PROVE b[j] = s[z + j]
  <2>1. CASE j <= u
    <3>1. j \in 1..u
      BY <1>4, <1>9, <1>10, <2>1
    <3>. QED BY <1>6, <1>10, <3>1
  <2>2. CASE ~(j <= u)
    <3>. DEFINE i == j - u
    <3>1. j \in 1..(u + n)
      BY <1>10
    <3>2. i \in 1..n /\ u + i = j /\ i \in 1..w /\ z + u + i = z + j
      BY ONLY <1>4, <1>9, <2>2, <3>1
    <3>. HIDE DEF i
    <3>3. b[u + i] = c[i] /\ c[i] = wire[i] /\ wire[i] = s[z + u + i]
      BY <1>6, <1>8, <1>10, <3>2
    <3>. QED BY <3>2, <3>3
  <2>. QED BY <2>1, <2>2
<1>a. u + w = Len(s) - z
  BY <1>6
<1>b. Len(b) = u + n /\ Len(b) \in Nat
  BY <1>4, <1>9, <1>10
<1>13. Len(b) <= Len(s) - at[k]
  <2>1. u + n <= Len(s) - z
    BY ONLY <1>4, <1>7, <1>9, <1>a
  <2>. QED BY <1>b, <2>1 DEF z
<1>14. PICK m \in k..N :
          /\ Loop(b) = [frames |-> SubSeq(sent, k + 1, m), at |-> at[m] - at[k]]
          /\ at[m] - at[k] <= Len(b)
          /\ m < N => at[m + 1] - at[k] > Len(b)
  <2>1. b \in Seq(Nat) /\ k \in 0..Len(sent) /\ Stream(sent, s, at, Flag)
    BY <1>6, <1>10 DEF N
  <2>2. \A j \in 1..Len(b) : b[j] = s[at[k] + j]
    BY <1>12 DEF z
  <2>. QED BY ONLY ZenonT(30), <1>3, <1>13, <2>1, <2>2, LoopReads DEF N
<1>. DEFINE d == at[m] - z
            fr == SubSeq(sent, k + 1, m)
            y == at[m]
<1>15. Loop(b).frames = fr /\ Loop(b).at = d
  <2>1. Loop(b) = [frames |-> fr, at |-> d]
    BY <1>14 DEF z
  <2>. HIDE DEF fr, d
  <2>. QED BY ONLY <2>1
<1>16. /\ m \in Nat /\ m \in 0..N /\ k <= m /\ m <= N /\ y \in Nat /\ z <= y /\ y <= Len(s)
  <2>1. m \in Nat /\ m \in 0..N /\ k <= m /\ m <= N
    BY <1>4, <1>9
  <2>. QED BY <1>6, <1>7, <2>1 DEF z
<1>17. d \in 0..Len(b)
  <2>1. d <= Len(b)
    BY <1>14 DEF z
  <2>2. d \in Nat
    BY <1>9, <1>16
  <2>. QED BY <1>b, <2>1, <2>2
<1>18. fr \in Seq(Frames) /\ Len(fr) = m - k /\ \A i \in 1..(m - k) : fr[i] = sent[k + i]
  <2>1. sent \in Seq(Frames) /\ k \in 0..Len(sent) /\ m \in k..Len(sent)
    BY <1>3, <1>6, <1>16 DEF N
  <2>. QED BY ONLY <2>1, SubSeqParts
<1>d. d \in Nat /\ y = z + d
  BY <1>9, <1>16, <1>17
<1>e. Len(s) \in Nat /\ y \in Nat /\ u \in Nat /\ w \in Nat /\ n \in Nat /\ z \in Nat /\ d \in Nat
  BY <1>4, <1>7, <1>9, <1>16, <1>d
<1>y. y = at[m]
  OBVIOUS
<1>. HIDE DEF d, y
<1>19. /\ buf' \in Seq(Nat) /\ Len(buf') = u + n - d
       /\ \A j \in 1..(u + n - d) : buf'[j] = b[d + j]
  <2>. DEFINE e == SubSeq(b, d + 1, Len(b))
  <2>1. e \in Seq(Nat) /\ Len(e) = Len(b) - d /\ \A j \in 1..(Len(b) - d) : e[j] = b[d + j]
    <3>1. b \in Seq(Nat)
      BY <1>10
    <3>. QED BY ONLY <1>17, <3>1, Split
  <2>2. buf' = e
    BY <1>11, <1>15, <1>b
  <2>3. Len(b) - d = u + n - d
    BY ONLY <1>b, <1>e
  <2>. HIDE DEF e
  <2>4. e \in Seq(Nat) /\ Len(e) = u + n - d
    BY <2>1, <2>3
  <2>5. \A j \in 1..(u + n - d) : e[j] = b[d + j]
    BY <2>1, <2>3
  <2>. QED BY <2>2, <2>4, <2>5
<1>20. SubSeq(sent, 1, k) \o fr = SubSeq(sent, 1, m) /\ SubSeq(sent, 1, k) \in Seq(Frames)
  <2>1. 0 \in 0..Len(sent) /\ k \in 0..Len(sent) /\ m \in k..Len(sent)
    BY <1>4, <1>6, <1>16 DEF N
  <2>2. SubSeq(sent, 0 + 1, k) \o SubSeq(sent, k + 1, m) = SubSeq(sent, 0 + 1, m)
    BY ONLY <1>3, <2>1, SubSeqJoin
  <2>3. SubSeq(sent, 1, k) \in Seq(Frames)
    BY ONLY <1>3, <2>1, Split
  <2>4. 0 + 1 = 1
    OBVIOUS
  <2>. QED BY <2>2, <2>3, <2>4
<1>. HIDE DEF fr
<1>21. got' = PayloadsOf(SubSeq(sent, 1, m), Text) /\ back' = Replies(SubSeq(sent, 1, m))
  <2>1. SubSeq(sent, 1, k) \in Seq(Frames) /\ fr \in Seq(Frames)
    BY <1>18, <1>20
  <2>2. /\ PayloadsOf(SubSeq(sent, 1, k) \o fr, Text)
             = PayloadsOf(SubSeq(sent, 1, k), Text) \o PayloadsOf(fr, Text)
        /\ Replies(SubSeq(sent, 1, k) \o fr) = Replies(SubSeq(sent, 1, k)) \o Replies(fr)
    BY ONLY <2>1, PayloadsConcat, RepliesConcat
  <2>. QED BY <1>6, <1>11, <1>15, <1>20, <2>2
<1>22. closed' = \E i \in 1..(m - k) : sent[k + i].opcode = Bye
  <2>1. DOMAIN fr = 1..(m - k)
    <3>1. fr \in Seq(Frames) /\ Len(fr) = m - k
      BY <1>18
    <3>. QED BY ONLY <3>1, LenProperties
  <2>. QED BY <1>11, <1>15, <1>18, <2>1
<1>23. ASSUME closed' PROVE wire' = <<>>
  <2>1. PICK i \in 1..(m - k) : sent[k + i].opcode = Bye
    BY <1>22, <1>23
  <2>2. k + i \in 1..N /\ k + i <= m
    BY <1>4, <1>9, <1>16
  <2>3. k + i = N
    <3>1. k + i \notin 1..(N - 1)
      BY <1>3, <2>1 DEF ByeIsLast, N
    <3>. QED BY <1>4, <2>2, <3>1
  <2>4. m = N /\ y = Len(s)
    <3>1. m = N
      BY <1>4, <1>16, <2>2, <2>3
    <3>. QED BY <1>7, <1>y, <3>1
  <2>5. d <= u + n
    BY <1>17, <1>b
  <2>6. n = w
    BY ONLY <1>4, <1>7, <1>9, <1>a, <1>d, <2>4, <2>5
  <2>7. rest \in Seq(Nat) /\ Len(rest) = 0
    BY <1>4, <1>8, <2>6
  <2>8. rest = <<>>
    BY ONLY <2>7, EmptySeq
  <2>. QED BY <1>11, <2>8
<1>24. ASSUME ~closed', NEW i \in 1..m PROVE sent[i].opcode # Bye
  <2>1. CASE i <= k
    <3>1. i \in 1..k
      BY <1>9, <2>1
    <3>. QED BY <1>6, <3>1
  <2>2. CASE ~(i <= k)
    <3>. DEFINE j == i - k
    <3>1. j \in 1..(m - k) /\ k + j = i
      BY <1>9, <1>16, <2>2
    <3>. HIDE DEF j
    <3>. QED BY <1>22, <1>24, <3>1
  <2>. QED BY <2>1, <2>2
<1>25. wire' \in Seq(Nat) /\ Len(wire') = w - n /\ \A j \in 1..(w - n) : wire'[j] = wire[n + j]
  BY <1>8, <1>11
<1>26. Len(buf') + Len(wire') = Len(s) - y
  <2>1. Len(buf') = u + n - d /\ Len(wire') = w - n
    BY <1>19, <1>25
  <2>2. u + n - d + (w - n) = Len(s) - y
    BY ONLY <1>a, <1>d, <1>e
  <2>3. u + n - d \in Nat /\ w - n \in Nat
    BY ONLY <1>4, <1>9, <1>17, <1>b, <1>d
  <2>. QED BY <2>1, <2>2, <2>3
<1>27. ASSUME NEW j \in 1..Len(buf') PROVE buf'[j] = s[y + j]
  <2>1. j \in 1..(u + n - d)
    BY <1>19
  <2>2. d + j \in 1..(u + n) /\ z + (d + j) = y + j
    BY ONLY <1>4, <1>9, <1>d, <2>1
  <2>3. d + j \in 1..Len(b)
    BY <1>b, <2>2
  <2>4. b[d + j] = s[z + (d + j)]
    BY <1>12, <2>3
  <2>. QED BY <1>19, <2>1, <2>2, <2>4
<1>28. ASSUME NEW j \in 1..Len(wire') PROVE wire'[j] = s[y + Len(buf') + j]
  <2>1. j \in 1..(w - n)
    BY <1>25
  <2>2. n + j \in 1..w /\ z + u + (n + j) = y + (u + n - d) + j
    BY ONLY <1>4, <1>9, <1>16, <1>d, <2>1
  <2>3. wire[n + j] = s[z + u + (n + j)]
    BY <1>6, <2>2
  <2>4. Len(buf') = u + n - d
    BY <1>19
  <2>. QED BY <1>25, <2>1, <2>2, <2>3, <2>4
<1>29. ASSUME m < N PROVE Len(buf') < at[m + 1] - y
  <2>. DEFINE x == at[m + 1]
  <2>1. m + 1 \in 0..N
    BY <1>4, <1>16, <1>29
  <2>2. x \in Nat /\ x - z > Len(b)
    BY <1>7, <1>14, <1>29, <2>1 DEF z
  <2>. HIDE DEF x
  <2>3. u + n - d < x - y
    BY ONLY <1>4, <1>9, <1>16, <1>b, <1>d, <2>2
  <2>4. Len(buf') = u + n - d
    BY <1>19
  <2>. QED BY <2>3, <2>4 DEF x
<1>30. Handled(s, at, m)'
  <2>1. Stream(sent', s, at, Flag) /\ m \in 0..Len(sent')
    BY <1>3, <1>6, <1>16 DEF N
  <2>2. got' = PayloadsOf(SubSeq(sent', 1, m), Text) /\ back' = Replies(SubSeq(sent', 1, m))
    BY <1>3, <1>21
  <2>3. closed' => wire' = <<>>
    BY <1>23
  <2>4. ~closed' => \A i \in 1..m : sent'[i].opcode # Bye
    BY <1>3, <1>24
  <2>5. Len(buf') + Len(wire') = Len(s) - at[m]
    BY <1>26, <1>y
  <2>6. \A j \in 1..Len(buf') : buf'[j] = s[at[m] + j]
    BY <1>27, <1>y
  <2>7. \A j \in 1..Len(wire') : wire'[j] = s[at[m] + Len(buf') + j]
    BY <1>28, <1>y
  <2>8. m < Len(sent') => Len(buf') < at[m + 1] - at[m]
    BY <1>3, <1>29, <1>y DEF N
  <2>. QED BY <2>1, <2>2, <2>3, <2>4, <2>5, <2>6, <2>7, <2>8 DEF Handled
<1>31. closed' \in BOOLEAN
  BY <1>22
<1>. QED BY <1>3, <1>19, <1>25, <1>30, <1>31 DEF WsInv

\* the connection breaks
LEMMA WsInvError == WsInv /\ OnError => WsInv'
<1>. SUFFICES ASSUME WsInv, OnError PROVE WsInv'
  OBVIOUS
<1>1. PICK s, at, k : Handled(s, at, k)
  BY DEF WsInv
<1>2. closed' = TRUE /\ wire' = <<>> /\ sent' = sent /\ buf' = buf /\ got' = got /\ back' = back
  BY DEF OnError
<1>3. Handled(s, at, k)'
  BY <1>1, <1>2 DEF Handled
<1>4. <<>> \in Seq(Nat)
  BY EmptySeq
<1>. QED BY <1>2, <1>3, <1>4 DEF WsInv

\* nothing that the theorems speak of changes
LEMMA WsInvStutter == WsInv /\ UNCHANGED wsVars => WsInv'
<1>. SUFFICES ASSUME WsInv, UNCHANGED wsVars PROVE WsInv'
  OBVIOUS
<1>1. PICK s, at, k : Handled(s, at, k)
  BY DEF WsInv
<1>2. /\ closed' = closed /\ wire' = wire /\ sent' = sent /\ buf' = buf /\ got' = got
      /\ back' = back
  BY DEF wsVars
<1>3. Handled(s, at, k)'
  BY <1>1, <1>2 DEF Handled
<1>. QED BY <1>2, <1>3 DEF WsInv

\* In every reachable state the bytes are divided as the invariant says
\* (websocket.js:26-50).
THEOREM WsInvariant == WsSpec => []WsInv
<1>1. WsInv /\ [WsNext]_wsVars => WsInv'
  <2>1. CASE ClientSends
    BY <2>1, WsInvSends
  <2>2. CASE OnData
    BY <2>2, WsInvData
  <2>3. CASE OnError
    BY <2>3, WsInvError
  <2>4. CASE UNCHANGED wsVars
    BY <2>4, WsInvStutter
  <2>. QED BY <2>1, <2>2, <2>3, <2>4 DEF WsNext
<1>. QED BY WsInvInit, <1>1, PTL DEF WsSpec

\* when nothing is on its way, nothing of a frame is in the buffer
LEMMA AllHandled ==
  ASSUME WsInv, NEW s, NEW at, NEW k, Handled(s, at, k), wire = <<>>, ~closed
  PROVE  k = Len(sent) /\ buf = <<>>
<1>. DEFINE n == Len(sent)
            z == at[k]
            u == Len(buf)
<1>1. sent \in Seq(Frames) /\ buf \in Seq(Nat) /\ Len(wire) = 0
  BY EmptySeq DEF WsInv
<1>2. /\ Stream(sent, s, at, Flag) /\ k \in 0..n /\ u + Len(wire) = Len(s) - z
      /\ k < n => u < at[k + 1] - z
  BY DEF Handled
<1>3. n \in Nat /\ u \in Nat
  BY ONLY <1>1, LenProperties
<1>4. /\ Len(s) \in Nat /\ at[n] = Len(s)
      /\ \A j \in 0..n : at[j] \in Nat /\ at[j] <= Len(s)
  <2>1. Stream(sent, s, at, Flag)
    BY <1>2
  <2>2. /\ Len(s) \in Nat /\ \A j \in 0..n : at[j] \in Nat /\ at[j] <= Len(s)
    BY ONLY <2>1, StreamGrows
  <2>3. at[n] = Len(s)
    BY <2>1 DEF Stream
  <2>. QED BY <2>2, <2>3
<1>5. z \in Nat
  BY <1>2, <1>4
<1>6. u = Len(s) - z
  BY <1>1, <1>2, <1>3
<1>. HIDE DEF n, u
<1>7. k = n
  <2>. SUFFICES ASSUME k < n PROVE FALSE
    BY <1>2, <1>3
  <2>. DEFINE x == at[k + 1]
  <2>1. k + 1 \in 0..n
    BY <1>2, <1>3
  <2>2. x \in Nat /\ x <= Len(s) /\ u < x - z
    BY <1>2, <1>4, <2>1
  <2>. HIDE DEF x, z
  <2>. QED BY ONLY <1>4, <1>5, <1>6, <2>2
<1>8. u = 0
  <2>1. z = Len(s)
    BY <1>4, <1>7
  <2>. QED BY <1>4, <1>6, <2>1
<1>9. buf = <<>>
  BY <1>1, <1>8, EmptySeq DEF u
<1>. QED BY <1>7, <1>9 DEF n

\* the first k frames, and the rest of them
LEMMA SentParts ==
  ASSUME WsInv, NEW k \in 0..Len(sent)
  PROVE  /\ SubSeq(sent, 1, k) \in Seq(Frames) /\ Len(SubSeq(sent, 1, k)) = k
         /\ \A i \in 1..k : SubSeq(sent, 1, k)[i] = sent[i]
         /\ k = Len(sent) => SubSeq(sent, 1, k) = sent
         /\ \A o \in Nat : /\ PayloadsOf(SubSeq(sent, 1, k), o) \in Seq(Seq(Byte))
                           /\ PayloadsOf(sent, o) \in Seq(Seq(Byte))
                           /\ IsPrefix(PayloadsOf(SubSeq(sent, 1, k), o), PayloadsOf(sent, o))
<1>. DEFINE a == SubSeq(sent, 1, k)
            b == SubSeq(sent, k + 1, Len(sent))
<1>1. sent \in Seq(Frames)
  BY DEF WsInv
<1>2. /\ a \in Seq(Frames) /\ Len(a) = k /\ \A i \in 1..k : a[i] = sent[i]
      /\ b \in Seq(Frames) /\ a \o b = sent
  BY ONLY <1>1, k \in 0..Len(sent), Split
<1>. HIDE DEF a, b
<1>3. k = Len(sent) => a = sent
  BY <1>1, <1>2, SeqEqual
<1>4. ASSUME NEW o \in Nat
      PROVE  /\ PayloadsOf(a, o) \in Seq(Seq(Byte)) /\ PayloadsOf(sent, o) \in Seq(Seq(Byte))
             /\ IsPrefix(PayloadsOf(a, o), PayloadsOf(sent, o))
  <2>1. a \in Seq(Frames) /\ b \in Seq(Frames)
    BY <1>2
  <2>2. /\ PayloadsOf(a, o) \in Seq(Seq(Byte)) /\ PayloadsOf(b, o) \in Seq(Seq(Byte))
        /\ PayloadsOf(a \o b, o) = PayloadsOf(a, o) \o PayloadsOf(b, o)
    BY ONLY <2>1, PayloadsConcat
  <2>3. PayloadsOf(sent, o) \in Seq(Seq(Byte))
    BY ONLY <1>1, PayloadsConcat
  <2>. DEFINE p == PayloadsOf(a, o)
              r == PayloadsOf(b, o)
  <2>4. p \in Seq(Seq(Byte)) /\ r \in Seq(Seq(Byte)) /\ PayloadsOf(sent, o) = p \o r
    BY <1>2, <2>2
  <2>. HIDE DEF p, r
  <2>5. IsPrefix(p, p \o r)
    BY ONLY <2>4, PrefixConcat
  <2>. QED BY <2>2, <2>3, <2>4, <2>5 DEF p
<1>. QED BY <1>2, <1>3, <1>4 DEF a

\* The relay is handed the client's messages whole, in order and once, and has
\* all of them when every byte has arrived (websocket.js:28-50).
THEOREM MessagesArriveIntact == WsSpec => []MessagesIntact
<1>1. WsInv => MessagesIntact
  <2>. SUFFICES ASSUME WsInv PROVE MessagesIntact
    OBVIOUS
  <2>1. PICK s, at, k : Handled(s, at, k)
    BY DEF WsInv
  <2>2. k \in 0..Len(sent) /\ got = PayloadsOf(SubSeq(sent, 1, k), Text) /\ Text \in Nat
    BY <2>1 DEF Handled, Text
  <2>3. IsPrefix(got, PayloadsOf(sent, Text))
    BY <2>2, SentParts
  <2>4. ASSUME wire = <<>>, ~closed PROVE got = PayloadsOf(sent, Text) /\ buf = <<>>
    <3>1. k = Len(sent) /\ buf = <<>>
      BY <2>1, <2>4, AllHandled
    <3>2. SubSeq(sent, 1, k) = sent
      BY <2>2, <3>1, SentParts
    <3>. QED BY <2>2, <3>1, <3>2
  <2>. QED BY <2>3, <2>4 DEF MessagesIntact
<1>. QED BY WsInvariant, <1>1, PTL

\* What is written can be read as frames: a pong for each ping with the ping's
\* payload, in order, and nothing after a closing frame (websocket.js:9-22,
\* 46-47).
THEOREM PingsGetAnswers == WsSpec => []PingsAnswered
<1>1. WsInv => PingsAnswered
  <2>. SUFFICES ASSUME WsInv PROVE PingsAnswered
    OBVIOUS
  <2>1. PICK s, at, k : Handled(s, at, k)
    BY DEF WsInv
  <2>2. /\ k \in 0..Len(sent) /\ back = Replies(SubSeq(sent, 1, k)) /\ Ping \in Nat
        /\ ~closed => \A i \in 1..k : sent[i].opcode # Bye
    BY <2>1 DEF Handled, Ping
  <2>. DEFINE q == SubSeq(sent, 1, k)
  <2>3. /\ q \in Seq(Frames) /\ Len(q) = k /\ \A i \in 1..k : q[i] = sent[i]
        /\ k = Len(sent) => q = sent
        /\ PayloadsOf(q, Ping) \in Seq(Seq(Byte)) /\ PayloadsOf(sent, Ping) \in Seq(Seq(Byte))
        /\ IsPrefix(PayloadsOf(q, Ping), PayloadsOf(sent, Ping))
    BY <2>2, SentParts
  <2>. HIDE DEF q
  <2>4. ByeIsLast(q)
    <3>1. Len(sent) \in Nat
      BY LenProperties DEF WsInv
    <3>2. \A i \in 1..(k - 1) : i \in 1..k /\ i \in 1..(Len(sent) - 1)
      BY <2>2, <3>1
    <3>. QED BY <2>3, <3>2 DEF ByeIsLast, WsInv
  <2>5. PICK a, e : Answers(a, e, q)
    <3>1. q \in Seq(Frames)
      BY <2>3
    <3>. QED BY ONLY <2>4, <3>1, RepliesRead
  <2>6. /\ Stream(a, back, e, 0) /\ ByeIsLast(a)
        /\ PayloadsOf(a, Pong) = PayloadsOf(q, Ping)
        /\ NoBye(q) => Len(a) = Len(PayloadsOf(q, Ping))
    BY <2>2, <2>5 DEF Answers, q
  <2>7. /\ Len(a) \in Nat /\ Len(back) \in Nat /\ e[0] = 0 /\ e[Len(a)] = Len(back)
        /\ \A j \in 0..Len(a) : e[j] \in Nat /\ e[j] <= Len(back)
        /\ back \in Seq(Nat) /\ a \in Seq(Frames)
    <3>1. Stream(a, back, e, 0)
      BY <2>6
    <3>2. /\ Len(a) \in Nat /\ Len(back) \in Nat
          /\ \A j \in 0..Len(a) : e[j] \in Nat /\ e[j] <= Len(back)
      BY ONLY <3>1, StreamGrows
    <3>. QED BY <3>1, <3>2 DEF Stream
  <2>8. Loop(back) = [frames |-> a, at |-> Len(back)]
    <3>1. 0 \in 0..Len(a) /\ Len(back) <= Len(back) - e[0]
      BY <2>7
    <3>2. \A j \in 1..Len(back) : back[j] = back[e[0] + j]
      BY <2>7
    <3>3. Stream(a, back, e, 0) /\ ByeIsLast(a) /\ back \in Seq(Nat)
      BY <2>6, <2>7
    <3>4. \E m \in 0..Len(a) :
             /\ Loop(back) = [frames |-> SubSeq(a, 0 + 1, m), at |-> e[m] - e[0]]
             /\ e[m] - e[0] <= Len(back)
             /\ m < Len(a) => e[m + 1] - e[0] > Len(back)
      BY ONLY <3>1, <3>2, <3>3, LoopReads
    <3>5. PICK m \in 0..Len(a) :
             /\ Loop(back) = [frames |-> SubSeq(a, 0 + 1, m), at |-> e[m] - e[0]]
             /\ m < Len(a) => e[m + 1] - e[0] > Len(back)
      BY <3>4
    <3>6. m = Len(a)
      <4>. SUFFICES ASSUME m < Len(a) PROVE FALSE
        BY <2>7
      <4>. DEFINE x == e[m + 1]
      <4>1. m + 1 \in 0..Len(a)
        BY <2>7
      <4>2. x \in Nat /\ x <= Len(back) /\ x - 0 > Len(back)
        BY <2>7, <3>5, <4>1
      <4>. HIDE DEF x
      <4>. QED BY <2>7, <4>2
    <3>7. SubSeq(a, 1, Len(a)) = a /\ 0 + 1 = 1
      <4>1. a \in Seq(Frames) /\ Len(a) \in 0..Len(a)
        BY <2>7
      <4>. DEFINE c == SubSeq(a, 1, Len(a))
      <4>2. c \in Seq(Frames) /\ Len(c) = Len(a) /\ \A i \in 1..Len(a) : c[i] = a[i]
        BY ONLY <4>1, Split
      <4>. HIDE DEF c
      <4>3. c = a
        BY <4>1, <4>2, SeqEqual
      <4>. QED BY <4>3 DEF c
    <3>8. e[m] - e[0] = Len(back)
      BY <2>7, <3>6
    <3>. QED BY <3>5, <3>6, <3>7, <3>8
  <2>9. ASSUME wire = <<>>, ~closed
        PROVE  PayloadsOf(a, Pong) = PayloadsOf(sent, Ping) /\ Len(a) = Len(PayloadsOf(sent, Ping))
    <3>1. k = Len(sent)
      BY <2>1, <2>9, AllHandled
    <3>2. q = sent
      BY <2>3, <3>1
    <3>3. NoBye(q)
      BY <2>2, <2>3, <2>9 DEF NoBye
    <3>. QED BY <2>6, <3>2, <3>3
  <2>10. Loop(back).at = Len(back) /\ Loop(back).frames = a
    BY ONLY <2>8
  <2>11. IsPrefix(PayloadsOf(a, Pong), PayloadsOf(sent, Ping))
    BY <2>3, <2>6
  <2>. QED BY <2>9, <2>10, <2>11 DEF PingsAnswered
<1>. QED BY WsInvariant, <1>1, PTL

=============================================================================
