---------------------------- MODULE FrostProofs ----------------------------
(***************************************************************************)
(* What the officers sign is proved for all curves, groups and secrets:    *)
(* first what bip340.js computes (powers, points in Jacobian coordinates,  *)
(* double and add, lifting, verifying), then what frost.js does with it,   *)
(* and last the rule of zeroport.js that counts signatures of single       *)
(* officers, for all peers, officers, thresholds, leases and rosters.      *)
(***************************************************************************)
EXTENDS Frost, RosterQuorum, CommonLemmas, TLAPS
-----------------------------------------------------------------------------
(***************************************************************************)
(* Square and multiply.                                                    *)
(***************************************************************************)
\* the loop of Pow
LEMMA PowLoop ==
  ASSUME NEW m \in Nat \ {0}
  PROVE  \E f : /\ HalvesAway(f, Nat, [d \in Nat \X Nat |-> Res(d[1] * d[2], m)], [x \in Nat |-> Res(x * x, m)])
                /\ \A b, e : Pow(b, e, m) = f[<<1, Res(b, m), e>>]
<1>. DEFINE H(loop) ==
              [v \in Nat \X Nat \X Nat |->
                 IF v[3] = 0 THEN v[1]
                 ELSE loop[<<IF v[3] % 2 = 1 THEN (v[1] * v[2]) % m ELSE v[1], (v[2] * v[2]) % m, v[3] \div 2>>]]
            f == CHOOSE f : f = H(f)
            take == [d \in Nat \X Nat |-> Res(d[1] * d[2], m)]
            dbl == [x \in Nat |-> Res(x * x, m)]
<1>1. \A b, e : Pow(b, e, m) = f[<<1, Res(b, m), e>>]
  BY DEF Pow, Res
<1>2. ASSUME NEW x \in Nat, NEW y \in Nat PROVE Res(x * y, m) \in Nat
  <2>. DEFINE p == x * y
  <2>1. p \in Int
    OBVIOUS
  <2>. HIDE DEF p
  <2>2. Res(p, m) \in 0..(m - 1)
    BY <2>1, Division
  <2>3. Res(p, m) \in Nat
    BY <2>2
  <2>. QED BY <2>3 DEF p
<1>3. take \in [Nat \X Nat -> Nat] /\ dbl \in [Nat -> Nat]
  BY <1>2
<1>4. ASSUME NEW x \in Nat, NEW y \in Nat PROVE take[<<x, y>>] = (x * y) % m
  BY DEF Res
<1>5. ASSUME NEW x \in Nat PROVE dbl[x] = (x * x) % m
  BY DEF Res
<1>. HIDE DEF take, dbl
<1>6. PICK g : HalvesAway(g, Nat, take, dbl)
  BY <1>3, HalvingLoop
<1>7. g = H(g)
  BY <1>4, <1>5, <1>6 DEF HalvesAway
<1>8. f = H(f)
  <2>1. \E p : p = H(p)
    BY <1>7
  <2>. HIDE DEF H
  <2>. QED BY <2>1
<1>. HIDE DEF f
<1>9. HalvesAway(f, Nat, take, dbl)
  BY <1>4, <1>5, <1>8 DEF HalvesAway
<1>. QED BY <1>1, <1>9 DEF take, dbl

\* square and multiply is the power
LEMMA PowIs ==
  ASSUME NEW m \in Nat \ {0}, m > 1, NEW b \in Int, NEW e \in Nat
  PROVE  Pow(b, e, m) = Res(Raised(b)[e], m)
<1>. DEFINE V == 0..(m - 1)
            take == [d \in Nat \X Nat |-> Res(d[1] * d[2], m)]
            dbl == [x \in Nat |-> Res(x * x, m)]
<1>1. PICK f : HalvesAway(f, Nat, take, dbl) /\ \A a, n : Pow(a, n, m) = f[<<1, Res(a, m), n>>]
  BY PowLoop
<1>2. \A x, y \in Nat : take[<<x, y>>] = Res(x * y, m)
  OBVIOUS
<1>3. \A x \in Nat : dbl[x] = Res(x * x, m)
  OBVIOUS
<1>. HIDE DEF take, dbl
<1>4. V \subseteq Nat /\ V \subseteq Int /\ 0 \in V /\ 1 \in V
  OBVIOUS
<1>. DEFINE T == {n \in Nat : \A r, x \in V : f[<<r, x, n>>] = Res(r * Raised(x)[n], m)}
<1>5. ASSUME NEW r \in V, NEW x \in V PROVE f[<<r, x, 0>>] = Res(r * Raised(x)[0], m)
  <2>1. r \in Nat /\ x \in Nat /\ x \in Int /\ r \in 0..(m - 1) /\ r * 1 = r /\ 0 \in Nat
    OBVIOUS
  <2>2. f[<<r, x, 0>>] = r
    <3>. DEFINE n == 0
    <3>0. n \in Nat
      OBVIOUS
    <3>1. n = 0
      OBVIOUS
    <3>. HIDE DEF n
    <3>2. f[<<r, x, n>>] = IF n = 0 THEN r ELSE f[<<IF n % 2 = 1 THEN take[<<r, x>>] ELSE r, dbl[x], n \div 2>>]
      BY <1>1, <2>1, <3>0, HalvesOn
    <3>. QED BY <3>1, <3>2
  <2>3. Raised(x)[0] = 1
    BY <2>1, RaisedSteps
  <2>4. Res(r, m) = r
    BY <2>1, ResSmall
  <2>. QED BY <2>1, <2>2, <2>3, <2>4
<1>6. 0 \in T
  BY <1>5
<1>7. ASSUME NEW n \in Nat \ {0}, n \div 2 \in T PROVE n \in T
  <2>. DEFINE h == n \div 2
  <2>1. h \in Nat /\ n \in Nat /\ n # 0 /\ (n % 2 = 1 => n = 2 * h + 1) /\ (n % 2 # 1 => n = 2 * h) /\ 2 * h \in Nat
    OBVIOUS
  <2>a. \A r, x \in V : f[<<r, x, h>>] = Res(r * Raised(x)[h], m)
    BY <1>7
  <2>. HIDE DEF h, T
  <2>2. ASSUME NEW r \in V, NEW x \in V PROVE f[<<r, x, n>>] = Res(r * Raised(x)[n], m)
    <3>. DEFINE p == x * x
                y == Res(p, m)
                q == r * x
                s == IF n % 2 = 1 THEN Res(q, m) ELSE r
                z == IF n % 2 = 1 THEN q ELSE r
                u == Raised(x)[2 * h]
                w == Raised(y)[h]
    <3>1. r \in Nat /\ x \in Nat /\ x \in Int /\ r \in Int /\ p \in Int /\ q \in Int /\ z \in Int
      BY <1>4
    <3>2. f[<<r, x, n>>] = f[<<s, y, h>>]
      <4>1. f[<<r, x, n>>] = f[<<IF n % 2 = 1 THEN take[<<r, x>>] ELSE r, dbl[x], n \div 2>>]
        BY <1>1, <2>1, <3>1, HalvesOn
      <4>. QED BY <1>2, <1>3, <3>1, <4>1 DEF h
    <3>3. y \in V /\ y \in Int /\ Cong(y, p, m)
      <4>. HIDE DEF p
      <4>. QED BY <3>1, CongRes
    <3>4. s \in V /\ s \in Int /\ Cong(s, z, m)
      <4>. HIDE DEF q
      <4>1. CASE n % 2 = 1
        BY <3>1, <4>1, CongRes
      <4>2. CASE n % 2 # 1
        BY <3>1, <4>2, CongSelf
      <4>. QED BY <4>1, <4>2
    <3>5. w \in Int /\ u \in Int
      BY <2>1, <3>1, <3>3, RaisedSteps
    <3>6. Cong(w, u, m)
      <4>1. Res(Raised(y)[h], m) = Res(Raised(p)[h], m)
        <5>. HIDE DEF p, y
        <5>. QED BY <2>1, <3>1, <3>3, RaisedRes DEF Cong
      <4>2. Raised(p)[h] = Raised(x)[2 * h]
        BY <2>1, <3>1, RaisedSquare
      <4>. QED BY <4>1, <4>2 DEF Cong
    <3>7. f[<<s, y, h>>] = Res(s * w, m)
      <4>. HIDE DEF s, y
      <4>. QED BY <2>a, <3>3, <3>4
    <3>8. z * u = r * Raised(x)[n]
      <4>1. CASE n % 2 = 1
        <5>. DEFINE A == Raised(x)
                    k == 2 * h
        <5>1. A[k + 1] = x * A[k]
          BY <2>1, <3>1, RaisedSteps
        <5>2. n = k + 1 /\ u = A[k]
          BY <2>1, <4>1
        <5>3. z = r * x
          BY <4>1
        <5>. HIDE DEF A, k, u, z
        <5>4. (r * x) * u = r * (x * u)
          BY <3>1, <3>5
        <5>. QED BY <5>1, <5>2, <5>3, <5>4 DEF A
      <4>2. CASE n % 2 # 1
        BY <2>1, <4>2
      <4>. QED BY <4>1, <4>2
    <3>9. Cong(s * w, z * u, m)
      <4>. DEFINE a == s * w
                  c == z * u
      <4>1. a \in Int /\ c \in Int
        <5>. HIDE DEF s, w, z, u
        <5>. QED BY <3>1, <3>4, <3>5
      <4>. HIDE DEF s, w, z, u
      <4>. QED BY <3>1, <3>4, <3>5, <3>6, <4>1, CongTimes
    <3>. HIDE DEF s, w, z, u, y
    <3>. QED BY <3>2, <3>7, <3>8, <3>9 DEF Cong
  <2>. QED BY <2>1, <2>2 DEF T
<1>. HIDE DEF T
<1>8. e \in T
  BY <1>6, <1>7, Halving
<1>. DEFINE x == Res(b, m)
<1>9. x \in V /\ x \in Int /\ Res(x, m) = Res(b, m)
  BY CongRes DEF Cong
<1>10. Pow(b, e, m) = f[<<1, x, e>>]
  BY <1>1
<1>11. Res(Raised(x)[e], m) = Res(Raised(b)[e], m)
  <2>. HIDE DEF x
  <2>. QED BY <1>9, RaisedRes
<1>12. f[<<1, x, e>>] = Res(1 * Raised(x)[e], m)
  <2>. HIDE DEF x
  <2>. QED BY <1>4, <1>8, <1>9 DEF T
<1>13. Raised(x)[e] \in Int
  BY <1>9, RaisedSteps
<1>. HIDE DEF x
<1>14. 1 * Raised(x)[e] = Raised(x)[e]
  BY <1>13
<1>. QED BY <1>10, <1>11, <1>12, <1>14

(***************************************************************************)
(* bip340.js:13-18: the power m - 2 inverts whatever is not 0, by Fermat.  *)
(***************************************************************************)
THEOREM InvInverts ==
  ASSUME NEW m \in Nat \ {0}, Prime(m), m > 2, NEW a \in Int, Res(a, m) # 0
  PROVE  Inv(a, m) \in 0..(m - 1) /\ Inv(a, m) \in Int /\ Res(a * Inv(a, m), m) = 1
<1>. DEFINE n == m - 2
            A == Raised(a)
            u == A[n]
<1>1. n \in Nat /\ m - 1 = n + 1
  OBVIOUS
<1>2. u \in Int /\ A[n + 1] = a * u
  BY <1>1, RaisedSteps
<1>3. Inv(a, m) = Res(u, m)
  BY <1>1, PowIs DEF Inv
<1>4. Res(A[n + 1], m) = 1
  BY <1>1, FermatLittle
<1>. HIDE DEF u, A
<1>5. Res(u, m) \in 0..(m - 1) /\ Res(u, m) \in Int
  BY <1>2, Division
<1>6. Res(a * Res(u, m), m) = Res(a * u, m)
  BY <1>2, ResIn
<1>. QED BY <1>2, <1>3, <1>4, <1>5, <1>6
-----------------------------------------------------------------------------
(***************************************************************************)
(* The assumptions, and lines in scaled coordinates: what Jacobian         *)
(* coordinates compute for the third point of a line is that point.        *)
(***************************************************************************)
\* what is assumed of the field, as it is cited
LEMMA FieldFacts ==
  P \in Nat \ {0} /\ P \in Nat /\ P \in Int /\ P > 7 /\ Prime(P) /\ Field = 0..(P - 1) /\ Field \subseteq Int
BY FieldAssumption DEF Prime, Field

\* what is assumed of the order, as it is cited
LEMMA OrderFacts ==
  N \in Nat \ {0} /\ N \in Nat /\ N \in Int /\ N > 2 /\ Prime(N) /\ Scalar = 0..(N - 1) /\ Scalar \subseteq Int
BY OrderAssumption DEF Prime, Scalar

\* a quotient times its divisor
LEMMA SlopeIs ==
  ASSUME NEW m \in Nat \ {0}, Prime(m), m > 2, NEW a \in Int, Res(a, m) # 0, NEW b \in Int,
         NEW l, l = Res(b * Inv(a, m), m)
  PROVE  l \in Int /\ l \in 0..(m - 1) /\ Cong(l * a, b, m)
<1>. DEFINE i == Inv(a, m)
            u == b * i
            v == a * i
<1>1. i \in Int /\ Res(v, m) = 1
  BY InvInverts
<1>2. u \in Int /\ v \in Int
  BY <1>1
<1>3. Cong(l, u, m) /\ l \in Int /\ l \in 0..(m - 1)
  <2>. HIDE DEF u
  <2>1. l = Res(u, m)
    BY DEF u
  <2>. QED BY <1>2, <2>1, CongRes
<1>4. Res(l * a, m) = Res(u * a, m)
  <2>. HIDE DEF u
  <2>. QED BY <1>2, <1>3, ZenonT(30), ResTimesBy DEF Cong
<1>5. u * a = v * b
  BY <1>1
<1>6. 1 \in 0..(m - 1) /\ 1 \in Int /\ Res(1, m) = 1
  BY ResSmall
<1>7. Res(v * b, m) = Res(1 * b, m)
  <2>1. Res(v, m) = Res(1, m)
    BY <1>1, <1>6
  <2>. HIDE DEF v
  <2>. QED BY <1>2, <1>6, <2>1, ZenonT(30), ResTimesBy
<1>8. 1 * b = b
  OBVIOUS
<1>. QED BY <1>3, <1>4, <1>5, <1>7, <1>8 DEF Cong

Square(a) == a * a
Cube(a) == (a * a) * a

\* <<X, Y>> is <<x, y>> by the powers of z
Scaled(X, Y, x, y, z, m) == Cong(X, x * Square(z), m) /\ Cong(Y, y * Cube(z), m)

\* a line of slope l through <<x, y>> meets the curve in a point that mirrors <<x3, y3>>,
\* where o is the sum of two points' x; and the same, scaled by z
OnLine(l, x, y, o, x3, y3, m) ==
  /\ l \in Int /\ x \in Int /\ y \in Int /\ o \in Int
  /\ x3 = Res(l * l - o, m) /\ y3 = Res(l * (x - x3) - y, m)

OnScaledLine(r, V, W, T, X3, Y3, l, z, x, y, o, m) ==
  /\ r \in Int /\ V \in Int /\ W \in Int /\ T \in Int /\ z \in Int
  /\ Cong(r, l * z, m) /\ Cong(V, x * Square(z), m) /\ Cong(W, o * Square(z), m) /\ Cong(T, y * Cube(z), m)
  /\ X3 = Res(r * r - W, m) /\ Y3 = Res(r * (V - X3) - T, m)

\* the third point of a line is the same in both coordinates
LEMMA Chord ==
  ASSUME NEW m \in Nat \ {0}, NEW l, NEW z, NEW x, NEW y, NEW o, NEW r, NEW V, NEW W, NEW T,
         NEW x3, NEW y3, NEW X3, NEW Y3,
         OnLine(l, x, y, o, x3, y3, m), OnScaledLine(r, V, W, T, X3, Y3, l, z, x, y, o, m)
  PROVE  Scaled(X3, Y3, x3, y3, z, m)
<1>. DEFINE z2 == z * z
            z3 == z2 * z
<1>a. /\ l \in Int /\ z \in Int /\ x \in Int /\ y \in Int /\ o \in Int /\ r \in Int /\ V \in Int
      /\ W \in Int /\ T \in Int
  BY DEF OnLine, OnScaledLine
<1>b. z2 \in Int
  BY <1>a
<1>c. z3 \in Int
  <2>. HIDE DEF z2
  <2>. QED BY <1>a, <1>b
<1>d. z2 = z * z /\ z3 = z2 * z /\ z2 = Square(z) /\ z3 = Cube(z)
  BY DEF Square, Cube
<1>. HIDE DEF z2, z3
<1>e. /\ Cong(r, l * z, m) /\ Cong(V, x * z2, m) /\ Cong(W, o * z2, m) /\ Cong(T, y * z3, m)
      /\ x3 = Res(l * l - o, m) /\ y3 = Res(l * (x - x3) - y, m)
      /\ X3 = Res(r * r - W, m) /\ Y3 = Res(r * (V - X3) - T, m)
  BY <1>d DEF OnLine, OnScaledLine
<1>. SUFFICES Cong(X3, x3 * z2, m) /\ Cong(Y3, y3 * z3, m)
  BY <1>d DEF Scaled
<1>. USE <1>a, <1>b, <1>c, <1>d, <1>e
<1>. DEFINE a == l * l - o
            u == r * r
            v == u - W
            lz == l * z
            p == lz * lz
            xz == x * z2
            oz == o * z2
            yz == y * z3
            c == p - oz
            d == x3 * z2
            e == a * z2
<1>1. lz \in Int /\ xz \in Int /\ oz \in Int /\ yz \in Int /\ a \in Int /\ u \in Int
  OBVIOUS
<1>2. p \in Int /\ v \in Int /\ e \in Int
  <2>. HIDE DEF lz, u, a
  <2>. QED BY <1>1
<1>3. c \in Int
  <2>. HIDE DEF p, oz
  <2>. QED BY <1>1, <1>2
<1>4. Cong(x3, a, m) /\ x3 \in Int
  <2>. HIDE DEF a
  <2>1. x3 = Res(a, m)
    BY DEF a
  <2>. QED BY <1>1, <2>1, CongRes
<1>5. Cong(X3, v, m) /\ X3 \in Int
  <2>. HIDE DEF v
  <2>1. X3 = Res(v, m)
    BY DEF v
  <2>. QED BY <1>2, <2>1, CongRes
<1>6. d \in Int
  BY <1>4
<1>7. Cong(u, p, m)
  <2>. HIDE DEF lz
  <2>1. u = r * r /\ p = lz * lz /\ Cong(r, lz, m)
    BY DEF lz
  <2>. HIDE DEF u, p
  <2>. QED BY ONLY <1>1, <1>2, <2>1, r \in Int, m \in Nat \ {0}, CongTimes
<1>8. Cong(v, c, m)
  <2>1. v = u - W /\ c = p - oz /\ Cong(W, oz, m)
    OBVIOUS
  <2>. HIDE DEF u, p, oz, v, c
  <2>. QED BY ONLY <1>1, <1>2, <1>3, <1>7, <2>1, W \in Int, m \in Nat \ {0}, CongMinus
<1>9. c = e
  <2>1. (l * z) * (l * z) - o * (z * z) = (l * l - o) * (z * z)
    OBVIOUS
  <2>. QED BY <2>1
<1>10. Cong(d, e, m)
  <2>1. d = x3 * z2 /\ e = a * z2 /\ Cong(z2, z2, m)
    BY CongSelf
  <2>. HIDE DEF a, d, e
  <2>. QED BY ONLY <1>1, <1>2, <1>4, <1>6, <2>1, z2 \in Int, m \in Nat \ {0}, CongTimes
<1>11. Cong(X3, d, m)
  <2>. HIDE DEF v, c, d, e
  <2>1. Cong(X3, e, m)
    BY ONLY <1>2, <1>3, <1>5, <1>8, <1>9, m \in Nat \ {0}, CongTrans
  <2>2. Cong(e, d, m)
    BY ONLY <1>2, <1>6, <1>10, m \in Nat \ {0}, CongBack
  <2>. QED BY ONLY <1>2, <1>5, <1>6, <2>1, <2>2, m \in Nat \ {0}, CongTrans
<1>. DEFINE f == x - x3
            g == l * f
            h == g - y
            i == V - X3
            j == r * i
            k == j - T
            s == xz - d
            t == lz * s
            n == t - yz
            w == h * z3
            q == y3 * z3
<1>12. f \in Int /\ g \in Int /\ h \in Int /\ i \in Int /\ j \in Int
  <2>1. f \in Int
    BY <1>4
  <2>2. g \in Int
    <3>. HIDE DEF f
    <3>. QED BY <2>1
  <2>3. h \in Int
    <3>. HIDE DEF g
    <3>. QED BY <2>2
  <2>4. i \in Int
    BY <1>5
  <2>5. j \in Int
    <3>. HIDE DEF i
    <3>. QED BY <2>4
  <2>. QED BY <2>1, <2>2, <2>3, <2>4, <2>5
<1>13. k \in Int /\ s \in Int /\ w \in Int
  <2>. HIDE DEF j, xz, d, h
  <2>. QED BY <1>1, <1>6, <1>12
<1>14. t \in Int
  <2>. HIDE DEF lz, s
  <2>. QED BY <1>1, <1>13
<1>15. n \in Int
  <2>. HIDE DEF t, yz
  <2>. QED BY <1>1, <1>14
<1>16. Cong(y3, h, m) /\ y3 \in Int
  <2>1. y3 = Res(h, m)
    OBVIOUS
  <2>. HIDE DEF h
  <2>. QED BY <1>12, <2>1, CongRes
<1>17. Cong(Y3, k, m) /\ Y3 \in Int
  <2>1. Y3 = Res(k, m)
    OBVIOUS
  <2>. HIDE DEF k
  <2>. QED BY <1>13, <2>1, CongRes
<1>18. q \in Int
  BY <1>16
<1>19. Cong(i, s, m)
  <2>1. i = V - X3 /\ s = xz - d /\ Cong(V, xz, m)
    OBVIOUS
  <2>. HIDE DEF i, s, xz, d
  <2>. QED BY ONLY <1>1, <1>5, <1>6, <1>11, <1>12, <1>13, <2>1, V \in Int, m \in Nat \ {0}, CongMinus
<1>20. Cong(j, t, m)
  <2>1. j = r * i /\ t = lz * s /\ Cong(r, lz, m)
    OBVIOUS
  <2>. HIDE DEF i, s, j, t, lz
  <2>. QED BY ONLY <1>1, <1>12, <1>13, <1>14, <1>19, <2>1, r \in Int, m \in Nat \ {0}, CongTimes
<1>21. Cong(k, n, m)
  <2>1. k = j - T /\ n = t - yz /\ Cong(T, yz, m)
    OBVIOUS
  <2>. HIDE DEF j, t, k, n, yz
  <2>. QED BY ONLY <1>1, <1>12, <1>13, <1>14, <1>15, <1>20, <2>1, T \in Int, m \in Nat \ {0}, CongMinus
<1>22. n = w
  <2>1. (l * z) * (x * (z * z) - x3 * (z * z)) - y * ((z * z) * z) = (l * (x - x3) - y) * ((z * z) * z)
    BY <1>4
  <2>. QED BY <2>1
<1>23. Cong(q, w, m)
  <2>1. q = y3 * z3 /\ w = h * z3 /\ Cong(z3, z3, m)
    BY CongSelf
  <2>. HIDE DEF h, q, w
  <2>. QED BY ONLY <1>12, <1>13, <1>16, <1>18, <2>1, z3 \in Int, m \in Nat \ {0}, CongTimes
<1>24. Cong(Y3, q, m)
  <2>. HIDE DEF k, n, q, w
  <2>1. Cong(Y3, w, m)
    BY ONLY <1>13, <1>15, <1>17, <1>21, <1>22, m \in Nat \ {0}, CongTrans
  <2>2. Cong(w, q, m)
    BY ONLY <1>13, <1>18, <1>23, m \in Nat \ {0}, CongBack
  <2>. QED BY ONLY <1>13, <1>17, <1>18, <2>1, <2>2, m \in Nat \ {0}, CongTrans
<1>. QED BY <1>11, <1>24

\* squares of congruent numbers
LEMMA Squares ==
  ASSUME NEW m \in Nat \ {0}, NEW a \in Int, NEW b \in Int, Cong(a, b, m)
  PROVE  Cong(Square(a), Square(b), m) /\ Square(a) \in Int /\ Square(b) \in Int
BY CongMul DEF Square

\* and their cubes
LEMMA Cubes ==
  ASSUME NEW m \in Nat \ {0}, NEW a \in Int, NEW b \in Int, Cong(a, b, m)
  PROVE  Cong(Cube(a), Cube(b), m) /\ Cube(a) \in Int /\ Cube(b) \in Int
<1>1. Cong(Square(a), Square(b), m) /\ Square(a) \in Int /\ Square(b) \in Int
  BY Squares
<1>2. Cong(Square(a) * a, Square(b) * b, m)
  BY <1>1, CongMul
<1>3. Cube(a) = Square(a) * a /\ Cube(b) = Square(b) * b
  BY DEF Cube, Square
<1>. QED BY <1>1, <1>2, <1>3

\* doubling, scaled and not
Doubles(X, Y, Z, A, B, C, D, X3, Y3, z, m) ==
  /\ X \in Int /\ Y \in Int /\ Z \in Int
  /\ A = Res(X * X, m) /\ B = Res(Y * Y, m) /\ C = Res(B * B, m)
  /\ D = Res(2 * ((X + B) * (X + B) - A - C), m) /\ z = Res(2 * Y * Z, m)
  /\ X3 = Res(9 * A * A - 2 * D, m) /\ Y3 = Res(3 * A * (D - X3) - 8 * C, m)

Tangent(x, y, l, x3, y3, m) ==
  /\ x \in Int /\ y \in Int /\ l \in Int /\ Cong(l * (2 * y), 3 * Square(x), m)
  /\ x3 = Res(l * l - x - x, m) /\ y3 = Res(l * (x - x3) - y, m)

\* the Jacobian formulas for doubling are those of the tangent, scaled
LEMMA Doubling ==
  ASSUME NEW m \in Nat \ {0}, NEW X, NEW Y, NEW Z, NEW A, NEW B, NEW C, NEW D, NEW X3, NEW Y3, NEW z,
         Doubles(X, Y, Z, A, B, C, D, X3, Y3, z, m),
         NEW x, NEW y, NEW l, NEW x3, NEW y3, Tangent(x, y, l, x3, y3, m), Scaled(X, Y, x, y, Z, m)
  PROVE  Scaled(X3, Y3, x3, y3, z, m)
<1>a. /\ x \in Int /\ y \in Int /\ l \in Int /\ X \in Int /\ Y \in Int /\ Z \in Int
      /\ Cong(X, x * Square(Z), m) /\ Cong(Y, y * Cube(Z), m) /\ Cong(l * (2 * y), 3 * Square(x), m)
      /\ A = Res(X * X, m) /\ B = Res(Y * Y, m) /\ C = Res(B * B, m)
      /\ D = Res(2 * ((X + B) * (X + B) - A - C), m) /\ z = Res(2 * Y * Z, m)
      /\ X3 = Res(9 * A * A - 2 * D, m) /\ Y3 = Res(3 * A * (D - X3) - 8 * C, m)
      /\ x3 = Res(l * l - x - x, m) /\ y3 = Res(l * (x - x3) - y, m)
  BY DEF Doubles, Tangent, Scaled
<1>. USE <1>a
<1>. DEFINE a == x * Square(Z)
            b == y * Cube(Z)
            a2 == Square(a)
            b2 == Square(b)
            b4 == Square(b2)
            w == 2 * b * Z
            w2 == Square(w)
            w3 == Cube(w)
<1>0. 2 \in Int /\ 3 \in Int /\ 8 \in Int
  OBVIOUS
<1>1. a \in Int /\ b \in Int
  BY DEF Square, Cube
<1>2. Cong(X, a, m) /\ Cong(Y, b, m)
  OBVIOUS
<1>. HIDE DEF a, b
<1>3. w \in Int
  BY <1>1
<1>4. Cong(A, a2, m) /\ A \in Int /\ a2 \in Int
  <2>1. Cong(Square(X), Square(a), m) /\ Square(X) \in Int /\ a2 \in Int
    BY <1>1, <1>2, Squares
  <2>2. Cong(A, Square(X), m) /\ A \in Int
    BY <2>1, CongRes DEF Square
  <2>. QED BY <2>1, <2>2, CongTrans
<1>5. Cong(B, b2, m) /\ B \in Int /\ b2 \in Int
  <2>1. Cong(Square(Y), Square(b), m) /\ Square(Y) \in Int /\ b2 \in Int
    BY <1>1, <1>2, Squares
  <2>2. Cong(B, Square(Y), m) /\ B \in Int
    BY <2>1, CongRes DEF Square
  <2>. QED BY <2>1, <2>2, CongTrans
<1>. HIDE DEF a2, b2
<1>6. Cong(C, b4, m) /\ C \in Int /\ b4 \in Int
  <2>1. Cong(Square(B), Square(b2), m) /\ Square(B) \in Int /\ b4 \in Int
    BY <1>5, Squares
  <2>2. Cong(C, Square(B), m) /\ C \in Int
    BY <2>1, CongRes DEF Square
  <2>. QED BY <2>1, <2>2, CongTrans
<1>. HIDE DEF b4
<1>7. Cong(z, w, m) /\ z \in Int
  <2>. DEFINE u == 2 * Y
              v == 2 * b
              p == u * Z
  <2>1. Cong(u, v, m)
    BY <1>0, <1>1, <1>2, Zenon, CongBy
  <2>2. Cong(u, v, m) /\ u \in Int /\ v \in Int /\ Cong(Z, Z, m)
    BY <1>1, <2>1, CongSelf
  <2>. HIDE DEF u, v
  <2>3. Cong(u * Z, v * Z, m)
    BY <2>2, Zenon, CongMul
  <2>4. p \in Int /\ v * Z \in Int
    BY <2>2
  <2>. HIDE DEF p
  <2>5. z = Res(p, m)
    BY DEF p, u
  <2>6. Cong(z, p, m) /\ z \in Int
    BY <2>4, <2>5, CongRes
  <2>7. p = u * Z /\ w = v * Z
    BY DEF p, v
  <2>. QED BY <1>3, <2>3, <2>4, <2>6, <2>7, CongTrans
<1>. HIDE DEF w
<1>8. Cong(Square(z), w2, m) /\ Square(z) \in Int /\ w2 \in Int /\ Cong(Cube(z), w3, m) /\ Cube(z) \in Int /\ w3 \in Int
  BY <1>3, <1>7, Squares, Cubes
\* the square of the sum
<1>. DEFINE t == X + B
            s == a + b2
            d == Square(s) - a2 - b4
<1>9. t \in Int /\ s \in Int /\ Cong(t, s, m)
  <2>1. Cong(t, s, m)
    BY <1>1, <1>2, <1>5, Zenon, CongAdd
  <2>. QED BY <1>1, <1>5, <2>1
<1>. HIDE DEF t, s
<1>10. Square(t) \in Int /\ Square(s) \in Int /\ Cong(Square(t), Square(s), m)
  BY <1>9, Squares
<1>11. Square(t) - A \in Int /\ Square(s) - a2 \in Int /\ Cong(Square(t) - A, Square(s) - a2, m)
  <2>1. Cong(Square(t) - A, Square(s) - a2, m)
    BY <1>4, <1>10, Zenon, CongSub
  <2>. QED BY <1>4, <1>10, <2>1
<1>12. Square(t) - A - C \in Int /\ d \in Int /\ Cong(Square(t) - A - C, d, m)
  <2>1. Cong(Square(t) - A - C, d, m)
    BY <1>6, <1>11, Zenon, CongSub
  <2>. QED BY <1>6, <1>11, <2>1
<1>13. Cong(D, 2 * d, m) /\ D \in Int /\ 2 * d \in Int
  <2>. DEFINE u == Square(t) - A - C
              v == 2 * u
  <2>1. u \in Int /\ Cong(u, d, m)
    BY <1>12
  <2>2. D = Res(v, m)
    BY DEF Square, t
  <2>. HIDE DEF u, d
  <2>3. v \in Int /\ 2 * d \in Int
    BY <1>12, <2>1
  <2>4. Cong(v, 2 * d, m)
    BY <1>0, <1>12, <2>1, Zenon, CongBy
  <2>. HIDE DEF v
  <2>5. Cong(D, v, m) /\ D \in Int
    BY <2>2, <2>3, CongRes
  <2>. QED BY <2>3, <2>4, <2>5, CongTrans
<1>14. 2 * d = x * w2
  <2>1. 2 * d = 4 * (a * b2)
    <3>. DEFINE aa == a
                bb == b2
    <3>1. aa \in Int /\ bb \in Int
      BY <1>1, <1>5
    <3>2. d = (aa + bb) * (aa + bb) - aa * aa - bb * bb
      BY DEF s, a2, b4, Square
    <3>. HIDE DEF aa, bb, d
    <3>3. 2 * d = 4 * (aa * bb)
      BY <3>1, <3>2
    <3>. QED BY <3>3 DEF aa, bb
  <2>2. x * w2 = 4 * ((x * (Z * Z)) * (b * b))
    <3>1. w2 = (2 * b * Z) * (2 * b * Z)
      BY DEF Square, w
    <3>. QED BY <1>1, <3>1
  <2>. QED BY <2>1, <2>2 DEF a, b2, Square
<1>15. Cong(D, x * Square(z), m) /\ x * Square(z) \in Int
  <2>1. Cong(x * Square(z), x * w2, m)
    BY <1>8, Zenon, CongBy
  <2>2. x * Square(z) \in Int /\ x * w2 \in Int
    BY <1>8
  <2>. QED BY <1>13, <1>14, <2>1, <2>2, Zenon, CongVia
\* three times the square of X
<1>16. Cong(3 * A, l * z, m) /\ 3 * A \in Int /\ l * z \in Int
  <2>a. Cong(3 * A, 3 * a2, m)
    BY <1>0, <1>4, Zenon, CongBy
  <2>1. Cong(3 * A, 3 * a2, m) /\ 3 * A \in Int /\ 3 * a2 \in Int
    BY <1>4, <2>a
  <2>b. Cong(l * z, l * w, m)
    BY <1>3, <1>7, Zenon, CongBy
  <2>2. Cong(l * z, l * w, m) /\ l * z \in Int /\ l * w \in Int
    BY <1>3, <1>7, <2>b
  <2>. DEFINE c == Square(Square(Z))
              u == l * (2 * y)
              v == 3 * Square(x)
  <2>3. c \in Int /\ u \in Int /\ v \in Int /\ Cong(u, v, m)
    BY DEF Square
  <2>4. l * w = c * u
    <3>1. l * (2 * (y * ((Z * Z) * Z)) * Z) = ((Z * Z) * (Z * Z)) * (l * (2 * y))
      OBVIOUS
    <3>. QED BY <3>1 DEF w, b, Square, Cube
  <2>5. 3 * a2 = c * v
    <3>1. 3 * ((x * (Z * Z)) * (x * (Z * Z))) = ((Z * Z) * (Z * Z)) * (3 * (x * x))
      OBVIOUS
    <3>. QED BY <3>1 DEF a2, a, Square
  <2>. HIDE DEF c, u, v
  <2>6. Cong(c * u, c * v, m)
    BY <2>3, Zenon, CongBy
  <2>. DEFINE p == 3 * A
              q == 3 * a2
              g == l * z
              h == l * w
  <2>7. Cong(p, q, m) /\ Cong(g, h, m) /\ Cong(h, q, m) /\ p \in Int /\ q \in Int /\ g \in Int /\ h \in Int
    BY <2>1, <2>2, <2>4, <2>5, <2>6
  <2>. HIDE DEF p, q, g, h
  <2>8. Cong(g, q, m)
    BY <2>7, CongTrans
  <2>9. Cong(p, g, m)
    BY <2>7, <2>8, CongVia
  <2>. QED BY <2>7, <2>9 DEF p, g
<1>17. Cong(2 * D, (x + x) * Square(z), m) /\ 2 * D \in Int
  <2>1. Cong(2 * D, 2 * (x * Square(z)), m)
    BY <1>0, <1>13, <1>15, Zenon, CongBy
  <2>2. 2 * (x * Square(z)) = (x + x) * Square(z)
    BY <1>8
  <2>. QED BY <1>13, <2>1, <2>2
<1>18. Cong(8 * C, y * Cube(z), m) /\ 8 * C \in Int
  <2>1. Cong(8 * C, 8 * b4, m)
    BY <1>0, <1>6, Zenon, CongBy
  <2>2. Cong(y * Cube(z), y * w3, m)
    BY <1>8, Zenon, CongBy
  <2>3. 8 * b4 = y * w3
    <3>. DEFINE c == (Z * Z) * Z
    <3>1. c \in Int
      OBVIOUS
    <3>2. b = y * c
      BY DEF b, Cube
    <3>3. b4 = (b * b) * (b * b) /\ w3 = ((2 * b * Z) * (2 * b * Z)) * (2 * b * Z)
      BY DEF b4, b2, w, Square, Cube
    <3>4. w3 = 8 * ((b * b) * (b * c))
      BY <1>1, <3>3
    <3>5. 8 * ((b * b) * (b * (y * c))) = y * (8 * ((b * b) * (b * c)))
      <4>. HIDE DEF c
      <4>. QED BY <1>1, <3>1
    <3>. HIDE DEF c
    <3>. QED BY <3>2, <3>3, <3>4, <3>5
  <2>4. 8 * C \in Int /\ 8 * b4 \in Int /\ y * Cube(z) \in Int /\ y * w3 \in Int
    BY <1>6, <1>8
  <2>. QED BY <2>1, <2>2, <2>3, <2>4, Zenon, CongVia
\* so the line of slope l
<1>. DEFINE r == 3 * A
            W == 2 * D
            U == 8 * C
            o == x + x
<1>19. OnLine(l, x, y, o, x3, y3, m)
  <2>1. l * l - x - x = l * l - o
    OBVIOUS
  <2>. QED BY <2>1 DEF OnLine
<1>20. OnScaledLine(r, D, W, U, X3, Y3, l, z, x, y, o, m)
  <2>1. 9 * A * A - 2 * D = r * r - W
    BY <1>4, <1>13
  <2>2. X3 = Res(r * r - W, m)
    BY <2>1
  <2>3. Y3 = Res(r * (D - X3) - U, m)
    OBVIOUS
  <2>. HIDE DEF r, W, U, o
  <2>. QED BY <1>7, <1>13, <1>15, <1>16, <1>17, <1>18, <2>2, <2>3 DEF OnScaledLine, r, W, U, o
<1>. HIDE DEF r, W, U, o
<1>. QED BY <1>19, <1>20, Chord

\* a residue of a product, by what its factors are congruent to
LEMMA MulRes ==
  ASSUME NEW m \in Nat \ {0}, NEW a \in Int, NEW b \in Int, NEW c \in Int, NEW d \in Int,
         Cong(a, c, m), Cong(b, d, m), NEW r, r = Res(a * b, m), NEW q, q = c * d
  PROVE  Cong(r, q, m) /\ r \in Int /\ q \in Int
<1>. DEFINE p == a * b
<1>1. Cong(p, q, m)
  BY Zenon, CongMul
<1>2. p \in Int /\ q \in Int /\ r = Res(p, m)
  OBVIOUS
<1>. HIDE DEF p
<1>3. Cong(r, p, m) /\ r \in Int
  BY <1>2, CongRes
<1>. QED BY <1>1, <1>2, <1>3, CongTrans

\* a point brought to the scale of another
Rescales(X, Y, x, y, Z, V, ZZ, U, S, w, m) ==
  /\ X \in Int /\ Y \in Int /\ Z \in Int /\ V \in Int /\ x \in Int /\ y \in Int
  /\ ZZ = Res(V * V, m) /\ U = Res(X * ZZ, m) /\ S = Res(Y * V * ZZ, m) /\ w = Z * V

\* bringing a point to another scale leaves it where it is
LEMMA Rescaled ==
  ASSUME NEW m \in Nat \ {0}, NEW X, NEW Y, NEW Z, NEW V, NEW x, NEW y,
         Scaled(X, Y, x, y, Z, m), NEW ZZ, NEW U, NEW S, NEW w, Rescales(X, Y, x, y, Z, V, ZZ, U, S, w, m)
  PROVE  Scaled(U, S, x, y, w, m) /\ U \in Int /\ S \in Int /\ w \in Int
<1>a. /\ X \in Int /\ Y \in Int /\ Z \in Int /\ V \in Int /\ x \in Int /\ y \in Int
      /\ ZZ = Res(V * V, m) /\ U = Res(X * ZZ, m) /\ S = Res(Y * V * ZZ, m) /\ w = Z * V
  BY DEF Rescales
<1>. USE <1>a
<1>. DEFINE v2 == Square(V)
            a == x * Square(Z)
            b == y * Cube(Z)
            c == Y * V
            d == b * V
<1>1. v2 \in Int /\ a \in Int /\ b \in Int /\ c \in Int /\ w \in Int
  BY DEF Square, Cube
<1>2. d \in Int
  <2>. HIDE DEF b
  <2>. QED BY <1>1
<1>3. Cong(X, a, m) /\ Cong(Y, b, m) /\ ZZ = Res(v2, m)
  BY DEF Scaled, Square
<1>. HIDE DEF v2, a, b
<1>4. Cong(ZZ, v2, m) /\ ZZ \in Int
  BY <1>1, <1>3, CongRes
<1>5. Cong(c, d, m)
  <2>1. Cong(V, V, m)
    BY CongSelf
  <2>. QED BY <1>1, <1>3, <2>1, Zenon, CongMul
<1>. HIDE DEF d
<1>6. U \in Int /\ Cong(U, a * v2, m)
  BY <1>1, <1>3, <1>4, MulRes
<1>7. S \in Int /\ Cong(S, d * v2, m)
  <2>1. S = Res(c * ZZ, m)
    BY DEF c
  <2>. HIDE DEF c
  <2>. QED BY <1>1, <1>2, <1>4, <1>5, <2>1, MulRes
<1>8. a * v2 = x * Square(w)
  <2>1. (x * (Z * Z)) * (V * V) = x * ((Z * V) * (Z * V))
    OBVIOUS
  <2>. QED BY <2>1 DEF a, v2, Square
<1>9. d * v2 = y * Cube(w)
  <2>1. ((y * ((Z * Z) * Z)) * V) * (V * V) = y * (((Z * V) * (Z * V)) * (Z * V))
    OBVIOUS
  <2>. QED BY <2>1 DEF b, d, v2, Square, Cube
<1>. QED BY <1>1, <1>6, <1>7, <1>8, <1>9 DEF Scaled

\* adding two points of the same scale w, with different x; and the same not scaled
Adds(U1, S1, U2, S2, w, H, I, J, r, V, X3, Y3, z, m) ==
  /\ U1 \in Int /\ S1 \in Int /\ U2 \in Int /\ S2 \in Int /\ w \in Int
  /\ H = Res(U2 - U1, m) /\ I = Res(4 * H * H, m) /\ J = Res(H * I, m) /\ r = Res(2 * (S2 - S1), m)
  /\ V = Res(U1 * I, m) /\ X3 = Res(r * r - J - 2 * V, m) /\ Y3 = Res(r * (V - X3) - 2 * S1 * J, m)
  /\ z \in Int /\ Cong(z, (2 * w) * H, m)

Secant(x1, y1, x2, y2, l, x3, y3, m) ==
  /\ x1 \in Int /\ y1 \in Int /\ x2 \in Int /\ y2 \in Int /\ l \in Int
  /\ Cong(l * (x2 - x1), y2 - y1, m)
  /\ x3 = Res(l * l - x1 - x2, m) /\ y3 = Res(l * (x1 - x3) - y1, m)

\* the Jacobian formulas for addition are those of the secant, scaled
LEMMA Adding ==
  ASSUME NEW m \in Nat \ {0}, NEW U1, NEW S1, NEW U2, NEW S2, NEW w,
         NEW H, NEW I, NEW J, NEW r, NEW V, NEW X3, NEW Y3, NEW z,
         Adds(U1, S1, U2, S2, w, H, I, J, r, V, X3, Y3, z, m),
         NEW x1, NEW y1, NEW x2, NEW y2, NEW l, NEW x3, NEW y3, Secant(x1, y1, x2, y2, l, x3, y3, m),
         Scaled(U1, S1, x1, y1, w, m), Scaled(U2, S2, x2, y2, w, m)
  PROVE  Scaled(X3, Y3, x3, y3, z, m)
<1>a. /\ x1 \in Int /\ y1 \in Int /\ x2 \in Int /\ y2 \in Int /\ l \in Int /\ w \in Int /\ z \in Int
      /\ U1 \in Int /\ S1 \in Int /\ U2 \in Int /\ S2 \in Int
      /\ Cong(l * (x2 - x1), y2 - y1, m) /\ Cong(z, (2 * w) * H, m)
      /\ H = Res(U2 - U1, m) /\ I = Res(4 * H * H, m) /\ J = Res(H * I, m) /\ r = Res(2 * (S2 - S1), m)
      /\ V = Res(U1 * I, m) /\ X3 = Res(r * r - J - 2 * V, m) /\ Y3 = Res(r * (V - X3) - 2 * S1 * J, m)
      /\ x3 = Res(l * l - x1 - x2, m) /\ y3 = Res(l * (x1 - x3) - y1, m)
  BY DEF Adds, Secant
<1>. USE <1>a
<1>. DEFINE w2 == Square(w)
            w3 == Cube(w)
            dx == x2 - x1
            dy == y2 - y1
            a1 == x1 * w2
            a2 == x2 * w2
            b1 == y1 * w3
            b2 == y2 * w3
            h == dx * w2
            i == 4 * Square(h)
            v == (2 * w) * h
            e == dy * w3
<1>0. 2 \in Int /\ 4 \in Int
  OBVIOUS
<1>1. w2 \in Int /\ w3 \in Int /\ dx \in Int /\ dy \in Int
  BY DEF Square, Cube
<1>. HIDE DEF w2, w3
<1>2. a1 \in Int /\ a2 \in Int /\ b1 \in Int /\ b2 \in Int /\ h \in Int /\ e \in Int
  BY <1>1
<1>3. Cong(U1, a1, m) /\ Cong(U2, a2, m) /\ Cong(S1, b1, m) /\ Cong(S2, b2, m)
  BY DEF Scaled, w2, w3
<1>4. a2 - a1 = h /\ b2 - b1 = e
  BY <1>1
<1>. HIDE DEF dx, dy, a1, a2, b1, b2, h, e
<1>5. i \in Int /\ v \in Int
  BY <1>2 DEF Square
<1>6. Cong(H, h, m) /\ H \in Int
  <2>. DEFINE u == U2 - U1
  <2>1. Cong(u, a2 - a1, m)
    BY <1>2, <1>3, Zenon, CongSub
  <2>2. u \in Int
    OBVIOUS
  <2>. HIDE DEF u
  <2>3. Cong(H, u, m) /\ H \in Int
    BY <2>2, CongRes DEF u
  <2>. QED BY <1>2, <1>4, <2>1, <2>2, <2>3, CongTrans
<1>7. Cong(I, i, m) /\ I \in Int
  <2>. DEFINE u == Square(H)
              t == 4 * u
  <2>1. Cong(u, Square(h), m) /\ u \in Int /\ Square(h) \in Int
    BY <1>2, <1>6, Squares
  <2>2. I = Res(t, m)
    <3>1. 4 * H * H = 4 * (H * H)
      BY <1>6
    <3>. QED BY <3>1 DEF Square
  <2>. HIDE DEF u
  <2>3. Cong(t, i, m)
    BY <1>0, <2>1, Zenon, CongBy
  <2>4. t \in Int
    BY <2>1
  <2>. HIDE DEF t, i
  <2>5. Cong(I, t, m) /\ I \in Int
    BY <2>2, <2>4, CongRes
  <2>. QED BY <1>5, <2>3, <2>4, <2>5, CongTrans
<1>8. Cong(J, h * i, m) /\ J \in Int /\ h * i \in Int
  <2>. HIDE DEF i
  <2>. QED BY <1>2, <1>5, <1>6, <1>7, MulRes
<1>9. Cong(V, a1 * i, m) /\ V \in Int /\ a1 * i \in Int
  <2>. HIDE DEF i
  <2>. QED BY <1>2, <1>3, <1>5, <1>7, MulRes
<1>10. Cong(r, 2 * e, m) /\ r \in Int
  <2>. DEFINE u == S2 - S1
  <2>1. Cong(u, b2 - b1, m)
    BY <1>2, <1>3, Zenon, CongSub
  <2>2. u \in Int /\ Cong(u, e, m)
    BY <1>4, <2>1
  <2>3. r = Res(2 * u, m)
    OBVIOUS
  <2>. HIDE DEF u
  <2>4. Cong(2, 2, m)
    BY <1>0, CongSelf
  <2>. QED BY <1>0, <1>2, <2>2, <2>3, <2>4, MulRes
<1>11. Cong(z, v, m)
  <2>. DEFINE t == 2 * w
              p == t * H
  <2>1. t \in Int
    OBVIOUS
  <2>. HIDE DEF t
  <2>2. Cong(p, t * h, m)
    BY <1>2, <1>6, <2>1, Zenon, CongBy
  <2>3. p \in Int /\ t * h = v
    BY <1>6, <2>1 DEF t
  <2>4. Cong(z, p, m)
    BY DEF p, t
  <2>. HIDE DEF p, v
  <2>. QED BY <1>5, <2>2, <2>3, <2>4, CongTrans
<1>. DEFINE v2 == Square(v)
            v3 == Cube(v)
<1>12. Cong(v2, Square(z), m) /\ v2 \in Int /\ Square(z) \in Int /\ Cong(v3, Cube(z), m) /\ v3 \in Int /\ Cube(z) \in Int
  <2>. HIDE DEF v
  <2>1. Cong(v, z, m)
    BY <1>5, <1>11, CongBack
  <2>. QED BY <1>5, <2>1, Squares, Cubes
\* the steps of the scaled line, first by v
<1>13. Cong(r, l * z, m) /\ l * z \in Int
  <2>. DEFINE c == (2 * w) * w2
              s == l * dx
              lv == l * v
  <2>1. c \in Int
    BY <1>1
  <2>2. s \in Int /\ lv \in Int /\ l * z \in Int
    BY <1>1, <1>5
  <2>3. Cong(s, dy, m)
    BY DEF dx, dy
  <2>4. lv = c * s
    <3>1. l * ((2 * w) * (dx * w2)) = ((2 * w) * w2) * (l * dx)
      BY <1>1
    <3>. QED BY <3>1 DEF h
  <2>5. c * dy = 2 * e
    <3>1. ((2 * w) * w2) * dy = 2 * (dy * (w2 * w))
      BY <1>1
    <3>. QED BY <3>1 DEF e, w3, w2, Square, Cube
  <2>6. Cong(c * s, c * dy, m)
    <3>. HIDE DEF c, s
    <3>. QED BY <1>1, <2>1, <2>2, <2>3, Zenon, CongBy
  <2>7. Cong(l * z, lv, m)
    <3>. HIDE DEF v
    <3>. QED BY <1>5, <1>11, Zenon, CongBy
  <2>. DEFINE p == 2 * e
              q == l * z
  <2>8. p \in Int /\ q \in Int /\ Cong(r, p, m) /\ Cong(lv, p, m) /\ Cong(q, lv, m)
    BY <1>2, <1>10, <2>2, <2>4, <2>5, <2>6, <2>7
  <2>. HIDE DEF p, q, lv
  <2>9. Cong(q, p, m)
    BY <2>2, <2>8, CongTrans
  <2>10. Cong(r, q, m)
    BY <1>10, <2>8, <2>9, CongVia
  <2>. QED BY <2>2, <2>10 DEF q
<1>. DEFINE g == w2 * i
<1>14. g \in Int /\ v2 = g
  <2>1. g \in Int
    BY <1>1, <1>5
  <2>2. ((2 * w) * h) * ((2 * w) * h) = (w * w) * (4 * (h * h))
    BY <1>2
  <2>. QED BY <2>1, <2>2 DEF w2, Square
<1>15. Cong(V, x1 * Square(z), m)
  <2>1. a1 * i = x1 * v2
    <3>. HIDE DEF i, v2
    <3>1. (x1 * w2) * i = x1 * (w2 * i)
      BY <1>1, <1>5
    <3>. QED BY <1>14, <3>1 DEF a1
  <2>. HIDE DEF v2, i
  <2>2. Cong(x1 * v2, x1 * Square(z), m)
    BY <1>12, Zenon, CongBy
  <2>3. x1 * v2 \in Int /\ x1 * Square(z) \in Int
    BY <1>12
  <2>. QED BY <1>9, <2>1, <2>2, <2>3, Zenon, CongTrans
<1>. DEFINE W == J + 2 * V
            T == 2 * S1 * J
            o == x1 + x2
<1>16. Cong(W, o * Square(z), m) /\ W \in Int
  <2>1. o * v2 = h * i + 2 * (a1 * i)
    <3>. HIDE DEF i, v2
    <3>1. (x1 + x2) * (w2 * i) = ((x2 - x1) * w2) * i + 2 * ((x1 * w2) * i)
      BY <1>1, <1>5
    <3>. QED BY <1>14, <3>1 DEF a1, h, dx
  <2>. DEFINE p == h * i
              q == a1 * i
              VV == 2 * V
              qq == 2 * q
  <2>. HIDE DEF i
  <2>2. p \in Int /\ q \in Int /\ Cong(J, p, m) /\ Cong(V, q, m)
    BY <1>8, <1>9
  <2>. HIDE DEF p, q
  <2>3. Cong(VV, qq, m)
    BY <1>0, <1>9, <2>2, Zenon, CongBy
  <2>4. VV \in Int /\ qq \in Int
    BY <1>9, <2>2
  <2>. HIDE DEF VV, qq
  <2>5. Cong(J + VV, p + qq, m)
    BY <1>8, <2>2, <2>3, <2>4, Zenon, CongAdd
  <2>6. W = J + VV /\ W \in Int /\ p + qq \in Int
    BY <1>8, <2>2, <2>4 DEF VV
  <2>7. Cong(o * v2, o * Square(z), m)
    <3>. HIDE DEF v2
    <3>1. o \in Int
      OBVIOUS
    <3>. HIDE DEF o
    <3>. QED BY <1>12, <3>1, Zenon, CongBy
  <2>8. o * v2 = p + qq /\ o * Square(z) \in Int
    BY <1>12, <2>1 DEF p, q, qq
  <2>. HIDE DEF o, v2, W
  <2>9. Cong(W, o * v2, m) /\ o * v2 \in Int
    BY ONLY <2>5, <2>6, <2>8, Zenon
  <2>. QED BY <2>6, <2>7, <2>8, <2>9, Zenon, CongTrans
<1>17. Cong(T, y1 * Cube(z), m) /\ T \in Int
  <2>. DEFINE p == h * i
              u == 2 * S1
              s == 2 * b1
  <2>1. y1 * v3 = s * p
    <3>. DEFINE k == w * h
    <3>0. k \in Int
      BY <1>2
    <3>1. v = 2 * k
      BY <1>2
    <3>2. v3 = 8 * ((k * k) * k)
      <4>. HIDE DEF v, k
      <4>. QED BY <3>0, <3>1 DEF Cube
    <3>3. (k * k) * k = w3 * ((h * h) * h)
      <4>1. ((w * h) * (w * h)) * (w * h) = ((w * w) * w) * ((h * h) * h)
        BY <1>2
      <4>. QED BY <4>1 DEF w3, Cube
    <3>. DEFINE h3 == (h * h) * h
    <3>4. h3 \in Int /\ p = 4 * h3
      BY <1>2 DEF Square
    <3>5. v3 = 8 * (w3 * h3)
      BY <3>2, <3>3
    <3>6. y1 * (8 * (w3 * h3)) = (2 * (y1 * w3)) * (4 * h3)
      <4>. HIDE DEF h3
      <4>. QED BY <1>1, <3>4
    <3>. HIDE DEF h3, p, v3
    <3>. QED BY <3>4, <3>5, <3>6 DEF b1
  <2>. HIDE DEF i
  <2>2. p \in Int /\ Cong(J, p, m)
    BY <1>8
  <2>. HIDE DEF p
  <2>3. Cong(u, s, m)
    BY <1>0, <1>2, <1>3, Zenon, CongBy
  <2>4. u \in Int /\ s \in Int
    BY <1>2
  <2>. HIDE DEF u, s
  <2>5. Cong(u * J, s * p, m)
    BY <1>8, <2>2, <2>3, <2>4, Zenon, CongMul
  <2>6. T = u * J /\ T \in Int /\ s * p \in Int
    BY <1>8, <2>2, <2>4 DEF u
  <2>. HIDE DEF v3, T
  <2>7. Cong(y1 * v3, y1 * Cube(z), m)
    BY <1>12, Zenon, CongBy
  <2>8. y1 * Cube(z) \in Int
    BY <1>12
  <2>. QED BY <2>1, <2>5, <2>6, <2>7, <2>8, Zenon, CongTrans
<1>18. OnLine(l, x1, y1, o, x3, y3, m)
  <2>1. l * l - x1 - x2 = l * l - o
    OBVIOUS
  <2>. QED BY <2>1 DEF OnLine
<1>19. OnScaledLine(r, V, W, T, X3, Y3, l, z, x1, y1, o, m)
  <2>1. r * r - J - 2 * V = r * r - W
    BY <1>8, <1>9, <1>10
  <2>2. X3 = Res(r * r - W, m)
    BY <2>1
  <2>3. Y3 = Res(r * (V - X3) - T, m)
    OBVIOUS
  <2>. HIDE DEF W, T, o
  <2>. QED BY <1>9, <1>10, <1>13, <1>15, <1>16, <1>17, <2>2, <2>3 DEF OnScaledLine
<1>. HIDE DEF W, T, o
<1>. QED BY <1>18, <1>19, Chord
-----------------------------------------------------------------------------
(***************************************************************************)
(* Jacobian coordinates stand for points: doubling and adding them is      *)
(* adding the points they stand for.                                       *)
(***************************************************************************)
\* the Jacobian coordinates j are those of the point p
Stands(j, p) ==
  /\ j \in Jacobian
  /\ IF j[3] = 0 THEN p = Null ELSE p \in Field \X Field /\ Scaled(j[1], j[2], p[1], p[2], j[3], P)

\* residues are numbers of the field
LEMMA FieldRes ==
  ASSUME NEW a \in Int
  PROVE  Res(a, P) \in Field
BY FieldFacts, Division

\* which are their own residues
LEMMA FieldSmall ==
  ASSUME NEW a \in Field
  PROVE  a \in Int /\ Res(a, P) = a
BY FieldFacts, ResSmall

\* a pair of coordinates is not the identity
LEMMA Coordinates ==
  ASSUME NEW p \in Field \X Field
  PROVE  p # Null /\ p[1] \in Field /\ p[2] \in Field /\ p[1] \in Int /\ p[2] \in Int /\ p = <<p[1], p[2]>>
BY FieldFacts DEF Null

\* the three coordinates
LEMMA JacobianParts ==
  ASSUME NEW j \in Jacobian
  PROVE  /\ j[1] \in Field /\ j[2] \in Field /\ j[3] \in Field
         /\ j[1] \in Int /\ j[2] \in Int /\ j[3] \in Int
BY FieldFacts DEF Jacobian

\* products of numbers that are not 0 in the field
LEMMA NotZeroMul ==
  ASSUME NEW a \in Int, NEW b \in Int, Res(a, P) # 0, Res(b, P) # 0
  PROVE  Res(a * b, P) # 0
BY FieldFacts, NoZeroDivisors

\* squares and cubes of what is not 0
LEMMA NotZeroPowers ==
  ASSUME NEW a \in Int, Res(a, P) # 0
  PROVE  /\ Square(a) \in Int /\ Cube(a) \in Int
         /\ Res(Square(a), P) # 0 /\ Res(Cube(a), P) # 0
<1>1. Square(a) \in Int /\ Res(Square(a), P) # 0
  BY NotZeroMul DEF Square
<1>2. Res(Square(a) * a, P) # 0
  BY <1>1, NotZeroMul
<1>3. Cube(a) = Square(a) * a /\ Cube(a) \in Int
  BY <1>1 DEF Cube, Square
<1>. QED BY <1>1, <1>2, <1>3

\* 2 and 3 are not 0
LEMMA SmallNotZero ==
  Res(2, P) = 2 /\ Res(3, P) = 3
<1>1. 2 \in 0..(P - 1) /\ 3 \in 0..(P - 1)
  BY FieldFacts
<1>. QED BY <1>1, FieldFacts, ResSmall

\* the identity, at the end of the loop
LEMMA JZeroStands == Stands(JZero, Null)
<1>1. 0 \in Field /\ 1 \in Field
  BY FieldFacts
<1>. QED BY <1>1 DEF Stands, JZero, Jacobian

\* the way back to two coordinates
LEMMA AffineIs ==
  ASSUME NEW j, NEW p, Stands(j, p)
  PROVE  Affine(j) = p
<1>1. CASE j[3] = 0
  BY <1>1 DEF Stands, Affine
<1>2. CASE j[3] # 0
  <2>. DEFINE X == j[1]
              Y == j[2]
              Z == j[3]
              x == p[1]
              y == p[2]
              i == Inv(Z, P)
              i2 == Res(i * i, P)
              e == Z * i
              a == x * Square(Z)
              b == y * Cube(Z)
              s == Square(i)
              Ys == Y * i2
              bs == b * s
              cs == bs * i
  <2>1. p \in Field \X Field /\ Scaled(X, Y, x, y, Z, P) /\ j \in Jacobian
    BY <1>2 DEF Stands
  <2>2. X \in Int /\ Y \in Int /\ Z \in Int /\ Z \in Field /\ x \in Int /\ y \in Int /\ x \in Field /\ y \in Field /\ p = <<x, y>>
    BY <2>1, JacobianParts, Coordinates
  <2>3. Affine(j) = <<Res(X * i2, P), Res(Y * i2 * i, P)>>
    BY <1>2 DEF Affine, Res
  <2>. HIDE DEF X, Y, Z, x, y
  <2>4. Res(Z, P) # 0
    BY <1>2, <2>2, FieldSmall DEF Z
  <2>5. i \in Int /\ Res(e, P) = 1
    BY <2>2, <2>4, FieldFacts, InvInverts
  <2>. HIDE DEF i
  <2>6. e \in Int /\ s \in Int /\ a \in Int /\ b \in Int
    BY <2>2, <2>5 DEF Square, Cube
  <2>7. Cong(e, 1, P) /\ 1 \in Int
    <3>1. 1 \in 0..(P - 1)
      BY FieldFacts
    <3>. QED BY <2>5, <3>1, FieldFacts, ResSmall DEF Cong
  <2>. HIDE DEF e
  <2>8. Cong(Square(e), Square(1), P) /\ Cong(Cube(e), Cube(1), P) /\ Square(e) \in Int /\ Cube(e) \in Int
    BY <2>6, <2>7, FieldFacts, Squares, Cubes
  <2>9. Square(1) = 1 /\ Cube(1) = 1
    BY DEF Square, Cube
  <2>10. Cong(X, a, P) /\ Cong(Y, b, P)
    BY <2>1 DEF Scaled
  <2>. HIDE DEF a, b
  <2>11. Cong(i2, s, P) /\ i2 \in Int
    <3>. HIDE DEF s
    <3>1. i2 = Res(s, P)
      BY DEF s, Square
    <3>. HIDE DEF i2
    <3>. QED BY <2>6, <3>1, FieldFacts, CongRes
  <2>. HIDE DEF s, i2
  <2>12. Res(X * i2, P) = x
    <3>. DEFINE u == Res(X * i2, P)
                as == a * s
    <3>1. Cong(u, as, P) /\ as \in Int
      BY <2>2, <2>6, <2>10, <2>11, FieldFacts, MulRes
    <3>2. as = x * Square(e)
      <4>1. (x * (Z * Z)) * (i * i) = x * ((Z * i) * (Z * i))
        BY <2>2, <2>5
      <4>. QED BY <4>1 DEF a, s, e, Square
    <3>3. Cong(x * Square(e), x * 1, P)
      BY <2>2, <2>7, <2>8, <2>9, FieldFacts, Zenon, CongBy
    <3>4. x * 1 = x
      BY <2>2
    <3>5. u \in 0..(P - 1) /\ u \in Int /\ x \in 0..(P - 1)
      <4>1. X * i2 \in Int
        BY <2>2, <2>11
      <4>2. Res(X * i2, P) \in Field
        BY <4>1, FieldRes
      <4>. QED BY <2>2, <4>2, FieldFacts
    <3>6. Cong(u, x, P)
      <4>. HIDE DEF u, as
      <4>1. Cong(as, x, P)
        BY <3>2, <3>3, <3>4
      <4>. QED BY <2>2, <3>1, <3>5, <4>1, FieldFacts, CongTrans
    <3>. HIDE DEF u
    <3>7. u = x
      BY <3>5, <3>6, FieldFacts, CongSmall
    <3>. QED BY <3>7 DEF u
  <2>13. Res(Y * i2 * i, P) = y
    <3>. DEFINE u == Res(Ys * i, P)
    <3>1. Cong(Ys, bs, P)
      BY <2>2, <2>6, <2>10, <2>11, FieldFacts, Zenon, CongMul
    <3>2. Ys \in Int /\ bs \in Int
      BY <2>2, <2>6, <2>11
    <3>. HIDE DEF Ys, bs
    <3>3. Cong(i, i, P)
      BY <2>5, FieldFacts, CongSelf
    <3>4. Cong(u, cs, P) /\ cs \in Int
      BY <2>5, <3>1, <3>2, <3>3, FieldFacts, MulRes
    <3>5. cs = y * Cube(e)
      <4>1. ((y * ((Z * Z) * Z)) * (i * i)) * i = y * (((Z * i) * (Z * i)) * (Z * i))
        BY <2>2, <2>5
      <4>. QED BY <4>1 DEF bs, b, s, e, Square, Cube
    <3>6. Cong(y * Cube(e), y * 1, P)
      BY <2>2, <2>7, <2>8, <2>9, FieldFacts, Zenon, CongBy
    <3>7. y * 1 = y
      BY <2>2
    <3>8. u \in 0..(P - 1) /\ u \in Int /\ y \in 0..(P - 1)
      <4>1. Ys * i \in Int
        BY <2>5, <3>2
      <4>2. Res(Ys * i, P) \in Field
        BY <4>1, FieldRes
      <4>. QED BY <2>2, <4>2, FieldFacts
    <3>9. Cong(u, y, P)
      <4>. HIDE DEF u, cs
      <4>1. Cong(cs, y, P)
        BY <3>5, <3>6, <3>7
      <4>. QED BY <2>2, <3>4, <3>8, <4>1, FieldFacts, CongTrans
    <3>. HIDE DEF u
    <3>10. u = y
      BY <3>8, <3>9, FieldFacts, CongSmall
    <3>. QED BY <3>10 DEF u, Ys
  <2>. QED BY <2>2, <2>3, <2>12, <2>13
<1>. QED BY <1>1, <1>2

\* what is assumed of the group, for two points
LEMMA AddPoints ==
  ASSUME NEW p \in Points, NEW q \in Points
  PROVE  Add(p, q) \in Points /\ Add(Add(G, p), q) = Add(G, Add(p, q))
BY GroupAssumption

\* the coordinates of a point
LEMMA PointParts ==
  ASSUME NEW p \in Points, p # Null
  PROVE  /\ p \in Field \X Field /\ OnCurve(p) /\ p[2] # 0
BY GroupAssumption DEF Points

\* a number that is computed modulo P
LEMMA FieldInt ==
  ASSUME NEW a \in Int, NEW r, r = Res(a, P)
  PROVE  r \in Field /\ r \in Int
BY FieldRes, FieldSmall

\* the Jacobian operations stay in the field
LEMMA JDblType ==
  ASSUME NEW j \in Jacobian
  PROVE  JDbl(j) \in Jacobian
<1>. DEFINE X == j[1]
            Y == j[2]
            Z == j[3]
            XX == X * X
            YY == Y * Y
            A == Res(XX, P)
            B == Res(YY, P)
            BB == B * B
            C == Res(BB, P)
            DD == 2 * ((X + B) * (X + B) - A - C)
            D == Res(DD, P)
            E == 9 * A * A - 2 * D
            X3 == Res(E, P)
            F == 3 * A * (D - X3) - 8 * C
            Y3 == Res(F, P)
            ZZ == 2 * Y * Z
            z == Res(ZZ, P)
<1>1. X \in Int /\ Y \in Int /\ Z \in Int
  BY JacobianParts
<1>2. JDbl(j) = IF Z = 0 \/ Y = 0 THEN JZero ELSE <<X3, Y3, z>>
  BY DEF JDbl, Res
<1>. HIDE DEF X, Y, Z
<1>3. XX \in Int /\ YY \in Int /\ ZZ \in Int
  BY <1>1
<1>. HIDE DEF XX, YY, ZZ
<1>4. A \in Int /\ B \in Int /\ z \in Field
  BY <1>3, FieldInt
<1>. HIDE DEF A, B, z
<1>5. BB \in Int
  BY <1>4
<1>. HIDE DEF BB
<1>6. C \in Int
  BY <1>5, FieldInt
<1>. HIDE DEF C
<1>7. DD \in Int
  BY <1>1, <1>4, <1>6
<1>. HIDE DEF DD
<1>8. D \in Int
  BY <1>7, FieldInt
<1>. HIDE DEF D
<1>9. E \in Int
  BY <1>4, <1>8
<1>. HIDE DEF E
<1>10. X3 \in Int /\ X3 \in Field
  BY <1>9, FieldInt
<1>. HIDE DEF X3
<1>11. F \in Int
  BY <1>4, <1>6, <1>8, <1>10
<1>. HIDE DEF F
<1>12. Y3 \in Field
  BY <1>11, FieldInt
<1>. HIDE DEF Y3
<1>13. <<X3, Y3, z>> \in Jacobian
  BY <1>4, <1>10, <1>12 DEF Jacobian
<1>. QED BY <1>2, <1>13, JZeroStands DEF Stands

\* the same for the sum
LEMMA JAddType ==
  ASSUME NEW j \in Jacobian, NEW k \in Jacobian
  PROVE  JAdd(j, k) \in Jacobian
<1>. DEFINE X1 == j[1]
            Y1 == j[2]
            Z1 == j[3]
            X2 == k[1]
            Y2 == k[2]
            Z2 == k[3]
            Z11 == Z1 * Z1
            Z22 == Z2 * Z2
            ZZ1 == Res(Z11, P)
            ZZ2 == Res(Z22, P)
            a == X1 * ZZ2
            b == X2 * ZZ1
            c == Y1 * Z2 * ZZ2
            d == Y2 * Z1 * ZZ1
            U1 == Res(a, P)
            U2 == Res(b, P)
            S1 == Res(c, P)
            S2 == Res(d, P)
            HH == U2 - U1
            H == Res(HH, P)
            II == 4 * H * H
            I == Res(II, P)
            JJ == H * I
            J == Res(JJ, P)
            rr == 2 * (S2 - S1)
            r == Res(rr, P)
            VV == U1 * I
            V == Res(VV, P)
            E == r * r - J - 2 * V
            X3 == Res(E, P)
            F == r * (V - X3) - 2 * S1 * J
            Y3 == Res(F, P)
            zs == Z1 + Z2
            zz == (zs * zs - ZZ1 - ZZ2) * H
            z == Res(zz, P)
<1>1. X1 \in Int /\ Y1 \in Int /\ Z1 \in Int /\ X2 \in Int /\ Y2 \in Int /\ Z2 \in Int
  BY JacobianParts
<1>2. JAdd(j, k) = IF Z1 = 0 THEN k ELSE IF Z2 = 0 THEN j
                   ELSE IF U1 = U2 THEN (IF S1 = S2 THEN JDbl(j) ELSE JZero) ELSE <<X3, Y3, z>>
  BY DEF JAdd, Res
<1>. HIDE DEF X1, Y1, Z1, X2, Y2, Z2
<1>3. Z11 \in Int /\ Z22 \in Int
  BY <1>1
<1>. HIDE DEF Z11, Z22
<1>4. ZZ1 \in Int /\ ZZ2 \in Int
  BY <1>3, FieldInt
<1>. HIDE DEF ZZ1, ZZ2
<1>5. a \in Int /\ b \in Int /\ c \in Int /\ d \in Int
  BY <1>1, <1>4
<1>. HIDE DEF a, b, c, d
<1>6. U1 \in Int /\ U2 \in Int /\ S1 \in Int /\ S2 \in Int
  BY <1>5, FieldInt
<1>. HIDE DEF U1, U2, S1, S2
<1>7. HH \in Int /\ rr \in Int
  BY <1>6
<1>. HIDE DEF HH, rr
<1>8. H \in Int /\ r \in Int
  BY <1>7, FieldInt
<1>. HIDE DEF H, r
<1>9. II \in Int /\ zz \in Int
  BY <1>1, <1>4, <1>8
<1>. HIDE DEF II, zz
<1>10. I \in Int /\ z \in Field
  BY <1>9, FieldInt
<1>. HIDE DEF I, z
<1>11. JJ \in Int /\ VV \in Int
  BY <1>6, <1>8, <1>10
<1>. HIDE DEF JJ, VV
<1>12. J \in Int /\ V \in Int
  BY <1>11, FieldInt
<1>. HIDE DEF J, V
<1>13. E \in Int
  BY <1>8, <1>12
<1>. HIDE DEF E
<1>14. X3 \in Int /\ X3 \in Field
  BY <1>13, FieldInt
<1>. HIDE DEF X3
<1>15. F \in Int
  BY <1>6, <1>8, <1>12, <1>14
<1>. HIDE DEF F
<1>16. Y3 \in Field
  BY <1>15, FieldInt
<1>. HIDE DEF Y3
<1>17. <<X3, Y3, z>> \in Jacobian
  BY <1>10, <1>14, <1>16 DEF Jacobian
<1>. QED BY <1>2, <1>17, JDblType, JZeroStands DEF Stands

\* doubling in Jacobian coordinates
LEMMA JDblStands ==
  ASSUME NEW p \in Points, NEW j, Stands(j, p)
  PROVE  Stands(JDbl(j), Add(p, p))
<1>1. CASE j[3] = 0
  <2>1. p = Null /\ Add(p, p) = Null
    BY <1>1 DEF Stands, Add
  <2>2. JDbl(j) = JZero
    BY <1>1 DEF JDbl
  <2>. QED BY <2>1, <2>2, JZeroStands
<1>2. CASE j[3] # 0
  <2>. DEFINE X == j[1]
              Y == j[2]
              Z == j[3]
              x == p[1]
              y == p[2]
              A == Res(X * X, P)
              B == Res(Y * Y, P)
              C == Res(B * B, P)
              D == Res(2 * ((X + B) * (X + B) - A - C), P)
              X3 == Res(9 * A * A - 2 * D, P)
              Y3 == Res(3 * A * (D - X3) - 8 * C, P)
              z == Res(2 * Y * Z, P)
              l == Res(3 * x * x * Inv(2 * y, P), P)
              x3 == Res(l * l - x - x, P)
              y3 == Res(l * (x - x3) - y, P)
  <2>1. p \in Field \X Field /\ Scaled(X, Y, x, y, Z, P) /\ j \in Jacobian /\ p # Null
    BY <1>2, Coordinates DEF Stands
  <2>2. y # 0
    BY <2>1, PointParts
  <2>3. /\ X \in Int /\ Y \in Int /\ Z \in Int /\ Y \in Field /\ Z \in Field
        /\ x \in Int /\ y \in Int /\ x \in Field /\ y \in Field /\ p = <<x, y>> /\ Z # 0
    BY <1>2, <2>1, JacobianParts, Coordinates
  <2>4. Add(p, p) = <<x3, y3>>
    BY <2>1 DEF Add, Res
  <2>5. JDbl(j) = IF Z = 0 \/ Y = 0 THEN JZero ELSE <<X3, Y3, z>>
    BY DEF JDbl, Res
  <2>. HIDE DEF X, Y, Z, x, y
  <2>6. Cong(X, x * Square(Z), P) /\ Cong(Y, y * Cube(Z), P)
    BY <2>1 DEF Scaled
  <2>7. Res(Z, P) # 0 /\ Res(y, P) # 0
    BY <2>2, <2>3, FieldSmall
  <2>8. Res(y * Cube(Z), P) # 0
    BY <2>3, <2>7, NotZeroPowers, NotZeroMul
  <2>9. Y # 0 /\ Res(Y, P) # 0
    <3>1. Res(Y, P) # 0
      BY <2>6, <2>8 DEF Cong
    <3>. QED BY <2>3, <3>1, FieldSmall
  <2>10. z \in Field /\ z # 0
    <3>. DEFINE t == 2 * Y
    <3>1. t \in Int /\ 2 \in Int
      BY <2>3
    <3>2. Res(t, P) # 0
      BY <2>3, <2>9, <3>1, SmallNotZero, NotZeroMul
    <3>. HIDE DEF t
    <3>3. Res(t * Z, P) # 0
      BY <2>3, <2>7, <3>1, <3>2, NotZeroMul
    <3>4. t * Z \in Int
      BY <2>3, <3>1
    <3>5. Res(t * Z, P) \in Field
      BY <3>4, FieldRes
    <3>. QED BY <3>3, <3>5 DEF t
  \* the slope
  <2>11. l \in Int /\ Cong(l * (2 * y), 3 * Square(x), P)
    <3>. DEFINE a == 2 * y
                b == 3 * x * x
    <3>1. a \in Int /\ b \in Int /\ 2 \in Int /\ b = 3 * Square(x)
      BY <2>3 DEF Square
    <3>2. Res(a, P) # 0
      BY <2>3, <2>7, <3>1, SmallNotZero, NotZeroMul
    <3>. HIDE DEF a, b
    <3>3. l = Res(b * Inv(a, P), P)
      BY DEF a, b
    <3>. HIDE DEF l
    <3>4. l \in Int /\ Cong(l * a, b, P)
      BY <3>1, <3>2, <3>3, FieldFacts, SlopeIs
    <3>. QED BY <3>1, <3>4 DEF a
  <2>12. Scaled(X3, Y3, x3, y3, z, P)
    <3>1. Doubles(X, Y, Z, A, B, C, D, X3, Y3, z, P)
      BY <2>3 DEF Doubles
    <3>2. Tangent(x, y, l, x3, y3, P)
      BY <2>3, <2>11 DEF Tangent
    <3>. HIDE DEF A, B, C, D, z, X3, Y3, l, x3, y3
    <3>. QED BY <2>1, <3>1, <3>2, FieldFacts, Doubling
  <2>. HIDE DEF X3, Y3, z, x3, y3
  <2>13. JDbl(j) = <<X3, Y3, z>>
    BY <2>3, <2>5, <2>9
  <2>14. <<X3, Y3, z>> \in Jacobian /\ <<x3, y3>> \in Field \X Field
    <3>1. Add(p, p) \in Points
      BY AddPoints
    <3>2. <<x3, y3>> # Null
      BY DEF Null
    <3>. QED BY <2>1, <2>4, <2>13, <3>1, <3>2, JDblType, PointParts
  <2>. QED BY <2>4, <2>10, <2>12, <2>13, <2>14 DEF Stands
<1>. QED BY <1>1, <1>2

\* numbers of the field are the same if they are, scaled
Multiplied(U, x, c) == U \in Field /\ x \in Field /\ c \in Int /\ Res(c, P) # 0 /\ Cong(U, x * c, P)

\* which tells points apart
LEMMA SameScaled ==
  ASSUME NEW c, NEW x, NEW y, NEW U, NEW V, Multiplied(U, x, c), Multiplied(V, y, c)
  PROVE  (U = V) <=> (x = y)
<1>. USE DEF Multiplied
<1>1. U \in Int /\ V \in Int /\ x \in Int /\ y \in Int /\ Res(U, P) = U /\ Res(V, P) = V /\ Res(x, P) = x /\ Res(y, P) = y
  BY FieldSmall
<1>2. U = Res(x * c, P) /\ V = Res(y * c, P)
  BY <1>1 DEF Cong
<1>3. ASSUME U = V PROVE x = y
  <2>. DEFINE p == x * c
              q == y * c
  <2>1. Cong(p, q, P) /\ p = x * c /\ q = y * c /\ Res(c, P) # 0 /\ c \in Int
    BY <1>2, <1>3 DEF Cong
  <2>. HIDE DEF p, q
  <2>2. Cong(x, y, P)
    BY <1>1, <2>1, FieldFacts, CongCancel
  <2>. QED BY <1>1, <2>2 DEF Cong
<1>. QED BY <1>2, <1>3

\* two numbers of the field differ by what is not 0
LEMMA FieldMinus ==
  ASSUME NEW x \in Field, NEW y \in Field, x # y, NEW d, d = x - y
  PROVE  d \in Int /\ Res(d, P) # 0
<1>1. x \in Int /\ y \in Int /\ Res(x, P) = x /\ Res(y, P) = y
  BY FieldSmall
<1>2. d \in Int
  BY <1>1
<1>3. ASSUME Res(d, P) = 0 PROVE FALSE
  <2>1. 0 \in 0..(P - 1) /\ 0 \in Int
    BY FieldFacts
  <2>2. Res(0, P) = 0
    BY <2>1, FieldFacts, ResSmall
  <2>3. Cong(d, 0, P) /\ Cong(y, y, P)
    BY <1>3, <2>2 DEF Cong
  <2>4. Cong(d + y, 0 + y, P)
    BY <1>1, <1>2, <2>1, <2>3, FieldFacts, Zenon, CongAdd
  <2>5. d + y = x /\ 0 + y = y
    BY <1>1
  <2>. QED BY <1>1, <2>4, <2>5 DEF Cong
<1>. QED BY <1>2, <1>3

\* addition in Jacobian coordinates
LEMMA JAddStands ==
  ASSUME NEW p \in Points, NEW q \in Points, NEW j, NEW k, Stands(j, p), Stands(k, q)
  PROVE  Stands(JAdd(j, k), Add(p, q))
<1>1. CASE j[3] = 0
  <2>1. p = Null /\ Add(p, q) = q
    BY <1>1 DEF Stands, Add
  <2>2. JAdd(j, k) = k
    BY <1>1 DEF JAdd
  <2>. QED BY <2>1, <2>2
<1>2. CASE j[3] # 0 /\ k[3] = 0
  <2>1. q = Null /\ Add(p, q) = p
    BY <1>2 DEF Stands, Add
  <2>2. JAdd(j, k) = j
    BY <1>2 DEF JAdd
  <2>. QED BY <2>1, <2>2
<1>3. CASE j[3] # 0 /\ k[3] # 0
  <2>. DEFINE X1 == j[1]
              Y1 == j[2]
              Z1 == j[3]
              X2 == k[1]
              Y2 == k[2]
              Z2 == k[3]
              x1 == p[1]
              y1 == p[2]
              x2 == q[1]
              y2 == q[2]
              ZZ1 == Res(Z1 * Z1, P)
              ZZ2 == Res(Z2 * Z2, P)
              U1 == Res(X1 * ZZ2, P)
              U2 == Res(X2 * ZZ1, P)
              S1 == Res(Y1 * Z2 * ZZ2, P)
              S2 == Res(Y2 * Z1 * ZZ1, P)
              H == Res(U2 - U1, P)
              I == Res(4 * H * H, P)
              J == Res(H * I, P)
              r == Res(2 * (S2 - S1), P)
              V == Res(U1 * I, P)
              X3 == Res(r * r - J - 2 * V, P)
              Y3 == Res(r * (V - X3) - 2 * S1 * J, P)
              zs == Z1 + Z2
              z == Res((zs * zs - ZZ1 - ZZ2) * H, P)
              l == Res((y2 - y1) * Inv(x2 - x1, P), P)
              x3 == Res(l * l - x1 - x2, P)
              y3 == Res(l * (x1 - x3) - y1, P)
              w == Z1 * Z2
  <2>1. /\ p \in Field \X Field /\ q \in Field \X Field /\ p # Null /\ q # Null
        /\ Scaled(X1, Y1, x1, y1, Z1, P) /\ Scaled(X2, Y2, x2, y2, Z2, P)
        /\ j \in Jacobian /\ k \in Jacobian
    BY <1>3, Coordinates DEF Stands
  <2>2. /\ X1 \in Int /\ Y1 \in Int /\ Z1 \in Int /\ Z1 \in Field /\ Z1 # 0
        /\ X2 \in Int /\ Y2 \in Int /\ Z2 \in Int /\ Z2 \in Field /\ Z2 # 0
        /\ x1 \in Int /\ y1 \in Int /\ x1 \in Field /\ y1 \in Field /\ p = <<x1, y1>>
        /\ x2 \in Int /\ y2 \in Int /\ x2 \in Field /\ y2 \in Field /\ q = <<x2, y2>>
    BY <1>3, <2>1, JacobianParts, Coordinates
  <2>3. Add(p, q) = IF x1 = x2 /\ y1 # y2 THEN Null ELSE IF p = q THEN Add(p, p) ELSE <<x3, y3>>
    BY <2>1 DEF Add, Res
  <2>4. JAdd(j, k) = IF U1 = U2 THEN (IF S1 = S2 THEN JDbl(j) ELSE JZero) ELSE <<X3, Y3, z>>
    BY <1>3 DEF JAdd, Res
  <2>. HIDE DEF X1, Y1, Z1, X2, Y2, Z2, x1, y1, x2, y2
  \* both brought to the scale w
  <2>5. Scaled(U1, S1, x1, y1, w, P) /\ U1 \in Int /\ S1 \in Int /\ w \in Int
    <3>1. Rescales(X1, Y1, x1, y1, Z1, Z2, ZZ2, U1, S1, w, P)
      BY <2>2 DEF Rescales
    <3>. HIDE DEF ZZ2, U1, S1, w
    <3>. QED BY <2>1, <2>2, <3>1, FieldFacts, Rescaled
  <2>6. Scaled(U2, S2, x2, y2, w, P) /\ U2 \in Int /\ S2 \in Int
    <3>1. Rescales(X2, Y2, x2, y2, Z2, Z1, ZZ1, U2, S2, w, P)
      BY <2>2 DEF Rescales
    <3>. HIDE DEF ZZ1, U2, S2, w
    <3>. QED BY <2>1, <2>2, <3>1, FieldFacts, Rescaled
  <2>7. Res(w, P) # 0
    BY <2>2, FieldSmall, NotZeroMul
  <2>8. ZZ1 \in Int /\ ZZ2 \in Int
    <3>1. Z1 * Z1 \in Int /\ Z2 * Z2 \in Int
      BY <2>2
    <3>. QED BY <3>1, FieldRes, FieldSmall
  <2>9. U1 \in Field /\ U2 \in Field /\ S1 \in Field /\ S2 \in Field
    <3>. HIDE DEF ZZ1, ZZ2
    <3>. DEFINE a == X1 * ZZ2
                b == X2 * ZZ1
                c == Y1 * Z2
                d == Y2 * Z1
                e == c * ZZ2
                f == d * ZZ1
    <3>1. a \in Int /\ b \in Int /\ c \in Int /\ d \in Int
      BY <2>2, <2>8
    <3>2. e \in Int /\ f \in Int
      <4>. HIDE DEF c, d
      <4>. QED BY <2>8, <3>1
    <3>3. U1 = Res(a, P) /\ U2 = Res(b, P) /\ S1 = Res(e, P) /\ S2 = Res(f, P)
      OBVIOUS
    <3>. HIDE DEF a, b, e, f, U1, U2, S1, S2
    <3>. QED BY <3>1, <3>2, <3>3, FieldRes
  <2>. HIDE DEF w
  <2>10. (U1 = U2 <=> x1 = x2) /\ (S1 = S2 <=> y1 = y2)
    <3>1. Square(w) \in Int /\ Cube(w) \in Int /\ Res(Square(w), P) # 0 /\ Res(Cube(w), P) # 0
      BY <2>5, <2>7, NotZeroPowers
    <3>. HIDE DEF U1, U2, S1, S2
    <3>2. /\ Cong(U1, x1 * Square(w), P) /\ Cong(U2, x2 * Square(w), P)
          /\ Cong(S1, y1 * Cube(w), P) /\ Cong(S2, y2 * Cube(w), P)
      BY <2>5, <2>6 DEF Scaled
    <3>3. /\ Multiplied(U1, x1, Square(w)) /\ Multiplied(U2, x2, Square(w))
          /\ Multiplied(S1, y1, Cube(w)) /\ Multiplied(S2, y2, Cube(w))
      BY <2>2, <2>9, <3>1, <3>2 DEF Multiplied
    <3>. QED BY <3>3, SameScaled
  <2>11. CASE x1 = x2 /\ y1 = y2
    <3>. HIDE DEF U1, U2, S1, S2
    <3>1. p = q
      BY <2>2, <2>11
    <3>2. JAdd(j, k) = JDbl(j)
      BY <2>4, <2>10, <2>11
    <3>. QED BY <3>1, <3>2, JDblStands
  <2>12. CASE x1 = x2 /\ y1 # y2
    <3>. HIDE DEF U1, U2, S1, S2
    <3>1. Add(p, q) = Null
      BY <2>3, <2>12
    <3>2. JAdd(j, k) = JZero
      BY <2>4, <2>10, <2>12
    <3>. QED BY <3>1, <3>2, JZeroStands
  <2>13. CASE x1 # x2
    <3>1. p # q
      BY <2>13 DEF x1, x2
    <3>2. Add(p, q) = <<x3, y3>>
      BY <2>3, <2>13, <3>1
    <3>3. JAdd(j, k) = <<X3, Y3, z>>
      BY <2>4, <2>10, <2>13
    <3>. HIDE DEF ZZ1, ZZ2, U1, U2, S1, S2
    \* the slope
    <3>4. l \in Int /\ Cong(l * (x2 - x1), y2 - y1, P)
      <4>. DEFINE a == x2 - x1
                  b == y2 - y1
      <4>1. a \in Int /\ Res(a, P) # 0
        BY <2>2, <2>13, FieldMinus
      <4>2. b \in Int /\ l = Res(b * Inv(a, P), P)
        BY <2>2
      <4>. HIDE DEF a, b, l
      <4>3. l \in Int /\ Cong(l * a, b, P)
        BY <4>1, <4>2, FieldFacts, SlopeIs
      <4>. QED BY <4>3 DEF a, b
    <3>5. H \in Field /\ H \in Int /\ Res(H, P) # 0
      <4>. DEFINE a == U2 - U1
      <4>1. a \in Int /\ Res(a, P) # 0
        BY <2>9, <2>10, <2>13, FieldMinus
      <4>2. H = Res(a, P)
        OBVIOUS
      <4>. HIDE DEF a, H
      <4>. QED BY <4>1, <4>2, FieldRes, FieldSmall
    <3>6. H = Res(U2 - U1, P)
      OBVIOUS
    <3>. HIDE DEF H, l
    <3>7. Cong(z, (2 * w) * H, P) /\ z \in Int /\ z \in Field /\ z # 0
      <4>. DEFINE a == Z1 * Z1
                  b == Z2 * Z2
                  c == zs * zs
                  t == c - ZZ1 - ZZ2
                  w2 == 2 * w
      <4>1. a \in Int /\ b \in Int /\ c \in Int
        BY <2>2
      <4>2. Cong(ZZ1, a, P) /\ Cong(ZZ2, b, P)
        <5>. HIDE DEF a, b
        <5>. QED BY <4>1, FieldFacts, CongRes DEF ZZ1, ZZ2, a, b
      <4>3. c - a - b = w2
        BY <2>2 DEF w
      <4>. HIDE DEF a, b, c
      <4>4. Cong(c, c, P)
        BY <4>1, FieldFacts, CongSelf
      <4>5. Cong(c - ZZ1, c - a, P)
        BY <2>8, <4>1, <4>2, <4>4, FieldFacts, Zenon, CongSub
      <4>6. c - ZZ1 \in Int /\ c - a \in Int
        BY <2>8, <4>1
      <4>7. Cong(c - ZZ1 - ZZ2, c - a - b, P)
        BY <2>8, <4>1, <4>2, <4>5, <4>6, FieldFacts, Zenon, CongSub
      <4>8. t \in Int /\ Cong(t, w2, P) /\ w2 \in Int
        BY <2>5, <2>8, <4>1, <4>3, <4>7
      <4>9. Res(w2, P) # 0
        <5>1. 2 \in Int
          OBVIOUS
        <5>. QED BY <2>5, <2>7, <5>1, SmallNotZero, NotZeroMul
      <4>10. z = Res(t * H, P)
        BY DEF c
      <4>. HIDE DEF t, w2, z
      <4>11. Cong(z, w2 * H, P) /\ z \in Int /\ w2 * H \in Int
        <5>1. Cong(H, H, P)
          BY <3>5, FieldFacts, CongSelf
        <5>. QED BY <3>5, <4>8, <4>10, <5>1, FieldFacts, MulRes
      <4>12. z \in Field
        <5>1. t * H \in Int
          BY <3>5, <4>8
        <5>. QED BY <4>10, <5>1, FieldRes
      <4>13. Res(w2 * H, P) # 0
        BY <3>5, <4>8, <4>9, NotZeroMul
      <4>14. Res(z, P) # 0
        BY <4>11, <4>13 DEF Cong
      <4>15. z # 0
        BY <4>11, <4>12, <4>14, FieldSmall
      <4>. QED BY <4>11, <4>12, <4>15 DEF w2
    <3>8. Adds(U1, S1, U2, S2, w, H, I, J, r, V, X3, Y3, z, P)
      BY <2>5, <2>6, <3>6, <3>7 DEF Adds
    <3>9. Secant(x1, y1, x2, y2, l, x3, y3, P)
      BY <2>2, <3>4 DEF Secant
    <3>10. Scaled(X3, Y3, x3, y3, z, P)
      <4>. HIDE DEF I, J, r, V, X3, Y3, z, x3, y3
      <4>. QED BY <2>5, <2>6, <3>8, <3>9, FieldFacts, Adding
    <3>. HIDE DEF X3, Y3, z, x3, y3
    <3>11. <<X3, Y3, z>> \in Jacobian /\ <<x3, y3>> \in Field \X Field
      <4>1. Add(p, q) \in Points
        BY AddPoints
      <4>2. <<x3, y3>> # Null
        BY DEF Null
      <4>. QED BY <2>1, <3>2, <3>3, <4>1, <4>2, JAddType, PointParts
    <3>. QED BY <3>2, <3>3, <3>7, <3>10, <3>11 DEF Stands
  <2>. QED BY <2>11, <2>12, <2>13
<1>. QED BY <1>1, <1>2, <1>3
-----------------------------------------------------------------------------
(***************************************************************************)
(* Multiples of G, counted one by one.                                     *)
(***************************************************************************)
\* the points that the loops start from
LEMMA PointsFacts ==
  Null \in Points /\ G \in Points /\ G # Null /\ JZero \in Jacobian
<1>1. G \in Points /\ G # Null
  BY GeneratorAssumption, Coordinates DEF Points
<1>2. JZero \in Jacobian
  BY JZeroStands DEF Stands
<1>. QED BY <1>1, <1>2 DEF Points

\* adding the identity
LEMMA AddNull ==
  ASSUME NEW p
  PROVE  Add(Null, p) = p /\ Add(p, Null) = p
BY DEF Add

\* adding k times, one by one
LEMMA TimesSteps ==
  ASSUME NEW p \in Points
  PROVE  /\ Times(0, p) = Null
         /\ \A i \in Nat : Times(i, p) \in Points
         /\ \A i \in Nat : Times(i + 1, p) = Add(p, Times(i, p))
<1>. DEFINE H(sum) == [i \in Nat |-> IF i = 0 THEN Null ELSE Add(p, sum[i - 1])]
            g == CHOOSE sum : sum = H(sum)
            step == [x \in Points \X (Nat \ {0}) |-> Add(p, x[1])]
<1>1. \A i : Times(i, p) = g[i]
  BY DEF Times
<1>2. \A q \in Points : Add(p, q) \in Points
  BY AddPoints
<1>2a. step \in [Points \X (Nat \ {0}) -> Points]
  BY <1>2
<1>3. \A v \in Points, i \in Nat \ {0} : step[<<v, i>>] = Add(p, v)
  OBVIOUS
<1>. HIDE DEF step
<1>4. PICK f : f \in [Nat -> Points] /\ f[0] = Null /\ \A i \in Nat \ {0} : f[i] = step[<<f[i - 1], i>>]
  <2>1. \E f : IteratesForever(f, Points, Null, step)
    BY ONLY <1>2a, PointsFacts, IteratedForever
  <2>. QED BY <2>1 DEF IteratesForever
<1>5. ASSUME NEW i \in Nat PROVE f[i] = IF i = 0 THEN Null ELSE Add(p, f[i - 1])
  <2>1. CASE i = 0
    BY <1>4, <2>1
  <2>2. CASE i # 0
    <3>1. i - 1 \in Nat /\ i \in Nat \ {0}
      BY <2>2
    <3>. QED BY <1>3, <1>4, <2>2, <3>1
  <2>. QED BY <2>1, <2>2
<1>6. f = H(f)
  BY <1>4, <1>5
<1>7. g = H(g)
  <2>1. \E sum : sum = H(sum)
    BY <1>6
  <2>. HIDE DEF H
  <2>. QED BY <2>1
<1>. HIDE DEF g
<1>8. \A i \in Nat : g[i] = IF i = 0 THEN Null ELSE Add(p, g[i - 1])
  BY <1>7
<1>9. \A i \in Nat : g[i + 1] = Add(p, g[i])
  <2>1. ASSUME NEW i \in Nat PROVE g[i + 1] = Add(p, g[i])
    <3>. DEFINE j == i + 1
    <3>1. j \in Nat /\ j # 0 /\ j - 1 = i
      OBVIOUS
    <3>. HIDE DEF j
    <3>2. g[j] = Add(p, g[i])
      BY <1>8, <3>1
    <3>. QED BY <3>2 DEF j
  <2>. QED BY <2>1
<1>. DEFINE T == {k \in Nat : g[k] \in Points}
<1>10. 0 \in T
  BY <1>8, PointsFacts
<1>11. \A k \in Nat : k \in T => k + 1 \in T
  BY <1>9, <1>2
<1>. HIDE DEF T
<1>12. \A k \in Nat : k \in T
  BY <1>10, <1>11, CountOn
<1>13. \A k \in Nat : g[k] \in Points
  BY <1>12 DEF T
<1>14. g[0] = Null
  BY <1>8
<1>. QED BY <1>1, <1>9, <1>13, <1>14
-----------------------------------------------------------------------------
\* counting the multiples of G
LEMMA GenSteps ==
  /\ Gen(0) = Null /\ Gen(1) = G
  /\ \A i \in Nat : Gen(i) \in Points
  /\ \A i \in Nat : Gen(i + 1) = Add(G, Gen(i))
<1>1. Gen(0) = Null /\ (\A i \in Nat : Gen(i) \in Points) /\ (\A i \in Nat : Gen(i + 1) = Add(G, Gen(i)))
  BY PointsFacts, TimesSteps DEF Gen
<1>2. 0 \in Nat /\ 0 + 1 = 1
  OBVIOUS
<1>3. Gen(0 + 1) = Add(G, Gen(0))
  BY <1>1, <1>2
<1>4. Add(G, Null) = G
  BY AddNull
<1>. QED BY <1>1, <1>2, <1>3, <1>4

\* multiples add up
LEMMA GenPlus ==
  ASSUME NEW a \in Nat, NEW b \in Nat, NEW c, c = a + b
  PROVE  Gen(c) = Add(Gen(a), Gen(b))
<1>. DEFINE T == {k \in Nat : Gen(k + b) = Add(Gen(k), Gen(b))}
<1>1. 0 \in T
  <2>1. Gen(0 + b) = Gen(b)
    OBVIOUS
  <2>. QED BY <2>1, GenSteps, AddNull
<1>2. ASSUME NEW k \in Nat, k \in T PROVE k + 1 \in T
  <2>. DEFINE j == k + b
              i == k + 1
  <2>1. j \in Nat /\ i \in Nat /\ i + b = j + 1
    OBVIOUS
  <2>2. Gen(j) = Add(Gen(k), Gen(b))
    BY <1>2
  <2>3. Gen(i) = Add(G, Gen(k))
    BY GenSteps
  <2>. HIDE DEF j, i
  <2>4. Gen(i + b) = Add(G, Gen(j))
    BY <2>1, GenSteps
  <2>5. Add(Add(G, Gen(k)), Gen(b)) = Add(G, Add(Gen(k), Gen(b)))
    BY GenSteps, AddPoints
  <2>6. Gen(i + b) = Add(Gen(i), Gen(b))
    BY <2>2, <2>3, <2>4, <2>5
  <2>. QED BY <2>1, <2>6 DEF i
<1>. HIDE DEF T
<1>3. \A k \in Nat : k \in T
  BY <1>1, <1>2, CountOn
<1>4. a \in T
  BY <1>3
<1>. QED BY <1>4 DEF T

\* k times a multiple of G
LEMMA GenTimes ==
  ASSUME NEW a \in Nat, NEW k \in Nat, NEW c, c = k * a
  PROVE  Times(k, Gen(a)) = Gen(c)
<1>. DEFINE T == {i \in Nat : Times(i, Gen(a)) = Gen(i * a)}
<1>1. Gen(a) \in Points
  BY GenSteps
<1>2. 0 \in T
  <2>1. 0 * a = 0
    OBVIOUS
  <2>2. Times(0, Gen(a)) = Null
    BY <1>1, TimesSteps
  <2>. QED BY <2>1, <2>2, GenSteps
<1>3. ASSUME NEW i \in Nat, i \in T PROVE i + 1 \in T
  <2>. DEFINE b == i * a
              d == a + b
  <2>1. b \in Nat /\ (i + 1) * a = d
    OBVIOUS
  <2>2. Times(i + 1, Gen(a)) = Add(Gen(a), Times(i, Gen(a)))
    BY <1>1, TimesSteps
  <2>3. Times(i, Gen(a)) = Gen(b)
    BY <1>3
  <2>. HIDE DEF b
  <2>4. d = a + b
    OBVIOUS
  <2>. HIDE DEF d
  <2>5. Gen(d) = Add(Gen(a), Gen(b))
    BY <2>1, <2>4, GenPlus
  <2>. QED BY <2>1, <2>2, <2>3, <2>5
<1>. HIDE DEF T
<1>4. \A i \in Nat : i \in T
  BY <1>2, <1>3, CountOn
<1>5. k \in T
  BY <1>4
<1>. QED BY <1>5 DEF T

\* the identity stays the identity
LEMMA TimesNull ==
  ASSUME NEW k \in Nat
  PROVE  Times(k, Null) = Null
<1>. DEFINE T == {i \in Nat : Times(i, Null) = Null}
<1>1. 0 \in T
  BY PointsFacts, TimesSteps
<1>2. ASSUME NEW i \in Nat, i \in T PROVE i + 1 \in T
  BY <1>2, PointsFacts, TimesSteps, AddNull
<1>. HIDE DEF T
<1>3. \A i \in Nat : i \in T
  BY <1>1, <1>2, CountOn
<1>. QED BY <1>3 DEF T

\* counted around the group
LEMMA GenMod ==
  ASSUME NEW a \in Nat
  PROVE  Gen(a) = Gen(Res(a, N))
<1>. DEFINE r == Res(a, N)
<1>1. N \in Nat \ {0} /\ N \in Nat
  BY OrderFacts
<1>a. r \in 0..(N - 1) /\ \E q \in Nat : a = (q * N) + r
  BY <1>1, Quotient
<1>. HIDE DEF r
<1>b. PICK q \in Nat : a = (q * N) + r
  BY <1>a
<1>. DEFINE b == q * N
<1>2. q \in Nat /\ r \in Nat /\ a = b + r
  BY <1>1, <1>a, <1>b
<1>3. b \in Nat
  BY <1>1, <1>2
<1>4. Gen(N) = Null
  BY GroupAssumption DEF Gen
<1>5. Gen(b) = Null
  <2>1. Times(q, Gen(N)) = Gen(b)
    BY <1>1, <1>2, GenTimes
  <2>. QED BY <1>2, <1>4, <2>1, TimesNull
<1>. HIDE DEF b
<1>6. Gen(a) = Add(Gen(b), Gen(r))
  BY <1>2, <1>3, GenPlus
<1>. QED BY <1>5, <1>6, AddNull DEF r

\* multiples of G are the identity only where N divides
LEMMA GenNull ==
  ASSUME NEW k \in Nat, Gen(k) = Null
  PROVE  Res(k, N) = 0
<1>. SUFFICES ASSUME Res(k, N) # 0 PROVE FALSE
  OBVIOUS
<1>a. k \in Int
  OBVIOUS
<1>b. \E b \in Int : Res(k * b, N) = 1
  BY <1>a, OrderFacts, Zenon, Invertible
<1>1. PICK b \in Int : Res(k * b, N) = 1
  BY <1>b
<1>. DEFINE i == Res(b, N)
            c == i * k
<1>2. i \in Nat /\ i \in Int /\ Cong(i, b, N)
  <2>1. i \in 0..(N - 1) /\ i \in Int /\ Cong(i, b, N)
    BY OrderFacts, CongRes
  <2>. QED BY <2>1
<1>. HIDE DEF i
<1>3. Times(i, Gen(k)) = Gen(c)
  BY <1>2, GenTimes
<1>4. Gen(c) = Null
  BY <1>2, <1>3, TimesNull
<1>5. c \in Nat
  BY <1>2
<1>6. Res(c, N) = 1
  <2>1. Cong(k * i, k * b, N)
    BY <1>a, <1>2, OrderFacts, Zenon, CongBy
  <2>2. c = k * i
    BY <1>2
  <2>. QED BY <1>1, <2>1, <2>2 DEF Cong
<1>. HIDE DEF c
<1>7. Gen(c) = Gen(1)
  BY <1>5, <1>6, GenMod
<1>. QED BY <1>4, <1>7, GenSteps, PointsFacts

\* and different below N
LEMMA GenSame ==
  ASSUME NEW a \in Scalar, NEW b \in Scalar, Gen(a) = Gen(b)
  PROVE  a = b
<1>. DEFINE c == N - b
            d == a + c
<1>1. a \in 0..(N - 1) /\ b \in 0..(N - 1) /\ N \in Nat /\ N \in Nat \ {0} /\ N > 2
  BY OrderFacts
<1>2. c \in Nat /\ N = b + c /\ a \in Nat /\ b \in Nat /\ d \in Nat
  BY <1>1
<1>3. d = a + c
  OBVIOUS
<1>. HIDE DEF c, d
<1>4. Gen(d) = Add(Gen(a), Gen(c)) /\ Gen(N) = Add(Gen(b), Gen(c))
  BY SMTT(30), <1>2, <1>3, GenPlus
<1>5. Gen(N) = Null
  BY GroupAssumption DEF Gen
<1>6. Res(d, N) = 0
  <2>1. Gen(d) = Null
    BY <1>4, <1>5
  <2>. QED BY <1>2, <2>1, GenNull
<1>7. \E e \in Nat : d = (e * N) + 0
  <2>1. \E e \in Nat : d = (e * N) + Res(d, N)
    BY <1>1, <1>2, Quotient
  <2>. QED BY <1>6, <2>1
<1>8. 0 < d /\ d < 2 * N
  BY <1>1, <1>2, <1>3
<1>a. PICK e \in Nat : d = (e * N) + 0
  BY <1>7
<1>9. e \in Int /\ d = e * N
  BY <1>1, <1>a
<1>10. e = 1
  <2>1. ~(e <= 0)
    <3>1. ASSUME e <= 0 PROVE e * N <= 0
      BY <1>1, <1>9, <3>1
    <3>. QED BY <1>1, <1>2, <1>8, <1>9, <3>1
  <2>2. ~(e >= 2)
    <3>1. ASSUME e >= 2 PROVE e * N >= 2 * N
      BY <1>1, <1>9, <3>1
    <3>. QED BY <1>1, <1>2, <1>8, <1>9, <3>1
  <2>. QED BY <1>9, <2>1, <2>2
<1>11. d = N
  BY <1>1, <1>9, <1>10
<1>. QED BY <1>1, <1>2, <1>3, <1>11
-----------------------------------------------------------------------------
(***************************************************************************)
(* Double and add.                                                         *)
(***************************************************************************)
\* the loop of Mul
LEMMA MulLoop ==
  \E f : /\ HalvesAway(f, Jacobian, [d \in Jacobian \X Jacobian |-> JAdd(d[1], d[2])], [x \in Jacobian |-> JDbl(x)])
         /\ \A k, p : Mul(k, p) = IF p = Null THEN Null ELSE Affine(f[<<JZero, <<p[1], p[2], 1>>, Res(k, N)>>])
<1>. DEFINE H(loop) ==
              [v \in Jacobian \X Jacobian \X Nat |->
                 IF v[3] = 0 THEN v[1]
                 ELSE loop[<<IF v[3] % 2 = 1 THEN JAdd(v[1], v[2]) ELSE v[1], JDbl(v[2]), v[3] \div 2>>]]
            f == CHOOSE f : f = H(f)
            take == [d \in Jacobian \X Jacobian |-> JAdd(d[1], d[2])]
            dbl == [x \in Jacobian |-> JDbl(x)]
<1>1. \A k, p : Mul(k, p) = IF p = Null THEN Null ELSE Affine(f[<<JZero, <<p[1], p[2], 1>>, Res(k, N)>>])
  BY DEF Mul, Res
<1>2. \A x, y \in Jacobian : JAdd(x, y) \in Jacobian /\ JDbl(x) \in Jacobian
  BY JAddType, JDblType
<1>3. take \in [Jacobian \X Jacobian -> Jacobian] /\ dbl \in [Jacobian -> Jacobian]
  BY <1>2
<1>4. ASSUME NEW x \in Jacobian, NEW y \in Jacobian PROVE take[<<x, y>>] = JAdd(x, y) /\ dbl[x] = JDbl(x)
  OBVIOUS
<1>. HIDE DEF take, dbl
<1>5. PICK g : HalvesAway(g, Jacobian, take, dbl)
  BY <1>3, HalvingLoop
<1>6. g = H(g)
  BY <1>4, <1>5 DEF HalvesAway
<1>7. f = H(f)
  <2>1. \E p : p = H(p)
    BY <1>6
  <2>. HIDE DEF H
  <2>. QED BY <2>1
<1>. HIDE DEF f
<1>8. HalvesAway(f, Jacobian, take, dbl)
  BY <1>4, <1>7 DEF HalvesAway
<1>. QED BY <1>1, <1>8 DEF take, dbl

(***************************************************************************)
(* bip340.js:32-67: double-and-add in Jacobian coordinates, on whichever   *)
(* multiple of G, is counting: k added to itself a times.                  *)
(***************************************************************************)
THEOREM MulCounts ==
  ASSUME NEW k \in Nat, NEW a \in Nat, NEW c, c = Res(k, N) * a
  PROVE  Mul(k, Gen(a)) = Gen(c)
<1>. DEFINE take == [d \in Jacobian \X Jacobian |-> JAdd(d[1], d[2])]
            dbl == [x \in Jacobian |-> JDbl(x)]
            p == Gen(a)
            n == Res(k, N)
<1>1. PICK f : /\ HalvesAway(f, Jacobian, take, dbl)
               /\ \A i, q : Mul(i, q) = IF q = Null THEN Null
                                        ELSE Affine(f[<<JZero, <<q[1], q[2], 1>>, Res(i, N)>>])
  BY MulLoop
<1>2. \A x, y \in Jacobian : take[<<x, y>>] = JAdd(x, y) /\ dbl[x] = JDbl(x)
  OBVIOUS
<1>3. n \in Nat /\ n \in Int
  <2>1. n \in 0..(N - 1)
    BY OrderFacts, CongRes
  <2>. QED BY <2>1
<1>. HIDE DEF take, dbl, n
<1>4. CASE p = Null
  <2>1. Mul(k, p) = Null
    BY <1>1, <1>4
  <2>2. Times(n, p) = Gen(c)
    BY <1>3, GenTimes DEF n
  <2>. QED BY <1>3, <1>4, <2>1, <2>2, TimesNull
<1>5. CASE p # Null
  <2>. DEFINE Good(i, r, x, u, v) ==
                Stands(r, Gen(u)) /\ Stands(x, Gen(v)) => Stands(f[<<r, x, i>>], Gen(u + (i * v)))
              T == {i \in Nat : \A r, x \in Jacobian : \A u, v \in Nat : Good(i, r, x, u, v)}
  <2>1. 0 \in T
    <3>1. ASSUME NEW r \in Jacobian, NEW x \in Jacobian, NEW u \in Nat, NEW v \in Nat, Stands(r, Gen(u))
          PROVE  Stands(f[<<r, x, 0>>], Gen(u + (0 * v)))
      <4>. DEFINE z == 0
      <4>1. z \in Nat
        OBVIOUS
      <4>2. z = 0
        OBVIOUS
      <4>. HIDE DEF z
      <4>3. f[<<r, x, z>>] = IF z = 0 THEN r ELSE f[<<IF z % 2 = 1 THEN take[<<r, x>>] ELSE r, dbl[x], z \div 2>>]
        BY <1>1, <4>1, HalvesOn
      <4>4. u + (z * v) = u
        BY <4>2
      <4>5. Stands(f[<<r, x, z>>], Gen(u + (z * v)))
        BY <3>1, <4>2, <4>3, <4>4
      <4>. QED BY <4>2, <4>5
    <3>. QED BY <3>1
  <2>2. ASSUME NEW i \in Nat \ {0}, i \div 2 \in T PROVE i \in T
    <3>. DEFINE h == i \div 2
    <3>1. h \in Nat /\ i \in Nat /\ i # 0 /\ (i % 2 = 1 => i = 2 * h + 1) /\ (i % 2 # 1 => i = 2 * h)
      OBVIOUS
    <3>2. \A r, x \in Jacobian : \A u, v \in Nat : Good(h, r, x, u, v)
      BY <2>2
    <3>. HIDE DEF T
    <3>3. ASSUME NEW r \in Jacobian, NEW x \in Jacobian, NEW u \in Nat, NEW v \in Nat,
                 Stands(r, Gen(u)), Stands(x, Gen(v))
          PROVE  Stands(f[<<r, x, i>>], Gen(u + (i * v)))
      <4>. DEFINE s == IF i % 2 = 1 THEN JAdd(r, x) ELSE r
                  y == JDbl(x)
                  t == IF i % 2 = 1 THEN u + v ELSE u
                  w == v + v
      <4>1. f[<<r, x, i>>] = f[<<s, y, h>>]
        <5>1. f[<<r, x, i>>] = IF i = 0 THEN r ELSE f[<<IF i % 2 = 1 THEN take[<<r, x>>] ELSE r, dbl[x], i \div 2>>]
          BY <1>1, <3>1, HalvesOn
        <5>. QED BY <1>2, <3>1, <5>1
      <4>. HIDE DEF h
      <4>2. t \in Nat /\ w \in Nat
        OBVIOUS
      <4>3. Gen(u) \in Points /\ Gen(v) \in Points
        BY GenSteps
      <4>4. s \in Jacobian /\ Stands(s, Gen(t))
        <5>1. CASE i % 2 = 1
          <6>. DEFINE g == u + v
          <6>1. Stands(JAdd(r, x), Add(Gen(u), Gen(v)))
            BY <3>3, <4>3, JAddStands
          <6>2. g \in Nat /\ t = g
            BY <5>1
          <6>3. Gen(g) = Add(Gen(u), Gen(v))
            BY GenPlus
          <6>. QED BY <5>1, <6>1, <6>2, <6>3 DEF Stands
        <5>2. CASE i % 2 # 1
          BY <3>3, <5>2
        <5>. QED BY <5>1, <5>2
      <4>5. y \in Jacobian /\ Stands(y, Gen(w))
        <5>1. Stands(y, Add(Gen(v), Gen(v)))
          BY <3>3, <4>3, JDblStands
        <5>2. Gen(w) = Add(Gen(v), Gen(v))
          BY GenPlus
        <5>. QED BY <5>1, <5>2 DEF Stands
      <4>6. t + (h * w) = u + (i * v)
        <5>1. CASE i % 2 = 1
          <6>1. i = 2 * h + 1 /\ t = u + v
            BY <3>1, <5>1
          <6>2. (u + v) + (h * (v + v)) = u + ((2 * h + 1) * v)
            BY <3>1
          <6>. QED BY <6>1, <6>2
        <5>2. CASE i % 2 # 1
          <6>1. i = 2 * h /\ t = u
            BY <3>1, <5>2
          <6>2. u + (h * (v + v)) = u + ((2 * h) * v)
            BY <3>1
          <6>. QED BY <6>1, <6>2
        <5>. QED BY <5>1, <5>2
      <4>. HIDE DEF s, y, t, w
      <4>7. Good(h, s, y, t, w)
        BY <3>2, <4>2, <4>4, <4>5
      <4>8. Stands(f[<<s, y, h>>], Gen(t + (h * w)))
        BY <4>4, <4>5, <4>7
      <4>. QED BY <4>1, <4>6, <4>8
    <3>. QED BY <3>1, <3>3 DEF T
  <2>. HIDE DEF T
  <2>3. n \in T
    BY <1>3, <2>1, <2>2, Halving
  <2>. DEFINE j == <<p[1], p[2], 1>>
  <2>4. p \in Points
    BY GenSteps
  <2>5. j \in Jacobian /\ Stands(j, p)
    <3>1. p \in Field \X Field
      BY <1>5, <2>4, PointParts
    <3>2. 1 \in Field /\ 1 \in Int
      BY FieldFacts
    <3>3. p[1] \in Field /\ p[2] \in Field /\ p[1] \in Int /\ p[2] \in Int
      BY <3>1, Coordinates
    <3>4. j \in Jacobian /\ j[1] = p[1] /\ j[2] = p[2] /\ j[3] = 1
      BY <3>2, <3>3 DEF Jacobian
    <3>. HIDE DEF j, p
    <3>5. p[1] * Square(1) = p[1] /\ p[2] * Cube(1) = p[2]
      BY <3>3 DEF Square, Cube
    <3>6. Scaled(p[1], p[2], p[1], p[2], 1, P)
      BY <3>3, <3>5, FieldFacts, CongSelf DEF Scaled
    <3>. QED BY <3>1, <3>4, <3>6 DEF Stands
  <2>6. Mul(k, p) = Affine(f[<<JZero, j, n>>])
    BY <1>1, <1>5 DEF n
  <2>. HIDE DEF j
  <2>7. Stands(f[<<JZero, j, n>>], Gen(0 + (n * a)))
    <3>1. Stands(JZero, Gen(0))
      BY GenSteps, JZeroStands
    <3>2. Good(n, JZero, j, 0, a)
      <4>1. 0 \in Nat
        OBVIOUS
      <4>. QED BY <2>3, <2>5, <4>1, PointsFacts DEF T
    <3>. QED BY <2>5, <3>1, <3>2
  <2>8. 0 + (n * a) = c
    BY <1>3 DEF n
  <2>. QED BY <2>6, <2>7, <2>8, AffineIs
<1>. QED BY <1>4, <1>5
-----------------------------------------------------------------------------
(***************************************************************************)
(* Points by their x.                                                      *)
(***************************************************************************)
\* the field prime is odd
LEMMA Parities ==
  /\ \A y \in Int : (P - y) % 2 = 0 <=> y % 2 # 0
  /\ (P + 1) \div 4 \in Nat /\ 4 * ((P + 1) \div 4) = P + 1
BY FieldAssumption

\* a square has at most two roots
LEMMA TwoRoots ==
  ASSUME NEW y \in Field, NEW z \in Field, y # 0, Cong(Square(y), Square(z), P)
  PROVE  z = y \/ z = P - y
<1>. DEFINE a == z - y
            b == z + y
            yy == Square(y)
            zz == Square(z)
<1>1. y \in Int /\ z \in Int /\ Res(y, P) = y /\ 0 < y /\ y < P /\ 0 <= z /\ z < P
  <2>1. y \in Int /\ z \in Int /\ Res(y, P) = y
    BY FieldSmall
  <2>2. y \in 0..(P - 1) /\ z \in 0..(P - 1)
    BY FieldFacts
  <2>. QED BY <2>1, <2>2, FieldFacts
<1>2. a \in Int /\ b \in Int
  BY <1>1
<1>3. a * b = zz - yy /\ yy \in Int /\ zz \in Int
  BY <1>1 DEF Square
<1>4. Res(a * b, P) = 0
  <2>. HIDE DEF yy, zz
  <2>1. Cong(zz, yy, P) /\ Cong(yy, yy, P)
    BY <1>3, FieldFacts, CongBack, CongSelf DEF yy, zz
  <2>2. Cong(zz - yy, yy - yy, P)
    BY <1>3, <2>1, FieldFacts, Zenon, CongSub
  <2>3. yy - yy = 0
    BY <1>3
  <2>4. Res(0, P) = 0
    <3>1. 0 \in 0..(P - 1)
      BY FieldFacts
    <3>. QED BY <3>1, FieldFacts, ResSmall
  <2>. QED BY <1>3, <2>2, <2>3, <2>4 DEF Cong
<1>5. CASE z = y
  BY <1>5
<1>6. CASE z # y
  <2>1. Res(a, P) # 0
    BY <1>6, FieldMinus
  <2>. HIDE DEF a
  <2>2. Res(b, P) = 0
    BY <1>2, <1>4, <2>1, NotZeroMul
  <2>3. b \in Nat /\ P \in Nat /\ P \in Nat \ {0}
    BY <1>1, FieldFacts
  <2>4. \E q \in Nat : b = (q * P) + Res(b, P)
    <3>. HIDE DEF b
    <3>. QED BY <2>3, Quotient
  <2>5. PICK q \in Nat : b = q * P
    BY <2>2, <2>3, <2>4
  <2>6. 0 < b /\ b < 2 * P
    BY <1>1, <2>3
  <2>7. q = 1
    <3>. HIDE DEF b
    <3>1. q # 0
      BY <2>3, <2>5, <2>6
    <3>2. ASSUME q >= 2 PROVE FALSE
      <4>1. q * P >= 2 * P
        BY <2>3, <3>2
      <4>. QED BY <2>3, <2>5, <2>6, <4>1
    <3>. QED BY <3>1, <3>2
  <2>. QED BY <1>1, <2>3, <2>5, <2>7
<1>. QED BY <1>5, <1>6

\* the square of the y, from the x
LEMMA CurveSquare ==
  ASSUME NEW p \in Points, p # Null
  PROVE  Res(Square(p[2]), P) = Res(p[1] * p[1] * p[1] + 7, P)
BY PointParts DEF OnCurve, Square, Res

\* two points with the same x
LEMMA SameX ==
  ASSUME NEW p \in Points, NEW q \in Points, p # Null, q # Null, p[1] = q[1]
  PROVE  q = p \/ q = <<p[1], P - p[2]>>
<1>1. p \in Field \X Field /\ q \in Field \X Field /\ p[2] # 0
  BY PointParts
<1>2. p[2] \in Field /\ q[2] \in Field /\ p = <<p[1], p[2]>> /\ q = <<q[1], q[2]>>
  BY <1>1, Coordinates
<1>3. Cong(Square(p[2]), Square(q[2]), P)
  BY CurveSquare DEF Cong
<1>4. q[2] = p[2] \/ q[2] = P - p[2]
  BY <1>1, <1>2, <1>3, TwoRoots
<1>. QED BY <1>2, <1>4

\* the opposite of a multiple of G has the other y
Opposite(p) == <<p[1], P - p[2]>>

\* a multiple that is not the identity is a point, and so is its opposite
LEMMA GenPoint ==
  ASSUME NEW k \in Scalar, k # 0
  PROVE  /\ Gen(k) \in Points /\ Gen(k) # Null /\ Gen(k) \in Field \X Field
         /\ N - k \in Scalar /\ N - k # 0 /\ N - k \in Nat /\ k \in Nat
<1>1. k \in 0..(N - 1) /\ k \in Nat /\ N - k \in 0..(N - 1) /\ N - k # 0 /\ N - k \in Nat
  BY OrderFacts
<1>2. Res(k, N) = k
  BY <1>1, OrderFacts, ResSmall
<1>3. Gen(k) # Null
  BY <1>1, <1>2, GenNull
<1>. QED BY <1>1, <1>3, GenSteps, PointParts, OrderFacts

\* N - k stands for the mirrored point
LEMMA GenOpposite ==
  ASSUME NEW k \in Scalar, k # 0
  PROVE  Gen(N - k) = Opposite(Gen(k))
<1>. DEFINE p == Gen(k)
            j == N - k
            q == Gen(j)
<1>1. k \in Nat /\ j \in Nat /\ j \in Scalar /\ j # 0 /\ N = k + j
  BY GenPoint, OrderFacts
<1>. HIDE DEF j
<1>2. p \in Points /\ q \in Points /\ p # Null /\ q # Null
  BY <1>1, GenPoint
<1>3. Gen(N) = Add(p, q)
  BY <1>1, GenPlus
<1>4. Add(p, q) = Null
  BY <1>3, GroupAssumption DEF Gen
<1>. HIDE DEF p, q
<1>5. p[1] = q[1] /\ p[2] # q[2]
  BY <1>2, <1>4 DEF Add, Null
<1>6. q = p \/ q = <<p[1], P - p[2]>>
  BY <1>2, <1>5, SameX
<1>. QED BY <1>5, <1>6 DEF Opposite, p, q, j

\* of which one has an even y
LEMMA OppositeParity ==
  ASSUME NEW k \in Scalar, k # 0
  PROVE  HasEvenY(Gen(N - k)) <=> ~HasEvenY(Gen(k))
<1>1. Gen(k)[2] \in Int
  BY GenPoint, Coordinates
<1>2. Gen(N - k)[2] = P - Gen(k)[2]
  BY GenOpposite DEF Opposite
<1>. QED BY <1>1, <1>2, Parities DEF HasEvenY

\* an x belongs to one multiple of G and its opposite
LEMMA GenX ==
  ASSUME NEW a \in Scalar, NEW b \in Scalar, a # 0, b # 0, Gen(a)[1] = Gen(b)[1]
  PROVE  b = a \/ b = N - a
<1>1. Gen(a) \in Points /\ Gen(a) # Null /\ Gen(b) \in Points /\ Gen(b) # Null /\ N - a \in Scalar
  BY GenPoint
<1>2. Gen(b) = Gen(a) \/ Gen(b) = <<Gen(a)[1], P - Gen(a)[2]>>
  BY <1>1, SameX
<1>3. Gen(b) = Gen(a) \/ Gen(b) = Gen(N - a)
  BY <1>2, GenOpposite DEF Opposite
<1>. QED BY <1>1, <1>3, GenSame

\* the root that is tried is one, if there is one
LEMMA RootIs ==
  ASSUME NEW y \in Field, y # 0, NEW c \in Field, Cong(Square(y), c, P)
  PROVE  LET r == Pow(c, (P + 1) \div 4, P) IN r \in Field /\ Cong(Square(r), c, P)
<1>. DEFINE q == (P + 1) \div 4
            r == Pow(c, q, P)
            A == Raised(c)
            B == Raised(y)
            u == A[q]
            yy == Square(y)
            d == 2 * q
            e == P - 1
<1>1. q \in Nat /\ 4 * q = P + 1 /\ d \in Nat /\ 2 * d = e + 1 + 1 /\ e \in Nat /\ 2 * q = d
  BY Parities, FieldFacts
<1>. HIDE DEF q, d, e
<1>2. y \in Int /\ c \in Int /\ Res(y, P) # 0 /\ c \in 0..(P - 1)
  BY FieldSmall, FieldFacts
<1>3. r = Res(u, P)
  BY <1>1, <1>2, FieldFacts, PowIs
<1>4. u \in Int
  BY <1>1, <1>2, RaisedSteps
<1>. HIDE DEF r
<1>5. r \in Field /\ r \in Int /\ Cong(r, u, P)
  <2>. HIDE DEF u
  <2>. QED BY <1>3, <1>4, FieldFacts, CongRes
<1>6. Cong(Square(r), Square(u), P) /\ Square(r) \in Int /\ Square(u) \in Int
  <2>. HIDE DEF u
  <2>. QED BY <1>4, <1>5, FieldFacts, Squares
<1>7. Square(u) = A[d]
  <2>1. Raised(c * c)[q] = A[q] * A[q]
    BY <1>1, <1>2, RaisedProduct
  <2>2. Raised(c * c)[q] = A[2 * q]
    BY <1>1, <1>2, RaisedSquare
  <2>. QED BY <1>1, <2>1, <2>2 DEF Square
<1>8. yy \in Int
  BY <1>2 DEF Square
<1>9. Cong(A[d], Raised(yy)[d], P) /\ A[d] \in Int /\ Raised(yy)[d] \in Int
  <2>1. Res(c, P) = Res(yy, P)
    BY DEF Cong
  <2>. HIDE DEF yy
  <2>2. Res(Raised(c)[d], P) = Res(Raised(yy)[d], P)
    BY <1>1, <1>2, <1>8, <2>1, FieldFacts, RaisedRes
  <2>. QED BY <1>1, <1>2, <1>8, <2>2, RaisedSteps DEF Cong
<1>10. Raised(yy)[d] = B[2 * d]
  BY <1>1, <1>2, RaisedSquare DEF Square
<1>11. B[2 * d] = yy * B[e] /\ B[e] \in Int
  <2>1. B[e + 1] = y * B[e] /\ B[e] \in Int
    BY <1>1, <1>2, RaisedSteps
  <2>2. e + 1 \in Nat
    BY <1>1
  <2>3. B[e + 1 + 1] = y * B[e + 1]
    BY <1>2, <2>2, RaisedSteps
  <2>. DEFINE v == B[e]
  <2>4. y * (y * v) = (y * y) * v
    <3>. HIDE DEF v
    <3>. QED BY <1>2, <2>1 DEF v
  <2>. QED BY <1>1, <2>1, <2>3, <2>4 DEF Square
<1>12. Cong(B[e], 1, P)
  <2>1. Res(B[e], P) = 1
    BY <1>2, FieldFacts, FermatLittle DEF e
  <2>2. 1 \in 0..(P - 1)
    BY FieldFacts
  <2>. QED BY <2>1, <2>2, FieldFacts, ResSmall DEF Cong
<1>13. Cong(yy * B[e], yy * 1, P)
  <2>1. 1 \in Int
    OBVIOUS
  <2>. HIDE DEF yy
  <2>. QED BY <1>8, <1>11, <1>12, <2>1, FieldFacts, Zenon, CongBy
<1>14. yy * 1 = yy
  BY <1>8
<1>15. Cong(Square(u), yy, P)
  <2>. HIDE DEF yy, u, A, B
  <2>. QED BY <1>7, <1>9, <1>10, <1>11, <1>13, <1>14 DEF Cong
<1>. HIDE DEF u
<1>16. Cong(Square(r), c, P)
  BY <1>6, <1>15 DEF Cong
<1>. QED BY <1>5, <1>16 DEF r, q

(***************************************************************************)
(* bip340.js:78-84: a point of even y is found again from its x, by the    *)
(* power (P + 1) / 4.                                                      *)
(***************************************************************************)
THEOREM LiftFinds ==
  ASSUME NEW p \in Points, p # Null, HasEvenY(p)
  PROVE  LiftX(p[1]) = p
<1>. DEFINE x == p[1]
            y == p[2]
            c == Res(x * x * x + 7, P)
            r == Pow(c, (P + 1) \div 4, P)
<1>1. p \in Field \X Field /\ y # 0
  BY PointParts
<1>2. x \in Field /\ y \in Field /\ p = <<x, y>> /\ x \in Int /\ y \in Int
  BY <1>1, Coordinates
<1>3. Res(Square(y), P) = c
  BY CurveSquare
<1>4. LiftX(x) = IF x >= P \/ Res(Square(r), P) # c THEN Null ELSE <<x, IF r % 2 = 0 THEN r ELSE P - r>>
  BY DEF LiftX, Res, Square
<1>5. y % 2 = 0
  BY DEF HasEvenY
<1>. HIDE DEF x, y, c
<1>6. Square(y) \in Int
  BY <1>2 DEF Square
<1>7. c \in Field /\ c \in Int /\ Cong(c, Square(y), P)
  BY <1>3, <1>6, FieldFacts, CongRes
<1>8. Cong(Square(y), c, P)
  BY <1>6, <1>7, FieldFacts, CongBack
<1>9. r \in Field /\ Cong(Square(r), c, P)
  BY <1>1, <1>2, <1>7, <1>8, RootIs
<1>. HIDE DEF r
<1>10. Res(Square(r), P) = c
  BY <1>7, <1>9, FieldSmall DEF Cong
<1>11. Cong(Square(y), Square(r), P)
  BY <1>8, <1>9 DEF Cong
<1>12. r = y \/ r = P - y
  BY <1>1, <1>2, <1>9, <1>11, TwoRoots
<1>13. ~(x >= P)
  BY <1>2, FieldFacts
<1>14. (IF r % 2 = 0 THEN r ELSE P - r) = y
  <2>1. CASE r = y
    BY <1>5, <2>1
  <2>2. CASE r = P - y
    <3>1. r % 2 # 0
      BY <1>2, <1>5, <2>2, Parities
    <3>2. P - (P - y) = y
      BY <1>2, FieldFacts
    <3>. QED BY <2>2, <3>1, <3>2
  <2>. QED BY <1>12, <2>1, <2>2
<1>15. LiftX(x) = <<x, y>>
  BY <1>4, <1>10, <1>13, <1>14
<1>. QED BY <1>2, <1>15 DEF x
-----------------------------------------------------------------------------
(***************************************************************************)
(* What a signature verifies for.                                          *)
(***************************************************************************)
\* Mul computes the multiples of G
LEMMA MulG ==
  ASSUME NEW k \in Nat
  PROVE  Mul(k, G) = Gen(Res(k, N)) /\ Mul(k, G) = Gen(k)
<1>1. 1 \in Nat /\ Gen(1) = G
  BY GenSteps
<1>2. Res(k, N) \in Nat
  <2>1. k \in Int
    OBVIOUS
  <2>2. Res(k, N) \in 0..(N - 1)
    BY <2>1, OrderFacts, CongRes
  <2>. QED BY <2>2
<1>. DEFINE c == Res(k, N) * 1
<1>3. c = Res(k, N)
  BY <1>2
<1>4. c = Res(k, N) * 1
  OBVIOUS
<1>. HIDE DEF c
<1>5. Mul(k, Gen(1)) = Gen(c)
  BY <1>1, <1>4, MulCounts
<1>. QED BY <1>1, <1>3, <1>5, GenMod

\* a scalar is its own residue
LEMMA ScalarFacts ==
  ASSUME NEW a \in Scalar
  PROVE  a \in Nat /\ a \in Int /\ Res(a, N) = a
<1>1. a \in 0..(N - 1)
  BY OrderFacts
<1>. QED BY <1>1, OrderFacts, ResSmall

\* a number that is computed modulo N
LEMMA ScalarRes ==
  ASSUME NEW a \in Int, NEW r, r = Res(a, N)
  PROVE  r \in Scalar /\ r \in Int /\ r \in Nat /\ Cong(r, a, N)
<1>1. r \in 0..(N - 1) /\ r \in Int /\ Cong(r, a, N)
  BY OrderFacts, CongRes
<1>. QED BY <1>1, OrderFacts

\* a verifier's R is s - e * d, times G
LEMMA VerifierSum ==
  ASSUME NEW d \in Scalar, NEW s \in Scalar, NEW e \in Scalar, NEW h, h = Res(s - e * d, N)
  PROVE  Add(Mul(s, G), Mul(N - e, Gen(d))) = Gen(h) /\ h \in Scalar
<1>. DEFINE n == N - e
            m == Res(n, N)
            v == m * d
            u == s + v
            ed == e * d
            nd == n * d
<1>1. /\ d \in Nat /\ d \in Int /\ s \in Nat /\ s \in Int /\ e \in Nat /\ e \in Int
      /\ N \in Int /\ e \in 0..(N - 1) /\ N \in Nat \ {0}
  BY ScalarFacts, OrderFacts
<1>2. n \in Nat /\ n \in Int
  BY <1>1, OrderFacts
<1>. HIDE DEF n
<1>3. m \in Nat /\ m \in Int /\ Cong(m, n, N)
  BY <1>2, ScalarRes
<1>4. v \in Nat /\ v = Res(n, N) * d
  <2>1. v = Res(n, N) * d
    OBVIOUS
  <2>. HIDE DEF m
  <2>. QED BY <1>1, <1>3, <2>1
<1>. HIDE DEF m
<1>4a. v \in Int
  BY <1>4
<1>5. Mul(n, Gen(d)) = Gen(v)
  <2>. HIDE DEF v
  <2>. QED BY <1>1, <1>2, <1>4, MulCounts
<1>6. Mul(s, G) = Gen(s)
  BY <1>1, MulG
<1>7. u \in Nat /\ u \in Int /\ Add(Gen(s), Gen(v)) = Gen(u)
  <2>. HIDE DEF v
  <2>1. u \in Nat /\ u \in Int /\ u = s + v
    BY <1>1, <1>4
  <2>. HIDE DEF u
  <2>. QED BY <1>1, <1>4, <2>1, GenPlus
<1>8. Cong(v, nd, N) /\ nd \in Int /\ ed \in Int
  <2>1. Cong(d, d, N)
    BY <1>1, CongSelf
  <2>2. Cong(m * d, n * d, N)
    BY <1>1, <1>2, <1>3, <2>1, Zenon, CongMul
  <2>3. nd \in Int /\ ed \in Int
    BY <1>1, <1>2
  <2>. QED BY <2>2, <2>3
<1>9. nd = (d * N) + (0 - ed)
  BY <1>1 DEF n
<1>. HIDE DEF v, nd, ed
<1>10. Cong(nd, 0 - ed, N) /\ 0 - ed \in Int
  <2>. DEFINE b == 0 - ed
  <2>1. b \in Int /\ nd = (d * N) + b
    BY <1>8, <1>9
  <2>. HIDE DEF b
  <2>2. Cong(nd, b, N)
    BY ZenonT(30), <1>1, <1>8, <2>1, ResOf DEF Cong
  <2>. QED BY <2>1, <2>2 DEF b
<1>11. Cong(v, 0 - ed, N)
  BY <1>8, <1>10 DEF Cong
<1>12. Cong(u, s + (0 - ed), N)
  <2>1. Cong(s, s, N)
    BY <1>1, CongSelf
  <2>. QED BY <1>1, <1>4a, <1>10, <1>11, <2>1, Zenon, CongAdd
<1>13. s + (0 - ed) = s - ed
  BY <1>1, <1>8
<1>14. Res(u, N) = h
  BY <1>12, <1>13 DEF Cong, ed
<1>. HIDE DEF u
<1>15. h \in Scalar
  BY <1>7, <1>14, ScalarRes
<1>. QED BY <1>5, <1>6, <1>7, <1>14, <1>15, GenMod DEF n

(***************************************************************************)
(* bip340.js:108-120: a signature whose R is k times G, of even y,         *)
(* verifies exactly if s - e d is k, where d is the secret of even y.      *)
(***************************************************************************)
THEOREM VerifyOpens ==
  ASSUME NEW d \in Scalar, d # 0, HasEvenY(Gen(d)), NEW k \in Scalar, k # 0, HasEvenY(Gen(k)),
         NEW s \in Scalar, NEW e \in Scalar, NEW g, g.r = Gen(k)[1], g.s = s,
         NEW h, h = Res(s - e * d, N)
  PROVE  Verify(Gen(d)[1], g, e) <=> h = k
<1>. DEFINE R == Add(Mul(g.s, G), Mul(N - e, Gen(d)))
<1>1. Gen(d) \in Points /\ Gen(d) # Null /\ Gen(k) \in Points /\ Gen(k) # Null /\ Gen(k) \in Field \X Field
  BY GenPoint
<1>2. LiftX(Gen(d)[1]) = Gen(d)
  BY <1>1, LiftFinds
<1>3. R = Gen(h) /\ h \in Scalar
  BY VerifierSum
<1>4. Verify(Gen(d)[1], g, e) <=>
        Gen(d) # Null /\ g.r < P /\ g.s < N /\ R # Null /\ HasEvenY(R) /\ R[1] = g.r
  BY <1>2 DEF Verify
<1>. HIDE DEF R
<1>5. g.r < P /\ g.s < N
  <2>1. Gen(k)[1] \in 0..(P - 1) /\ s \in 0..(N - 1)
    BY <1>1, Coordinates, FieldFacts, OrderFacts
  <2>. QED BY <2>1, FieldFacts, OrderFacts
<1>6. ASSUME h = k PROVE R # Null /\ HasEvenY(R) /\ R[1] = g.r
  BY <1>1, <1>3, <1>6
<1>7. ASSUME R # Null, HasEvenY(R), R[1] = g.r PROVE h = k
  <2>1. h # 0
    BY <1>3, <1>7, GenSteps
  <2>2. Gen(k)[1] = Gen(h)[1] /\ HasEvenY(Gen(h))
    BY <1>3, <1>7
  <2>3. h = k \/ h = N - k
    BY <1>3, <2>1, <2>2, GenX
  <2>4. ~HasEvenY(Gen(N - k))
    BY OppositeParity
  <2>. QED BY <2>2, <2>3, <2>4
<1>. QED BY <1>1, <1>4, <1>5, <1>6, <1>7
-----------------------------------------------------------------------------
(***************************************************************************)
(* The loops over officers.                                                *)
(***************************************************************************)
OrderPrime == N \in Nat \ {0} /\ Prime(N) /\ N > 2 /\ N \in Int

\* what is assumed of the order, by one name
LEMMA OrderIsPrime == OrderPrime
BY OrderFacts, OrderAssumption DEF OrderPrime, Prime

\* the loops of the program are sums and products of residues
LEMMA SumOfIs ==
  ASSUME NEW n \in Nat, NEW S \in SUBSET (1..n), NEW f \in [S -> Int]
  PROVE  SumOf(f, n) = ResSum(f, n, N) /\ SumOf(f, n) \in Scalar
<1>. DEFINE H(z) == [i \in 0..n |-> IF i = 0 THEN 0 ELSE IF i \in DOMAIN f THEN (z[i - 1] + f[i]) % N ELSE z[i - 1]]
            y == CHOOSE z : z = H(z)
            M == 0..(N - 1)
            op == PlusRes(N)
<1>1. SumOf(f, n) = y[n]
  BY DEF SumOf
<1>2. 0 \in M /\ N \in Nat \ {0} /\ Scalar = M
  BY OrderFacts
<1>3. op \in [M \X Int -> M] /\ \A v \in M, a \in Int : op[<<v, a>>] = (v + a) % N
  BY <1>2, SumOp DEF Res
<1>. HIDE DEF op
<1>4. PICK z : Folds(z, M, f, n, 0, op)
  BY <1>2, <1>3, FoldExists
<1>5. /\ z \in [0..n -> M] /\ z[0] = 0
      /\ \A i \in 1..n : z[i] = IF i \in DOMAIN f THEN op[<<z[i - 1], f[i]>>] ELSE z[i - 1]
  BY <1>4 DEF Folds
<1>. HIDE DEF M
<1>6. ASSUME NEW i \in 0..n
      PROVE  z[i] = IF i = 0 THEN 0 ELSE IF i \in DOMAIN f THEN (z[i - 1] + f[i]) % N ELSE z[i - 1]
  <2>1. CASE i = 0
    BY <1>5, <2>1
  <2>2. CASE i # 0
    <3>1. i \in 1..n /\ i - 1 \in 0..n
      BY <2>2
    <3>2. z[i - 1] \in M
      BY <1>5, <3>1
    <3>3. i \in DOMAIN f => f[i] \in Int
      OBVIOUS
    <3>. QED BY <1>3, <1>5, <2>2, <3>1, <3>2, <3>3
  <2>. QED BY <2>1, <2>2
<1>7. z = H(z)
  BY <1>5, <1>6
<1>8. y = H(y)
  <2>1. \E h : h = H(h)
    BY <1>7
  <2>. HIDE DEF H
  <2>. QED BY <2>1
<1>. HIDE DEF y
<1>9. \A i \in 0..n : y[i] = IF i = 0 THEN 0 ELSE IF i \in DOMAIN f THEN (y[i - 1] + f[i]) % N ELSE y[i - 1]
  BY <1>8
<1>. HIDE DEF H
<1>. DEFINE T == {k \in 0..n : y[k] = z[k]}
<1>10. 0 \in T
  BY <1>5, <1>9
<1>11. ASSUME NEW k \in 0..(n - 1), k \in T PROVE k + 1 \in T
  <2>. DEFINE j == k + 1
  <2>1. j \in 0..n /\ j # 0 /\ j - 1 = k
    OBVIOUS
  <2>. HIDE DEF j
  <2>2. y[k] = z[k]
    BY <1>11
  <2>3. y[j] = z[j]
    BY <1>6, <1>9, <2>1, <2>2
  <2>. QED BY <2>1, <2>3 DEF j
<1>. HIDE DEF T
<1>12. \A k \in 0..n : k \in T
  BY <1>10, <1>11, CountUp
<1>13. y[n] = z[n]
  <2>1. n \in T
    BY <1>12
  <2>. QED BY <2>1 DEF T
<1>14. FoldOf(M, f, n, 0, op) = z[n] /\ FoldOf(M, f, n, 0, op) \in M
  BY <1>4, FoldIs
<1>. QED BY <1>1, <1>2, <1>13, <1>14 DEF ResSum, op, M

\* the same for products
LEMMA ProductOfIs ==
  ASSUME NEW n \in Nat, NEW S \in SUBSET (1..n), NEW f \in [S -> Int]
  PROVE  ProductOf(f, n) = ResProduct(f, n, N) /\ ProductOf(f, n) \in Scalar
<1>. DEFINE H(z) == [i \in 0..n |-> IF i = 0 THEN 1 ELSE IF i \in DOMAIN f THEN (z[i - 1] * f[i]) % N ELSE z[i - 1]]
            y == CHOOSE z : z = H(z)
            M == 0..(N - 1)
            op == TimesRes(N)
<1>1. ProductOf(f, n) = y[n]
  BY DEF ProductOf
<1>2. 1 \in M /\ N \in Nat \ {0} /\ Scalar = M
  BY OrderFacts
<1>3. op \in [M \X Int -> M] /\ \A v \in M, a \in Int : op[<<v, a>>] = (v * a) % N
  BY <1>2, ProductOp DEF Res
<1>. HIDE DEF op
<1>4. PICK z : Folds(z, M, f, n, 1, op)
  BY <1>2, <1>3, FoldExists
<1>5. /\ z \in [0..n -> M] /\ z[0] = 1
      /\ \A i \in 1..n : z[i] = IF i \in DOMAIN f THEN op[<<z[i - 1], f[i]>>] ELSE z[i - 1]
  BY <1>4 DEF Folds
<1>. HIDE DEF M
<1>6. ASSUME NEW i \in 0..n
      PROVE  z[i] = IF i = 0 THEN 1 ELSE IF i \in DOMAIN f THEN (z[i - 1] * f[i]) % N ELSE z[i - 1]
  <2>1. CASE i = 0
    BY <1>5, <2>1
  <2>2. CASE i # 0
    <3>1. i \in 1..n /\ i - 1 \in 0..n
      BY <2>2
    <3>2. z[i - 1] \in M
      BY <1>5, <3>1
    <3>3. i \in DOMAIN f => f[i] \in Int
      OBVIOUS
    <3>4. i \in DOMAIN f => op[<<z[i - 1], f[i]>>] = (z[i - 1] * f[i]) % N
      BY <1>3, <3>2, <3>3
    <3>. QED BY <1>5, <2>2, <3>1, <3>4
  <2>. QED BY <2>1, <2>2
<1>7. z = H(z)
  BY <1>5, <1>6
<1>8. y = H(y)
  <2>1. \E h : h = H(h)
    BY <1>7
  <2>. HIDE DEF H
  <2>. QED BY <2>1
<1>. HIDE DEF y
<1>9. \A i \in 0..n : y[i] = IF i = 0 THEN 1 ELSE IF i \in DOMAIN f THEN (y[i - 1] * f[i]) % N ELSE y[i - 1]
  BY <1>8
<1>. HIDE DEF H
<1>. DEFINE T == {k \in 0..n : y[k] = z[k]}
<1>10. 0 \in T
  BY <1>5, <1>9
<1>11. ASSUME NEW k \in 0..(n - 1), k \in T PROVE k + 1 \in T
  <2>. DEFINE j == k + 1
  <2>1. j \in 0..n /\ j # 0 /\ j - 1 = k
    OBVIOUS
  <2>. HIDE DEF j
  <2>2. y[k] = z[k]
    BY <1>11
  <2>3. y[j] = z[j]
    BY <1>6, <1>9, <2>1, <2>2
  <2>. QED BY <2>1, <2>3 DEF j
<1>. HIDE DEF T
<1>12. \A k \in 0..n : k \in T
  BY <1>10, <1>11, CountUp
<1>13. y[n] = z[n]
  <2>1. n \in T
    BY <1>12
  <2>. QED BY <2>1 DEF T
<1>14. FoldOf(M, f, n, 1, op) = z[n] /\ FoldOf(M, f, n, 1, op) \in M
  BY <1>4, FoldIs
<1>. QED BY <1>1, <1>2, <1>13, <1>14 DEF ResProduct, op, M
-----------------------------------------------------------------------------
(***************************************************************************)
(* Lagrange's coefficients, as the program computes them.                  *)
(***************************************************************************)
\* the factors above and below the line of a coefficient
Above(i, S) == [j \in S \ {i} |-> j]
Below(i, S) == [j \in S \ {i} |-> j - i]
Num(i, S, n) == ResProduct(Above(i, S), n, N)
Den(i, S, n) == ResProduct(Below(i, S), n, N)

\* a coefficient times what is below its line is what is above it
LEMMA LambdaParts ==
  ASSUME key.n \in Nat, NEW n \in Nat, n = key.n, n < N, NEW i \in 1..n, NEW S \in SUBSET (1..n)
  PROVE  /\ Num(i, S, n) \in Int /\ Den(i, S, n) \in Int /\ Res(Den(i, S, n), N) # 0
         /\ Lambda(i, S) \in Scalar /\ Lambda(i, S) \in Int
         /\ Cong(Lambda(i, S) * Den(i, S, n), Num(i, S, n), N)
<1>1. OrderPrime
  BY OrderIsPrime
<1>. USE <1>1 DEF OrderPrime
<1>. DEFINE R == S \ {i}
            f == Above(i, S)
            g == Below(i, S)
            num == Num(i, S, n)
            den == Den(i, S, n)
            v == Inv(den, N)
            w == num * v
            L == Lambda(i, S)
<1>2. R \in SUBSET (1..n) /\ f \in [R -> Int] /\ g \in [R -> Int]
  <2>1. \A j \in R : j \in Int /\ j - i \in Int
    OBVIOUS
  <2>. QED BY <2>1 DEF Above, Below
<1>3. ProductOf(f, n) = num /\ ProductOf(g, n) = den /\ num \in Scalar /\ den \in Scalar
  BY <1>2, ProductOfIs DEF Num, Den
<1>4. num \in Int /\ den \in Int /\ Res(den, N) = den
  BY <1>3, ScalarFacts
<1>5. Res(den, N) # 0
  <2>1. ASSUME NEW j \in R PROVE Res(g[j], N) # 0
    <3>. DEFINE c == j - i
    <3>1. g[j] = c /\ c # 0 /\ c \in Int /\ i \in Int /\ j \in Int
      BY DEF Below
    <3>. HIDE DEF c
    <3>2. ASSUME Res(c, N) = 0 PROVE FALSE
      <4>1. i \in 0..(N - 1) /\ j \in 0..(N - 1)
        OBVIOUS
      <4>2. Res(i, N) = i /\ Res(j, N) = j
        BY <4>1, ResSmall
      <4>3. j = c + i
        BY DEF c
      <4>4. Res(0, N) = 0 /\ 0 \in Int /\ 0 + i = i
        BY ResSmall
      <4>5. Cong(c, 0, N) /\ Cong(i, i, N)
        BY <3>2, <4>4 DEF Cong
      <4>6. Cong(j, i, N)
        BY ONLY <1>1, <3>1, <4>3, <4>4, <4>5, CongPlus DEF OrderPrime
      <4>7. j = i
        BY <4>2, <4>6 DEF Cong
      <4>. QED BY <3>1, <4>3, <4>7
    <3>. QED BY <3>1, <3>2
  <2>2. ResProduct(g, n, N) # 0
    <3>. HIDE DEF g, R
    <3>. QED BY <1>2, <2>1, ProductNotZero
  <2>. QED BY <1>4, <2>2 DEF Den
<1>6. L = Res(w, N)
  BY <1>3 DEF Lambda, Above, Below, Res
<1>. HIDE DEF f, g, R, num, den, L
<1>7. v \in Int /\ Res(den * v, N) = 1
  BY <1>4, <1>5, InvInverts
<1>. HIDE DEF v
<1>8. w \in Int /\ w = num * v
  BY <1>4, <1>7
<1>. HIDE DEF w
<1>9. L \in Scalar /\ L \in Int /\ Cong(L, w, N)
  BY <1>6, <1>8, ScalarRes
<1>10. Cong(L * den, w * den, N)
  <2>1. Cong(den, den, N)
    BY <1>4, CongSelf
  <2>. QED BY <1>1, <1>4, <1>8, <1>9, <2>1, Zenon, CongMul DEF OrderPrime
<1>11. w * den = num * (den * v)
  BY <1>4, <1>7, <1>8
<1>12. Res(num * (den * v), N) = Res(num, N)
  <2>. DEFINE u == den * v
  <2>1. u \in Int /\ Res(u, N) = 1
    BY <1>4, <1>7
  <2>. HIDE DEF u
  <2>2. Res(num * Res(u, N), N) = Res(num * u, N)
    BY <1>4, <2>1, ResIn
  <2>3. num * 1 = num
    BY <1>4
  <2>. QED BY <2>1, <2>2, <2>3 DEF u
<1>13. Cong(L * den, num, N)
  BY <1>10, <1>11, <1>12 DEF Cong
<1>. QED BY <1>4, <1>5, <1>9, <1>13 DEF num, den, L

\* one more signer multiplies a coefficient by k / (k - i)
LEMMA LambdaStep ==
  ASSUME key.n \in Nat, NEW n \in Nat, n = key.n, n < N, NEW S \in SUBSET (1..n), NEW k \in S, NEW i \in S \ {k}
  PROVE  Res(Lambda(i, S) * (k - i), N) = Res(k * Lambda(i, S \ {k}), N)
<1>1. OrderPrime
  BY OrderIsPrime
<1>. USE <1>1 DEF OrderPrime
<1>. DEFINE Q == S \ {k}
            L == Lambda(i, S)
            K == Lambda(i, Q)
            a == Num(i, S, n)
            b == Den(i, S, n)
            c == Num(i, Q, n)
            d == Den(i, Q, n)
            h == k - i
<1>2. i \in 1..n /\ Q \in SUBSET (1..n) /\ k \in Int /\ i \in Int /\ h \in Int
  OBVIOUS
<1>3. a \in Int /\ b \in Int /\ L \in Int /\ Cong(L * b, a, N)
  BY <1>2, LambdaParts
<1>4. c \in Int /\ d \in Int /\ K \in Int /\ Cong(K * d, c, N) /\ Res(d, N) # 0
  <2>. HIDE DEF Q
  <2>. QED BY <1>2, LambdaParts
<1>5. a = Res(c * k, N)
  <2>. DEFINE f == Above(i, S)
              R == S \ {i}
  <2>1. f \in [R -> Int] /\ R \in SUBSET (1..n) /\ k \in R /\ f[k] = k
    BY DEF Above
  <2>2. Without(f, k) = Above(i, Q)
    <3>1. DOMAIN f = R /\ R \ {k} = Q \ {i} /\ \A j \in R : f[j] = j
      BY DEF Above
    <3>. HIDE DEF R, Q, f
    <3>. QED BY <3>1 DEF Without, Above
  <2>. HIDE DEF f, R
  <2>3. ResProduct(f, n, N) = Res(ResProduct(Without(f, k), n, N) * f[k], N)
    BY <2>1, ProductTakes
  <2>. QED BY <2>1, <2>2, <2>3 DEF Num, f
<1>6. b = Res(d * h, N)
  <2>. DEFINE f == Below(i, S)
              R == S \ {i}
  <2>1. f \in [R -> Int] /\ R \in SUBSET (1..n) /\ k \in R /\ f[k] = h
    <3>1. \A j \in R : j - i \in Int
      OBVIOUS
    <3>. QED BY <3>1 DEF Below
  <2>2. Without(f, k) = Below(i, Q)
    <3>1. DOMAIN f = R /\ R \ {k} = Q \ {i} /\ \A j \in R : f[j] = j - i
      BY DEF Below
    <3>. HIDE DEF R, Q, f
    <3>. QED BY <3>1 DEF Without, Below
  <2>. HIDE DEF f, R, h
  <2>3. ResProduct(f, n, N) = Res(ResProduct(Without(f, k), n, N) * f[k], N)
    BY <2>1, ProductTakes
  <2>. QED BY <2>1, <2>2, <2>3 DEF Den, f
<1>. HIDE DEF Q, L, K, a, b, c, d, h
<1>. DEFINE ck == c * k
            dh == d * h
            Kd == K * d
            Lb == L * b
            Lh == L * h
            kK == k * K
<1>7. ck \in Int /\ dh \in Int /\ Kd \in Int /\ Lb \in Int /\ Lh \in Int /\ kK \in Int
  BY <1>2, <1>3, <1>4
<1>8. Cong(a, ck, N) /\ Cong(b, dh, N)
  BY <1>5, <1>6, <1>7, CongRes
<1>9. Cong(Lb, L * dh, N) /\ L * dh \in Int
  <2>. HIDE DEF dh
  <2>1. Cong(L, L, N)
    BY <1>3, CongSelf
  <2>2. Cong(L * b, L * dh, N)
    BY <1>1, <1>3, <1>7, <1>8, <2>1, Zenon, CongMul DEF OrderPrime
  <2>. QED BY <1>3, <1>7, <2>2
<1>10. L * dh = Lh * d
  BY <1>2, <1>3, <1>4
<1>11. Cong(Kd * k, ck, N)
  <2>1. Cong(k, k, N)
    BY <1>2, CongSelf
  <2>2. Cong(Kd, c, N)
    BY <1>4
  <2>. HIDE DEF Kd
  <2>. QED BY <1>1, <1>2, <1>4, <1>7, <2>1, <2>2, Zenon, CongMul DEF OrderPrime
<1>12. Kd * k = kK * d
  BY <1>2, <1>4
<1>13. Cong(Lb, a, N)
  BY <1>3
<1>. HIDE DEF ck, dh, Kd, Lb, Lh, kK
<1>14. Res(Lh * d, N) = Res(kK * d, N)
  BY <1>8, <1>9, <1>10, <1>11, <1>12, <1>13 DEF Cong
<1>15. Res(Lh, N) = Res(kK, N)
  BY <1>4, <1>7, <1>14, Cancel
<1>. QED BY <1>15 DEF Lh, kK, L, h, K, Q

\* who signs alone takes his share as it is
LEMMA LambdaOne ==
  ASSUME key.n \in Nat, NEW n \in Nat, n = key.n, n < N, NEW k \in 1..n
  PROVE  Res(Lambda(k, {k}), N) = 1
<1>1. OrderPrime
  BY OrderIsPrime
<1>. USE <1>1 DEF OrderPrime
<1>. DEFINE S == {k}
            L == Lambda(k, S)
<1>2. S \in SUBSET (1..n) /\ S \ {k} = {}
  OBVIOUS
<1>. HIDE DEF S
<1>3. DOMAIN Above(k, S) = {} /\ DOMAIN Below(k, S) = {}
  BY <1>2 DEF Above, Below
<1>4. Num(k, S, n) = 1 /\ Den(k, S, n) = 1
  BY <1>3, ProductNone DEF Num, Den
<1>5. L \in Int /\ Cong(L * 1, 1, N)
  BY <1>2, <1>4, LambdaParts
<1>6. L * 1 = L /\ Res(1, N) = 1
  BY <1>5, ResSmall
<1>. QED BY <1>5, <1>6 DEF Cong, S

\* the coefficients of all sets of signers
Lambdas(n) == [S \in SUBSET (1..n) |-> [i \in 1..n |-> Lambda(i, S)]]

\* they are what interpolation takes
LEMMA LambdasAre ==
  ASSUME key.n \in Nat, NEW n \in Nat, n = key.n, n < N
  PROVE  Coefficients(Lambdas(n), n, N)
<1>. DEFINE l == Lambdas(n)
<1>1. ASSUME NEW S \in SUBSET (1..n), NEW i \in 1..n PROVE l[S][i] = Lambda(i, S) /\ Lambda(i, S) \in Int
  BY LambdaParts DEF Lambdas
<1>2. l \in [SUBSET (1..n) -> [1..n -> Int]]
  BY <1>1 DEF Lambdas
<1>. HIDE DEF l
<1>3. ASSUME NEW k \in 1..n PROVE Res(l[{k}][k], N) = 1
  BY <1>1, LambdaOne
<1>4. ASSUME NEW S \in SUBSET (1..n), NEW k \in S, NEW i \in S \ {k}
      PROVE  Res(l[S][i] * (k - i), N) = Res(k * l[S \ {k}][i], N)
  <2>1. S \ {k} \in SUBSET (1..n) /\ i \in 1..n
    OBVIOUS
  <2>2. l[S][i] = Lambda(i, S) /\ l[S \ {k}][i] = Lambda(i, S \ {k})
    BY <1>1, <2>1
  <2>. QED BY <2>2, LambdaStep
<1>. QED BY <1>2, <1>3, <1>4 DEF Coefficients, l
-----------------------------------------------------------------------------
(***************************************************************************)
(* The polynomial.                                                         *)
(***************************************************************************)
\* Eval follows Horner's rule
LEMMA EvalIs ==
  ASSUME NEW c \in Seq(Int), NEW x \in Int
  PROVE  Value(Eval(c, x), c, x, N) /\ Eval(c, x) \in Scalar
<1>1. OrderPrime
  BY OrderIsPrime
<1>. USE <1>1 DEF OrderPrime
<1>. DEFINE n == Len(c)
            H(at) == [i \in 1..(n + 1) |-> IF i > n THEN 0 ELSE (c[i] + x * at[i + 1]) % N]
            y == CHOOSE at : at = H(at)
<1>2. Eval(c, x) = y[1]
  BY DEF Eval
<1>3. PICK z : Horner(z, c, x, N)
  BY HornerExists
<1>4. /\ n \in Nat /\ z \in [1..(n + 1) -> 0..(N - 1)] /\ z[n + 1] = 0
      /\ \A i \in 1..n : z[i] = Res(c[i] + (x * z[i + 1]), N)
  BY <1>3 DEF Horner
<1>. HIDE DEF n
<1>5. ASSUME NEW i \in 1..(n + 1) PROVE z[i] = IF i > n THEN 0 ELSE (c[i] + x * z[i + 1]) % N
  <2>1. CASE i > n
    <3>1. i = n + 1
      BY <1>4, <2>1
    <3>. QED BY <1>4, <2>1, <3>1
  <2>2. CASE ~(i > n)
    <3>1. i \in 1..n
      BY <1>4, <2>2
    <3>. QED BY <1>4, <2>2, <3>1 DEF Res
  <2>. QED BY <2>1, <2>2
<1>6. z = H(z)
  BY <1>4, <1>5
<1>7. y = H(y)
  <2>1. \E h : h = H(h)
    BY <1>6
  <2>. HIDE DEF H
  <2>. QED BY <2>1
<1>. HIDE DEF y
<1>8. \A i \in 1..(n + 1) : y[i] = IF i > n THEN 0 ELSE (c[i] + x * y[i + 1]) % N
  BY <1>7
<1>. HIDE DEF H
<1>. DEFINE T == {k \in 0..n : y[k + 1] = z[k + 1]}
<1>9. n \in T
  BY <1>4, <1>8
<1>10. ASSUME NEW k \in 0..(n - 1), k + 1 \in T PROVE k \in T
  <2>. DEFINE i == k + 1
  <2>1. i \in 1..(n + 1) /\ ~(i > n) /\ k \in 0..n
    BY <1>4
  <2>2. y[i + 1] = z[i + 1]
    BY <1>10
  <2>. HIDE DEF i
  <2>3. y[i] = z[i]
    BY <1>5, <1>8, <2>1, <2>2
  <2>. QED BY <2>1, <2>3 DEF i
<1>. HIDE DEF T
<1>11. \A k \in 0..n : k \in T
  BY <1>4, <1>9, <1>10, CountDown
<1>12. 0 \in T /\ 0 + 1 = 1
  BY <1>4, <1>11
<1>13. y[1] = z[1]
  BY <1>12 DEF T
<1>14. Value(y[1], c, x, N)
  BY <1>3, <1>13 DEF Value
<1>15. y[1] \in 0..(N - 1)
  BY <1>14, ValueType
<1>. QED BY <1>2, <1>14, <1>15, OrderFacts

\* the value at 0 is the constant coefficient
LEMMA SecretIs ==
  ASSUME NEW c \in Seq(Scalar), Len(c) >= 1
  PROVE  Value(c[1], c, 0, N)
<1>1. OrderPrime
  BY OrderIsPrime
<1>. USE <1>1 DEF OrderPrime
<1>2. c \in Seq(Int) /\ c[1] \in Scalar
  <2>1. \A i \in 1..Len(c) : c[i] \in Int
    BY ScalarFacts
  <2>. QED BY <2>1
<1>3. PICK z : Horner(z, c, 0, N)
  BY <1>2, HornerExists
<1>4. z[1] = Res(c[1] + (0 * z[2]), N) /\ z[2] \in Int
  <2>1. 1 \in 1..Len(c) /\ 1 + 1 = 2 /\ 2 \in 1..(Len(c) + 1)
    OBVIOUS
  <2>2. z[1] = Res(c[1] + (0 * z[1 + 1]), N) /\ z[2] \in 0..(N - 1)
    BY <1>3, <2>1 DEF Horner
  <2>. QED BY <2>1, <2>2
<1>5. c[1] \in Int /\ Res(c[1], N) = c[1]
  BY <1>2, ScalarFacts
<1>6. c[1] + (0 * z[2]) = c[1]
  BY <1>4, <1>5
<1>7. z[1] = c[1]
  BY <1>4, <1>5, <1>6
<1>. QED BY <1>3, <1>7 DEF Value
-----------------------------------------------------------------------------
(***************************************************************************)
(* Commitments.                                                            *)
(***************************************************************************)
\* what a signer's two commitments stand for
Nonce(d, b, rho) == Res(d + rho * b, N)

\* a signer's two commitments, bound by his rho
LEMMA NonceIs ==
  ASSUME NEW d \in Scalar, NEW b \in Scalar, NEW rho \in Scalar
  PROVE  /\ Add(Mul(d, G), Mul(rho, Mul(b, G))) = Gen(Nonce(d, b, rho))
         /\ Nonce(d, b, rho) \in Scalar
<1>1. d \in Nat /\ b \in Nat /\ rho \in Nat /\ d \in Int /\ b \in Int /\ rho \in Int /\ Res(rho, N) = rho
  BY ScalarFacts
<1>. DEFINE v == rho * b
            u == d + v
<1>2. v \in Nat /\ u \in Nat /\ u \in Int /\ v = Res(rho, N) * b
  BY <1>1
<1>3. Mul(d, G) = Gen(d) /\ Mul(b, G) = Gen(b)
  BY <1>1, MulG
<1>4. Mul(rho, Gen(b)) = Gen(v)
  <2>. HIDE DEF v
  <2>. QED BY <1>1, <1>2, MulCounts
<1>5. Add(Gen(d), Gen(v)) = Gen(u)
  <2>1. u = d + v
    OBVIOUS
  <2>. HIDE DEF u, v
  <2>. QED BY <1>1, <1>2, <2>1, GenPlus
<1>. HIDE DEF v
<1>6. Nonce(d, b, rho) = Res(u, N)
  BY DEF Nonce, v
<1>. HIDE DEF u
<1>7. Gen(u) = Gen(Res(u, N)) /\ Res(u, N) \in Scalar
  BY <1>2, GenMod, ScalarRes
<1>. QED BY <1>3, <1>4, <1>5, <1>6, <1>7

Nonces(S, d, b, rho) == [i \in S |-> Nonce(d[i], b[i], rho[i])]

\* the common commitment stands for the sum of the nonces
LEMMA CommitmentIs ==
  ASSUME key.n \in Nat, NEW n \in Nat, n = key.n, NEW S \in SUBSET (1..n),
         NEW d \in [S -> Scalar], NEW b \in [S -> Scalar], NEW rho \in [S -> Scalar]
  PROVE  /\ Commitment(S, d, b, rho) = Gen(ResSum(Nonces(S, d, b, rho), n, N))
         /\ Nonces(S, d, b, rho) \in [S -> Scalar] /\ ResSum(Nonces(S, d, b, rho), n, N) \in Scalar
<1>1. OrderPrime
  BY OrderIsPrime
<1>. DEFINE f == Nonces(S, d, b, rho)
            M == 0..(N - 1)
            op == PlusRes(N)
            Part(i) == Add(Mul(d[i], G), Mul(rho[i], Mul(b[i], G)))
            H(R) == [i \in 0..n |-> IF i = 0 THEN Null ELSE IF i \in S THEN Add(R[i - 1], Part(i)) ELSE R[i - 1]]
            y == CHOOSE R : R = H(R)
<1>2. Commitment(S, d, b, rho) = y[n]
  BY DEF Commitment
<1>3. ASSUME NEW i \in S PROVE f[i] \in Scalar /\ Part(i) = Gen(f[i])
  <2>1. d[i] \in Scalar /\ b[i] \in Scalar /\ rho[i] \in Scalar
    OBVIOUS
  <2>2. f[i] = Nonce(d[i], b[i], rho[i])
    BY DEF Nonces
  <2>. QED BY <2>1, <2>2, NonceIs
<1>4. f \in [S -> Scalar] /\ DOMAIN f = S
  BY <1>3 DEF Nonces
<1>4a. \A i \in S : f[i] \in Nat /\ f[i] \in Int
  BY <1>3, ScalarFacts
<1>5. f \in [S -> Int]
  BY <1>4, <1>4a
<1>. HIDE DEF f, Part, H, y
<1>6. 0 \in M /\ N \in Nat \ {0} /\ Scalar = M
  BY OrderFacts
<1>7. op \in [M \X Int -> M] /\ \A v \in M, a \in Int : op[<<v, a>>] = Res(v + a, N)
  BY <1>6, SumOp
<1>. HIDE DEF op
<1>8. PICK z : Folds(z, M, f, n, 0, op)
  BY <1>5, <1>6, <1>7, FoldExists
<1>9. /\ z \in [0..n -> M] /\ z[0] = 0
      /\ \A i \in 1..n : z[i] = IF i \in S THEN op[<<z[i - 1], f[i]>>] ELSE z[i - 1]
  BY <1>4, <1>8 DEF Folds
<1>10. FoldOf(M, f, n, 0, op) = z[n]
  BY <1>8, FoldIs
<1>11. ResSum(f, n, N) = z[n] /\ z[n] \in Scalar
  BY <1>6, <1>9, <1>10 DEF ResSum, op
<1>. HIDE DEF M
<1>. DEFINE w == [i \in 0..n |-> Gen(z[i])]
<1>12. ASSUME NEW i \in 0..n
       PROVE  Gen(z[i]) = IF i = 0 THEN Null ELSE IF i \in S THEN Add(w[i - 1], Part(i)) ELSE w[i - 1]
  <2>1. CASE i = 0
    BY <1>9, <2>1, GenSteps
  <2>2. CASE i # 0
    <3>1. i \in 1..n /\ i - 1 \in 0..n
      BY <2>2
    <3>2. w[i - 1] = Gen(z[i - 1]) /\ z[i - 1] \in M
      BY <1>9, <3>1
    <3>3. CASE i \notin S
      BY <1>9, <2>2, <3>1, <3>2, <3>3
    <3>4. CASE i \in S
      <4>. DEFINE a == z[i - 1]
                  e == f[i]
                  s == a + e
      <4>1. a \in Nat /\ e \in Nat /\ a \in M /\ e \in Int /\ Part(i) = Gen(e)
        BY <1>3, <1>4a, <1>6, <3>2, <3>4, ScalarFacts
      <4>2. z[i] = Res(s, N)
        BY <1>7, <1>9, <3>1, <3>4, <4>1
      <4>. HIDE DEF a, e
      <4>3. s \in Nat /\ s = a + e
        BY <4>1
      <4>. HIDE DEF s
      <4>4. Gen(s) = Add(Gen(a), Gen(e)) /\ Gen(s) = Gen(Res(s, N))
        BY <4>1, <4>3, GenPlus, GenMod
      <4>5. Gen(z[i]) = Add(w[i - 1], Part(i))
        BY <3>2, <4>1, <4>2, <4>4 DEF a
      <4>. QED BY <2>2, <3>4, <4>5
    <3>. QED BY <3>3, <3>4
  <2>. QED BY <2>1, <2>2
<1>13. w = H(w)
  BY <1>12 DEF H
<1>14. y = H(y)
  <2>1. \E h : h = H(h)
    BY <1>13
  <2>. QED BY <2>1 DEF y
<1>15. \A i \in 0..n : y[i] = IF i = 0 THEN Null ELSE IF i \in S THEN Add(y[i - 1], Part(i)) ELSE y[i - 1]
  BY <1>14 DEF H
<1>16. \A i \in 0..n : w[i] = IF i = 0 THEN Null ELSE IF i \in S THEN Add(w[i - 1], Part(i)) ELSE w[i - 1]
  BY <1>12
<1>16a. w[n] = Gen(z[n])
  OBVIOUS
<1>. HIDE DEF w
<1>. DEFINE T == {k \in 0..n : y[k] = w[k]}
<1>17. 0 \in T
  BY <1>15, <1>16
<1>18. ASSUME NEW k \in 0..(n - 1), k \in T PROVE k + 1 \in T
  <2>. DEFINE j == k + 1
  <2>1. j \in 0..n /\ j # 0 /\ j - 1 = k
    OBVIOUS
  <2>. HIDE DEF j
  <2>2. y[k] = w[k]
    BY <1>18
  <2>3. y[j] = w[j]
    BY <1>15, <1>16, <2>1, <2>2
  <2>. QED BY <2>1, <2>3 DEF j
<1>. HIDE DEF T
<1>19. \A k \in 0..n : k \in T
  BY <1>17, <1>18, CountUp
<1>20. y[n] = w[n]
  <2>1. n \in T
    BY <1>19
  <2>. QED BY <2>1 DEF T
<1>. QED BY <1>2, <1>4, <1>11, <1>16a, <1>20 DEF f
-----------------------------------------------------------------------------
(***************************************************************************)
(* Partial signatures.                                                     *)
(***************************************************************************)
\* a nonce is turned with the sign of R
Sgn(even) == IF even THEN 1 ELSE 0 - 1
Turned(even, q) == IF even THEN q ELSE N - q

\* turned, it is the same up to the sign
LEMMA TurnedIs ==
  ASSUME NEW even \in BOOLEAN, NEW q \in Scalar
  PROVE  /\ Turned(even, q) \in Int /\ Sgn(even) * q \in Int
         /\ Cong(Turned(even, q), Sgn(even) * q, N)
<1>1. q \in Int /\ N \in Nat \ {0} /\ N \in Int
  BY ScalarFacts, OrderFacts
<1>2. CASE even
  <2>1. Turned(even, q) = q /\ Sgn(even) * q = q
    BY <1>1, <1>2 DEF Turned, Sgn
  <2>. QED BY <1>1, <2>1, CongSelf
<1>3. CASE ~even
  <2>. DEFINE a == N - q
              b == 0 - q
  <2>1. Turned(even, q) = a /\ Sgn(even) * q = b /\ a \in Int /\ b \in Int /\ a = (1 * N) + b /\ 1 \in Int
    BY <1>1, <1>3 DEF Turned, Sgn
  <2>. HIDE DEF a, b
  <2>2. Cong(a, b, N)
    BY <1>1, <2>1, ResOf DEF Cong
  <2>. QED BY <2>1, <2>2
<1>. QED BY <1>2, <1>3

\* a partial signature: a nonce q and a part x of the secret
LEMMA PartParts ==
  ASSUME NEW even \in BOOLEAN, NEW q \in Scalar, NEW x \in Int, NEW e \in Scalar,
         NEW y, y = Res(Turned(even, q) + (Res(x, N) * e), N)
  PROVE  y \in Scalar /\ y \in Int /\ Res(y, N) = Res((Sgn(even) * q) + (e * x), N)
<1>1. N \in Nat \ {0} /\ e \in Int
  BY ScalarFacts, OrderFacts
<1>. DEFINE t == Turned(even, q)
            u == Sgn(even) * q
            r == Res(x, N)
            re == r * e
            ex == e * x
            z == t + re
<1>2. t \in Int /\ u \in Int /\ Cong(t, u, N)
  BY TurnedIs
<1>3. r \in Int /\ Cong(r, x, N)
  BY <1>1, CongRes
<1>. HIDE DEF t, u, r
<1>4. re \in Int /\ ex \in Int
  BY <1>1, <1>3
<1>5. Cong(re, x * e, N)
  <2>1. Cong(e, e, N)
    BY <1>1, CongSelf
  <2>. QED BY <1>1, <1>3, <2>1, Zenon, CongMul
<1>6. x * e = ex
  BY <1>1
<1>. HIDE DEF re, ex
<1>7. Cong(z, u + ex, N)
  <2>1. Cong(re, ex, N)
    BY <1>5, <1>6
  <2>. QED BY <1>1, <1>2, <1>4, <2>1, Zenon, CongAdd
<1>8. z \in Int
  BY <1>2, <1>4
<1>9. y = Res(z, N)
  BY DEF t, re, r
<1>. HIDE DEF z
<1>10. y \in Scalar /\ y \in Int /\ Cong(y, z, N)
  BY <1>8, <1>9, ScalarRes
<1>. QED BY <1>7, <1>10 DEF Cong, u, ex

\* what the signers S sign with, and what it adds up to
SignersOf(S, d, b, rho, e, n) ==
  /\ n \in Nat /\ n = key.n /\ n < N /\ S \in SUBSET (1..n) /\ key.shares \in [1..n -> Scalar]
  /\ d \in [S -> Scalar] /\ b \in [S -> Scalar] /\ rho \in [S -> Scalar] /\ e \in Scalar

Shares(S) == [i \in S |-> key.shares[i]]
Partials(S, d, b, rho, even, e) == [i \in S |-> Partial(i, S, d, b, rho, even, e)]
NonceSum(S, d, b, rho, n) == ResSum(Nonces(S, d, b, rho), n, N)
SecretSum(S, n) == LagrangeSum(S, Lambdas(n), Shares(S), n, N)

\* what the partials add up to
LEMMA SignedSum ==
  ASSUME NEW n, NEW S, NEW d, NEW b, NEW rho, NEW e, SignersOf(S, d, b, rho, e, n), NEW even \in BOOLEAN
  PROVE  /\ SumOf(Partials(S, d, b, rho, even, e), n)
               = Res((Sgn(even) * NonceSum(S, d, b, rho, n)) + (e * SecretSum(S, n)), N)
         /\ SumOf(Partials(S, d, b, rho, even, e), n) \in Scalar /\ SecretSum(S, n) \in Scalar
<1>0. /\ n \in Nat /\ key.n \in Nat /\ n = key.n /\ n < N /\ S \in SUBSET (1..n) /\ key.shares \in [1..n -> Scalar]
      /\ d \in [S -> Scalar] /\ b \in [S -> Scalar] /\ rho \in [S -> Scalar] /\ e \in Scalar
  BY DEF SignersOf
<1>1. OrderPrime
  BY OrderIsPrime
<1>. DEFINE v == Shares(S)
            q == NonceSum(S, d, b, rho, n)
            L == SecretSum(S, n)
            f == Nonces(S, d, b, rho)
            g == [i \in S |-> Lambdas(n)[S][i] * v[i]]
            h == Partials(S, d, b, rho, even, e)
            s == SumOf(h, n)
            c == Sgn(even)
<1>2. f \in [S -> Scalar] /\ \A i \in S : f[i] = Nonce(d[i], b[i], rho[i])
  <2>1. f \in [S -> Scalar]
    BY <1>0, CommitmentIs
  <2>2. \A i \in S : f[i] = Nonce(d[i], b[i], rho[i])
    BY DEF Nonces
  <2>. QED BY <2>1, <2>2
<1>3. ASSUME NEW i \in S
      PROVE  /\ f[i] \in Int /\ g[i] \in Int /\ h[i] \in Int
             /\ Res(h[i], N) = Res((c * f[i]) + (e * g[i]), N)
  <2>. DEFINE x == Lambda(i, S) * v[i]
  <2>1. i \in 1..n /\ v[i] = key.shares[i] /\ v[i] \in Scalar
    BY <1>0 DEF Shares
  <2>2. Lambda(i, S) \in Int /\ v[i] \in Int
    BY <1>0, <2>1, LambdaParts, ScalarFacts
  <2>3. x \in Int /\ g[i] = x
    BY <1>0, <2>1, <2>2 DEF Lambdas
  <2>4. f[i] \in Scalar /\ f[i] \in Int
    BY <1>2, ScalarFacts
  <2>5. h[i] = Res(Turned(even, f[i]) + (Res(x, N) * e), N)
    <3>1. f[i] = (d[i] + rho[i] * b[i]) % N
      BY <1>2 DEF Nonce, Res
    <3>2. h[i] = Partial(i, S, d, b, rho, even, e)
      BY DEF Partials
    <3>. HIDE DEF f, h, g
    <3>. QED BY <2>1, <3>1, <3>2 DEF Partial, Turned, Res
  <2>. HIDE DEF x, f, g, h, c
  <2>6. h[i] \in Int /\ Res(h[i], N) = Res((Sgn(even) * f[i]) + (e * x), N)
    BY <1>0, <2>3, <2>4, <2>5, PartParts
  <2>. QED BY <2>3, <2>4, <2>6 DEF c
<1>4. h \in [S -> Int] /\ g \in [S -> Int] /\ f \in [S -> Int]
  <2>1. f \in [S -> Int]
    BY <1>2, <1>3
  <2>2. h \in [S -> Int]
    BY <1>3 DEF Partials
  <2>. HIDE DEF f, h
  <2>. QED BY <1>3, <2>1, <2>2
<1>5. s = ResSum(h, n, N)
  <2>. HIDE DEF h
  <2>. QED BY <1>0, <1>4, SumOfIs
<1>6. q = ResSum(f, n, N) /\ L = ResSum(g, n, N)
  BY DEF LagrangeSum, NonceSum, SecretSum
<1>7. c \in Int /\ e \in Int
  BY <1>0, ScalarFacts DEF Sgn
<1>8. Combines(h, c, f, e, g, S, N)
  <2>. HIDE DEF h, c, f, g
  <2>. QED BY <1>3 DEF Combines
<1>. HIDE DEF f, g, h, c, s, q, L
<1>9. ResSum(h, n, N) = Res((c * ResSum(f, n, N)) + (e * ResSum(g, n, N)), N)
  BY ONLY <1>0, <1>1, <1>4, <1>7, <1>8, SumLinear DEF OrderPrime
<1>10. ResSum(h, n, N) \in Scalar /\ ResSum(g, n, N) \in Scalar
  BY <1>0, <1>4, SumOfIs
<1>11. s = Res((c * q) + (e * L), N) /\ s \in Scalar /\ L \in Scalar
  BY <1>5, <1>6, <1>9, <1>10
<1>. QED BY <1>11 DEF c, s, q, L, h
-----------------------------------------------------------------------------
(***************************************************************************)
(* A signature opens to its nonce.                                         *)
(***************************************************************************)
\* a signature with nonce q and a secret L, opened for the secret D
Opens(even, q, e, L, D, s, k, h) ==
  /\ even \in BOOLEAN /\ q \in Scalar /\ q # 0 /\ e \in Scalar /\ L \in Scalar /\ D \in Scalar
  /\ s = Res((Sgn(even) * q) + (e * L), N) /\ k = Turned(even, q) /\ h = Res(s - e * D, N)

\* it opens to its nonce for the secret it was made with, and for no other
LEMMA OpensIs ==
  ASSUME NEW even, NEW q, NEW e, NEW L, NEW D, NEW s, NEW k, NEW h, Opens(even, q, e, L, D, s, k, h)
  PROVE  /\ k \in Scalar /\ k # 0 /\ s \in Scalar /\ h \in Scalar
         /\ L = D => h = k
         /\ L # D /\ e # 0 => h # k
<1>. USE DEF Opens
<1>1. /\ OrderPrime /\ N \in Nat \ {0} /\ q \in Int /\ e \in Int /\ L \in Int /\ D \in Int
      /\ Res(e, N) = e /\ Res(L, N) = L /\ Res(D, N) = D
  BY ScalarFacts, OrderFacts, OrderIsPrime
<1>2. k \in Scalar /\ k # 0
  BY GenPoint DEF Turned
<1>. DEFINE u == Sgn(even) * q
            eL == e * L
            eD == e * D
            z == u + eL
            x == s - eD
            w == L - D
            ew == e * w
<1>3. u \in Int /\ Cong(k, u, N) /\ k \in Int
  BY <1>2, TurnedIs, ScalarFacts
<1>4. s = Res(z, N) /\ h = Res(x, N)
  OBVIOUS
<1>. HIDE DEF u
<1>5. eL \in Int /\ eD \in Int /\ w \in Int /\ ew \in Int /\ z \in Int /\ ew = eL - eD
  BY <1>1, <1>3
<1>. HIDE DEF eL, eD, z, ew
<1>6. s \in Scalar /\ s \in Int /\ Cong(s, z, N)
  BY <1>4, <1>5, ScalarRes
<1>7. x \in Int
  BY <1>5, <1>6
<1>8. Cong(x, z - eD, N)
  <2>1. Cong(eD, eD, N)
    BY <1>1, <1>5, CongSelf
  <2>. QED BY <1>1, <1>5, <1>6, <2>1, Zenon, CongSub
<1>. HIDE DEF x
<1>9. h \in Scalar /\ h \in Int /\ Cong(h, x, N)
  BY <1>4, <1>7, ScalarRes
<1>10. z - eD = u + ew
  BY <1>3, <1>5 DEF z
<1>11. Cong(h, u + ew, N)
  BY <1>8, <1>9, <1>10 DEF Cong
<1>12. ASSUME L = D PROVE h = k
  <2>1. ew = 0
    BY <1>1, <1>12 DEF ew
  <2>2. u + ew = u
    BY <1>3, <2>1
  <2>3. Cong(h, k, N)
    BY <1>3, <1>11, <2>2 DEF Cong
  <2>. QED BY <1>2, <1>9, <2>3, ScalarFacts DEF Cong
<1>13. ASSUME h = k, e # 0 PROVE L = D
  <2>1. Cong(u + ew, u, N)
    BY <1>3, <1>11, <1>13 DEF Cong
  <2>2. Cong((u + ew) - u, u - u, N)
    <3>. DEFINE p == u + ew
    <3>1. p \in Int /\ Cong(p, u, N) /\ Cong(u, u, N)
      BY <1>1, <1>3, <1>5, <2>1, CongSelf
    <3>. HIDE DEF p
    <3>2. Cong(p - u, u - u, N)
      BY <1>1, <1>3, <3>1, Zenon, CongSub
    <3>. QED BY <3>2 DEF p
  <2>3. (u + ew) - u = ew /\ u - u = 0
    BY <1>3, <1>5
  <2>4. Res(ew, N) = Res(0, N) /\ Res(0, N) = 0
    <3>1. 0 \in 0..(N - 1)
      BY <1>1
    <3>. QED BY <1>1, <2>2, <2>3, <3>1, ResSmall DEF Cong
  <2>5. Res(w, N) = 0
    <3>1. SUFFICES ASSUME Res(w, N) # 0 PROVE FALSE
      OBVIOUS
    <3>2. Res(e * w, N) # 0
      <4>. HIDE DEF w
      <4>. QED BY <1>1, <1>5, <1>13, <3>1, NoZeroDivisors DEF OrderPrime
    <3>. QED BY <2>4, <3>2 DEF ew
  <2>6. Cong(w, 0, N) /\ Cong(D, D, N) /\ 0 \in Int
    BY <1>1, <2>4, <2>5, CongSelf DEF Cong
  <2>7. L = w + D /\ D = 0 + D
    BY <1>1
  <2>8. Cong(L, D, N)
    <3>. HIDE DEF w
    <3>. QED BY ONLY <1>1, <1>5, <2>6, <2>7, CongPlus
  <2>. QED BY <1>1, <2>8 DEF Cong
<1>. QED BY <1>2, <1>6, <1>9, <1>12, <1>13

\* and for two challenges it opens differently
LEMMA OpensOnce ==
  ASSUME NEW s \in Scalar, NEW D \in Scalar, D # 0, NEW a \in Scalar, NEW b \in Scalar,
         Res(s - a * D, N) = Res(s - b * D, N)
  PROVE  a = b
<1>1. /\ OrderPrime /\ N \in Nat \ {0} /\ s \in Int /\ D \in Int /\ a \in Int /\ b \in Int
      /\ Res(D, N) = D /\ Res(a, N) = a /\ Res(b, N) = b
  BY ScalarFacts, OrderFacts, OrderIsPrime
<1>. DEFINE aD == a * D
            bD == b * D
            x == s - aD
            y == s - bD
<1>2. aD \in Int /\ bD \in Int /\ Cong(x, y, N)
  BY <1>1 DEF Cong
<1>. HIDE DEF aD, bD
<1>3. x \in Int /\ y \in Int /\ aD = s - x /\ bD = s - y
  BY <1>1, <1>2
<1>. HIDE DEF x, y
<1>4. Cong(s, s, N)
  BY <1>1, CongSelf
<1>5. Cong(aD, bD, N)
  BY ONLY <1>1, <1>2, <1>3, <1>4, CongMinus
<1>6. Res(a, N) = Res(b, N)
  <2>1. Res(a * D, N) = Res(b * D, N)
    BY <1>5 DEF Cong, aD, bD
  <2>. QED BY ONLY <1>1, <2>1, D # 0, Cancel DEF OrderPrime
<1>. QED BY <1>1, <1>6
-----------------------------------------------------------------------------
(***************************************************************************)
(* Keys.                                                                   *)
(***************************************************************************)
\* the public key is the x of the even secret's point
LEMMA EvenSecretIs ==
  ASSUME KeyInv
  PROVE  /\ EvenSecret(key) \in Scalar /\ EvenSecret(key) # 0 /\ HasEvenY(Gen(EvenSecret(key)))
         /\ key.pub = Gen(EvenSecret(key))[1]
         /\ key.secret \in Scalar
<1>. DEFINE x == key.secret
<1>1. x \in Scalar /\ x # 0 /\ key.pub = Gen(x)[1]
  BY DEF KeyInv, Groups, Identities
<1>. HIDE DEF x
<1>2. CASE HasEvenY(Gen(x))
  BY <1>1, <1>2 DEF EvenSecret, x
<1>3. CASE ~HasEvenY(Gen(x))
  <2>1. EvenSecret(key) = N - x
    BY <1>3 DEF EvenSecret, x
  <2>2. N - x \in Scalar /\ N - x # 0
    BY <1>1, GenPoint
  <2>3. HasEvenY(Gen(N - x))
    BY <1>1, <1>3, OppositeParity
  <2>4. Gen(N - x)[1] = Gen(x)[1]
    BY <1>1, GenOpposite DEF Opposite
  <2>. QED BY <1>1, <2>1, <2>2, <2>3, <2>4 DEF x
<1>. QED BY <1>2, <1>3

\* the point of a nonce turned
LEMMA TurnedPoint ==
  ASSUME NEW q \in Scalar, q # 0
  PROVE  LET k == Turned(HasEvenY(Gen(q)), q) IN HasEvenY(Gen(k)) /\ Gen(k)[1] = Gen(q)[1]
<1>1. CASE HasEvenY(Gen(q))
  BY <1>1 DEF Turned
<1>2. CASE ~HasEvenY(Gen(q))
  <2>1. HasEvenY(Gen(N - q))
    BY <1>2, OppositeParity
  <2>2. Gen(N - q)[1] = Gen(q)[1]
    BY GenOpposite DEF Opposite
  <2>. QED BY <1>2, <2>1, <2>2 DEF Turned
<1>. QED BY <1>1, <1>2

\* what is drawn is a scalar and not 0
LEMMA DrawnScalar ==
  ASSUME NEW D \in SUBSET Nat
  PROVE  RandScalar(D) \subseteq Scalar \ {0}
<1>1. ASSUME NEW k \in D PROVE k % N \in Scalar
  <2>1. k \in Int
    OBVIOUS
  <2>. QED BY <2>1, ScalarRes DEF Res
<1>. QED BY <1>1 DEF RandScalar

\* what is drawn or hashed is a number
LEMMA Hashes ==
  /\ Drawn \in SUBSET Nat /\ Hiding \in SUBSET Nat /\ Binding \in SUBSET Nat
  /\ Rhos \in SUBSET Nat /\ Challenges \in SUBSET Nat
BY HashesAssumption
-----------------------------------------------------------------------------
(***************************************************************************)
(* Dealing.                                                                *)
(***************************************************************************)
\* negating the coefficients makes the y even
LEMMA EvenKeyIs ==
  ASSUME NEW t \in Nat \ {0}, NEW c \in [1..t -> Scalar \ {0}]
  PROVE  EvenKey(c) \in [1..t -> Scalar \ {0}] /\ HasEvenY(Gen(EvenKey(c)[1]))
<1>1. 1 \in 1..t /\ c[1] \in Scalar /\ c[1] # 0
  OBVIOUS
<1>2. c[1] \in Nat
  BY <1>1, ScalarFacts
<1>3. Mul(c[1], G) = Gen(c[1])
  BY <1>2, MulG
<1>4. ASSUME NEW i \in 1..t PROVE (N - c[i]) % N = N - c[i] /\ N - c[i] \in Scalar \ {0}
  <2>. DEFINE x == N - c[i]
  <2>1. c[i] \in Scalar /\ c[i] # 0
    OBVIOUS
  <2>2. x \in Scalar /\ x # 0
    BY <2>1, GenPoint
  <2>. HIDE DEF x
  <2>3. x % N = x
    BY <2>2, ScalarFacts DEF Res
  <2>. QED BY <2>2, <2>3 DEF x
<1>5. CASE HasEvenY(Gen(c[1]))
  BY <1>3, <1>5 DEF EvenKey
<1>6. CASE ~HasEvenY(Gen(c[1]))
  <2>1. EvenKey(c) = [i \in 1..t |-> N - c[i]]
    BY <1>3, <1>4, <1>6 DEF EvenKey
  <2>2. HasEvenY(Gen(N - c[1]))
    BY <1>1, <1>6, OppositeParity
  <2>. QED BY <1>1, <1>4, <2>1, <2>2
<1>. QED BY <1>5, <1>6

\* a dealt group is as the invariant says
LEMMA DealIs ==
  ASSUME NEW t \in Nat \ {0}, NEW c \in [1..t -> Scalar \ {0}], NEW n \in Nat, t <= n, n < N,
         NEW k, k = Deal(c, n)
  PROVE  /\ k.kind = "group" /\ k \in Groups /\ k.secret # 0 /\ k.pub = Gen(k.secret)[1] /\ GroupOf(k)
<1>. DEFINE a == EvenKey(c)
<1>1. a \in [1..t -> Scalar \ {0}] /\ HasEvenY(Gen(a[1]))
  BY EvenKeyIs
<1>2. k = [kind |-> "group", t |-> Len(a), n |-> n, secret |-> a[1],
           shares |-> [i \in 1..n |-> Eval(a, i)], pub |-> Mul(a[1], G)[1]]
  BY DEF Deal
<1>. HIDE DEF a
<1>3. Len(a) = t /\ a \in Seq(Scalar) /\ a[1] \in Scalar /\ a[1] # 0
  <2>1. 1 \in 1..t
    OBVIOUS
  <2>. QED BY <1>1, <2>1
<1>4. Mul(a[1], G) = Gen(a[1]) /\ Gen(a[1])[1] \in Field
  <2>1. a[1] \in Nat
    BY <1>3, ScalarFacts
  <2>2. Gen(a[1]) \in Field \X Field
    BY <1>3, GenPoint
  <2>. QED BY <2>1, <2>2, MulG
<1>5. a \in Seq(Int)
  <2>1. \A i \in 1..t : a[i] \in Int
    BY <1>1, ScalarFacts
  <2>. QED BY <1>1, <2>1
<1>6. \A i \in 1..n : Eval(a, i) \in Scalar
  <2>1. ASSUME NEW i \in 1..n PROVE Eval(a, i) \in Scalar
    <3>1. i \in Int
      OBVIOUS
    <3>. QED BY <1>5, <3>1, EvalIs
  <2>. QED BY <2>1
<1>7. [i \in 1..n |-> Eval(a, i)] \in Seq(Scalar)
  BY <1>6
<1>8. k \in Groups /\ k.kind = "group" /\ k.t = t /\ k.n = n /\ k.secret = a[1] /\ k.shares = [i \in 1..n |-> Eval(a, i)] /\ k.pub = Gen(a[1])[1]
  BY <1>2, <1>3, <1>4, <1>7 DEF Groups
<1>9. GroupOf(k)
  BY <1>1, <1>8 DEF GroupOf
<1>. QED BY <1>3, <1>8, <1>9

\* the invariant holds at the start
LEMMA FrostInitial == Init => IInv
<1>. SUFFICES ASSUME Init PROVE IInv
  OBVIOUS
<1>1. SigInv
  <2>1. 0 \in Scalar /\ 0 \in Field
    BY OrderFacts, FieldFacts DEF Scalar, Field
  <2>. QED BY <2>1 DEF Init, SigInv, NoSig, Signatures
<1>2. CASE \E z \in Sizes : \E coeffs \in [1..z[1] -> RandScalar(Drawn)] : key = Deal(coeffs, z[2])
  <2>1. PICK z \in Sizes : \E coeffs \in [1..z[1] -> RandScalar(Drawn)] : key = Deal(coeffs, z[2])
    BY <1>2
  <2>2. PICK coeffs \in [1..z[1] -> RandScalar(Drawn)] : key = Deal(coeffs, z[2])
    BY <2>1
  <2>3. z[1] \in Nat \ {0} /\ z[2] \in Nat /\ z[1] <= z[2] /\ z[2] < N
    BY SizesAssumption
  <2>4. coeffs \in [1..z[1] -> Scalar \ {0}]
    <3>1. RandScalar(Drawn) \subseteq Scalar \ {0}
      BY Hashes, DrawnScalar
    <3>. QED BY <3>1
  <2>5. key.kind = "group" /\ key \in Groups /\ key.secret # 0 /\ key.pub = Gen(key.secret)[1] /\ GroupOf(key)
    BY <2>2, <2>3, <2>4, DealIs
  <2>. QED BY <1>1, <2>5 DEF IInv, KeyInv
<1>3. CASE \E sk \in Scalar \ {0} : key = [kind |-> "identity", secret |-> sk, pub |-> XOnlyPub(sk)]
  <2>1. PICK sk \in Scalar \ {0} : key = [kind |-> "identity", secret |-> sk, pub |-> XOnlyPub(sk)]
    BY <1>3
  <2>2. sk \in Nat /\ sk \in Scalar /\ sk # 0
    BY ScalarFacts
  <2>3. XOnlyPub(sk) = Gen(sk)[1]
    BY <2>2, MulG DEF XOnlyPub
  <2>4. Gen(sk)[1] \in Field
    <3>1. Gen(sk) \in Field \X Field
      BY <2>2, GenPoint
    <3>. QED BY <3>1
  <2>5. key \in Identities /\ key.kind = "identity" /\ key.secret = sk /\ key.pub = Gen(sk)[1]
    BY <2>1, <2>2, <2>3, <2>4 DEF Identities
  <2>. QED BY <1>1, <2>2, <2>5 DEF IInv, KeyInv
<1>. QED BY <1>2, <1>3 DEF Init
-----------------------------------------------------------------------------
(***************************************************************************)
(* Signing.                                                                *)
(***************************************************************************)
\* what signing makes opens to its nonce
SignedBy(g, S, d, b, rho, e, R) ==
  /\ S \in SUBSET (1..key.n) /\ e \in Scalar
  /\ d \in [S -> Scalar] /\ b \in [S -> Scalar] /\ rho \in [S -> Scalar]
  /\ R = Commitment(S, d, b, rho) /\ R # Null
  /\ g = [by |-> S, r |-> R[1], e |-> e, s |-> SumOf(Partials(S, d, b, rho, HasEvenY(R), e), key.n)]

\* what a group signs opens to its nonce
LEMMA GroupSigned ==
  ASSUME KeyInv, key.kind = "group", NEW g, NEW S, NEW d, NEW b, NEW rho, NEW e, NEW R,
         SignedBy(g, S, d, b, rho, e, R)
  PROVE  g \in Signatures /\ \E k \in Scalar \ {0} : Opened(g, k)
<1>. DEFINE n == key.n
            t == key.t
            D == key.secret
            v == Shares(S)
            even == HasEvenY(R)
            q == NonceSum(S, d, b, rho, n)
            L == SecretSum(S, n)
            s == SumOf(Partials(S, d, b, rho, even, e), n)
            k == Turned(even, q)
            h == Res(s - e * D, N)
<1>1. /\ n \in Nat /\ key.n \in Nat /\ n = key.n /\ n < N /\ S \in SUBSET (1..n) /\ t \in Nat /\ t >= 1
      /\ HasEvenY(Gen(D)) /\ D \in Scalar
      /\ d \in [S -> Scalar] /\ b \in [S -> Scalar] /\ rho \in [S -> Scalar] /\ e \in Scalar
  BY DEF KeyInv, GroupOf, Groups, SignedBy
<1>2. PICK a \in [1..t -> Scalar \ {0}] : D = a[1] /\ key.shares = [i \in 1..n |-> Eval(a, i)]
  BY DEF KeyInv, GroupOf
<1>3. a \in Seq(Scalar) /\ a \in Seq(Int) /\ Len(a) = t /\ a[t] \in Scalar /\ a[t] # 0
  <2>1. \A i \in 1..t : a[i] \in Int /\ a[i] \in Scalar /\ a[i] # 0
    BY ScalarFacts
  <2>2. t \in 1..t
    BY <1>1
  <2>. HIDE DEF t
  <2>. QED BY <1>1, <1>2, <2>1, <2>2
<1>4. ASSUME NEW i \in 1..n PROVE Eval(a, i) \in Scalar /\ Value(Eval(a, i), a, i, N)
  <2>1. i \in Int
    BY <1>1
  <2>. QED BY <1>3, <2>1, EvalIs
<1>5. key.shares \in [1..n -> Scalar]
  BY <1>2, <1>4
<1>6. Values(v, D, a, S, N)
  <2>1. Value(D, a, 0, N)
    BY <1>1, <1>2, <1>3, SecretIs
  <2>2. ASSUME NEW i \in S PROVE Value(v[i], a, i, N)
    <3>1. i \in 1..n /\ v[i] = Eval(a, i)
      BY <1>1, <1>2 DEF Shares
    <3>. QED BY <1>4, <3>1
  <2>. QED BY <2>1, <2>2 DEF Values
<1>7. v \in [S -> Int]
  <2>1. ASSUME NEW i \in S PROVE key.shares[i] \in Int
    <3>1. i \in 1..n
      BY <1>1
    <3>. QED BY <1>5, <3>1, ScalarFacts
  <2>. QED BY <2>1 DEF Shares
<1>8. R = Gen(q) /\ q \in Scalar
  <2>. HIDE DEF n
  <2>. QED BY <1>1, CommitmentIs DEF SignedBy, NonceSum
<1>9. q # 0
  BY <1>8, GenSteps DEF SignedBy
<1>10. even \in BOOLEAN /\ even = HasEvenY(Gen(q))
  BY <1>8 DEF HasEvenY
<1>11. s = Res((Sgn(even) * q) + (e * L), N) /\ s \in Scalar /\ L \in Scalar
  <2>1. SignersOf(S, d, b, rho, e, n)
    BY <1>1, <1>5 DEF SignersOf
  <2>. HIDE DEF even, n
  <2>. QED BY <1>10, <2>1, SignedSum
<1>12. (Cardinality(S) >= t => L = D) /\ (Cardinality(S) + 1 = t => L # D)
  <2>1. Coefficients(Lambdas(n), n, N)
    <3>. HIDE DEF n
    <3>. QED BY <1>1, LambdasAre
  <2>2. OrderPrime /\ Res(a[Len(a)], N) # 0
    BY <1>3, OrderIsPrime, ScalarFacts
  <2>. HIDE DEF n, v, D, t
  <2>3. /\ Cardinality(S) >= Len(a) => LagrangeSum(S, Lambdas(n), v, n, N) = D
        /\ Cardinality(S) + 1 = Len(a) /\ Res(a[Len(a)], N) # 0 => LagrangeSum(S, Lambdas(n), v, n, N) # D
    <3>1. Values(v, D, a, S, N)
      BY <1>6
    <3>2. v \in [S -> Int] /\ a \in Seq(Int)
      BY <1>3, <1>7
    <3>3. n \in Nat /\ n < N /\ S \in SUBSET (1..n) /\ N \in Nat \ {0} /\ Prime(N)
      BY <1>1, <2>2 DEF OrderPrime
    <3>. QED BY ONLY <2>1, <3>1, <3>2, <3>3, Zenon, Interpolation
  <2>. QED BY <1>3, <2>2, <2>3 DEF SecretSum, v
<1>13. Opens(even, q, e, L, D, s, k, h)
  <2>. HIDE DEF q, L, D, s
  <2>. QED BY <1>1, <1>8, <1>9, <1>10, <1>11 DEF Opens
<1>14. k \in Scalar /\ k # 0 /\ (L = D => h = k) /\ (L # D /\ e # 0 => h # k)
  <2>. HIDE DEF q, L, D, s, k, h
  <2>. QED BY <1>13, OpensIs
<1>15. HasEvenY(Gen(k)) /\ Gen(k)[1] = R[1]
  <2>. HIDE DEF q
  <2>. QED BY <1>8, <1>9, <1>10, TurnedPoint
<1>16. EvenSecret(key) = D
  BY <1>1 DEF EvenSecret
<1>17. R[1] \in Field /\ S \in SUBSET Nat /\ Cardinality(S) \in Nat
  <2>1. Gen(q) \in Field \X Field
    <3>. HIDE DEF q
    <3>. QED BY <1>8, <1>9, GenPoint
  <2>2. Cardinality(S) \in 0..n
    <3>. HIDE DEF n
    <3>. QED BY <1>1, SubsetSize
  <2>. QED BY <1>1, <1>8, <2>1, <2>2
<1>18. g.by = S /\ g.r = R[1] /\ g.e = e /\ g.s = s /\ g \in Signatures
  <2>1. g = [by |-> S, r |-> R[1], e |-> e, s |-> s]
    BY DEF SignedBy
  <2>2. e \in Scalar
    BY <1>1
  <2>. HIDE DEF s
  <2>. QED BY <1>11, <1>17, <2>1, <2>2 DEF Signatures
<1>19. Cardinality(S) = t - 1 => Cardinality(S) + 1 = t
  BY <1>1, <1>17
<1>20. Opened(g, k)
  <2>1. h = Res(g.s - g.e * EvenSecret(key), N)
    BY <1>16, <1>18
  <2>. HIDE DEF k, h, L, D, s
  <2>. QED BY <1>12, <1>14, <1>15, <1>18, <1>19, <2>1 DEF Opened, Res
<1>. QED BY <1>14, <1>18, <1>20

\* what an identity signs opens to its nonce
LEMMA IdentitySigned ==
  ASSUME KeyInv, key.kind = "identity", NEW k0 \in Scalar, k0 # 0, NEW e \in Scalar,
         NEW one, one = Sign(key.secret, k0, e),
         NEW g, g = [by |-> {1}, r |-> one.r, s |-> one.s, e |-> e]
  PROVE  g \in Signatures /\ \E k \in Scalar \ {0} : Opened(g, k)
<1>. DEFINE D == EvenSecret(key)
            even == HasEvenY(Gen(k0))
            k == Turned(even, k0)
            s == one.s
            h == Res(s - e * D, N)
<1>1. D \in Scalar /\ key.secret \in Scalar
  BY EvenSecretIs
<1>2. Mul(key.secret, G) = Gen(key.secret) /\ Mul(k0, G) = Gen(k0)
  BY <1>1, MulG, ScalarFacts
<1>3. one.r = Gen(k0)[1] /\ one.s = (k + e * D) % N
  BY <1>2 DEF Sign, Turned, EvenSecret
<1>4. even \in BOOLEAN
  BY DEF HasEvenY
<1>5. s = Res((Sgn(even) * k0) + (e * D), N)
  <2>. DEFINE u == Sgn(even) * k0
              eD == e * D
  <2>1. k \in Int /\ u \in Int /\ Cong(k, u, N)
    <3>. HIDE DEF even
    <3>. QED BY <1>4, TurnedIs
  <2>2. eD \in Int /\ N \in Nat \ {0}
    <3>1. e \in Int /\ D \in Int
      BY <1>1, ScalarFacts
    <3>. HIDE DEF D
    <3>. QED BY <3>1, OrderFacts
  <2>. HIDE DEF u, k, D, eD
  <2>3. Res(k + eD, N) = Res(u + eD, N)
    BY <2>1, <2>2, Zenon, ResPlusBy DEF Cong
  <2>. QED BY <1>3, <2>3 DEF Res, u, eD
<1>6. Opens(even, k0, e, D, D, s, k, h)
  <2>. HIDE DEF even, D, s
  <2>. QED BY <1>1, <1>4, <1>5 DEF Opens
<1>7. k \in Scalar /\ k # 0 /\ s \in Scalar /\ h = k
  <2>. HIDE DEF k, D, s, h, even
  <2>. QED BY <1>6, OpensIs
<1>8. HasEvenY(Gen(k)) /\ Gen(k)[1] = Gen(k0)[1]
  BY TurnedPoint
<1>9. Gen(k0)[1] \in Field
  <2>1. Gen(k0) \in Field \X Field
    BY GenPoint
  <2>. QED BY <2>1
<1>10. g \in Signatures /\ g.r = Gen(k0)[1] /\ g.s = s /\ g.e = e
  BY <1>3, <1>7, <1>9 DEF Signatures
<1>11. Opened(g, k)
  <2>1. Res(g.s - g.e * EvenSecret(key), N) = k
    BY <1>7, <1>10
  <2>. HIDE DEF k
  <2>. QED BY <1>8, <1>10, <2>1 DEF Opened, Res
<1>. QED BY <1>7, <1>10, <1>11

\* every signing keeps the invariant
LEMMA FrostPreserved == IInv /\ [Next]_vars => IInv'
<1>. SUFFICES ASSUME IInv, [Next]_vars PROVE IInv'
  OBVIOUS
<1>. USE DEF IInv
<1>1. CASE UNCHANGED vars
  BY <1>1 DEF vars, KeyInv, SigInv, GroupOf, Opened, EvenSecret
<1>2. ASSUME key' = key, \E g \in {sig'} : g \in Signatures /\ \E k \in Scalar \ {0} : Opened(g, k)
      PROVE  IInv'
  <2>1. KeyInv'
    BY <1>2 DEF KeyInv, GroupOf
  <2>2. SigInv'
    BY <1>2 DEF SigInv, Opened, EvenSecret
  <2>. QED BY <2>1, <2>2
<1>3. ASSUME NEW x \in Nat PROVE x % N \in Scalar
  <2>1. x \in Int
    OBVIOUS
  <2>. QED BY <2>1, ScalarRes DEF Res
<1>4. ASSUME key.kind = "group",
             \E S \in (SUBSET (1..key.n)) \ {{}} :
               \E d \in [S -> RandScalar(Hiding)], b \in [S -> RandScalar(Binding)],
                  rho \in [S -> Rhos], e \in Challenges :
                 GroupSign(S, d, b, [i \in S |-> rho[i] % N], e % N)
      PROVE  IInv'
  <2>1. PICK S \in (SUBSET (1..key.n)) \ {{}} :
               \E d \in [S -> RandScalar(Hiding)], b \in [S -> RandScalar(Binding)],
                  rho \in [S -> Rhos], e \in Challenges :
                 GroupSign(S, d, b, [i \in S |-> rho[i] % N], e % N)
    BY <1>4
  <2>2. PICK d \in [S -> RandScalar(Hiding)], b \in [S -> RandScalar(Binding)], rho \in [S -> Rhos], e \in Challenges :
               GroupSign(S, d, b, [i \in S |-> rho[i] % N], e % N)
    BY <2>1
  <2>. DEFINE m == [i \in S |-> rho[i] % N]
              c == e % N
  <2>3. d \in [S -> Scalar] /\ b \in [S -> Scalar]
    <3>1. RandScalar(Hiding) \subseteq Scalar \ {0} /\ RandScalar(Binding) \subseteq Scalar \ {0}
      BY Hashes, DrawnScalar
    <3>. QED BY <3>1
  <2>4. m \in [S -> Scalar] /\ c \in Scalar
    <3>1. e \in Nat /\ \A i \in S : rho[i] \in Nat
      BY Hashes
    <3>2. c \in Scalar
      BY <1>3, <3>1
    <3>3. \A i \in S : rho[i] % N \in Scalar
      BY <1>3, <3>1
    <3>. QED BY <3>2, <3>3
  <2>5. GroupSign(S, d, b, m, c)
    BY <2>2
  <2>. HIDE DEF m, c
  <2>. DEFINE Made(R, even) == [by |-> S, r |-> R[1], e |-> c, s |-> SumOf(Partials(S, d, b, m, even, c), key.n)]
  <2>6. PICK R \in {Commitment(S, d, b, m)} \ {Null} : \E even \in {HasEvenY(R)} : sig' = Made(R, even)
    BY <2>5 DEF GroupSign, Partials
  <2>7. sig' = Made(R, HasEvenY(R))
    <3>. HIDE DEF Made
    <3>. QED BY <2>6
  <2>. DEFINE g == Made(R, HasEvenY(R))
  <2>8. R = Commitment(S, d, b, m) /\ R # Null
    BY <2>6
  <2>9. S \in SUBSET (1..key.n)
    BY <2>1
  <2>10. SignedBy(g, S, d, b, m, c, R)
    BY <2>3, <2>4, <2>8, <2>9 DEF SignedBy
  <2>11. sig' = g /\ key' = key
    BY <2>5, <2>7 DEF GroupSign
  <2>. HIDE DEF g
  <2>12. g \in Signatures /\ \E k \in Scalar \ {0} : Opened(g, k)
    BY <1>4, <2>10, GroupSigned
  <2>. QED BY <1>2, <2>11, <2>12
<1>5. ASSUME key.kind = "identity", \E k0 \in Scalar, e \in Challenges : IdentitySign(k0, e % N)
      PROVE  IInv'
  <2>1. PICK k0 \in Scalar, e \in Challenges : IdentitySign(k0, e % N)
    BY <1>5
  <2>. DEFINE c == e % N
              one == Sign(key.secret, k0, c)
              g == [by |-> {1}, r |-> one.r, s |-> one.s, e |-> c]
  <2>2. c \in Scalar
    <3>1. e \in Nat
      BY Hashes
    <3>. QED BY <1>3, <3>1
  <2>3. k0 # 0 /\ sig' = g /\ key' = key
    BY <2>1 DEF IdentitySign
  <2>4. g \in Signatures /\ \E k \in Scalar \ {0} : Opened(g, k)
    <3>1. one = Sign(key.secret, k0, c)
      OBVIOUS
    <3>. HIDE DEF one, c
    <3>2. g = [by |-> {1}, r |-> one.r, s |-> one.s, e |-> c]
      OBVIOUS
    <3>3. KeyInv /\ k0 \in Scalar
      OBVIOUS
    <3>. HIDE DEF g
    <3>. QED BY ONLY <1>5, <2>2, <2>3, <3>1, <3>2, <3>3, IdentitySigned
  <2>. HIDE DEF g
  <2>. QED BY <1>2, <2>3, <2>4
<1>6. Next => \/ /\ key.kind = "group"
                /\ \E S \in (SUBSET (1..key.n)) \ {{}} :
                     \E d \in [S -> RandScalar(Hiding)], b \in [S -> RandScalar(Binding)],
                        rho \in [S -> Rhos], e \in Challenges :
                       GroupSign(S, d, b, [i \in S |-> rho[i] % N], e % N)
             \/ /\ key.kind = "identity"
                /\ \E k0 \in Scalar, e \in Challenges : IdentitySign(k0, e % N)
  BY DEF Next
<1>. QED BY <1>1, <1>4, <1>5, <1>6
-----------------------------------------------------------------------------
(***************************************************************************)
(* The invariant holds in every state.                                     *)
(***************************************************************************)
THEOREM FrostInvariant == Spec => []IInv
BY FrostInitial, FrostPreserved, PTL DEF Spec
-----------------------------------------------------------------------------
(***************************************************************************)
(* What the invariant says of signatures.                                  *)
(***************************************************************************)
\* what a signature in the invariant verifies for
OpensTo(e, k) == Res(sig.s - e * EvenSecret(key), N) = k

\* a signature verifies for the challenges for which it opens to its nonce
LEMMA Verified ==
  ASSUME IInv, Signed
  PROVE  \E k \in Scalar \ {0} : /\ Opened(sig, k)
                                 /\ \A e \in Scalar : Verify(key.pub, sig, e) <=> OpensTo(e, k)
<1>. DEFINE D == EvenSecret(key)
            s == sig.s
<1>1. D \in Scalar /\ D # 0 /\ HasEvenY(Gen(D)) /\ key.pub = Gen(D)[1]
  BY EvenSecretIs DEF IInv
<1>2. PICK k \in Scalar \ {0} : Opened(sig, k)
  BY DEF IInv, SigInv, Signed
<1>3. s \in Scalar /\ HasEvenY(Gen(k)) /\ sig.r = Gen(k)[1] /\ k # 0 /\ k \in Scalar
  BY <1>2 DEF IInv, SigInv, Opened, Signatures
<1>4. ASSUME NEW e \in Scalar PROVE Verify(key.pub, sig, e) <=> OpensTo(e, k)
  <2>. DEFINE h == Res(s - e * D, N)
  <2>1. h = Res(s - e * D, N) /\ sig.s = s
    OBVIOUS
  <2>. HIDE DEF D, s, h
  <2>2. Verify(Gen(D)[1], sig, e) <=> h = k
    BY <1>1, <1>3, <2>1, VerifyOpens
  <2>. QED BY <1>1, <2>2 DEF OpensTo, h, s, D
<1>. QED BY <1>2, <1>4

(***************************************************************************)
(* The variables of Frost keep their types, for all sizes of groups and    *)
(* whatever is drawn or hashed.                                            *)
(***************************************************************************)
THEOREM FrostTypeCorrect == Spec => []TypeOK
<1>1. IInv => TypeOK
  BY DEF IInv, KeyInv, SigInv, TypeOK, Signatures
<1>. QED BY <1>1, FrostInvariant, PTL

(***************************************************************************)
(* frost.js:4-7, bip340.js:93-120, for every curve and group that is as    *)
(* assumed, every t and n below the order, every polynomial, every set of  *)
(* signers, all nonces and all hashes: t officers make a signature that    *)
(* the ordinary verifier takes, and so does everyone with a key of his     *)
(* own.                                                                    *)
(***************************************************************************)
THEOREM EnoughAlwaysVerifies == Spec => []EnoughVerifies
<1>1. IInv => EnoughVerifies
  <2>1. SUFFICES ASSUME IInv, Signed, Enough PROVE Valid
    BY DEF EnoughVerifies
  <2>2. sig.e \in Scalar
    BY <2>1 DEF IInv, SigInv, Signatures
  <2>3. PICK k \in Scalar \ {0} : /\ Opened(sig, k)
                                  /\ \A e \in Scalar : Verify(key.pub, sig, e) <=> OpensTo(e, k)
    BY <2>1, Verified
  <2>4. OpensTo(sig.e, k)
    BY <2>1, <2>3 DEF Opened, Enough, OpensTo, Res
  <2>. QED BY <2>2, <2>3, <2>4 DEF Valid
<1>. QED BY <1>1, FrostInvariant, PTL

(***************************************************************************)
(* frost.js:7, as generally: t - 1 officers never make one, unless the     *)
(* challenge is 0.                                                         *)
(***************************************************************************)
THEOREM OneTooFewNeverVerifies == Spec => []OneTooFewFails
<1>1. IInv => OneTooFewFails
  <2>1. SUFFICES ASSUME IInv, Signed, key.kind = "group", Cardinality(sig.by) = key.t - 1, sig.e # 0 PROVE ~Valid
    BY DEF OneTooFewFails
  <2>2. sig.e \in Scalar
    BY <2>1 DEF IInv, SigInv, Signatures
  <2>3. PICK k \in Scalar \ {0} : /\ Opened(sig, k)
                                  /\ \A e \in Scalar : Verify(key.pub, sig, e) <=> OpensTo(e, k)
    BY <2>1, Verified
  <2>4. ~OpensTo(sig.e, k)
    BY <2>1, <2>3 DEF Opened, OpensTo, Res
  <2>. QED BY <2>2, <2>3, <2>4 DEF Valid
<1>. QED BY <1>1, FrostInvariant, PTL

(***************************************************************************)
(* frost.js:120-124, as generally: what verifies for one challenge         *)
(* verifies for no other.                                                  *)
(***************************************************************************)
THEOREM SignatureBindsMessage == Spec => []BoundToMessage
<1>1. IInv => BoundToMessage
  <2>1. SUFFICES ASSUME IInv, Signed, Valid, NEW e \in {c % N : c \in Challenges} \ {sig.e}, Verify(key.pub, sig, e)
                 PROVE  FALSE
    BY DEF BoundToMessage
  <2>2. sig.e \in Scalar /\ sig.s \in Scalar
    BY <2>1 DEF IInv, SigInv, Signatures
  <2>3. e \in Scalar
    <3>1. PICK c \in Challenges : e = c % N
      OBVIOUS
    <3>2. c \in Int
      BY Hashes
    <3>. QED BY <3>1, <3>2, ScalarRes DEF Res
  <2>4. PICK k \in Scalar \ {0} : /\ Opened(sig, k)
                                  /\ \A x \in Scalar : Verify(key.pub, sig, x) <=> OpensTo(x, k)
    BY <2>1, Verified
  <2>5. OpensTo(sig.e, k) /\ OpensTo(e, k)
    BY <2>1, <2>2, <2>3, <2>4 DEF Valid
  <2>6. EvenSecret(key) \in Scalar /\ EvenSecret(key) # 0
    BY <2>1, EvenSecretIs DEF IInv
  <2>7. sig.e = e
    <3>1. Res(sig.s - sig.e * EvenSecret(key), N) = Res(sig.s - e * EvenSecret(key), N)
      BY <2>5 DEF OpensTo
    <3>. QED BY <2>2, <2>3, <2>6, <3>1, OpensOnce
  <2>. QED BY <2>7
<1>. QED BY <1>1, FrostInvariant, PTL

(***************************************************************************)
(* frost.js:28-34, as generally: the public key lifts to the point of the  *)
(* secret, or its mirror where that y is odd, which a group key's is not.  *)
(***************************************************************************)
THEOREM PublicKeyOfSecret == Spec => []KeyOfSecret
<1>1. IInv => KeyOfSecret
  <2>1. SUFFICES ASSUME IInv PROVE KeyOfSecret
    OBVIOUS
  <2>. DEFINE x == key.secret
              D == EvenSecret(key)
              Even == IF HasEvenY(Gen(x)) THEN Gen(x) ELSE Opposite(Gen(x))
  <2>2. x \in Scalar /\ x # 0 /\ D \in Scalar /\ D # 0 /\ HasEvenY(Gen(D)) /\ key.pub = Gen(D)[1]
    BY <2>1, EvenSecretIs DEF IInv, KeyInv
  <2>3. Even = Gen(D)
    <3>1. CASE HasEvenY(Gen(x))
      BY <3>1 DEF EvenSecret
    <3>2. CASE ~HasEvenY(Gen(x))
      <4>1. D = N - x
        BY <3>2 DEF EvenSecret
      <4>2. Gen(N - x) = Opposite(Gen(x))
        BY <2>2, GenOpposite
      <4>. QED BY <3>2, <4>1, <4>2
    <3>. QED BY <3>1, <3>2
  <2>4. LiftX(key.pub) = Gen(D)
    <3>1. Gen(D) \in Points /\ Gen(D) # Null
      BY <2>2, GenPoint
    <3>. HIDE DEF D
    <3>. QED BY <2>2, <3>1, LiftFinds
  <2>5. key.kind = "group" => Even = Gen(x)
    BY <2>1 DEF IInv, KeyInv, GroupOf
  <2>. QED BY <2>3, <2>4, <2>5 DEF KeyOfSecret, Gen, Opposite
<1>. QED BY <1>1, FrostInvariant, PTL
-----------------------------------------------------------------------------
(***************************************************************************)
(* The acceptance rule.                                                    *)
(***************************************************************************)
\* the body in force is the quorum's or has lost access since, peer by peer
Narrowed ==
  /\ currentBody.policy = quorumBody.policy
  /\ Listed(currentBody) \subseteq Listed(quorumBody)
  /\ \A p \in Listed(currentBody) :
       /\ quorumBody.peers[p].revoked => currentBody.peers[p].revoked
       /\ currentBody.peers[p].lease <= quorumBody.peers[p].lease
  /\ currentBody # quorumBody =>
       \E p \in Listed(currentBody) :
          currentBody.peers[p].revoked /\ ~quorumBody.peers[p].revoked

QuorumTypeOK == currentBody \in Bodies /\ quorumBody \in Bodies

\* the signers of the quorum are officers, and enough
QuorumEnough == currentBody # NoBody => quorum \subseteq Officers /\ Cardinality(quorum) >= Threshold

QuorumInv == QuorumTypeOK /\ Narrowed /\ QuorumEnough
-----------------------------------------------------------------------------
\* a body's peers have a lease in Nat and are revoked or not
LEMMA BodyFacts ==
  ASSUME NEW b \in Bodies
  PROVE  /\ Listed(b) \subseteq Ids
         /\ \A p \in Listed(b) : /\ b.peers[p].revoked \in BOOLEAN
                                 /\ b.peers[p].lease \in Nat
<1>1. PICK S \in SUBSET Ids : b.peers \in [S -> Entry]
  BY DEF Bodies
<1>2. Listed(b) = S
  BY <1>1 DEF Listed
<1>3. \A p \in S : b.peers[p] \in Entry
  BY <1>1
<1>. QED BY <1>2, <1>3, QuorumAssumption DEF Entry

\* `null` is taken for a body with no peers
LEMMA NoBodyFacts == NoBody \in Bodies /\ Listed(NoBody) = {}
<1>1. NoBody.peers \in [{} -> Entry] /\ DOMAIN NoBody.peers = {}
  BY DEF NoBody
<1>. QED BY <1>1 DEF NoBody, Bodies, Listed

\* only officers are counted
LEMMA SignersAreOfficers == ASSUME NEW doc PROVE Signers(doc) \subseteq Officers
BY DEF Signers
-----------------------------------------------------------------------------
\* the invariant holds at the start
LEMMA QuorumInitial == QuorumInit => QuorumInv
<1>. SUFFICES ASSUME QuorumInit PROVE QuorumInv
  OBVIOUS
<1>1. QuorumTypeOK
  BY NoBodyFacts DEF QuorumInit, QuorumTypeOK
<1>2. Narrowed
  BY NoBodyFacts DEF QuorumInit, Narrowed
<1>3. QuorumEnough
  BY DEF QuorumInit, QuorumEnough
<1>. QED BY <1>1, <1>2, <1>3 DEF QuorumInv

\* a quorum starts anew
LEMMA AcceptQuorumPreserves ==
  ASSUME NEW doc \in Docs, AcceptQuorum(doc)
  PROVE  QuorumInv'
<1>1. doc.body \in Bodies
  BY DEF Docs
<1>2. QuorumTypeOK'
  BY <1>1 DEF AcceptQuorum, QuorumTypeOK
<1>3. Narrowed'
  <2>1. currentBody' = doc.body /\ quorumBody' = doc.body
    BY DEF AcceptQuorum
  <2>. QED BY <1>1, <2>1, BodyFacts DEF Narrowed, Listed
<1>4. QuorumEnough'
  BY SignersAreOfficers DEF AcceptQuorum, QuorumEnough
<1>. QED BY <1>2, <1>3, <1>4 DEF QuorumInv

\* one officer takes away, from what was left
LEMMA AcceptEmergencyPreserves ==
  ASSUME NEW doc \in Docs, QuorumInv, AcceptEmergency(doc)
  PROVE  QuorumInv'
<1>. DEFINE new == doc.body
<1>1. /\ new \in Bodies /\ currentBody \in Bodies /\ quorumBody \in Bodies
      /\ currentBody' = new /\ quorumBody' = quorumBody /\ quorum' = quorum
  BY DEF Docs, AcceptEmergency, QuorumInv, QuorumTypeOK
<1>2. QuorumTypeOK'
  BY <1>1 DEF QuorumTypeOK
<1>3. Narrowed'
  <2>1. /\ Listed(new) \subseteq Listed(currentBody) /\ new.policy = currentBody.policy
        /\ \A p \in Listed(new) : /\ currentBody.peers[p].revoked => new.peers[p].revoked
                                  /\ new.peers[p].lease <= currentBody.peers[p].lease
        /\ \E p \in Listed(new) : new.peers[p].revoked /\ ~currentBody.peers[p].revoked
    BY DEF AcceptEmergency, IsRevocationOnly
  <2>2. /\ Listed(currentBody) \subseteq Listed(quorumBody)
        /\ currentBody.policy = quorumBody.policy
        /\ \A p \in Listed(currentBody) :
             /\ quorumBody.peers[p].revoked => currentBody.peers[p].revoked
             /\ currentBody.peers[p].lease <= quorumBody.peers[p].lease
    BY DEF QuorumInv, Narrowed
  <2>3. \A p \in Listed(new) : /\ quorumBody.peers[p].revoked => new.peers[p].revoked
                               /\ new.peers[p].lease <= quorumBody.peers[p].lease
    <3>. TAKE p \in Listed(new)
    <3>1. p \in Listed(currentBody) /\ p \in Listed(quorumBody)
      BY <2>1, <2>2
    <3>2. new.peers[p].lease \in Nat /\ currentBody.peers[p].lease \in Nat
            /\ quorumBody.peers[p].lease \in Nat
      BY <1>1, <3>1, BodyFacts
    <3>. QED BY <2>1, <2>2, <3>1, <3>2
  <2>4. \E p \in Listed(new) : new.peers[p].revoked /\ ~quorumBody.peers[p].revoked
    BY <2>1, <2>2
  <2>5. Listed(new) \subseteq Listed(quorumBody) /\ new.policy = quorumBody.policy
    BY <2>1, <2>2
  <2>. QED BY <1>1, <2>3, <2>4, <2>5 DEF Narrowed, Listed
<1>4. QuorumEnough'
  <2>1. currentBody # NoBody
    BY DEF AcceptEmergency, IsRevocationOnly
  <2>. QED BY <1>1, <2>1 DEF QuorumInv, QuorumEnough
<1>. QED BY <1>2, <1>3, <1>4 DEF QuorumInv

\* the invariant says what the rule promises
LEMMA NarrowedSuffices == QuorumInv => NarrowedSinceQuorum
<1>. SUFFICES ASSUME QuorumInv PROVE NarrowedSinceQuorum
  OBVIOUS
<1>1. currentBody \in Bodies /\ quorumBody \in Bodies
  BY DEF QuorumInv, QuorumTypeOK
<1>2. currentBody # NoBody => Cardinality(quorum \cap Officers) >= Threshold
  <2>1. quorum \subseteq Officers => quorum \cap Officers = quorum
    OBVIOUS
  <2>. QED BY <2>1 DEF QuorumInv, QuorumEnough
<1>3. currentBody # quorumBody =>
        \E p \in Listed(currentBody) \cap Listed(quorumBody) :
           currentBody.peers[p].revoked /\ ~quorumBody.peers[p].revoked
  BY DEF QuorumInv, Narrowed
<1>4. ASSUME NEW p \in Ids, NEW t \in Moments, Admits(currentBody, p, t)
      PROVE  /\ p \in Listed(quorumBody) /\ ~quorumBody.peers[p].revoked
             /\ Admits(quorumBody, p, t) \/ LeaseDropped(p)
  <2>1. p \in Listed(currentBody) /\ ~currentBody.peers[p].revoked
          /\ (currentBody.peers[p].lease # 0 => t <= currentBody.peers[p].lease)
    BY <1>4 DEF Admits
  <2>2. p \in Listed(quorumBody) /\ ~quorumBody.peers[p].revoked
          /\ currentBody.peers[p].lease <= quorumBody.peers[p].lease
    BY <2>1 DEF QuorumInv, Narrowed
  <2>3. currentBody.peers[p].lease \in Nat /\ quorumBody.peers[p].lease \in Nat /\ t \in Nat
    BY <1>1, <2>1, <2>2, BodyFacts, QuorumAssumption
  <2>4. CASE currentBody.peers[p].lease = 0 /\ quorumBody.peers[p].lease # 0
    BY <2>2, <2>4 DEF LeaseDropped
  <2>5. CASE quorumBody.peers[p].lease = 0
    BY <2>2, <2>5 DEF Admits
  <2>6. CASE currentBody.peers[p].lease # 0
    <3>1. t <= quorumBody.peers[p].lease
      BY <2>1, <2>2, <2>3, <2>6
    <3>. QED BY <2>2, <3>1 DEF Admits
  <2>. QED BY <2>2, <2>4, <2>5, <2>6
<1>. QED BY <1>2, <1>3, <1>4 DEF QuorumInv, Narrowed, NarrowedSinceQuorum

(***************************************************************************)
(* zeroport.js:81-110, for every threshold, every set of officers and      *)
(* peers and any number of accepted rosters: without a quorum access only  *)
(* shrinks, but for leases that are taken away.                            *)
(***************************************************************************)
THEOREM EmergencyOnlyNarrows == QuorumSpec => []NarrowedSinceQuorum
<1>1. QuorumInv /\ [QuorumNext]_quorumVars => QuorumInv'
  <2>. SUFFICES ASSUME QuorumInv, [QuorumNext]_quorumVars PROVE QuorumInv'
    OBVIOUS
  <2>1. CASE QuorumNext
    <3>1. PICK doc \in Docs : AcceptQuorum(doc) \/ AcceptEmergency(doc)
      BY <2>1 DEF QuorumNext
    <3>2. CASE AcceptQuorum(doc)
      BY <3>2, AcceptQuorumPreserves
    <3>3. CASE AcceptEmergency(doc)
      BY <3>3, AcceptEmergencyPreserves
    <3>. QED BY <3>1, <3>2, <3>3
  <2>2. CASE UNCHANGED quorumVars
    BY <2>2 DEF quorumVars, QuorumInv, QuorumTypeOK, Narrowed, QuorumEnough, Listed
  <2>. QED BY <2>1, <2>2
<1>. QED BY <1>1, QuorumInitial, NarrowedSuffices, PTL DEF QuorumSpec
=============================================================================
