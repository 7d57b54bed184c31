------------------------------- MODULE Bip340 -------------------------------
(***************************************************************************)
(* BIP-340 Schnorr signatures (src/crypto/bip340.js): operators on the     *)
(* curve y^2 = x^3 + 7 over the field of P elements, whose points form a   *)
(* group of N elements generated by G.                                     *)
(*                                                                         *)
(* A point is a pair of coordinates, Null is the identity.  A number and   *)
(* its 32 bytes are the same thing here.  A tagged hash is any number: who *)
(* signs or verifies passes in what the hash is for his input.             *)
(***************************************************************************)
EXTENDS Integers, Sequences

CONSTANTS
  P,  \* field prime
  N,  \* group order
  G   \* generator

Field == 0..(P - 1)
Scalar == 0..(N - 1)

OnCurve(p) == (p[2] * p[2]) % P = (p[1] * p[1] * p[1] + 7) % P

ASSUME FieldAssumption == P \in Nat /\ P > 7 /\ P % 4 = 3 /\ \A d \in 2..(P - 1) : P % d # 0
ASSUME OrderAssumption == N \in Nat /\ N > 2 /\ \A d \in 2..(N - 1) : N % d # 0
ASSUME GeneratorAssumption == G \in Field \X Field /\ OnCurve(G)

\* square and multiply, from <<r, b, e>>
Pow(b, e, m) ==
  LET loop[v \in Nat \X Nat \X Nat] ==
        IF v[3] = 0 THEN v[1]
        ELSE loop[<<IF v[3] % 2 = 1 THEN (v[1] * v[2]) % m ELSE v[1], (v[2] * v[2]) % m, v[3] \div 2>>]
  IN  loop[<<1, b % m, e>>]

Inv(a, m) == Pow(a, m - 2, m)
-----------------------------------------------------------------------------
Null == <<>>
Points == {p \in Field \X Field : OnCurve(p)} \cup {Null}
HasEvenY(p) == p[2] % 2 = 0

\* affine addition
Add(p, q) ==
  IF p = Null THEN q ELSE IF q = Null THEN p
  ELSE IF p[1] = q[1] /\ p[2] # q[2] THEN Null
  ELSE LET l == (IF p = q THEN 3 * p[1] * p[1] * Inv(2 * p[2], P)
                          ELSE (q[2] - p[2]) * Inv(q[1] - p[1], P)) % P
           x == (l * l - p[1] - q[1]) % P
       IN  <<x, (l * (p[1] - x) - p[2]) % P>>

\* the reference for scalar multiplication: adding k times
Times(k, p) == LET sum[i \in Nat] == IF i = 0 THEN Null ELSE Add(p, sum[i - 1]) IN sum[k]

\* the points form a group of N elements, an odd number: as far as that is needed
ASSUME GroupAssumption ==
  /\ \A p \in Points \ {Null} : p[2] # 0
  /\ \A p, q \in Points : Add(p, q) \in Points /\ Add(Add(G, p), q) = Add(G, Add(p, q))
  /\ Times(N, G) = Null

\* Jacobian coordinates: <<X, Y, Z>> is the point <<X / Z^2, Y / Z^3>>
Jacobian == Field \X Field \X Field
JZero == <<0, 1, 0>>

JDbl(p) ==
  LET A == (p[1] * p[1]) % P
      B == (p[2] * p[2]) % P
      C == (B * B) % P
      D == (2 * ((p[1] + B) * (p[1] + B) - A - C)) % P
      X3 == (9 * A * A - 2 * D) % P
  IN  IF p[3] = 0 \/ p[2] = 0 THEN JZero
      ELSE <<X3, (3 * A * (D - X3) - 8 * C) % P, (2 * p[2] * p[3]) % P>>

JAdd(p, q) ==
  LET ZZ(a) == (a[3] * a[3]) % P
      U1 == (p[1] * ZZ(q)) % P
      U2 == (q[1] * ZZ(p)) % P
      S1 == (p[2] * q[3] * ZZ(q)) % P
      S2 == (q[2] * p[3] * ZZ(p)) % P
      H == (U2 - U1) % P
      I == (4 * H * H) % P
      J == (H * I) % P
      r == (2 * (S2 - S1)) % P
      V == (U1 * I) % P
      X3 == (r * r - J - 2 * V) % P
      zs == p[3] + q[3]
  IN  IF p[3] = 0 THEN q ELSE IF q[3] = 0 THEN p
      ELSE IF U1 = U2 THEN (IF S1 = S2 THEN JDbl(p) ELSE JZero)
      ELSE <<X3, (r * (V - X3) - 2 * S1 * J) % P, ((zs * zs - ZZ(p) - ZZ(q)) * H) % P>>

Affine(j) ==
  IF j[3] = 0 THEN Null
  ELSE LET zi == Inv(j[3], P)
           zi2 == (zi * zi) % P
       IN  <<(j[1] * zi2) % P, (j[2] * zi2 * zi) % P>>

\* double and add, from the lowest bit: from <<R, A, k>>
Mul(k, p) ==
  LET loop[v \in Jacobian \X Jacobian \X Nat] ==
        IF v[3] = 0 THEN v[1]
        ELSE loop[<<IF v[3] % 2 = 1 THEN JAdd(v[1], v[2]) ELSE v[1], JDbl(v[2]), v[3] \div 2>>]
  IN  IF p = Null THEN Null ELSE Affine(loop[<<JZero, <<p[1], p[2], 1>>, k % N>>])

\* faulty variant: whichever root comes out
LiftXAny(x) ==
  LET c == (x * x * x + 7) % P
      y == Pow(c, (P + 1) \div 4, P)
  IN  IF x >= P \/ (y * y) % P # c THEN Null ELSE <<x, y>>

\* the point with this x and an even y, if there is one
LiftX(x) ==
  LET c == (x * x * x + 7) % P
      y == Pow(c, (P + 1) \div 4, P)
  IN  IF x >= P \/ (y * y) % P # c THEN Null
      ELSE <<x, IF y % 2 = 0 THEN y ELSE P - y>>
-----------------------------------------------------------------------------
XOnlyPub(sk) == Mul(sk, G)[1]

\* sign with the secret d0, where the nonce hashes to k0 and the challenge to e
Sign(d0, k0, e) ==
  LET d == IF HasEvenY(Mul(d0, G)) THEN d0 ELSE N - d0
      R == Mul(k0, G)
      k == IF HasEvenY(R) THEN k0 ELSE N - k0
  IN  [r |-> R[1], s |-> (k + e * d) % N]

\* faulty variant: the parity of R is not looked at
VerifyAnyParity(pub, sig, e) ==
  LET Pt == LiftX(pub)
      R == Add(Mul(sig.s, G), Mul(N - e, Pt))
  IN  Pt # Null /\ sig.r < P /\ sig.s < N /\ R # Null /\ R[1] = sig.r

\* verify against a public key, where the challenge hashes to e
Verify(pub, sig, e) ==
  LET Pt == LiftX(pub)
      R == Add(Mul(sig.s, G), Mul(N - e, Pt))
  IN  Pt # Null /\ sig.r < P /\ sig.s < N /\ R # Null /\ HasEvenY(R) /\ R[1] = sig.r
=============================================================================
