-------------------------------- MODULE Frost --------------------------------
(***************************************************************************)
(* Who signs events, and how: a group of officers with threshold           *)
(* signatures (src/crypto/frost.js), and one officer or machine with a key *)
(* of its own (newIdentity of src/domain/zeroport.js, sign of              *)
(* src/crypto/bip340.js).  Both kinds of signature go to the one Verify of *)
(* Bip340.                                                                 *)
(*                                                                         *)
(* Dealing and signing are synchronous: the shares meet in one call.       *)
(***************************************************************************)
EXTENDS Bip340, FiniteSets

CONSTANTS
  Sizes,        \* pairs <<t, n>> that deal is called with
  Drawn,        \* numbers that random bytes come out as, for coefficients
  Hiding,       \* the same, for the two nonces of a signer
  Binding,
  Rhos,         \* what a binding factor may hash to
  Challenges    \* what a challenge may hash to

ASSUME SizesAssumption == \A z \in Sizes : z \in Nat \X Nat /\ 1 <= z[1] /\ z[1] <= z[2] /\ z[2] < N
ASSUME HashesAssumption == Drawn \cup Hiding \cup Binding \cup Rhos \cup Challenges \subseteq Nat

VARIABLES
  key,  \* a dealt group, or an identity
  sig   \* the last signature, with who signed and what the challenge was

vars == <<key, sig>>

Groups == [kind: {"group"}, t: Nat, n: Nat, secret: Scalar, shares: Seq(Scalar), pub: Field]
Identities == [kind: {"identity"}, secret: Scalar, pub: Field]
NoSig == [by |-> {}, r |-> 0, s |-> 0, e |-> 0]

Signatures == [by: SUBSET Nat, r: Field, s: Scalar, e: Scalar]

TypeOK == key \in Groups \cup Identities /\ sig \in Signatures
-----------------------------------------------------------------------------
\* zero is drawn again
RandScalar(drawn) == {k % N : k \in drawn} \ {0}

\* the polynomial with these coefficients, the constant one first
Eval(coeffs, x) == LET at[i \in 1..(Len(coeffs) + 1)] ==
                         IF i > Len(coeffs) THEN 0 ELSE (coeffs[i] + x * at[i + 1]) % N
                   IN  at[1]

\* faulty variant: the group key may have an odd y
EvenKeyOdd(coeffs) == coeffs

\* negating every coefficient negates the secret and all shares
EvenKey(coeffs) ==
  IF HasEvenY(Mul(coeffs[1], G)) THEN coeffs ELSE [i \in DOMAIN coeffs |-> (N - coeffs[i]) % N]

\* faulty variant: officers are counted from 0
DealFromZero(coeffs, n) ==
  LET a == EvenKey(coeffs)
  IN  [kind |-> "group", t |-> Len(a), n |-> n, secret |-> a[1],
       shares |-> [i \in 1..n |-> Eval(a, i - 1)], pub |-> Mul(a[1], G)[1]]

Deal(coeffs, n) ==
  LET a == EvenKey(coeffs)
  IN  [kind |-> "group", t |-> Len(a), n |-> n, secret |-> a[1],
       shares |-> [i \in 1..n |-> Eval(a, i)], pub |-> Mul(a[1], G)[1]]

\* loops over the officers f has a value for, up to the n-th
SumOf(f, n) ==
  LET z[i \in 0..n] == IF i = 0 THEN 0 ELSE IF i \in DOMAIN f THEN (z[i - 1] + f[i]) % N ELSE z[i - 1]
  IN  z[n]

ProductOf(f, n) ==
  LET z[i \in 0..n] == IF i = 0 THEN 1 ELSE IF i \in DOMAIN f THEN (z[i - 1] * f[i]) % N ELSE z[i - 1]
  IN  z[n]

\* the Lagrange coefficient of i at 0
Lambda(i, S) ==
  LET num == ProductOf([j \in S \ {i} |-> j], key.n)
      den == ProductOf([j \in S \ {i} |-> j - i], key.n)
  IN  (num * Inv(den, N)) % N
-----------------------------------------------------------------------------
\* the sum of the commitments, each bound by its rho
Commitment(S, d, b, rho) ==
  LET R[i \in 0..key.n] ==
        IF i = 0 THEN Null
        ELSE IF i \in S THEN Add(R[i - 1], Add(Mul(d[i], G), Mul(rho[i], Mul(b[i], G)))) ELSE R[i - 1]
  IN  R[key.n]

\* faulty variant: the nonces are not turned
PartialUnturned(i, S, d, b, rho, even, e) ==
  (d[i] + rho[i] * b[i] + ((Lambda(i, S) * key.shares[i]) % N) * e) % N

\* one signer's partial: its nonces turned if R is odd, and its part of the secret
Partial(i, S, d, b, rho, even, e) ==
  LET k == (d[i] + rho[i] * b[i]) % N
  IN  ((IF even THEN k ELSE N - k) + ((Lambda(i, S) * key.shares[i]) % N) * e) % N

GroupSign(S, d, b, rho, e) ==
  /\ \E R \in {Commitment(S, d, b, rho)} \ {Null} :  \* if Null, 'empty signing set' is thrown
       \E even \in {HasEvenY(R)} :
         sig' = [by |-> S, r |-> R[1], e |-> e,
                 s |-> SumOf([i \in S |-> Partial(i, S, d, b, rho, even, e)], key.n)]
  /\ UNCHANGED key

\* the key of an identity signs alone
IdentitySign(k0, e) ==
  /\ k0 # 0  \* else 'nonce is zero' is thrown
  /\ LET one == Sign(key.secret, k0, e)
     IN  sig' = [by |-> {1}, r |-> one.r, s |-> one.s, e |-> e]
  /\ UNCHANGED key

Init ==
  /\ \/ \E z \in Sizes : \E coeffs \in [1..z[1] -> RandScalar(Drawn)] : key = Deal(coeffs, z[2])
     \/ \E sk \in Scalar \ {0} : key = [kind |-> "identity", secret |-> sk, pub |-> XOnlyPub(sk)]
  /\ sig = NoSig

Next ==
  /\ sig = NoSig  \* a signing depends on no earlier one
  /\ \/ /\ key.kind = "group"
        /\ \E S \in (SUBSET (1..key.n)) \ {{}} :
             \E d \in [S -> RandScalar(Hiding)], b \in [S -> RandScalar(Binding)],
                rho \in [S -> Rhos], e \in Challenges :
               GroupSign(S, d, b, [i \in S |-> rho[i] % N], e % N)
     \/ /\ key.kind = "identity"
        /\ \E k0 \in Scalar, e \in Challenges : IdentitySign(k0, e % N)

Spec == Init /\ [][Next]_vars
-----------------------------------------------------------------------------
Signed == sig # NoSig
Valid == Verify(key.pub, sig, sig.e)

(***************************************************************************)
(* frost.js:4-7, bip340.js:93-120: t officers, whichever they are, make a  *)
(* signature that the ordinary verifier takes, whatever the parities of    *)
(* the group key and of R are; and so does everyone with a key of his own. *)
(***************************************************************************)
Enough == IF key.kind = "group" THEN Cardinality(sig.by) >= key.t ELSE TRUE
EnoughVerifies == Signed /\ Enough => Valid

(***************************************************************************)
(* frost.js:7, "fewer than t officers cannot produce it at all": one       *)
(* signer too few never makes a signature, unless the challenge is 0, when *)
(* it asks for no key.  This rests on the highest coefficient not being 0. *)
(* With more signers missing a signature may come out by chance.           *)
(***************************************************************************)
OneTooFewFails ==
  Signed /\ key.kind = "group" /\ Cardinality(sig.by) = key.t - 1 /\ sig.e # 0 => ~Valid

(***************************************************************************)
(* frost.js:120-124: a signature that verifies does so for no other        *)
(* challenge, so for no other message unless the two collide.              *)
(***************************************************************************)
BoundToMessage == Signed /\ Valid => \A e \in {c % N : c \in Challenges} \ {sig.e} : ~Verify(key.pub, sig, e)

(***************************************************************************)
(* frost.js:28-34: a public key is the x of the secret times G, counted    *)
(* out by the reference, and it lifts to the point with the even y; for a  *)
(* group that is the secret the shares are about.                          *)
(***************************************************************************)
KeyOfSecret ==
  LET Pt == Times(key.secret, G)
      Even == IF HasEvenY(Pt) THEN Pt ELSE <<Pt[1], P - Pt[2]>>
  IN  /\ LiftX(key.pub) = Even
      /\ key.kind = "group" => Even = Pt
-----------------------------------------------------------------------------
\* G, added k times
Gen(k) == Times(k, G)

\* the secret that the public key stands for with an even y
EvenSecret(k) == IF HasEvenY(Gen(k.secret)) THEN k.secret ELSE N - k.secret

\* a dealt group: the shares are values of a polynomial of t coefficients
GroupOf(k) ==
  /\ k \in Groups /\ k.t >= 1 /\ k.t <= k.n /\ k.n < N /\ HasEvenY(Gen(k.secret))
  /\ \E a \in [1..k.t -> Scalar \ {0}] :
       k.secret = a[1] /\ k.shares = [i \in 1..k.n |-> Eval(a, i)]

KeyInv ==
  /\ key \in Groups \cup Identities /\ key.secret # 0 /\ key.pub = Gen(key.secret)[1]
  /\ key.kind = "group" => GroupOf(key)

\* g opens to its nonce k for the secret, if there are enough signers
Opened(g, k) ==
  /\ HasEvenY(Gen(k)) /\ g.r = Gen(k)[1]
  /\ (key.kind = "group" => Cardinality(g.by) >= key.t) => (g.s - g.e * EvenSecret(key)) % N = k
  /\ key.kind = "group" /\ Cardinality(g.by) = key.t - 1 /\ g.e # 0 =>
       (g.s - g.e * EvenSecret(key)) % N # k

SigInv == sig \in Signatures /\ (sig = NoSig \/ \E k \in Scalar \ {0} : Opened(sig, k))

(***************************************************************************)
(* frost.js:24-44, 66-96: what the four properties rest on.  The shares    *)
(* are values of a polynomial whose constant coefficient is the secret,    *)
(* and a signature opens to its nonce for that secret if there are enough  *)
(* signers, and not if there is one too few.                               *)
(***************************************************************************)
IInv == KeyInv /\ SigInv
=============================================================================
