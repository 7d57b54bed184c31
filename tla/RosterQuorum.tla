---------------------------- MODULE RosterQuorum ----------------------------
(***************************************************************************)
(* The acceptance rule of src/domain/zeroport.js (69-110): a roster needs  *)
(* signatures of a quorum of officers, or only one if all it does is to    *)
(* take access away.  Whoever applies the rule keeps the body it accepted  *)
(* and hands it in with the next roster; no node does so any more.         *)
(***************************************************************************)
EXTENDS Naturals, Sequences, FiniteSets, Functions

CONSTANTS
  Ids,         \* peers
  Rules,       \* what a policy may allow
  Leases,      \* when a lease may end; 0 stands for no lease
  Moments,     \* moments at which access is compared
  Officers,    \* the keys in officerPubs
  Strangers,   \* other keys that sign
  Threshold,
  MaxSigs      \* signatures in one document

ASSUME QuorumAssumption ==
  /\ Leases \in SUBSET Nat /\ Moments \in SUBSET Nat
  /\ Threshold \in Nat \ {0} /\ MaxSigs \in Nat /\ IsFiniteSet(Officers)

VARIABLES
  currentBody,  \* the body accepted last
  quorumBody,   \* the body accepted last with a quorum
  quorum        \* the officers who signed that one

quorumVars == <<currentBody, quorumBody, quorum>>

Entry == [revoked: BOOLEAN, lease: Leases]
Bodies == [policy: SUBSET Rules, peers: UNION {[S -> Entry] : S \in SUBSET Ids}]
Sigs == [officer: Officers \cup Strangers, verifies: BOOLEAN]
Docs == [body: Bodies, sigs: UNION {[1..n -> Sigs] : n \in 0..MaxSigs}]

\* no current body: `null`
NoBody == [policy |-> {}, peers |-> [p \in {} |-> [revoked |-> FALSE, lease |-> 0]]]

Listed(b) == DOMAIN b.peers
-----------------------------------------------------------------------------
\* the officers whose signatures verifyRoster counts, each once
Signers(doc) == {s.officer : s \in {x \in Range(doc.sigs) : x.officer \in Officers /\ x.verifies}}

\* faulty variant: a peer may be readmitted
ForgetsRevoked(old, new) ==
  /\ old # NoBody
  /\ Listed(new) \subseteq Listed(old)
  /\ new.policy = old.policy
  /\ \A p \in Listed(new) : new.peers[p].lease <= old.peers[p].lease
  /\ \E p \in Listed(new) : new.peers[p].revoked /\ ~old.peers[p].revoked

IsRevocationOnly(old, new) ==
  /\ old # NoBody
  /\ Listed(new) \subseteq Listed(old)
  /\ new.policy = old.policy
  /\ \A p \in Listed(new) : /\ old.peers[p].revoked => new.peers[p].revoked
                            /\ new.peers[p].lease <= old.peers[p].lease
  /\ \E p \in Listed(new) : new.peers[p].revoked /\ ~old.peers[p].revoked

QuorumInit == currentBody = NoBody /\ quorumBody = NoBody /\ quorum = {}

AcceptQuorum(doc) ==
  /\ Cardinality(Signers(doc)) >= Threshold
  /\ currentBody' = doc.body /\ quorumBody' = doc.body /\ quorum' = Signers(doc)

AcceptEmergency(doc) ==
  /\ Cardinality(Signers(doc)) < Threshold
  /\ Cardinality(Signers(doc)) >= 1 /\ IsRevocationOnly(currentBody, doc.body)
  /\ currentBody' = doc.body
  /\ UNCHANGED <<quorumBody, quorum>>

\* what is refused changes nothing
QuorumNext == \E doc \in Docs : AcceptQuorum(doc) \/ AcceptEmergency(doc)

QuorumSpec == QuorumInit /\ [][QuorumNext]_quorumVars
-----------------------------------------------------------------------------
\* what a roster lets a peer do (the checks of agent.js:113-116)
Admits(b, p, t) ==
  p \in Listed(b) /\ ~b.peers[p].revoked /\ (b.peers[p].lease # 0 => t <= b.peers[p].lease)

\* zeroport.js:95 reads a missing lease as 0, so taking a lease away is no extension
LeaseDropped(p) == quorumBody.peers[p].lease # 0 /\ currentBody.peers[p].lease = 0

(***************************************************************************)
(* zeroport.js:81-85: after any number of emergency revocations, each      *)
(* signed by a single officer, the policy is what distinct officers of a   *)
(* quorum signed, somebody has been revoked since, and whoever is let in   *)
(* would have been by that quorum's roster, at any time, unless he was     *)
(* under a lease that was taken away with a revocation of somebody.        *)
(***************************************************************************)
NarrowedSinceQuorum ==
  /\ currentBody # NoBody => Cardinality(quorum \cap Officers) >= Threshold
  /\ currentBody.policy = quorumBody.policy
  /\ currentBody # quorumBody =>
       \E p \in Listed(currentBody) \cap Listed(quorumBody) :
          currentBody.peers[p].revoked /\ ~quorumBody.peers[p].revoked
  /\ \A p \in Ids, t \in Moments :
       Admits(currentBody, p, t) =>
         /\ p \in Listed(quorumBody) /\ ~quorumBody.peers[p].revoked
         /\ Admits(quorumBody, p, t) \/ LeaseDropped(p)
=============================================================================
