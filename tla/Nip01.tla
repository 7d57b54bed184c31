------------------------------- MODULE Nip01 -------------------------------
(***************************************************************************)
(* The signed events of the control plane (src/protocol/nostr-event.js)    *)
(* and the relay's rule for parameterised replaceable events               *)
(* (src/nodes/directory.js).  Only constant operators: every module that   *)
(* handles events extends this one.                                        *)
(*                                                                         *)
(* An event is what its id binds: pubkey, created_at, the d tag and the    *)
(* content.  The kind is the same for every event (30078) and is left out. *)
(* A signature is represented by the number of FROST shares that took part *)
(* in it; an officer's own key signs alone.                                *)
(***************************************************************************)
EXTENDS Naturals, FiniteSets

CONSTANTS
  Peer,        \* machines that may be put on the roster
  Officer,     \* officers' own BIP-340 keys
  Group,       \* the FROST group key
  Threshold    \* shares a valid group signature needs

ASSUME GroupAssumption == Group \notin Officer
ASSUME ThresholdAssumption == Threshold \in Nat \ {0}

(***************************************************************************)
(* A roster body as JSON.  peers is the set `enrolled` with, per peer, a   *)
(* lease (0: no leaseExpires field) and membership in `revoked`; policy is *)
(* the set of peers an allow rule admits to the protected service.         *)
(***************************************************************************)
Body == [version: Nat, enrolled: SUBSET Peer, lease: [Peer -> Nat],
         policy: SUBSET Peer, revoked: SUBSET Peer]

\* `let roster = null`: no version, nobody enrolled, hence nobody admitted
NoRoster == [version |-> 0, enrolled |-> {}, lease |-> [p \in Peer |-> 0],
             policy |-> {}, revoked |-> {}]

Revocation == [revoke: Peer, rosterVersion: Nat]

RosterEvents == [pubkey: {Group}, d: {"zeroport-roster"}, created_at: Nat,
                 signers: Nat, content: Body]
RevocationEvents == [pubkey: Officer, d: {"zeroport-revocation"},
                     created_at: Nat, signers: {1}, content: Revocation]
Event == RosterEvents \cup RevocationEvents

RosterEvent(b, signers, t) ==
  [pubkey |-> Group, d |-> "zeroport-roster", created_at |-> t,
   signers |-> signers, content |-> b]

RevocationEvent(o, p, v, t) ==
  [pubkey |-> o, d |-> "zeroport-revocation", created_at |-> t, signers |-> 1,
   content |-> [revoke |-> p, rosterVersion |-> v]]

\* faulty variant: one share too few is enough
VerifyEventOneShort(ev) == ev.pubkey = Group => ev.signers >= Threshold - 1

\* one BIP-340 check: a group signature exists only from a quorum of shares
VerifyEvent(ev) == ev.pubkey = Group => ev.signers >= Threshold

\* the two filters the agent queries with
MatchesRoster(ev) == ev.pubkey = Group /\ ev.d = "zeroport-roster"
MatchesRevocation(ev) == ev.pubkey \in Officer /\ ev.d = "zeroport-revocation"

\* `${kind}:${pubkey}:${d}`
SameKey(e, f) == e.pubkey = f.pubkey /\ e.d = f.d

\* store(ev): the relay keeps the newest event of a key; a tie replaces
Kept(events, ev) ==
  \A prev \in events : SameKey(prev, ev) => prev.created_at <= ev.created_at

Store(events, ev) ==
  IF Kept(events, ev) THEN {e \in events : ~SameKey(e, ev)} \cup {ev} ELSE events
=============================================================================
