--------------------------- MODULE AccessControl ---------------------------
(***************************************************************************)
(* What the control plane promises, without relay, messages or clocks.     *)
(* src/nodes/agent.js:53-60 states the authority model: a roster needs a   *)
(* quorum, taking access away needs one officer.  The roster in force at   *)
(* an enforcement point only ever becomes a body that a quorum has signed, *)
(* never one with a lower version, and only ever loses a peer to an        *)
(* officer's revocation that covers its version.                           *)
(***************************************************************************)
EXTENDS Naturals

CONSTANTS
  Bodies,      \* every roster body
  Revocations, \* every revocation content
  Nothing      \* the roster in force before the first one is adopted

VARIABLES
  approved,    \* bodies a quorum has signed
  ordered,     \* revocations an officer has signed
  inForce      \* the roster the enforcement point admits by

acVars == <<approved, ordered, inForce>>

ACInit == approved \subseteq Bodies /\ ordered = {} /\ inForce = Nothing

\* signatures are only ever added
Sign ==
  /\ approved \subseteq approved' /\ approved' \subseteq Bodies
  /\ ordered \subseteq ordered' /\ ordered' \subseteq Revocations
  /\ UNCHANGED inForce

Adopt ==
  /\ inForce' \in approved
  /\ inForce'.version >= inForce.version
  /\ UNCHANGED <<approved, ordered>>

Covers(r, body) == r.rosterVersion >= body.version

Narrow ==
  /\ \E R \in SUBSET {r \in ordered : Covers(r, inForce)} :
       inForce' = [inForce EXCEPT !.revoked = @ \cup ({r.revoke : r \in R} \cap inForce.enrolled)]
  /\ UNCHANGED <<approved, ordered>>

ACNext == Sign \/ Adopt \/ Narrow

ACSpec == ACInit /\ [][ACNext]_acVars
=============================================================================
