--------------------------- MODULE MCControlPlane ---------------------------
(***************************************************************************)
(* Instances of ControlPlane for TLC: liveness, and what comments in the   *)
(* code claim that the code does not keep.                                 *)
(***************************************************************************)
EXTENDS ControlPlane

(***************************************************************************)
(* Every command that changes the roster ends with a refresh of the agent  *)
(* (server.js:328-355).  Once the officers stop, the agent has come to run *)
(* the very roster the relay holds, whatever order publishes, answers and  *)
(* refreshes took, rejected publishes among them.                          *)
(***************************************************************************)
AgentSettles ==
  <>[](\E ev \in store : MatchesRoster(ev) /\ SameGrants(roster, ev.content))

(***************************************************************************)
(* agent.js:89-92 "A revocation applies to the roster in force when it was *)
(* signed, and to every roster after it - until the officers re-admit the  *)
(* peer with a NEWER quorum-signed roster."  So a peer that the agent has  *)
(* revoked stays refused while the roster has the same version.  Every     *)
(* refresh opens a window between its two queries in which it is admitted. *)
(***************************************************************************)
EmergencyRevocationHolds ==
  \A a \in audit : roster.version = a.version => ~Admits(a.peer)

(***************************************************************************)
(* The same comment, of an agent that is between refreshes.  The relay     *)
(* keeps one revocation event per officer, so the officer's next one ends  *)
(* the one before.                                                         *)
(***************************************************************************)
RevocationOutlivesRefresh ==
  tasks = {} => EmergencyRevocationHolds

(***************************************************************************)
(* The same comment, "applies to the roster in force when it was signed":  *)
(* a revocation must not be stamped with a version below the one the agent *)
(* runs, which ignores it then.                                            *)
(***************************************************************************)
StampCoversRosterInForce ==
  [][\A ev \in built' \ built : MatchesRevocation(ev) =>
        ev.content.rosterVersion >= roster.version]_vars
=============================================================================
