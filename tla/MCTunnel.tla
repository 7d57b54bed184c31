------------------------------ MODULE MCTunnel ------------------------------
(***************************************************************************)
(* Instances of Tunnel for TLC: officer-laptop and unknown-device call     *)
(* finance-db.  The roster lets the laptop in, or has it revoked and the   *)
(* device enrolled without a policy rule.                                  *)
(***************************************************************************)
EXTENDS Tunnel

CONSTANTS Alice, Rogue, Db

Baseline == [enrolled |-> {Alice}, refused |-> {}, policy |-> {<<Alice, Db>>}]
Tightened == [Baseline EXCEPT !.enrolled = {Alice, Rogue}, !.refused = {Alice}]

TwoRosters == {Baseline, Tightened}
OneRoster == {Baseline}
=============================================================================
