------------------------------ MODULE MCFrost ------------------------------
(***************************************************************************)
(* What it takes to sign for the officers: an instance of Frost, on the    *)
(* curve over 43 elements, whose group has the prime order 31 (as with     *)
(* secp256k1, the order is below the field prime), and an instance of      *)
(* RosterQuorum, the rule that counts signatures of single officers.  A    *)
(* behaviour is one of the one or of the other.                            *)
(***************************************************************************)
EXTENDS Frost, RosterQuorum

VARIABLE rule

Generator == CHOOSE p \in Field \X Field : OnCurve(p)

\* the console deals 2 of 3; the self-test deals 3 of more
TwoSizes == {<<2, 3>>, <<3, 4>>}

MCInit ==
  /\ QuorumInit
  /\ \/ rule = "frost" /\ Init
     \/ rule = "quorum" /\ sig = NoSig
          /\ key = [kind |-> "identity", secret |-> 1, pub |-> XOnlyPub(1)]

MCNext ==
  \/ rule = "frost" /\ Next /\ UNCHANGED <<rule, quorumVars>>
  \/ rule = "quorum" /\ QuorumNext /\ UNCHANGED <<rule, vars>>

MCSpec == MCInit /\ [][MCNext]_<<rule, vars, quorumVars>>
=============================================================================
