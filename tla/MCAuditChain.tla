---------------------------- MODULE MCAuditChain ----------------------------
(***************************************************************************)
(* Instances of AuditChain for TLC, and what zeroport.js says of a log     *)
(* that fails the comparison with its anchor.                              *)
(***************************************************************************)
EXTENDS AuditChain

\* an edited line is shorter than the one it replaces
LineBytes == [e \in Events |-> IF e = "note" THEN 1 ELSE 2]

(***************************************************************************)
(* zeroport.js:130-131 and 145: the anchor is there to catch "a wholesale  *)
(* file swap", and a mismatch is reported as "file replaced or truncated". *)
(* So a file that nobody has edited must pass.  It fails as soon as the    *)
(* agent has appended one entry after the anchored head.                   *)
(***************************************************************************)
HonestLogPasses == edits = 0 => VerifyLog(file, anchoredHead)
=============================================================================
