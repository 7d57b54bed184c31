----------------------------- MODULE AuditChain -----------------------------
(***************************************************************************)
(* The hash-chained audit log (src/domain/zeroport.js AuditLog, verifyLog) *)
(* of the agent in front of finance-db, the file it is in, and what the    *)
(* console does with that file (src/apps/console/server.js): it follows    *)
(* it, anchors its head with an outside witness, and on command edits,     *)
(* forges and restores it.                                                 *)
(*                                                                         *)
(* Agent and console are two processes, so the agent may append between    *)
(* any two file operations of a console command.  One file operation is    *)
(* atomic.                                                                 *)
(*                                                                         *)
(* SHA-256 is injective here: the digest of an entry is the sequence of    *)
(* the entries it stands for, each with its number and its event.          *)
(***************************************************************************)
EXTENDS Naturals, FiniteSets, SequencesExt

CONSTANTS
  Bytes,       \* the length of the line of an event
  MaxAppends,  \* bound: entries the agent appends
  MaxEdits     \* bound: commands that edit the file

Events == {"agent_start", "flow", "deny", "note"}

ASSUME BytesAssumption == Bytes \in [Events -> Nat \ {0}]
ASSUME BoundsAssumption == MaxAppends \in Nat /\ MaxEdits \in Nat

VARIABLES
  \* agent
  seq, prev,      \* of its AuditLog
  \* disk
  file, orig,     \* audit-finance-db.log, and its .orig (a sequence of one) if there is one
  \* console
  shown, lastSize, \* `log` and `lastSize` of readNewAudit
  block,          \* the synchronous block the console is inside of
  anchoring,      \* heads that are being submitted
  anchoredHead,
  \* history and bounds
  edits

consoleVars == <<shown, lastSize, anchoring, anchoredHead>>
vars == <<seq, prev, file, orig, consoleVars, block, edits>>

\* 'GENESIS', and what a hash commits to
Genesis == <<>>
Digest == Seq([seq: Nat, event: Events])
Entry == [seq: Nat, event: Events, prev: Digest, hash: Digest]

Hash(e) == Append(e.prev, [seq |-> e.seq, event |-> e.event])

\* between its file operations a command keeps what it has read, or the size
Block == [doing: {"nothing", "stat", "read", "tamper", "forge"}, text: Seq(Entry), size: Nat]
Idle == [doing |-> "nothing", text |-> <<>>, size |-> 0]
AboutToStat == [Idle EXCEPT !.doing = "stat"]

TypeOK ==
  /\ seq \in Nat /\ prev \in Digest
  /\ file \in Seq(Entry) /\ orig \in Seq(Seq(Entry))
  /\ shown \in Seq(Entry) /\ lastSize \in Nat
  /\ block \in Block
  /\ anchoring \subseteq Digest /\ anchoredHead \in Digest
  /\ edits \in Nat
-----------------------------------------------------------------------------
(***************************************************************************)
(* verifyLog(path, anchoredHead).                                          *)
(***************************************************************************)
PrevOf(f, i) == IF i = 1 THEN Genesis ELSE f[i - 1].hash
HeadOf(f) == IF f = <<>> THEN Genesis ELSE f[Len(f)].hash

\* faulty variants: only the fingerprints are recomputed, or only the links
BreaksHash(f, i) == f[i].hash # Hash(f[i])
BreaksLink(f, i) == f[i].prev # PrevOf(f, i)

\* line i: prev-hash mismatch, or hash mismatch
Breaks(f, i) == f[i].prev # PrevOf(f, i) \/ f[i].hash # Hash(f[i])

Intact(f) == \A i \in DOMAIN f : ~Breaks(f, i)

\* the head is compared only if there is an anchor
VerifyLog(f, anchor) == Intact(f) /\ (anchor # Genesis => HeadOf(f) = anchor)
-----------------------------------------------------------------------------
(***************************************************************************)
(* Agent.                                                                  *)
(***************************************************************************)
\* an entry on top of the digest d
Chained(n, event, d) ==
  [seq |-> n, event |-> event, prev |-> d, hash |-> Append(d, [seq |-> n, event |-> event])]

\* append(event)
AppendEntry(event) ==
  LET e == Chained(seq + 1, event, prev)
  IN  /\ seq < MaxAppends
      /\ seq' = e.seq
      /\ prev' = e.hash
      /\ file' = Append(file, e)
      /\ UNCHANGED <<orig, consoleVars, block, edits>>
-----------------------------------------------------------------------------
(***************************************************************************)
(* Console: readNewAudit.                                                  *)
(***************************************************************************)
Size(f) == Cardinality(UNION {{i} \X (1..Bytes[f[i].event]) : i \in DOMAIN f})

\* the 700 ms interval, or the end of a command: nothing to do if the size is
\* the one seen last; a shorter file is read again from its start
Stat ==
  /\ block.doing \in {"nothing", "stat"}
  /\ LET size == Size(file)
     IN  IF size = lastSize
         THEN block' = Idle /\ UNCHANGED <<shown, lastSize>>
         ELSE /\ block' = [doing |-> "read", text |-> <<>>, size |-> size]
              /\ shown' = IF size < lastSize THEN <<>> ELSE shown
              /\ lastSize' = IF size < lastSize THEN 0 ELSE lastSize
  /\ UNCHANGED <<seq, prev, file, orig, anchoring, anchoredHead, edits>>

\* faulty variants: every line; lines from the last size on
FreshAll(f) == f
FreshBySize(f) == SubSeq(f, lastSize + 1, Len(f))

\* lines.slice(log.length)
Fresh(f) == SubSeq(f, Len(shown) + 1, Len(f))

ReadFresh ==
  /\ block.doing = "read"
  /\ shown' = shown \o Fresh(file)
  /\ lastSize' = block.size
  /\ block' = Idle
  /\ UNCHANGED <<seq, prev, file, orig, anchoring, anchoredHead, edits>>
-----------------------------------------------------------------------------
(***************************************************************************)
(* Console: commands.                                                      *)
(***************************************************************************)
CanEdit == block = Idle /\ edits < MaxEdits

\* 'tamper' edits the first denial, or the second line: the copy for untamper is
\* made before a file with one line makes the command fail
TamperRead ==
  /\ CanEdit
  /\ orig' = <<file>>
  /\ block' = IF Len(file) < 2 THEN Idle ELSE [doing |-> "tamper", text |-> file, size |-> 0]
  /\ edits' = edits + 1
  /\ UNCHANGED <<seq, prev, file, consoleVars>>

Denials(f) == {i \in 2..Len(f) : f[i].event = "deny"}
EditedLine(f) == IF Denials(f) = {} THEN 2 ELSE CHOOSE i \in Denials(f) : \A j \in Denials(f) : i <= j
Edited(f) == [f EXCEPT ![EditedLine(f)].event = "note"]

\* what was appended since the read is overwritten
TamperWrite ==
  /\ block.doing = "tamper"
  /\ file' = Edited(block.text)
  /\ block' = Idle
  /\ UNCHANGED <<seq, prev, orig, consoleVars, edits>>

\* 'forge' wants an anchor to compare with
ForgeRead ==
  /\ CanEdit
  /\ anchoredHead # Genesis
  /\ orig' = IF orig = <<>> THEN <<file>> ELSE orig
  /\ block' = [doing |-> "forge", text |-> file, size |-> 0]
  /\ edits' = edits + 1
  /\ UNCHANGED <<seq, prev, file, consoleVars>>

\* a chain from GENESIS over these events, with numbers and links of its own
Rebuilt(events) ==
  LET digest == [i \in 1..Len(events) |-> [seq |-> i, event |-> events[i]]]
  IN  [i \in 1..Len(events) |-> Chained(i, events[i], SubSeq(digest, 1, i - 1))]

NthOf(S, k) == CHOOSE i \in S : Cardinality({j \in S : j < i}) = k - 1

\* kept: the events of the lines that are no denials
Kept(f) ==
  LET kept == {i \in DOMAIN f : f[i].event # "deny"}
  IN  [k \in 1..Cardinality(kept) |-> f[NthOf(kept, k)].event]

\* a rewrite ends with `lastSize = 0; log.length = 0; readNewAudit()`
Rewritten == shown' = <<>> /\ lastSize' = 0 /\ block' = AboutToStat

ForgeWrite ==
  /\ block.doing = "forge"
  /\ file' = Rebuilt(Kept(block.text))
  /\ Rewritten
  /\ UNCHANGED <<seq, prev, orig, anchoring, anchoredHead, edits>>

Untamper ==
  /\ block = Idle
  /\ orig # <<>>
  /\ file' = orig[1]
  /\ orig' = <<>>
  /\ Rewritten
  /\ UNCHANGED <<seq, prev, anchoring, anchoredHead, edits>>

\* faulty variant: the head is read from the file
FileHead == HeadOf(file)

\* the agent's answer to 'anchor': audit.head()
AgentHead == prev

\* 'anchor' asks the agent for its head and submits it ...
Submit ==
  /\ block = Idle
  /\ anchoring' = anchoring \cup {AgentHead}
  /\ UNCHANGED <<seq, prev, file, orig, shown, lastSize, block, anchoredHead, edits>>

\* ... and keeps it when the submission has ended, well or not
KeepHead ==
  /\ block = Idle
  /\ \E h \in anchoring : anchoredHead' = h /\ anchoring' = anchoring \ {h}
  /\ UNCHANGED <<seq, prev, file, orig, shown, lastSize, block, edits>>
-----------------------------------------------------------------------------
\* the agent has started; the console has not looked at the file yet
Init ==
  /\ seq = 1
  /\ file = <<Chained(1, "agent_start", Genesis)>>
  /\ prev = file[1].hash
  /\ orig = <<>>
  /\ shown = <<>> /\ lastSize = 0
  /\ block = Idle
  /\ anchoring = {} /\ anchoredHead = Genesis
  /\ edits = 0

Edit == TamperRead \/ TamperWrite \/ ForgeRead \/ ForgeWrite \/ Untamper

Next ==
  \/ \E event \in {"flow", "deny"} : AppendEntry(event)
  \/ Stat \/ ReadFresh
  \/ Edit
  \/ Submit \/ KeepHead

Spec == Init /\ [][Next]_vars

\* the interval fires again and again, and a block runs to its end
Fairness == WF_vars(Stat) /\ WF_vars(ReadFresh)

FairSpec == Spec /\ Fairness
-----------------------------------------------------------------------------
(***************************************************************************)
(* Properties.                                                             *)
(***************************************************************************)
Contents(f) == [i \in DOMAIN f |-> [seq |-> f[i].seq, event |-> f[i].event]]

(***************************************************************************)
(* The agent's hash is its whole history, with entries numbered from 1,    *)
(* and a head that is anchored or being anchored is a part of that         *)
(* history, whatever has become of the file in the meantime: the witness   *)
(* is never given the head of a forged chain (server.js:262-264).          *)
(***************************************************************************)
AnchorsAreHistory ==
  /\ Len(prev) = seq /\ \A i \in 1..seq : prev[i].seq = i
  /\ \A h \in anchoring \cup {anchoredHead} : IsPrefix(h, prev)

(***************************************************************************)
(* "Catches an edited line AND a wholesale file swap" (zeroport.js:131): a *)
(* file that verifies against an anchored head is, entry for entry, what   *)
(* the agent had logged when that head was taken, whatever edits, forged   *)
(* chains, restored copies and lost appends it has been through.           *)
(***************************************************************************)
TamperEvident ==
  anchoredHead # Genesis /\ VerifyLog(file, anchoredHead) => Contents(file) = anchoredHead

(***************************************************************************)
(* An edited line is caught without any anchor.                            *)
(***************************************************************************)
EditCaught == [][TamperWrite /\ file' # block.text => ~Intact(file')]_vars

(***************************************************************************)
(* The console follows the file while the agent writes it: between its     *)
(* stat and its read the file may grow, and still no entry is shown twice  *)
(* and none is left out (server.js:128-141).                               *)
(***************************************************************************)
ShownFollowsFile == edits = 0 => IsPrefix(shown, file)

(***************************************************************************)
(* And every entry comes to be shown.                                      *)
(***************************************************************************)
ConsoleCatchesUp ==
  \A k \in 1..MaxAppends :
    (edits = 0 /\ Len(file) >= k) ~> (Len(shown) >= k \/ edits > 0)
-----------------------------------------------------------------------------
(***************************************************************************)
(* The inductive invariant behind the safety properties.                   *)
(***************************************************************************)

\* a line whose hash is not its own has become a note
EditsNoted(f) == \A i \in DOMAIN f : f[i].event # "note" => f[i].hash = Hash(f[i])

EditsShow ==
  /\ EditsNoted(file) /\ EditsNoted(block.text)
  /\ orig # <<>> => EditsNoted(orig[1])

\* nothing to restore and nothing to write before the first edit, and a line to
\* edit in what 'tamper' has read
Unedited ==
  /\ edits = 0 => orig = <<>> /\ block.doing \notin {"tamper", "forge"}
  /\ block.doing = "tamper" => Len(block.text) >= 2

IInv ==
  /\ TypeOK
  /\ AnchorsAreHistory /\ ShownFollowsFile
  /\ EditsShow /\ Unedited
=============================================================================
