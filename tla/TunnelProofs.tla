---------------------------- MODULE TunnelProofs ----------------------------
(***************************************************************************)
(* The sessions of the tunnel for any number of clients, calls, faults and *)
(* rosters: the inductive invariant of Tunnel, that no key and nonce seal  *)
(* two boxes, that the two ends agree on their session, and that the       *)
(* tunnel implements SecureService.                                        *)
(***************************************************************************)
EXTENDS Tunnel, FiniteSetTheorems, TLAPS

USE DEF Key, Session, Kinds, Awaiting

-----------------------------------------------------------------------------
(***************************************************************************)
(* What a step may do to the calls: it appends new ones, and takes the old *)
(* ones forward; an established call keeps its key, and only a call whose  *)
(* lookup is answered gets a timestamp.                                    *)
(***************************************************************************)
CallsGrow ==
  /\ calls' \in Seq(Call)
  /\ DOMAIN calls \subseteq DOMAIN calls'
  /\ \A n \in DOMAIN calls :
       /\ calls'[n].client = calls[n].client
       /\ calls'[n].port = calls[n].port
       /\ n \in Established => n \in Established' /\ calls'[n].key = calls[n].key
       /\ calls[n].at # "lookup" => calls'[n].at # "lookup" /\ calls'[n].ts = calls[n].ts
       /\ calls[n].at = "ok" => calls'[n].at = "ok"

\* ... and no timestamp is given
CallsQuiet ==
  /\ CallsGrow
  /\ \A n \in DOMAIN calls : calls'[n].ts = calls[n].ts
  /\ \A n \in DOMAIN calls' \ DOMAIN calls : calls'[n].ts = 0

\* ... and no call succeeds
NoAnswer == CallsGrow /\ Succeeded' \subseteq Succeeded

\* a call is a record with these fields
LEMMA CallType ==
  ASSUME TypeOK, NEW n \in DOMAIN calls
  PROVE  /\ n \in Nat \ {0} /\ calls[n] \in Call
         /\ calls[n].client \in Client /\ calls[n].kind \in Kinds /\ calls[n].port \in Port
         /\ calls[n].key \in Key /\ calls[n].ts \in Nat
         /\ calls[n].at \in {"lookup", "ok", "failed"} \cup Awaiting
<1>1. calls \in Seq(Call) /\ DOMAIN calls = 1..Len(calls) /\ Len(calls) \in Nat
  BY DEF TypeOK
<1>2. calls[n] \in Call /\ n \in Nat \ {0}
  BY <1>1
<1>. QED BY <1>2 DEF Call

\* a sequence of calls with one of them replaced
LEMMA CallReplaced ==
  ASSUME TypeOK, NEW n \in DOMAIN calls, NEW r \in Call, calls' = [calls EXCEPT ![n] = r]
  PROVE  /\ calls' \in Seq(Call) /\ DOMAIN calls' = DOMAIN calls /\ calls'[n] = r
         /\ \A m \in DOMAIN calls : m # n => calls'[m] = calls[m]
<1>1. calls \in Seq(Call) /\ DOMAIN calls = 1..Len(calls) /\ Len(calls) \in Nat
  BY DEF TypeOK
<1>2. calls \in [1..Len(calls) -> Call]
  BY <1>1
<1>3. calls' \in [1..Len(calls) -> Call]
  BY <1>1, <1>2
<1>4. calls' \in Seq(Call)
  BY <1>1, <1>3
<1>. QED BY <1>1, <1>3, <1>4

\* a call that is given up, answered or relayed no more
LEMMA CallEnds ==
  ASSUME TypeOK, NEW n \in DOMAIN calls, NEW a \in {"ok", "failed"},
         calls[n].at \notin {"ok", "failed"}, calls' = [calls EXCEPT ![n].at = a]
  PROVE  /\ CallsQuiet
         /\ DOMAIN calls' = DOMAIN calls
         /\ \A m \in DOMAIN calls' : calls'[m].at = "ok" => calls[m].at = "ok" \/ m = n
         /\ calls'[n].at = a
<1>. DEFINE r == [calls[n] EXCEPT !.at = a]
<1>1. /\ r \in Call /\ r.at = a
      /\ r.client = calls[n].client /\ r.port = calls[n].port
      /\ r.key = calls[n].key /\ r.ts = calls[n].ts
  BY CallType DEF Call
<1>2. calls' = [calls EXCEPT ![n] = r]
  OBVIOUS
<1>. HIDE DEF r
<1>3. /\ calls' \in Seq(Call) /\ DOMAIN calls' = DOMAIN calls /\ calls'[n] = r
      /\ \A m \in DOMAIN calls : m # n => calls'[m] = calls[m]
  BY <1>1, <1>2, CallReplaced
<1>4. CallsGrow
  BY <1>1, <1>3 DEF CallsGrow, Established
<1>. QED BY <1>1, <1>3, <1>4 DEF CallsQuiet

\* a new call
LEMMA CallAppended ==
  ASSUME TypeOK, NEW r \in Call, r.ts = 0, calls' = Append(calls, r)
  PROVE  /\ CallsQuiet
         /\ DOMAIN calls' = DOMAIN calls \cup {Len(calls) + 1}
         /\ calls'[Len(calls) + 1] = r /\ Len(calls) + 1 \notin DOMAIN calls
         /\ \A m \in DOMAIN calls : calls'[m] = calls[m]
<1>1. /\ calls \in Seq(Call) /\ DOMAIN calls = 1..Len(calls) /\ Len(calls) \in Nat
      /\ calls' \in Seq(Call) /\ DOMAIN calls' = 1..Len(calls')
  BY DEF TypeOK
<1>2. Len(calls') = Len(calls) + 1 /\ calls'[Len(calls) + 1] = r
  BY <1>1
<1>3. \A m \in 1..Len(calls) : calls'[m] = calls[m]
  BY <1>1
<1>4. DOMAIN calls' = DOMAIN calls \cup {Len(calls) + 1} /\ Len(calls) + 1 \notin DOMAIN calls
  BY <1>1, <1>2
<1>5. CallsGrow
  BY <1>1, <1>3, <1>4 DEF CallsGrow, Established
<1>. QED BY <1>1, <1>2, <1>3, <1>4, <1>5 DEF CallsQuiet

\* a new call
LEMMA NewCallType ==
  ASSUME NEW c \in Client, NEW kind \in Kinds, NEW port \in Port, NEW k \in Key,
         NEW a \in {"lookup", "ok", "failed"} \cup Awaiting
  PROVE  LET r == NewCall(c, kind, port, a, k)
         IN  /\ r \in Call /\ r.ts = 0 /\ r.at = a /\ r.client = c /\ r.port = port /\ r.key = k
BY DEF NewCall, Call

\* calls that do not change
LEMMA CallsSame == TypeOK /\ UNCHANGED calls => CallsQuiet
BY DEF CallsQuiet, CallsGrow, Established, TypeOK
-----------------------------------------------------------------------------
(***************************************************************************)
(* What of the invariant a step keeps that only takes calls forward.       *)
(***************************************************************************)
LEMMA TimestampsKept ==
  ASSUME TypeOK, TimestampsDiffer, CallsQuiet, UNCHANGED lastNs
  PROVE  TimestampsDiffer'
<1>. \A n \in DOMAIN calls' : calls'[n] \in Call
  <2>. calls' \in Seq(Call)
    BY DEF CallsQuiet, CallsGrow
  <2>. QED OBVIOUS
<1>1. /\ \A n \in DOMAIN calls' : calls'[n].client \in Client
      /\ \A c \in Client : lastNs[c] \in Nat
  BY DEF TypeOK, Call
<1>2. ASSUME NEW n \in DOMAIN calls'
      PROVE  /\ calls'[n].ts <= lastNs'[calls'[n].client]
             /\ calls'[n].at = "lookup" => calls'[n].ts = 0
  BY <1>1, <1>2 DEF TimestampsDiffer, CallsQuiet, CallsGrow
<1>3. ASSUME NEW m \in DOMAIN calls', NEW n \in DOMAIN calls',
             calls'[m].client = calls'[n].client, calls'[m].ts = calls'[n].ts, calls'[n].ts > 0
      PROVE  m = n
  <2>1. m \in DOMAIN calls /\ n \in DOMAIN calls
    BY <1>3 DEF CallsQuiet
  <2>. QED BY <1>3, <2>1 DEF TimestampsDiffer, CallsQuiet, CallsGrow
<1>. QED BY <1>2, <1>3 DEF TimestampsDiffer

\* an entry of a handshake has these fields
LEMMA HandshakeType ==
  ASSUME TypeOK, NEW x \in Handshakes
  PROVE  x.peer \in Client /\ x.key \in Key /\ x = Handshake(x.peer, x.key)
BY DEF TypeOK, Entry, Handshakes, Handshake

\* a handshake in the log, and its fields
LEMMA HandshakeIn ==
  ASSUME NEW c, NEW k, Handshake(c, k) \in log
  PROVE  Handshake(c, k) \in Handshakes /\ Handshake(c, k).key = k /\ Handshake(c, k).peer = c
BY DEF Handshakes, Handshake

\* a handshake's call has its timestamp, which no step takes away
LEMMA HandshakeCall ==
  ASSUME TypeOK, TimestampsDiffer, HandshakesOnce, CallsGrow, NEW x \in Handshakes
  PROVE  /\ x.key.e \in DOMAIN calls /\ x.key.e \in DOMAIN calls'
         /\ calls'[x.key.e].client = calls[x.key.e].client
         /\ calls'[x.key.e].ts = calls[x.key.e].ts
<1>1. x.key.e \in DOMAIN calls /\ calls[x.key.e].ts \in 1..seenTimestamps[x.peer]
  BY DEF HandshakesOnce
<1>2. calls[x.key.e].ts # 0
  <2>1. seenTimestamps[x.peer] \in Nat
    BY HandshakeType DEF TypeOK
  <2>. QED BY <1>1, <2>1
<1>. QED BY <1>1, <1>2 DEF TimestampsDiffer, CallsGrow

\* the handshakes when there is no new one
LEMMA HandshakesKept ==
  ASSUME TypeOK, TimestampsDiffer, HandshakesOnce, CallsGrow,
         Handshakes' = Handshakes, UNCHANGED <<seenTimestamps, sessions>>
  PROVE  HandshakesOnce'
BY HandshakeCall DEF HandshakesOnce

\* a service's session that stays
LEMMA ServiceKept ==
  ASSUME TypeOK, TimestampsDiffer, HandshakesOnce, ServiceGranted, CallsGrow, log \subseteq log',
         NEW c \in Client, sessions'[c].key = sessions[c].key, sessions[c] # NoSession,
         seenTimestamps'[c] = seenTimestamps[c]
  PROVE  /\ Handshake(c, sessions'[c].key) \in log'
         /\ calls'[sessions'[c].key.e].ts = seenTimestamps'[c]
<1>1. Handshake(c, sessions[c].key) \in log
  BY DEF ServiceGranted
<1>. QED BY <1>1, HandshakeIn, HandshakeCall DEF ServiceGranted

\* and a client's
LEMMA ClientKept ==
  ASSUME ClientGranted, CallsGrow, log \subseteq log',
         NEW c \in Client, outSessions'[c].key = outSessions[c].key, outSessions[c] # NoSession
  PROVE  /\ Handshake(c, outSessions'[c].key) \in log'
         /\ outSessions'[c].key.e \in Established'
BY DEF ClientGranted, CallsGrow, Established

\* the calls of flows are established
LEMMA FlowCall ==
  ASSUME TypeOK, SealedUnderSessions, FlowsRequested, NEW n, Flow(n) \in log
  PROVE  n \in Established
<1>1. Flow(n).type = "flow" /\ Flow(n).call = n
  BY DEF Flow
<1>2. \E b \in sealed : b.call = n
  BY <1>1 DEF FlowsRequested
<1>. QED BY <1>2 DEF SealedUnderSessions, UnderSession

\* the entry of a flow is that of its call for good
LEMMA FlowSame ==
  ASSUME CallsGrow, NEW n \in DOMAIN calls
  PROVE  Flow(n)' = Flow(n)
BY DEF CallsGrow, Flow

\* a datagram keeps its source
LEMMA SourcedKept ==
  ASSUME IInv, CallsGrow, log \subseteq log', sealed \subseteq sealed', NEW m \in net
  PROVE  Sourced(m)'
<1>. DEFINE n == m.cid.call
<1>1. Sourced(m) /\ n \in DOMAIN calls /\ n \in DOMAIN calls'
  BY DEF IInv, NetSourced, Sourced, CallsGrow
<1>2. calls'[n].client = calls[n].client /\ calls'[n].port = calls[n].port
  BY <1>1 DEF CallsGrow
<1>3. CASE m.t = "init"
  <2>1. m.ts = calls[n].ts /\ m.ts > 0
    BY <1>1, <1>3 DEF Sourced
  <2>2. calls[n].at # "lookup"
    BY <1>1, <2>1 DEF IInv, TimestampsDiffer
  <2>3. calls'[n].ts = calls[n].ts
    BY <1>1, <2>2 DEF CallsGrow
  <2>. QED BY <1>1, <1>2, <1>3, <2>1, <2>3 DEF Sourced
<1>4. CASE m.t = "data"
  <2>1. [dir |-> "request", key |-> m.key, ctr |-> m.ctr, call |-> n] \in sealed
    BY <1>1, <1>4 DEF Sourced
  <2>2. n \in Established
    BY <2>1 DEF IInv, SealedUnderSessions, UnderSession
  <2>3. calls'[n].key = calls[n].key
    BY <1>1, <2>2 DEF CallsGrow
  <2>. QED BY <1>1, <1>2, <1>4, <2>1, <2>3 DEF Sourced
<1>5. CASE m.t = "echo"
  <2>1. Flow(n) \in log
    BY <1>1, <1>5 DEF Sourced
  <2>2. n \in Established
    BY <2>1, FlowCall DEF IInv
  <2>3. calls'[n].key = calls[n].key /\ Flow(n)' \in log'
    BY <1>1, <2>1, <2>2, FlowSame DEF CallsGrow
  <2>. QED BY <1>1, <1>2, <1>5, <2>3 DEF Sourced
<1>. QED BY <1>1, <1>2, <1>3, <1>4, <1>5 DEF Sourced

\* a box stays under its session if no session is set back under its key
LEMMA UnderSessionKept ==
  ASSUME IInv, CallsGrow, log \subseteq log', NEW b \in sealed,
         sessions' \in [Client -> Session], outSessions' \in [Client -> Session],
         \A c \in Client : sessions'[c].key = b.key =>
            sessions[c].key = b.key /\ sessions[c].ctr <= sessions'[c].ctr,
         \A c \in Client : outSessions'[c].key = b.key =>
            outSessions[c].key = b.key /\ outSessions[c].ctr <= outSessions'[c].ctr
  PROVE  UnderSession(b)'
<1>. DEFINE c == calls[b.call].client
<1>1. UnderSession(b) /\ b.call \in Established /\ b.key.e \in Established
  BY DEF IInv, SealedUnderSessions, UnderSession
<1>2. b.call \in DOMAIN calls /\ b.key.e \in DOMAIN calls
  BY <1>1 DEF Established
<1>3. c \in Client
  BY <1>2, CallType DEF IInv
<1>4. /\ b.call \in Established' /\ b.key.e \in Established'
      /\ calls'[b.call].client = c /\ calls'[b.call].key = calls[b.call].key
  BY <1>1, <1>2 DEF CallsGrow
<1>5. /\ sessions[c].ctr \in Nat /\ outSessions[c].ctr \in Nat /\ b.ctr \in Nat
      /\ sessions'[c].ctr \in Nat /\ outSessions'[c].ctr \in Nat
  BY <1>3 DEF IInv, TypeOK, Box
<1>6. b.dir = "request" => (outSessions'[c].key = b.key => b.ctr <= outSessions'[c].ctr)
  BY <1>1, <1>3, <1>5 DEF UnderSession
<1>7. b.dir # "request" => (sessions'[c].key = b.key => b.ctr <= sessions'[c].ctr + 1000)
  BY <1>1, <1>3, <1>5 DEF UnderSession
<1>. QED BY <1>1, <1>4, <1>6, <1>7 DEF UnderSession

\* a flow keeps its request
LEMMA FlowsKept ==
  ASSUME IInv, CallsGrow, log \subseteq log', sealed \subseteq sealed', NEW x \in log, x.type = "flow"
  PROVE  /\ x.call \in DOMAIN calls' /\ x = Flow(x.call)'
         /\ \E b \in sealed' : b.dir = "request" /\ b.call = x.call
<1>1. /\ x.call \in DOMAIN calls /\ x = Flow(x.call)
      /\ \E b \in sealed : b.dir = "request" /\ b.call = x.call
  BY DEF IInv, FlowsRequested
<1>. QED BY <1>1, FlowSame DEF CallsGrow
-----------------------------------------------------------------------------
(***************************************************************************)
(* The steps.  Most of them give calls up, take datagrams from the network *)
(* or write denials; QuietStep is about them all.                          *)
(***************************************************************************)
LEMMA MessageType ==
  ASSUME TypeOK, NEW m \in net
  PROVE  /\ m.t \in {"init", "ok", "data", "echo"} /\ m.cid \in Cid
         /\ m.t \in {"init", "data"} => m.client \in Client
         /\ m.t = "init" => m.ts \in Nat
         /\ m.t \in {"ok", "data", "echo"} => m.key \in Key
         /\ m.t \in {"data", "echo"} => m.ctr \in Nat
         /\ m.t = "data" => m.port \in Port
BY DEF TypeOK, Messages

\* the messages that are built are messages
LEMMA MessageMade ==
  ASSUME NEW n \in Nat, NEW c \in Client, NEW port \in Port, NEW k \in Key, NEW ctr \in Nat,
         NEW cid \in Cid
  PROVE  /\ InitMsg(n, c, ctr) \in Messages /\ DataMsg(n, c, k, ctr, port) \in Messages
         /\ OkMsg(cid, k) \in Messages /\ EchoMsg(cid, k, ctr) \in Messages
<1>1. [call |-> n, at |-> "init"] \in Cid /\ [call |-> n, at |-> "data"] \in Cid
  BY DEF Cid
<1>2. InitMsg(n, c, ctr) \in Messages
  BY <1>1 DEF InitMsg, Messages
<1>3. DataMsg(n, c, k, ctr, port) \in Messages
  BY <1>1 DEF DataMsg, Messages
<1>4. OkMsg(cid, k) \in Messages
  BY DEF OkMsg, Messages
<1>5. EchoMsg(cid, k, ctr) \in Messages
  BY DEF EchoMsg, Messages
<1>. QED BY <1>2, <1>3, <1>4, <1>5

\* one more entry leaves the log a finite set of entries
LEMMA LogGrows ==
  ASSUME TypeOK, NEW x \in Entry, log' = log \cup {x}
  PROVE  log' \subseteq Entry /\ IsFiniteSet(log')
<1>1. IsFiniteSet(log) /\ log \subseteq Entry
  BY DEF TypeOK
<1>2. IsFiniteSet(log \cup {x})
  BY <1>1, FS_AddElement
<1>. QED BY <1>1, <1>2

\* calls answered in this step were served
LEMMA SucceededServed ==
  ASSUME IInv, CallsGrow, log \subseteq log',
         \A n \in Succeeded' : n \in Succeeded \/ Flow(n) \in log
  PROVE  \A n \in Succeeded' : Flow(n)' \in log'
<1>. SUFFICES ASSUME NEW n \in Succeeded' PROVE Flow(n)' \in log'
  OBVIOUS
<1>1. Flow(n) \in log
  BY DEF IInv, FlowsRequested
<1>2. n \in DOMAIN calls
  BY <1>1, FlowCall DEF IInv, Established
<1>. QED BY <1>1, <1>2, FlowSame

\* the invariant when a step only takes calls forward or logs a denial
LEMMA QuietStep ==
  ASSUME IInv, CallsQuiet, net' \subseteq net,
         log' = log \/ \E p \in Client, r \in Reasons :
                         log' = log \cup {[type |-> "deny", peer |-> p, reason |-> r]},
         UNCHANGED <<lastNs, outSessions, sessions, seenTimestamps, sealed>>,
         \A n \in Succeeded' : n \in Succeeded \/ Flow(n) \in log,
         roster' \in Roster, rdvUp' \in BOOLEAN, refreshes' \in Nat, faults' \in Nat
  PROVE  IInv'
<1>1. CallsGrow /\ log \subseteq log'
  BY DEF CallsQuiet
<1>2. \A x \in log' : x \in log \/ x.type = "deny"
  OBVIOUS
<1>3. TypeOK'
  <2>1. log' \subseteq Entry /\ IsFiniteSet(log')
    <3>1. CASE log' = log
      BY <3>1 DEF IInv, TypeOK
    <3>2. ASSUME NEW p \in Client, NEW r \in Reasons,
                 log' = log \cup {[type |-> "deny", peer |-> p, reason |-> r]}
          PROVE  log' \subseteq Entry /\ IsFiniteSet(log')
      <4>1. [type |-> "deny", peer |-> p, reason |-> r] \in Entry
        BY DEF Entry, Reasons
      <4>. QED BY <3>2, <4>1, LogGrows DEF IInv
    <3>. QED BY <3>1, <3>2
  <2>. QED BY <1>1, <2>1 DEF IInv, TypeOK, CallsGrow
<1>4. TimestampsDiffer'
  BY TimestampsKept DEF IInv
<1>5. Handshakes' = Handshakes
  BY <1>1, <1>2 DEF Handshakes
<1>6. HandshakesOnce'
  BY <1>1, <1>5, HandshakesKept DEF IInv
<1>7. ServiceGranted'
  BY <1>1, ServiceKept DEF IInv, ServiceGranted
<1>8. ClientGranted'
  BY <1>1, ClientKept DEF IInv, ClientGranted
<1>9. NetSourced'
  BY <1>1, SourcedKept DEF NetSourced
<1>10. SealedUnderSessions'
  <2>. SUFFICES ASSUME NEW b \in sealed PROVE UnderSession(b)'
    BY DEF SealedUnderSessions
  <2>1. \A c \in Client : sessions[c].ctr <= sessions[c].ctr /\ outSessions[c].ctr <= outSessions[c].ctr
    BY DEF IInv, TypeOK
  <2>. QED BY <1>1, <1>3, <2>1, UnderSessionKept DEF TypeOK
<1>11. FlowsRequested'
  <2>1. \A x \in log' : x.type = "flow" => x \in log
    BY <1>2
  <2>. QED BY <1>1, <2>1, FlowsKept, SucceededServed DEF FlowsRequested
<1>12. NonceUsedOnce'
  BY DEF IInv, NonceUsedOnce
<1>. QED BY <1>3, <1>4, <1>6, <1>7, <1>8, <1>9, <1>10, <1>11, <1>12 DEF IInv

\* a fault is one of a number
LEMMA FaultType ==
  ASSUME TypeOK, NEW spent, SpendFault(spent)
  PROVE  faults' \in Nat
BY DEF SpendFault, TypeOK

\* a step that leaves calls, log and network alone, or gives a call up
LEMMA QuietCalls ==
  ASSUME IInv, CallsQuiet, \A n \in Succeeded' : n \in Succeeded,
         UNCHANGED <<lastNs, outSessions, net, roster, serviceVars, sealed, refreshes>>,
         rdvUp' \in BOOLEAN, faults' \in Nat
  PROVE  IInv' /\ NoAnswer
BY QuietStep DEF serviceVars, IInv, TypeOK, NoAnswer, CallsQuiet

\* each of these steps preserves it: the start of a call,
LEMMA QuietStart ==
  ASSUME IInv, NEW c \in Client, NEW kind \in Kinds, NEW port \in Port,
         StartConnect(c, port) \/ StartWithoutSession(c, kind, port)
  PROVE  IInv' /\ NoAnswer
<1>1. PICK k \in Kinds, a \in {"lookup", "failed"} : calls' = Append(calls, NewCall(c, k, port, a, NoKey))
  BY DEF StartConnect, StartWithoutSession
<1>. DEFINE r == NewCall(c, k, port, a, NoKey)
<1>2. r \in Call /\ r.ts = 0 /\ r.at = a
  BY NewCallType DEF NoKey
<1>. HIDE DEF r
<1>3. /\ CallsQuiet /\ DOMAIN calls' = DOMAIN calls \cup {Len(calls) + 1}
      /\ calls'[Len(calls) + 1] = r
      /\ \A m \in DOMAIN calls : calls'[m] = calls[m]
  BY <1>1, <1>2, CallAppended DEF IInv, r
<1>4. \A n \in Succeeded' : n \in Succeeded
  BY <1>2, <1>3 DEF Succeeded
<1>. QED BY <1>3, <1>4, QuietCalls DEF StartConnect, StartWithoutSession, IInv, TypeOK

\* its end,
LEMMA QuietEnd ==
  ASSUME IInv, NEW n \in DOMAIN calls, LookupFails(n) \/ Timeout(n)
  PROVE  IInv' /\ NoAnswer
<1>1. calls[n].at \notin {"ok", "failed"} /\ calls' = [calls EXCEPT ![n].at = "failed"]
  BY DEF LookupFails, Timeout, Timed
<1>2. /\ CallsQuiet /\ DOMAIN calls' = DOMAIN calls /\ calls'[n].at = "failed"
      /\ \A m \in DOMAIN calls' : calls'[m].at = "ok" => calls[m].at = "ok" \/ m = n
  BY <1>1, CallEnds DEF IInv
<1>3. \A m \in Succeeded' : m \in Succeeded
  BY <1>2 DEF Succeeded
<1>4. faults' \in Nat
  BY FaultType DEF LookupFails, Timeout, IInv, TypeOK
<1>. QED BY <1>2, <1>3, <1>4, QuietCalls DEF LookupFails, Timeout, IInv, TypeOK

\* the rendezvous' crash,
LEMMA QuietCrash ==
  ASSUME IInv, RendezvousCrash
  PROVE  IInv' /\ NoAnswer
<1>1. /\ calls \in Seq(Call) /\ DOMAIN calls = 1..Len(calls) /\ Len(calls) \in Nat
      /\ \A n \in DOMAIN calls : calls[n] \in Call
  BY DEF IInv, TypeOK
<1>2. \A n \in DOMAIN calls :
        /\ \/ calls'[n] = calls[n]
           \/ calls[n].at = "data" /\ calls'[n] = [calls[n] EXCEPT !.at = "failed"]
        /\ calls'[n] \in Call
  <2>. SUFFICES ASSUME NEW n \in DOMAIN calls
                PROVE  /\ \/ calls'[n] = calls[n]
                          \/ calls[n].at = "data" /\ calls'[n] = [calls[n] EXCEPT !.at = "failed"]
                       /\ calls'[n] \in Call
    OBVIOUS
  <2>1. \/ calls'[n] = calls[n]
        \/ calls[n].at = "data" /\ calls'[n] = [calls[n] EXCEPT !.at = "failed"]
    BY DEF RendezvousCrash
  <2>2. calls[n] \in Call /\ [calls[n] EXCEPT !.at = "failed"] \in Call
    BY <1>1 DEF Call
  <2>. QED BY <2>1, <2>2
<1>3. DOMAIN calls' = DOMAIN calls /\ calls' \in Seq(Call)
  <2>1. calls' = [n \in 1..Len(calls) |-> calls'[n]]
    BY <1>1 DEF RendezvousCrash
  <2>2. calls' \in [1..Len(calls) -> Call]
    BY <1>1, <1>2, <2>1
  <2>. QED BY <1>1, <2>2
<1>4. \A n \in DOMAIN calls :
        /\ calls'[n].client = calls[n].client /\ calls'[n].port = calls[n].port
        /\ calls'[n].key = calls[n].key /\ calls'[n].ts = calls[n].ts
        /\ \/ calls'[n].at = calls[n].at
           \/ calls[n].at = "data" /\ calls'[n].at = "failed"
  <2>. SUFFICES ASSUME NEW n \in DOMAIN calls
                PROVE  /\ calls'[n].client = calls[n].client /\ calls'[n].port = calls[n].port
                       /\ calls'[n].key = calls[n].key /\ calls'[n].ts = calls[n].ts
                       /\ \/ calls'[n].at = calls[n].at
                          \/ calls[n].at = "data" /\ calls'[n].at = "failed"
    OBVIOUS
  <2>1. calls[n] \in Call
    BY <1>1
  <2>2. CASE calls'[n] = calls[n]
    BY <2>2
  <2>3. CASE calls[n].at = "data" /\ calls'[n] = [calls[n] EXCEPT !.at = "failed"]
    BY <2>1, <2>3 DEF Call
  <2>. QED BY <1>2, <2>2, <2>3
<1>5. CallsQuiet
  BY <1>3, <1>4 DEF CallsQuiet, CallsGrow, Established
<1>6. \A m \in Succeeded' : m \in Succeeded
  BY <1>3, <1>4 DEF Succeeded
<1>7. faults' \in Nat
  BY FaultType DEF RendezvousCrash, IInv
<1>. QED BY <1>5, <1>6, <1>7, QuietCalls DEF RendezvousCrash

\* the network loses a datagram, another roster comes into force
LEMMA QuietRest ==
  ASSUME IInv, RosterChanges \/ (\E m \in net : Lose(m)) \/ UNCHANGED vars
  PROVE  IInv' /\ NoAnswer
<1>1. CallsQuiet /\ Succeeded' = Succeeded
  <2>1. calls' = calls
    BY DEF RosterChanges, Lose, clientVars, vars
  <2>. QED BY <2>1, CallsSame DEF IInv, Succeeded
<1>2. faults' \in Nat /\ refreshes' \in Nat /\ rdvUp' \in BOOLEAN
  <2>1. (\E m \in net : Lose(m)) => faults' \in Nat
    BY FaultType DEF Lose, IInv
  <2>2. faults \in Nat /\ refreshes \in Nat /\ rdvUp \in BOOLEAN
    BY DEF IInv, TypeOK
  <2>3. RosterChanges => refreshes' \in Nat /\ UNCHANGED <<faults, rdvUp>>
    BY <2>2 DEF RosterChanges
  <2>4. UNCHANGED vars => UNCHANGED <<refreshes, faults, rdvUp>>
    BY DEF vars
  <2>5. (\E m \in net : Lose(m)) => UNCHANGED <<refreshes, rdvUp>>
    BY DEF Lose
  <2>. QED BY <2>1, <2>2, <2>3, <2>4, <2>5
<1>3. roster' \in Roster /\ net' \subseteq net
  BY RostersAssumption DEF RosterChanges, Lose, vars, IInv, TypeOK
<1>. QED
  BY <1>1, <1>2, <1>3, QuietStep DEF NoAnswer, CallsQuiet, RosterChanges, Lose, vars, clientVars, serviceVars

\* datagrams that nobody waits for, do not open, or are refused
LEMMA QuietReceive ==
  ASSUME IInv, NEW m \in net, NEW rest \in {net, net \ {m}}, faults' \in Nat,
         \/ ReceiveLate(m, rest)
         \/ ReceiveInit(m, rest) /\ (m.client \notin roster.enrolled \/ Replayed(m))
         \/ /\ ReceiveData(m, rest)
            /\ \/ sessions[m.client] = NoSession \/ sessions[m.client].key # m.key
               \/ ~Admit(m.client, m.port)
  PROVE  IInv' /\ NoAnswer
<1>1. CallsQuiet /\ Succeeded' = Succeeded
  <2>1. calls' = calls
    BY DEF ReceiveLate, ReceiveInit, ReceiveData, clientVars
  <2>. QED BY <2>1, CallsSame DEF IInv, Succeeded
<1>2. refreshes' \in Nat /\ rdvUp' \in BOOLEAN /\ roster' \in Roster
  BY DEF ReceiveLate, ReceiveInit, ReceiveData, IInv, TypeOK
<1>3. /\ net' \subseteq net
      /\ UNCHANGED <<lastNs, outSessions, sessions, seenTimestamps, sealed>>
  BY DEF ReceiveLate, ReceiveInit, ReceiveData, clientVars, serviceVars
<1>4. log' = log \/ \E p \in Client, r \in Reasons :
                      log' = log \cup {[type |-> "deny", peer |-> p, reason |-> r]}
  <2>1. m.t \in {"init", "data"} => m.client \in Client
    BY MessageType DEF IInv
  <2>2. ReceiveLate(m, rest) => log' = log
    BY DEF ReceiveLate, serviceVars
  <2>3. ASSUME ReceiveInit(m, rest), m.client \notin roster.enrolled \/ Replayed(m)
        PROVE  \E p \in Client, r \in Reasons :
                  log' = log \cup {[type |-> "deny", peer |-> p, reason |-> r]}
    <3>1. /\ m.t = "init"
          /\ Deny(m.client, IF m.client \notin roster.enrolled THEN "unknown" ELSE "replayed")
      BY <2>3 DEF ReceiveInit
    <3>2. PICK r \in {"unknown", "replayed"} : Deny(m.client, r)
      BY <3>1
    <3>3. r \in Reasons /\ m.client \in Client
      BY <2>1, <3>1 DEF Reasons
    <3>4. log' = log \cup {[type |-> "deny", peer |-> m.client, reason |-> r]}
      BY <3>2 DEF Deny
    <3>. QED BY <3>3, <3>4
  <2>4. ASSUME ReceiveData(m, rest),
               \/ sessions[m.client] = NoSession \/ sessions[m.client].key # m.key
               \/ ~Admit(m.client, m.port)
        PROVE  \E p \in Client, r \in Reasons :
                  log' = log \cup {[type |-> "deny", peer |-> p, reason |-> r]}
    <3>1. PICK r \in {"no session", "AEAD", "admit"} : m.t = "data" /\ Deny(m.client, r)
      BY <2>4 DEF ReceiveData
    <3>2. r \in Reasons /\ m.client \in Client
      BY <2>1, <3>1 DEF Reasons
    <3>3. log' = log \cup {[type |-> "deny", peer |-> m.client, reason |-> r]}
      BY <3>1 DEF Deny
    <3>. QED BY <3>2, <3>3
  <2>. QED BY <2>2, <2>3, <2>4
<1>. QED BY <1>1, <1>2, <1>3, <1>4, QuietStep DEF NoAnswer, CallsQuiet

\* and an answer that is too late or another's, or an echo
LEMMA QuietReply ==
  ASSUME IInv, NEW m \in net, NEW rest \in {net, net \ {m}}, faults' \in Nat,
         NEW n \in DOMAIN calls,
         ReceiveEcho(m, n, rest) \/ (ReceiveOk(m, n, rest) /\ m.key.e # n)
  PROVE  /\ IInv' /\ CallsGrow
         /\ Succeeded' \subseteq Succeeded \/ \E k \in DOMAIN calls : Flow(k) \in log /\ Succeeded' = Succeeded \cup {k}
<1>1. PICK a \in {"ok", "failed"} :
        /\ calls' = [calls EXCEPT ![n].at = a]
        /\ a = "ok" => m.t = "echo" /\ m.key = calls[n].key
  BY DEF ReceiveEcho, ReceiveOk
<1>2. calls[n].at \notin {"ok", "failed"} /\ m.cid.call = n
  <2>1. Sourced(m) /\ m.t \in {"ok", "echo"} /\ Waits(m, n)
    BY DEF IInv, NetSourced, ReceiveEcho, ReceiveOk
  <2>. QED BY <2>1 DEF Waits, Sourced
<1>3. /\ CallsQuiet /\ DOMAIN calls' = DOMAIN calls /\ calls'[n].at = a
      /\ \A k \in DOMAIN calls' : calls'[k].at = "ok" => calls[k].at = "ok" \/ k = n
  BY <1>1, <1>2, CallEnds DEF IInv
<1>4. a = "ok" => Flow(n) \in log
  BY <1>1, <1>2 DEF IInv, NetSourced, Sourced
<1>5. \A k \in Succeeded' : k \in Succeeded \/ Flow(k) \in log
  BY <1>3, <1>4 DEF Succeeded
<1>6. /\ net' \subseteq net
      /\ UNCHANGED <<lastNs, outSessions, sessions, seenTimestamps, sealed, log, roster, rdvUp, refreshes>>
  BY DEF ReceiveEcho, ReceiveOk, serviceVars
<1>7. roster' \in Roster /\ rdvUp' \in BOOLEAN /\ refreshes' \in Nat
  BY <1>6 DEF IInv, TypeOK
<1>8. \/ Succeeded' \subseteq Succeeded
      \/ Flow(n) \in log /\ Succeeded' = Succeeded \cup {n}
  <2>1. CASE a = "failed"
    BY <1>3, <2>1 DEF Succeeded
  <2>2. CASE a = "ok"
    <3>1. Succeeded \subseteq Succeeded'
      BY <1>3 DEF CallsQuiet, CallsGrow, Succeeded
    <3>2. Succeeded' \subseteq Succeeded \cup {n} /\ n \in Succeeded'
      BY <1>3, <2>2 DEF Succeeded
    <3>. QED BY <1>4, <2>2, <3>1, <3>2
  <2>. QED BY <2>1, <2>2
<1>9. IInv' /\ CallsGrow
  BY <1>3, <1>5, <1>6, <1>7, QuietStep DEF CallsQuiet
<1>. QED BY <1>8, <1>9
-----------------------------------------------------------------------------
(***************************************************************************)
(* The five steps that do more.                                            *)
(***************************************************************************)

\* who holds the key of a box is the client that sealed it
LEMMA KeyOfOne ==
  ASSUME IInv, NEW b \in sealed, NEW c \in Client, Handshake(c, b.key) \in log
  PROVE  calls[b.call].client = c
<1>1. Handshake(calls[b.call].client, b.key) \in log
  BY DEF IInv, SealedUnderSessions, UnderSession
<1>. QED BY <1>1, HandshakeIn DEF IInv, HandshakesOnce

\* one more box under a nonce that its key has not been used with
LEMMA NonceFresh ==
  ASSUME NonceUsedOnce, NEW x, sealed' = sealed \cup {x},
         \A b \in sealed : b.dir = x.dir /\ b.key = x.key => b.ctr # x.ctr
  PROVE  NonceUsedOnce'
BY DEF NonceUsedOnce

\* send(): the session moves on by one, the box and the datagram are typed
LEMMA SendDataFacts ==
  ASSUME TypeOK, NEW n \in Nat, NEW c \in Client, NEW s \in Session, NEW port \in Port,
         SendData(n, c, s, port)
  PROVE  /\ outSessions' \in [Client -> Session]
         /\ outSessions'[c].key = s.key /\ outSessions'[c].ctr = s.ctr + 1
         /\ \A e \in Client : e # c => outSessions'[e] = outSessions[e]
         /\ Data(n, c, s, port) \in Messages
         /\ \E x \in Box : /\ sealed' = sealed \cup {x}
                           /\ x = [dir |-> "request", key |-> s.key, ctr |-> s.ctr + 1, call |-> n]
<1>. DEFINE t == [s EXCEPT !.ctr = s.ctr + 1]
<1>1. /\ s.key \in Key /\ s.ctr \in Nat /\ t \in Session
      /\ t.key = s.key /\ t.ctr = s.ctr + 1
  OBVIOUS
<1>2. /\ outSessions' = [outSessions EXCEPT ![c] = t]
      /\ sealed' = sealed \cup {[dir |-> "request", key |-> s.key, ctr |-> s.ctr + 1, call |-> n]}
  BY DEF SendData, NextCtr
<1>. HIDE DEF t
<1>3. /\ outSessions' \in [Client -> Session] /\ outSessions'[c] = t
      /\ \A e \in Client : e # c => outSessions'[e] = outSessions[e]
  BY <1>1, <1>2 DEF TypeOK
<1>4. [dir |-> "request", key |-> s.key, ctr |-> s.ctr + 1, call |-> n] \in Box
  BY <1>1 DEF Box
<1>5. DataMsg(n, c, s.key, s.ctr + 1, port) \in Messages
  <2>1. s.ctr + 1 \in Nat /\ [call |-> n, at |-> "data"] \in Cid
    BY <1>1 DEF Cid
  <2>. QED BY <1>1, <2>1, MessageMade
<1>. QED BY <1>1, <1>2, <1>3, <1>4, <1>5 DEF Data, NextCtr

\* a request of an established call is sealed under the key the call has, and
\* no box of that key is known but to the session it continues
LEMMA SendStep ==
  ASSUME IInv, CallsQuiet, NEW n \in Established', NEW s \in Session, NEW c \in Client, NEW port \in Port,
         calls'[n].client = c, calls'[n].key = s.key, calls'[n].port = port,
         Handshake(c, s.key) \in log, s.key.e \in Established',
         SendData(n, c, s, port),
         net' \subseteq net \cup {Data(n, c, s, port)},
         \A b \in sealed : b.key = s.key => outSessions[c] = s,
         \A k \in Succeeded' : k \in Succeeded,
         UNCHANGED <<lastNs, rdvUp, roster, sessions, seenTimestamps, log, refreshes>>,
         faults' \in Nat
  PROVE  IInv' /\ NoAnswer
<1>1. /\ CallsGrow /\ calls' \in Seq(Call) /\ log \subseteq log' /\ n \in DOMAIN calls' /\ n \in Nat
      /\ s.key \in Key /\ s.ctr \in Nat
  <2>1. calls' \in Seq(Call) /\ n \in DOMAIN calls'
    BY DEF CallsQuiet, CallsGrow, Established
  <2>. QED BY <2>1 DEF CallsQuiet
<1>2. /\ outSessions' \in [Client -> Session]
      /\ outSessions'[c].key = s.key /\ outSessions'[c].ctr = s.ctr + 1
      /\ \A e \in Client : e # c => outSessions'[e] = outSessions[e]
      /\ Data(n, c, s, port) \in Messages
  BY <1>1, SendDataFacts DEF IInv
<1>3. PICK x \in Box : /\ sealed' = sealed \cup {x}
                      /\ x = [dir |-> "request", key |-> s.key, ctr |-> s.ctr + 1, call |-> n]
  BY <1>1, SendDataFacts DEF IInv
<1>4. sealed \subseteq sealed' /\ x.dir = "request" /\ x.key = s.key /\ x.ctr = s.ctr + 1 /\ x.call = n
  BY <1>3
<1>5. TypeOK'
  <2>1. net' \subseteq Messages /\ sealed' \subseteq Box
    BY <1>2, <1>3 DEF IInv, TypeOK
  <2>. QED BY <1>1, <1>2, <2>1 DEF IInv, TypeOK
<1>6. TimestampsDiffer'
  BY TimestampsKept DEF IInv
<1>7. HandshakesOnce'
  BY <1>1, HandshakesKept DEF IInv, Handshakes
<1>8. ServiceGranted'
  BY <1>1, ServiceKept DEF IInv, ServiceGranted
<1>9. ClientGranted'
  <2>1. \A e \in Client : e # c /\ outSessions'[e] # NoSession =>
          /\ Handshake(e, outSessions'[e].key) \in log'
          /\ outSessions'[e].key.e \in Established'
    BY <1>1, <1>2, ClientKept DEF IInv
  <2>. QED BY <1>2, <2>1 DEF ClientGranted
<1>10. NetSourced'
  <2>1. ASSUME NEW m, m = DataMsg(n, c, s.key, s.ctr + 1, port)
        PROVE  Sourced(m)'
    <3>1. /\ m.t = "data" /\ m.cid.call = n /\ m.cid.at = "data" /\ m.client = c
          /\ m.key = s.key /\ m.ctr = s.ctr + 1 /\ m.port = port
      BY <2>1 DEF DataMsg
    <3>2. [dir |-> "request", key |-> m.key, ctr |-> m.ctr, call |-> m.cid.call] \in sealed'
      BY <1>3, <3>1
    <3>. QED BY <1>1, <3>1, <3>2 DEF Sourced
  <2>2. Data(n, c, s, port) = DataMsg(n, c, s.key, s.ctr + 1, port)
    BY DEF Data, NextCtr
  <2>3. \A m \in net : Sourced(m)'
    BY <1>1, <1>4, SourcedKept
  <2>. QED BY <2>1, <2>2, <2>3 DEF NetSourced
<1>11. SealedUnderSessions'
  <2>1. ASSUME NEW b \in sealed PROVE UnderSession(b)'
    <3>1. \A e \in Client : sessions'[e].key = b.key =>
            sessions[e].key = b.key /\ sessions[e].ctr <= sessions'[e].ctr
      <4>1. \A e \in Client : sessions[e].ctr \in Nat
        BY DEF IInv, TypeOK
      <4>. QED BY <4>1
    <3>2. \A e \in Client : outSessions'[e].key = b.key =>
            outSessions[e].key = b.key /\ outSessions[e].ctr <= outSessions'[e].ctr
      <4>1. outSessions'[c].key = b.key => outSessions[c] = s
        BY <1>2
      <4>2. \A e \in Client : outSessions[e].ctr \in Nat
        BY DEF IInv, TypeOK
      <4>3. s.ctr <= s.ctr + 1
        BY <1>1
      <4>4. outSessions'[c].key = b.key =>
              outSessions[c].key = b.key /\ outSessions[c].ctr <= outSessions'[c].ctr
        BY <1>2, <4>1, <4>3
      <4>5. \A e \in Client : e # c => (outSessions'[e].key = b.key =>
              outSessions[e].key = b.key /\ outSessions[e].ctr <= outSessions'[e].ctr)
        BY <1>2, <4>2
      <4>. QED BY <4>4, <4>5
    <3>3. sessions' \in [Client -> Session]
      BY <1>5 DEF TypeOK
    <3>. QED BY <1>1, <1>2, <3>1, <3>2, <3>3, UnderSessionKept
  <2>2. UnderSession(x)'
    BY <1>1, <1>2, <1>4 DEF UnderSession
  <2>. QED BY <1>3, <2>1, <2>2 DEF SealedUnderSessions
<1>12. FlowsRequested'
  <2>1. \A y \in log' : y.type = "flow" =>
          /\ y.call \in DOMAIN calls' /\ y = Flow(y.call)'
          /\ \E b \in sealed' : b.dir = "request" /\ b.call = y.call
    BY <1>1, <1>4, FlowsKept
  <2>2. \A k \in Succeeded' : Flow(k)' \in log'
    BY <1>1, SucceededServed
  <2>. QED BY <2>1, <2>2 DEF FlowsRequested
<1>13. NonceUsedOnce'
  <2>1. ASSUME NEW b \in sealed, b.dir = "request", b.key = s.key
        PROVE  b.ctr # s.ctr + 1
    <3>1. calls[b.call].client = c /\ outSessions[c] = s
      BY <2>1, KeyOfOne
    <3>2. b.ctr <= s.ctr /\ b.ctr \in Nat
      <4>1. UnderSession(b) /\ b.ctr \in Nat
        BY DEF IInv, SealedUnderSessions, TypeOK, Box
      <4>. QED BY <2>1, <3>1, <4>1 DEF UnderSession
    <3>. QED BY <1>1, <3>2
  <2>. QED BY <1>3, <1>4, <2>1, NonceFresh DEF IInv
<1>. QED
  BY <1>1, <1>5, <1>6, <1>7, <1>8, <1>9, <1>10, <1>11, <1>12, <1>13 DEF IInv, NoAnswer

\* a probe is sealed under the session the client has
LEMMA ProbeStep ==
  ASSUME IInv, NEW c \in Client, NEW kind \in Kinds, NEW port \in Port, StartProbe(c, kind, port)
  PROVE  IInv' /\ NoAnswer
<1>. DEFINE n == Len(calls) + 1
            s == outSessions[c]
            a == IF ~Relays(kind) \/ rdvUp THEN "data" ELSE "failed"
            r == NewCall(c, kind, port, a, s.key)
<1>1. /\ s \in Session /\ s # NoSession /\ s.key \in Key
      /\ a \in {"data", "failed"}
  BY DEF StartProbe, IInv, TypeOK
<1>2. /\ calls' = Append(calls, r)
      /\ SendData(n, c, s, port)
      /\ net' \subseteq net \cup {Data(n, c, s, port)}
      /\ UNCHANGED <<lastNs, rdvUp, roster, sessions, seenTimestamps, log, refreshes, faults>>
  BY DEF StartProbe, serviceVars
<1>3. r \in Call /\ r.ts = 0 /\ r.at = a /\ r.client = c /\ r.port = port /\ r.key = s.key
  BY <1>1, NewCallType
<1>. HIDE DEF r, a
<1>4. /\ CallsQuiet /\ DOMAIN calls' = DOMAIN calls \cup {n}
      /\ calls'[n] = r /\ n \notin DOMAIN calls
      /\ \A m \in DOMAIN calls : calls'[m] = calls[m]
  BY <1>2, <1>3, CallAppended DEF IInv
<1>5. n \in Established'
  BY <1>1, <1>3, <1>4 DEF Established
<1>6. Handshake(c, s.key) \in log /\ s.key.e \in Established'
  BY <1>1, <1>4 DEF IInv, ClientGranted, CallsQuiet, CallsGrow, Established
<1>7. \A k \in Succeeded' : k \in Succeeded
  BY <1>1, <1>3, <1>4 DEF Succeeded
<1>8. faults' \in Nat
  BY <1>2 DEF IInv, TypeOK
<1>. HIDE DEF n
<1>. QED BY <1>1, <1>2, <1>3, <1>4, <1>5, <1>6, <1>7, <1>8, SendStep

\* complete() and send(): the key is this call's, so no box was sealed under it
LEMMA OkStep ==
  ASSUME IInv, NEW m \in net, NEW rest \in {net, net \ {m}}, faults' \in Nat,
         NEW n \in DOMAIN calls, ReceiveOk(m, n, rest), m.key.e = n
  PROVE  IInv' /\ NoAnswer
<1>. DEFINE c == calls[n].client
            s == [key |-> m.key, ctr |-> 0]
            r == [calls[n] EXCEPT !.at = "data", !.key = m.key]
<1>1. /\ m.t = "ok" /\ Waits(m, n) /\ Sourced(m) /\ m.key \in Key
  BY MessageType DEF ReceiveOk, IInv, NetSourced
<1>2. /\ m.cid.call = n /\ calls[n].at = "init" /\ Handshake(c, m.key) \in log
  BY <1>1 DEF Waits, Sourced
<1>3. /\ calls[n] \in Call /\ c \in Client /\ calls[n].port \in Port
  BY CallType DEF IInv
<1>4. /\ r \in Call /\ r.at = "data" /\ r.key = m.key
      /\ r.client = c /\ r.port = calls[n].port /\ r.ts = calls[n].ts
  BY <1>1, <1>3 DEF Call
<1>5. calls' = [calls EXCEPT ![n] = r]
  BY DEF ReceiveOk
<1>6. /\ SendData(n, c, s, calls[n].port)
      /\ net' \subseteq net \cup {Data(n, c, s, calls[n].port)}
      /\ UNCHANGED <<lastNs, rdvUp, roster, sessions, seenTimestamps, log, refreshes>>
  BY DEF ReceiveOk, serviceVars
<1>. HIDE DEF r
<1>7. /\ calls' \in Seq(Call) /\ DOMAIN calls' = DOMAIN calls /\ calls'[n] = r
      /\ \A k \in DOMAIN calls : k # n => calls'[k] = calls[k]
  BY <1>4, <1>5, CallReplaced DEF IInv
<1>8. CallsQuiet
  BY <1>2, <1>4, <1>7 DEF CallsQuiet, CallsGrow, Established
<1>9. n \in Established' /\ n \notin Established
  BY <1>2, <1>4, <1>7 DEF Established
<1>10. \A b \in sealed : b.key # m.key
  BY <1>9 DEF IInv, SealedUnderSessions, UnderSession
<1>11. \A k \in Succeeded' : k \in Succeeded
  BY <1>4, <1>7 DEF Succeeded
<1>12. s \in Session /\ s.key = m.key
  BY <1>1
<1>. HIDE DEF s, c
<1>. QED
  BY <1>2, <1>3, <1>4, <1>6, <1>7, <1>8, <1>9, <1>10, <1>11, <1>12, SendStep DEF c

\* initiate(): the new timestamp is later than all of this client's
LEMMA InitiateStep ==
  ASSUME IInv, NEW n \in DOMAIN calls, NEW ns \in Nat, Initiate(n, ns)
  PROVE  IInv' /\ NoAnswer
<1>. DEFINE c == calls[n].client
            ts == Tai64n(c, ns)
            r == [calls[n] EXCEPT !.at = "init", !.ts = ts]
<1>1. /\ n \in Nat /\ calls[n] \in Call /\ c \in Client /\ lastNs[c] \in Nat
      /\ calls[n].at = "lookup"
  BY CallType DEF IInv, TypeOK, Initiate
<1>2. ts \in Nat /\ ts > lastNs[c]
  BY <1>1 DEF Tai64n
<1>3. /\ lastNs' = [lastNs EXCEPT ![c] = ts]
      /\ net' = net \cup {InitMsg(n, c, ts)}
      /\ calls' = [calls EXCEPT ![n].at = "init", ![n].ts = ts]
      /\ UNCHANGED <<outSessions, rdvUp, roster, sessions, seenTimestamps, log, sealed, refreshes, faults>>
  BY DEF Initiate, serviceVars
<1>. HIDE DEF ts
<1>4. /\ r \in Call /\ r.at = "init" /\ r.ts = ts
      /\ r.client = c /\ r.port = calls[n].port /\ r.key = calls[n].key
  BY <1>1, <1>2 DEF Call
<1>5. calls' = [calls EXCEPT ![n] = r]
  BY <1>3
<1>. HIDE DEF r
<1>6. /\ calls' \in Seq(Call) /\ DOMAIN calls' = DOMAIN calls /\ calls'[n] = r
      /\ \A k \in DOMAIN calls : k # n => calls'[k] = calls[k]
  BY <1>4, <1>5, CallReplaced DEF IInv
<1>7. CallsGrow
  BY <1>1, <1>4, <1>6 DEF CallsGrow, Established
<1>8. lastNs' \in [Client -> Nat] /\ lastNs'[c] = ts /\ \A e \in Client : e # c => lastNs'[e] = lastNs[e]
  BY <1>1, <1>2, <1>3 DEF IInv, TypeOK
<1>9. TypeOK'
  <2>1. InitMsg(n, c, ts) \in Messages
    <3>1. [call |-> n, at |-> "init"] \in Cid
      BY <1>1 DEF Cid
    <3>. QED BY <1>1, <1>2, <3>1 DEF InitMsg, Messages
  <2>. QED BY <1>3, <1>6, <1>8, <2>1 DEF IInv, TypeOK
<1>10. TimestampsDiffer'
  <2>1. \A k \in DOMAIN calls : calls[k].client \in Client /\ calls[k].ts \in Nat
    BY CallType DEF IInv
  <2>2. \A k \in DOMAIN calls : calls[k].client = c => calls[k].ts < ts
    BY <1>1, <1>2, <2>1 DEF IInv, TimestampsDiffer
  <2>3. ASSUME NEW k \in DOMAIN calls
        PROVE  /\ calls'[k].ts <= lastNs'[calls'[k].client]
               /\ calls'[k].at = "lookup" => calls'[k].ts = 0
    <3>1. CASE k = n
      BY <1>1, <1>2, <1>4, <1>6, <1>8, <3>1
    <3>2. CASE k # n /\ calls[k].client = c
      BY <1>2, <1>6, <1>8, <2>1, <2>2, <3>2 DEF IInv, TimestampsDiffer
    <3>3. CASE k # n /\ calls[k].client # c
      BY <1>6, <1>8, <2>1, <3>3 DEF IInv, TimestampsDiffer
    <3>. QED BY <3>1, <3>2, <3>3
  <2>4. ASSUME NEW j \in DOMAIN calls, NEW k \in DOMAIN calls,
               calls'[j].client = calls'[k].client, calls'[j].ts = calls'[k].ts, calls'[k].ts > 0
        PROVE  j = k
    <3>1. j = n /\ k # n => FALSE
      BY <1>2, <1>4, <1>6, <2>1, <2>2, <2>4
    <3>2. k = n /\ j # n => FALSE
      BY <1>2, <1>4, <1>6, <2>1, <2>2, <2>4
    <3>3. j # n /\ k # n => j = k
      BY <1>6, <2>4 DEF IInv, TimestampsDiffer
    <3>. QED BY <3>1, <3>2, <3>3
  <2>. QED BY <1>6, <2>3, <2>4 DEF TimestampsDiffer
<1>11. HandshakesOnce'
  BY <1>3, <1>7, HandshakesKept DEF IInv, Handshakes
<1>12. ServiceGranted'
  BY <1>3, <1>7, ServiceKept DEF IInv, ServiceGranted
<1>13. ClientGranted'
  BY <1>3, <1>7, ClientKept DEF IInv, ClientGranted
<1>14. NetSourced'
  <2>1. ASSUME NEW m, m = InitMsg(n, c, ts) PROVE Sourced(m)'
    <3>1. m.t = "init" /\ m.cid.call = n /\ m.cid.at = "init" /\ m.client = c /\ m.ts = ts
      BY <2>1 DEF InitMsg
    <3>2. ts > 0
      BY <1>1, <1>2
    <3>. QED BY <1>4, <1>6, <3>1, <3>2 DEF Sourced
  <2>2. \A m \in net : Sourced(m)'
    BY <1>3, <1>7, SourcedKept
  <2>. QED BY <1>3, <2>1, <2>2 DEF NetSourced
<1>15. SealedUnderSessions'
  <2>. SUFFICES ASSUME NEW b \in sealed PROVE UnderSession(b)'
    BY <1>3 DEF SealedUnderSessions
  <2>1. \A e \in Client : /\ sessions[e].ctr <= sessions'[e].ctr
                         /\ outSessions[e].ctr <= outSessions'[e].ctr
    <3>1. \A e \in Client : sessions[e].ctr \in Nat /\ outSessions[e].ctr \in Nat
      BY DEF IInv, TypeOK
    <3>. QED BY <1>3, <3>1
  <2>2. sessions' \in [Client -> Session] /\ outSessions' \in [Client -> Session]
    BY <1>9 DEF TypeOK
  <2>. QED BY <1>3, <1>7, <2>1, <2>2, UnderSessionKept
<1>16. FlowsRequested'
  <2>1. \A k \in Succeeded' : k \in Succeeded
    BY <1>4, <1>6 DEF Succeeded
  <2>2. \A y \in log' : y.type = "flow" =>
          /\ y.call \in DOMAIN calls' /\ y = Flow(y.call)'
          /\ \E b \in sealed' : b.dir = "request" /\ b.call = y.call
    BY <1>3, <1>7, FlowsKept
  <2>3. \A k \in Succeeded' : Flow(k)' \in log'
    BY <1>3, <1>7, <2>1, SucceededServed
  <2>. QED BY <2>2, <2>3 DEF FlowsRequested
<1>17. NonceUsedOnce'
  BY <1>3 DEF IInv, NonceUsedOnce
<1>18. Succeeded' \subseteq Succeeded
  BY <1>4, <1>6 DEF Succeeded
<1>. QED
  BY <1>7, <1>9, <1>10, <1>11, <1>12, <1>13, <1>14, <1>15, <1>16, <1>17, <1>18 DEF IInv, NoAnswer

\* respond(): the timestamp is newer than all that were accepted, so this is
\* the first handshake of its call
LEMMA AcceptStep ==
  ASSUME IInv, NEW m \in net, NEW rest \in {net, net \ {m}}, faults' \in Nat,
         ReceiveInit(m, rest), m.client \in roster.enrolled, ~Replayed(m)
  PROVE  IInv' /\ NoAnswer
<1>. DEFINE c == m.client
            n == m.cid.call
            k == FreshKey(m)
            h == Handshake(c, k)
<1>1. /\ m.t = "init" /\ c \in Client /\ m.ts \in Nat /\ Sourced(m) /\ m.cid \in Cid
      /\ n \in DOMAIN calls /\ n \in Nat /\ n # 0
  <2>1. m.t = "init" /\ Sourced(m)
    BY DEF ReceiveInit, IInv, NetSourced
  <2>2. n \in DOMAIN calls
    BY <2>1 DEF Sourced
  <2>. QED BY <2>1, <2>2, MessageType, CallType DEF IInv
<1>2. /\ m.cid.at = "init" /\ c = calls[n].client /\ m.ts = calls[n].ts /\ m.ts > 0
      /\ seenTimestamps[c] \in Nat /\ m.ts > seenTimestamps[c]
  <2>1. seenTimestamps[c] \in Nat
    BY <1>1 DEF IInv, TypeOK
  <2>. QED BY <1>1, <2>1 DEF Sourced, Replayed
<1>3. k \in Key /\ k.e = n /\ k # NoKey
  <2>1. IsFiniteSet({x \in log : x.type = "handshake"})
    BY FS_Subset DEF IInv, TypeOK
  <2>2. Cardinality({x \in log : x.type = "handshake"}) \in Nat
    BY <2>1, FS_CardinalityType
  <2>. QED BY <1>1, <2>2 DEF FreshKey, NoKey
<1>4. /\ seenTimestamps' = [seenTimestamps EXCEPT ![c] = m.ts]
      /\ sessions' = [sessions EXCEPT ![c] = [key |-> k, ctr |-> 0]]
      /\ log' = log \cup {h}
      /\ net' \subseteq net \cup {OkMsg(m.cid, k)}
      /\ UNCHANGED <<calls, lastNs, outSessions, rdvUp, roster, sealed, refreshes>>
  BY DEF ReceiveInit, clientVars, Handshake
<1>. HIDE DEF k
<1>5. /\ seenTimestamps' \in [Client -> Nat] /\ seenTimestamps'[c] = m.ts
      /\ sessions' \in [Client -> Session] /\ sessions'[c].key = k /\ sessions'[c] # NoSession
      /\ \A e \in Client : e # c => /\ sessions'[e] = sessions[e]
                                    /\ seenTimestamps'[e] = seenTimestamps[e]
  <2>1. [key |-> k, ctr |-> 0] \in Session /\ [key |-> k, ctr |-> 0].key = k
    BY <1>3
  <2>2. [key |-> k, ctr |-> 0] # NoSession
    BY <1>3 DEF NoSession
  <2>3. seenTimestamps' \in [Client -> Nat] /\ seenTimestamps'[c] = m.ts
    BY <1>1, <1>4 DEF IInv, TypeOK
  <2>4. sessions' \in [Client -> Session] /\ sessions'[c] = [key |-> k, ctr |-> 0]
    BY <1>1, <1>4, <2>1 DEF IInv, TypeOK
  <2>5. \A e \in Client : e # c => sessions'[e] = sessions[e] /\ seenTimestamps'[e] = seenTimestamps[e]
    BY <1>4 DEF IInv, TypeOK
  <2>. QED BY <2>1, <2>2, <2>3, <2>4, <2>5
<1>6. CallsQuiet /\ CallsGrow /\ log \subseteq log' /\ Succeeded' = Succeeded
  <2>1. CallsQuiet
    BY <1>4, CallsSame DEF IInv
  <2>. QED BY <1>4, <2>1 DEF CallsQuiet, Succeeded
<1>7. h.type = "handshake" /\ h.peer = c /\ h.key = k /\ h \in Entry
  BY <1>1, <1>3 DEF Handshake, Entry
<1>8. Handshakes' = Handshakes \cup {h}
  BY <1>4, <1>7 DEF Handshakes
<1>. HIDE DEF h
<1>9. \A x \in Handshakes : x.key.e # n
  BY <1>1, <1>2 DEF IInv, HandshakesOnce
<1>10. TypeOK'
  <2>1. log' \subseteq Entry /\ IsFiniteSet(log')
    BY <1>4, <1>7, LogGrows DEF IInv
  <2>2. net' \subseteq Messages
    BY SMTT(30), <1>1, <1>3, <1>4 DEF OkMsg, Messages, IInv, TypeOK
  <2>. QED BY <1>4, <1>5, <2>1, <2>2 DEF IInv, TypeOK
<1>11. TimestampsDiffer'
  BY <1>4, <1>6, TimestampsKept DEF IInv
<1>12. HandshakesOnce'
  <2>1. ASSUME NEW x \in Handshakes
        PROVE  /\ x.key.e \in DOMAIN calls'
               /\ calls'[x.key.e].client = x.peer
               /\ calls'[x.key.e].ts \in 1..seenTimestamps'[x.peer]
               /\ sessions'[x.peer] # NoSession
    <3>1. /\ x.peer \in Client /\ x.key.e \in DOMAIN calls
          /\ calls[x.key.e].client = x.peer
          /\ calls[x.key.e].ts \in 1..seenTimestamps[x.peer]
          /\ sessions[x.peer] # NoSession
      BY HandshakeType DEF IInv, HandshakesOnce
    <3>2. CASE x.peer = c
      <4>1. calls[x.key.e].ts \in 1..m.ts
        BY <1>1, <1>2, <3>1, <3>2
      <4>. QED BY <1>4, <1>5, <3>1, <3>2, <4>1
    <3>3. CASE x.peer # c
      BY <1>4, <1>5, <3>1, <3>3
    <3>. QED BY <3>2, <3>3
  <2>2. /\ h.key.e \in DOMAIN calls' /\ calls'[h.key.e].client = h.peer
        /\ calls'[h.key.e].ts \in 1..seenTimestamps'[h.peer]
        /\ sessions'[h.peer] # NoSession
    BY <1>1, <1>2, <1>3, <1>4, <1>5, <1>7
  <2>3. \A x, y \in Handshakes' : x.key.e = y.key.e => x = y
    BY <1>3, <1>7, <1>8, <1>9 DEF IInv, HandshakesOnce
  <2>. QED BY <1>8, <2>1, <2>2, <2>3 DEF HandshakesOnce
<1>13. ServiceGranted'
  <2>1. ASSUME NEW e \in Client, e # c, sessions'[e] # NoSession
        PROVE  /\ Handshake(e, sessions'[e].key) \in log'
               /\ calls'[sessions'[e].key.e].ts = seenTimestamps'[e]
    BY <1>5, <1>6, <2>1, ServiceKept DEF IInv
  <2>2. Handshake(c, sessions'[c].key) \in log' /\ calls'[sessions'[c].key.e].ts = seenTimestamps'[c]
    <3>1. sessions'[c].key = k /\ seenTimestamps'[c] = calls[n].ts /\ calls' = calls
      BY <1>2, <1>4, <1>5
    <3>2. Handshake(c, k) \in log'
      BY <1>4 DEF h
    <3>. QED BY <1>3, <3>1, <3>2
  <2>. QED BY <2>1, <2>2 DEF ServiceGranted
<1>14. ClientGranted'
  BY <1>4, <1>6, ClientKept DEF IInv, ClientGranted
<1>15. NetSourced'
  <2>1. ASSUME NEW o, o = OkMsg(m.cid, k) PROVE Sourced(o)'
    <3>1. o.t = "ok" /\ o.cid = m.cid /\ o.key = k
      BY <2>1 DEF OkMsg
    <3>2. Handshake(calls'[n].client, k) \in log'
      BY <1>2, <1>4 DEF h
    <3>. QED BY <1>1, <1>2, <1>3, <1>4, <3>1, <3>2 DEF Sourced
  <2>2. \A o \in net : Sourced(o)'
    BY <1>4, <1>6, SourcedKept
  <2>. QED BY <1>4, <2>1, <2>2 DEF NetSourced
<1>16. SealedUnderSessions'
  <2>. SUFFICES ASSUME NEW b \in sealed PROVE UnderSession(b)'
    BY <1>4 DEF SealedUnderSessions
  <2>1. b.key # k
    <3>1. Handshake(calls[b.call].client, b.key) \in log
      BY DEF IInv, SealedUnderSessions, UnderSession
    <3>. QED BY <1>3, <1>9, <3>1, HandshakeIn
  <2>2. \A e \in Client : sessions'[e].key = b.key =>
          sessions[e].key = b.key /\ sessions[e].ctr <= sessions'[e].ctr
    <3>1. \A e \in Client : sessions[e].ctr \in Nat
      BY DEF IInv, TypeOK
    <3>. QED BY <1>5, <2>1, <3>1
  <2>3. \A e \in Client : outSessions[e].ctr <= outSessions'[e].ctr
    <3>1. \A e \in Client : outSessions[e].ctr \in Nat
      BY DEF IInv, TypeOK
    <3>. QED BY <1>4, <3>1
  <2>4. outSessions' \in [Client -> Session]
    BY <1>10 DEF TypeOK
  <2>. QED BY <1>4, <1>5, <1>6, <2>2, <2>3, <2>4, UnderSessionKept
<1>17. FlowsRequested'
  <2>1. \A y \in log' : y.type = "flow" => y \in log
    BY <1>4, <1>7
  <2>2. \A y \in log' : y.type = "flow" =>
          /\ y.call \in DOMAIN calls' /\ y = Flow(y.call)'
          /\ \E b \in sealed' : b.dir = "request" /\ b.call = y.call
    BY <1>4, <1>6, <2>1, FlowsKept
  <2>3. \A j \in Succeeded' : Flow(j)' \in log'
    BY <1>6, SucceededServed
  <2>. QED BY <2>2, <2>3 DEF FlowsRequested
<1>18. NonceUsedOnce'
  BY <1>4 DEF IInv, NonceUsedOnce
<1>. QED
  BY <1>6, <1>10, <1>11, <1>12, <1>13, <1>14, <1>15, <1>16, <1>17, <1>18 DEF IInv, NoAnswer

\* the request is opened with the service's session, admitted and answered
LEMMA ServeStep ==
  ASSUME IInv, NEW m \in net, NEW rest \in {net, net \ {m}}, faults' \in Nat,
         ReceiveData(m, rest), sessions[m.client] # NoSession, sessions[m.client].key = m.key,
         Admit(m.client, m.port)
  PROVE  /\ IInv' /\ calls' = calls /\ sealed \subseteq sealed' /\ Requested' = Requested
         /\ UNCHANGED roster
         /\ \E r \in Requested : /\ <<r.client, r.port>> \in Permitted
                                /\ Flows' = Flows \cup {r}
<1>. DEFINE c == m.client
            n == m.cid.call
            s == sessions[c]
            i == s.ctr + 1
            x == [dir |-> "reply", key |-> s.key, ctr |-> i + 1000, call |-> n]
            f == [type |-> "flow", peer |-> c, port |-> m.port, call |-> n]
            r == [call |-> n, client |-> c, port |-> m.port]
<1>1. /\ m.t = "data" /\ c \in Client /\ m.port \in Port /\ m.key \in Key /\ m.ctr \in Nat
      /\ m.cid \in Cid /\ Sourced(m)
  BY MessageType DEF ReceiveData, IInv, NetSourced
<1>2. /\ m.cid.at = "data" /\ c = calls[n].client /\ m.port = calls[n].port
      /\ m.key = calls[n].key /\ n \in DOMAIN calls
      /\ [dir |-> "request", key |-> m.key, ctr |-> m.ctr, call |-> n] \in sealed
  BY <1>1 DEF Sourced
<1>3. /\ s \in Session /\ s.ctr \in Nat /\ s.key = m.key /\ n \in Nat
  BY <1>1, CallType, <1>2 DEF IInv, TypeOK
<1>4. n \in Established /\ s.key.e \in Established /\ Handshake(c, s.key) \in log
  <2>1. ASSUME NEW b \in sealed, b.call = n, b.key = m.key
        PROVE  n \in Established /\ m.key.e \in Established /\ Handshake(c, m.key) \in log
    BY <1>2, <2>1 DEF IInv, SealedUnderSessions, UnderSession
  <2>. QED BY <1>2, <1>3, <2>1
<1>5. /\ log' = log \cup {f}
      /\ sessions' = [sessions EXCEPT ![c].ctr = i]
      /\ sealed' = sealed \cup {x}
      /\ net' \subseteq net \cup {EchoMsg(m.cid, s.key, i + 1000)}
      /\ UNCHANGED <<calls, lastNs, outSessions, rdvUp, roster, seenTimestamps, refreshes>>
  BY DEF ReceiveData, NextCtr, clientVars
<1>6. /\ sessions' \in [Client -> Session] /\ sessions'[c].key = s.key /\ sessions'[c].ctr = i
      /\ \A e \in Client : e # c => sessions'[e] = sessions[e]
  <2>. DEFINE t == [s EXCEPT !.ctr = i]
  <2>1. t \in Session /\ t.key = s.key /\ t.ctr = i
    BY <1>3
  <2>2. sessions' = [sessions EXCEPT ![c] = t]
    BY <1>5
  <2>. HIDE DEF t
  <2>3. sessions \in [Client -> Session]
    BY DEF IInv, TypeOK
  <2>. QED BY <1>1, <2>1, <2>2, <2>3
<1>7. /\ x \in Box /\ x.dir = "reply" /\ x.key = s.key /\ x.ctr = i + 1000 /\ x.call = n
      /\ i + 1000 \in Nat
  BY <1>3 DEF Box
<1>8. /\ f \in Entry /\ f.type = "flow" /\ f.peer = c /\ f.port = m.port /\ f.call = n
      /\ f = Flow(n)
  BY <1>1, <1>2, <1>3 DEF Entry, Flow
<1>9. EchoMsg(m.cid, s.key, i + 1000) \in Messages
  BY <1>1, <1>3, <1>7 DEF EchoMsg, Messages
<1>10. r \in Requested
  BY <1>2 DEF Requested
<1>. HIDE DEF x, f
<1>11. CallsQuiet /\ CallsGrow /\ log \subseteq log' /\ sealed \subseteq sealed' /\ Succeeded' = Succeeded
  <2>1. CallsQuiet
    BY <1>5, CallsSame DEF IInv
  <2>. QED BY <1>5, <2>1 DEF CallsQuiet, Succeeded
<1>12. TypeOK'
  <2>0. TypeOK
    BY DEF IInv
  <2>1. log' \subseteq Entry /\ IsFiniteSet(log')
    BY ONLY SMTT(30), <1>5, <1>8, <2>0, LogGrows
  <2>2. net' \subseteq Messages /\ sealed' \subseteq Box
    BY SMTT(30), <1>5, <1>7, <1>9, <2>0 DEF TypeOK
  <2>. QED BY <1>5, <1>6, <2>0, <2>1, <2>2 DEF TypeOK
<1>13. TimestampsDiffer'
  BY <1>5, <1>11, TimestampsKept DEF IInv
<1>14. Handshakes' = Handshakes
  BY <1>5, <1>8 DEF Handshakes
<1>15. HandshakesOnce'
  <2>1. sessions'[c] # NoSession
    <3>1. sessions'[c].ctr # 0
      BY <1>3, <1>6
    <3>. QED BY <3>1 DEF NoSession
  <2>2. \A e \in Client : sessions[e] # NoSession => sessions'[e] # NoSession
    BY <1>6, <2>1
  <2>. QED BY <1>5, <1>14, <2>2, HandshakeType DEF IInv, HandshakesOnce
<1>16. ServiceGranted'
  <2>1. \A e \in Client : sessions'[e].key = sessions[e].key
    BY <1>6
  <2>2. \A e \in Client : sessions'[e] # NoSession => sessions[e] # NoSession
    BY <1>6
  <2>. QED BY SMTT(30), <1>5, <1>11, <2>1, <2>2, ServiceKept DEF IInv, ServiceGranted
<1>17. ClientGranted'
  BY <1>5, <1>11, ClientKept DEF IInv, ClientGranted
<1>18. NetSourced'
  <2>1. ASSUME NEW o, o = EchoMsg(m.cid, s.key, i + 1000) PROVE Sourced(o)'
    <3>1. o.t = "echo" /\ o.cid = m.cid /\ o.key = s.key
      BY <2>1 DEF EchoMsg
    <3>2. Flow(n)' \in log' /\ n \in DOMAIN calls' /\ calls'[n].key = s.key
      <4>1. Flow(n)' = Flow(n)
        BY <1>2, <1>11, FlowSame
      <4>2. f = Flow(n) /\ log' = log \cup {f}
        BY ONLY <1>5, <1>8
      <4>3. n \in DOMAIN calls /\ calls[n].key = s.key /\ calls' = calls
        BY ONLY <1>2, <1>3, <1>5
      <4>. QED BY ONLY <4>1, <4>2, <4>3
    <3>. QED BY <1>2, <3>1, <3>2 DEF Sourced
  <2>2. \A o \in net : Sourced(o)'
    BY <1>11, SourcedKept
  <2>. QED BY <1>5, <2>1, <2>2 DEF NetSourced
<1>19. SealedUnderSessions'
  <2>1. ASSUME NEW b \in sealed PROVE UnderSession(b)'
    <3>1. \A e \in Client : sessions'[e].key = b.key =>
            sessions[e].key = b.key /\ sessions[e].ctr <= sessions'[e].ctr
      <4>1. \A e \in Client : sessions[e].ctr \in Nat
        BY DEF IInv, TypeOK
      <4>2. s.ctr <= i
        BY <1>3
      <4>. QED BY <1>6, <4>1, <4>2
    <3>2. \A e \in Client : outSessions[e].ctr <= outSessions'[e].ctr
      <4>1. \A e \in Client : outSessions[e].ctr \in Nat
        BY DEF IInv, TypeOK
      <4>. QED BY <1>5, <4>1
    <3>3. outSessions' \in [Client -> Session]
      BY <1>12 DEF TypeOK
    <3>. QED BY <1>5, <1>6, <1>11, <3>1, <3>2, <3>3, UnderSessionKept
  <2>2. ASSUME NEW b, b = x PROVE UnderSession(b)'
    <3>1. b.call \in Established' /\ b.key.e \in Established' /\ b.dir # "request"
      BY <1>4, <1>5, <1>7, <2>2 DEF Established
    <3>2. calls'[b.call].client = c /\ b.key = calls'[b.call].key
      <4>1. b.call = n /\ b.key = s.key
        BY ONLY <1>7, <2>2
      <4>2. c = calls[n].client /\ s.key = calls[n].key /\ calls' = calls
        BY ONLY <1>2, <1>3, <1>5
      <4>. QED BY ONLY <4>1, <4>2
    <3>3. Handshake(c, b.key) \in log' /\ b.ctr <= sessions'[c].ctr + 1000
      BY <1>3, <1>4, <1>6, <1>7, <1>11, <2>2
    <3>. QED BY <3>1, <3>2, <3>3 DEF UnderSession
  <2>. QED BY <1>5, <2>1, <2>2 DEF SealedUnderSessions
<1>20. FlowsRequested'
  <2>1. \A y \in log : y.type = "flow" =>
          /\ y.call \in DOMAIN calls' /\ y = Flow(y.call)'
          /\ \E b \in sealed' : b.dir = "request" /\ b.call = y.call
    BY <1>11, FlowsKept
  <2>2. /\ f.call \in DOMAIN calls' /\ f = Flow(f.call)'
        /\ \E b \in sealed' : b.dir = "request" /\ b.call = f.call
    <3>1. Flow(n)' = Flow(n)
      BY <1>2, <1>11, FlowSame
    <3>2. f.call = n /\ f = Flow(n) /\ calls' = calls /\ sealed \subseteq sealed'
      BY ONLY <1>5, <1>8, <1>11
    <3>3. n \in DOMAIN calls /\ \E b \in sealed : b.dir = "request" /\ b.call = n
      BY <1>2
    <3>. QED BY ONLY <3>1, <3>2, <3>3
  <2>3. \A j \in Succeeded' : Flow(j)' \in log'
    BY <1>11, SucceededServed
  <2>. QED BY <1>5, <2>1, <2>2, <2>3 DEF FlowsRequested
<1>21. NonceUsedOnce'
  <2>1. ASSUME NEW b \in sealed, b.dir = "reply", b.key = s.key
        PROVE  b.ctr # i + 1000
    <3>1. calls[b.call].client = c
      BY <1>1, <1>4, <2>1, KeyOfOne
    <3>2. b.ctr <= s.ctr + 1000 /\ b.ctr \in Nat
      <4>1. UnderSession(b) /\ b.ctr \in Nat
        BY DEF IInv, SealedUnderSessions, TypeOK, Box
      <4>. QED BY <2>1, <3>1, <4>1 DEF UnderSession
    <3>. QED BY <1>3, <3>2
  <2>. QED BY <1>5, <1>7, <2>1, NonceFresh DEF IInv
<1>22. Requested' = Requested
  BY <1>5, <1>7 DEF Requested
<1>23. Flows' = Flows \cup {r}
  BY <1>5, <1>8 DEF Flows
<1>24. <<r.client, r.port>> \in Permitted
  BY DEF Permitted, Admit
<1>25. IInv'
  BY <1>12, <1>13, <1>15, <1>16, <1>17, <1>18, <1>19, <1>20, <1>21 DEF IInv
<1>. HIDE DEF r
<1>26. \E y \in Requested : <<y.client, y.port>> \in Permitted /\ Flows' = Flows \cup {y}
  BY ONLY <1>10, <1>23, <1>24
<1>27. calls' = calls /\ UNCHANGED roster
  BY ONLY <1>5
<1>. QED BY ONLY <1>11, <1>22, <1>25, <1>26, <1>27
-----------------------------------------------------------------------------
(***************************************************************************)
(* The invariant.                                                          *)
(***************************************************************************)
LEMMA IInvInitial == Init => IInv
<1>. SUFFICES ASSUME Init PROVE IInv
  OBVIOUS
<1>1. TypeOK
  <2>1. IsFiniteSet(log)
    BY FS_EmptySet DEF Init
  <2>2. calls \in Seq(Call) /\ roster \in Roster
    BY RostersAssumption DEF Init
  <2>. QED BY <2>1, <2>2 DEF Init, TypeOK, NoSession, NoKey
<1>2. Established = {} /\ Handshakes = {} /\ Succeeded = {}
  BY DEF Init, Established, Handshakes, Succeeded
<1>. QED
  BY <1>1, <1>2 DEF Init, IInv, TimestampsDiffer, HandshakesOnce, ServiceGranted, ClientGranted,
                    NetSourced, SealedUnderSessions, FlowsRequested, NonceUsedOnce

\* a delivered datagram: what became of it
LEMMA ReceiveStep ==
  ASSUME IInv, NEW m \in net, NEW rest \in {net, net \ {m}}, faults' \in Nat, Receive(m, rest)
  PROVE  /\ IInv' /\ CallsGrow
         /\ \/ Succeeded' \subseteq Succeeded
            \/ \E k \in DOMAIN calls : Flow(k) \in log /\ Succeeded' = Succeeded \cup {k}
<1>1. CASE ReceiveLate(m, rest)
  BY <1>1, QuietReceive DEF NoAnswer
<1>2. CASE ReceiveInit(m, rest)
  BY <1>2, QuietReceive, AcceptStep DEF NoAnswer
<1>3. CASE ReceiveData(m, rest)
  <2>1. CASE /\ sessions[m.client] # NoSession /\ sessions[m.client].key = m.key
             /\ Admit(m.client, m.port)
    <3>1. IInv' /\ calls' = calls
      BY <1>3, <2>1, ServeStep
    <3>2. CallsGrow /\ Succeeded' = Succeeded
      BY <3>1, CallsSame DEF IInv, CallsQuiet, Succeeded
    <3>. QED BY <3>1, <3>2
  <2>. QED BY <1>3, <2>1, QuietReceive DEF NoAnswer
<1>4. ASSUME NEW n \in DOMAIN calls, ReceiveOk(m, n, rest) \/ ReceiveEcho(m, n, rest)
      PROVE  /\ IInv' /\ CallsGrow
             /\ \/ Succeeded' \subseteq Succeeded
                \/ \E k \in DOMAIN calls : Flow(k) \in log /\ Succeeded' = Succeeded \cup {k}
  BY <1>4, OkStep, QuietReply DEF NoAnswer
<1>. QED BY <1>1, <1>2, <1>3, <1>4 DEF Receive

\* every step preserves the invariant
LEMMA IInvStep == IInv /\ [Next]_vars => IInv'
<1>. SUFFICES ASSUME IInv, [Next]_vars PROVE IInv'
  OBVIOUS
<1>1. CASE Start
  BY <1>1, QuietStart, ProbeStep DEF Start
<1>2. CASE Proceed
  <2>1. 1..MaxClock \subseteq Nat
    BY BoundsAssumption
  <2>. QED BY <1>2, <2>1, InitiateStep, QuietEnd DEF Proceed
<1>3. CASE Deliver
  <2>. PICK m \in net : \E rest \in {net, net \ {m}} : Taken(m, rest) /\ Receive(m, rest)
    BY <1>3 DEF Deliver
  <2>1. PICK rest \in {net, net \ {m}} : Taken(m, rest) /\ Receive(m, rest)
    OBVIOUS
  <2>2. faults' \in Nat
    BY <2>1, FaultType DEF Taken, IInv
  <2>. QED BY <2>1, <2>2, ReceiveStep
<1>4. CASE \E n \in DOMAIN calls : Timeout(n)
  BY <1>4, QuietEnd
<1>5. CASE RosterChanges \/ (\E m \in net : Lose(m)) \/ UNCHANGED vars
  BY <1>5, QuietRest
<1>6. CASE RendezvousCrash
  BY <1>6, QuietCrash
<1>. QED BY <1>1, <1>2, <1>3, <1>4, <1>5, <1>6 DEF Next

(***************************************************************************)
(* The invariant of the tunnel holds of every behaviour, for any clients,  *)
(* rosters and bounds (agent.js, noise.js, rendezvous.js).                 *)
(***************************************************************************)
THEOREM TunnelInvariant == Spec => []IInv
BY IInvInitial, IInvStep, PTL DEF Spec

(***************************************************************************)
(* No key and counter seal two boxes of one direction, whatever calls      *)
(* overlap and whatever is lost, repeated or late (agent.js:178, 224).     *)
(***************************************************************************)
THEOREM TunnelNonceUsedOnce == Spec => []NonceUsedOnce
<1>1. IInv => NonceUsedOnce
  BY DEF IInv
<1>. QED BY <1>1, TunnelInvariant, PTL

\* what the invariant says of two ends of a session
LEMMA AgreeFromInvariant == IInv => SessionsAgree
<1>. SUFFICES ASSUME IInv, NEW c \in Client, outSessions[c].key # NoKey
              PROVE  LET k == outSessions[c].key
                     IN  /\ [type |-> "handshake", peer |-> c, key |-> k] \in log
                         /\ calls[k.e].ts <= seenTimestamps[c]
                         /\ calls[k.e].ts = seenTimestamps[c] => sessions[c].key = k
  BY DEF SessionsAgree
<1>. DEFINE k == outSessions[c].key
            j == sessions[c].key
<1>1. Handshake(c, k) \in log
  BY DEF IInv, ClientGranted, NoSession
<1>2. /\ k.e \in DOMAIN calls /\ calls[k.e].client = c
      /\ calls[k.e].ts \in 1..seenTimestamps[c] /\ sessions[c] # NoSession
  BY <1>1, HandshakeIn DEF IInv, HandshakesOnce
<1>3. Handshake(c, j) \in log /\ calls[j.e].ts = seenTimestamps[c]
  BY <1>2 DEF IInv, ServiceGranted
<1>4. j.e \in DOMAIN calls /\ calls[j.e].client = c
  BY <1>3, HandshakeIn DEF IInv, HandshakesOnce
<1>5. seenTimestamps[c] \in Nat
  BY DEF IInv, TypeOK
<1>6. calls[k.e].ts = seenTimestamps[c] => k.e = j.e
  BY <1>2, <1>3, <1>4, <1>5 DEF IInv, TimestampsDiffer
<1>7. k.e = j.e => k = j
  BY <1>1, <1>3, HandshakeIn DEF IInv, HandshakesOnce
<1>. QED BY <1>1, <1>2, <1>5, <1>6, <1>7 DEF Handshake

(***************************************************************************)
(* A client's session was granted to it, and unless the service has since  *)
(* accepted a later initiation of that client, both ends hold its key      *)
(* (noise.js:132-137).                                                     *)
(***************************************************************************)
THEOREM TunnelSessionsAgree == Spec => []SessionsAgree
BY TunnelInvariant, AgreeFromInvariant, PTL
-----------------------------------------------------------------------------
(***************************************************************************)
(* The refinement of SecureService.                                        *)
(***************************************************************************)

\* permissions are pairs of clients and ports
LEMMA PermittedType == TypeOK => Permitted \subseteq Client \X Port
BY DEF TypeOK, Roster, Permitted

\* a request names its call, its client and its port
LEMMA RequestOf ==
  ASSUME IInv, NEW r \in Requested
  PROVE  \E n \in DOMAIN calls :
           /\ \E b \in sealed : b.dir = "request" /\ b.call = n
           /\ r = [call |-> n, client |-> calls[n].client, port |-> calls[n].port]
BY DEF Requested, IInv, SealedUnderSessions, UnderSession, Established

\* requests are not taken back
LEMMA RequestedGrows ==
  ASSUME IInv, CallsGrow, sealed \subseteq sealed'
  PROVE  Requested \subseteq Requested'
<1>. SUFFICES ASSUME NEW r \in Requested PROVE r \in Requested'
  OBVIOUS
<1>1. PICK b \in sealed :
        /\ b.dir = "request" /\ b.call \in DOMAIN calls
        /\ r = [call |-> b.call, client |-> calls[b.call].client, port |-> calls[b.call].port]
  BY RequestOf
<1>2. r = [call |-> b.call, client |-> calls'[b.call].client, port |-> calls'[b.call].port]
  BY <1>1 DEF CallsGrow
<1>. QED BY <1>1, <1>2 DEF Requested

\* and there is one for each call
LEMMA RequestedType ==
  IInv => /\ Requested \subseteq SS!Requests
          /\ \A q, r \in Requested : q.call = r.call => q = r
<1>. SUFFICES ASSUME IInv
              PROVE  /\ Requested \subseteq SS!Requests
                     /\ \A q, r \in Requested : q.call = r.call => q = r
  OBVIOUS
<1>1. ASSUME NEW r \in Requested
      PROVE  /\ r \in SS!Requests
             /\ r = [call |-> r.call, client |-> calls[r.call].client, port |-> calls[r.call].port]
  <2>1. PICK n \in DOMAIN calls :
          r = [call |-> n, client |-> calls[n].client, port |-> calls[n].port]
    BY RequestOf
  <2>2. n \in Nat /\ calls[n].client \in Client /\ calls[n].port \in Port
    BY CallType DEF IInv
  <2>. QED BY <2>1, <2>2 DEF SS!Requests
<1>. QED BY <1>1

\* a step that leaves permissions, flows and answers alone is a request or nothing
LEMMA RequestOrStutter ==
  ASSUME IInv, IInv', NoAnswer, sealed \subseteq sealed', UNCHANGED <<roster, Flows>>
  PROVE  SS!Request
<1>1. Succeeded' = Succeeded
  BY DEF NoAnswer, CallsGrow, Succeeded
<1>2. Permitted' = Permitted
  BY DEF Permitted
<1>3. Requested \subseteq Requested'
  BY RequestedGrows DEF NoAnswer
<1>4. (/\ Requested \subseteq SS!Requests
       /\ \A q, r \in Requested : q.call = r.call => q = r)'
  BY RequestedType, PTL
<1>. QED BY <1>1, <1>2, <1>3, <1>4 DEF SS!Request, SS!Requests

\* flows when none is logged
LEMMA FlowsSame ==
  ASSUME \A x \in log' \ log : x.type # "flow", log \subseteq log'
  PROVE  Flows' = Flows
BY DEF Flows

\* an arrival is a step of the service, or none
LEMMA ReceiveRefines ==
  ASSUME IInv, IInv', NEW m \in net, NEW rest \in {net, net \ {m}}, faults' \in Nat, Receive(m, rest)
  PROVE  [SS!SSNext]_(SS!ssVars)
<1>1. CASE ReceiveLate(m, rest) \/ ReceiveInit(m, rest)
  <2>1. \A x \in log' \ log : x.type # "flow"
    BY <1>1 DEF ReceiveLate, ReceiveInit, Deny, serviceVars
  <2>2. log \subseteq log' /\ UNCHANGED <<roster, sealed>>
    BY <1>1 DEF ReceiveLate, ReceiveInit, Deny, serviceVars
  <2>3. NoAnswer
    BY <1>1, QuietReceive, AcceptStep
  <2>. QED BY <2>1, <2>2, <2>3, FlowsSame, RequestOrStutter DEF SS!SSNext
<1>2. CASE ReceiveData(m, rest)
  <2>1. CASE /\ sessions[m.client] # NoSession /\ sessions[m.client].key = m.key
             /\ Admit(m.client, m.port)
    <3>1. /\ calls' = calls /\ Requested' = Requested /\ UNCHANGED roster
          /\ \E r \in Requested : <<r.client, r.port>> \in Permitted /\ Flows' = Flows \cup {r}
      BY <1>2, <2>1, ServeStep
    <3>2. Permitted' = Permitted /\ Succeeded' = Succeeded
      BY <3>1 DEF Permitted, Succeeded
    <3>. QED BY <3>1, <3>2 DEF SS!SSNext, SS!Serve
  <2>2. CASE \/ sessions[m.client] = NoSession \/ sessions[m.client].key # m.key
             \/ ~Admit(m.client, m.port)
    <3>1. \A x \in log' \ log : x.type # "flow"
      <4>1. PICK r \in Reasons : Deny(m.client, r)
        BY <1>2, <2>2 DEF ReceiveData, Reasons
      <4>. QED BY <4>1 DEF Deny
    <3>2. log \subseteq log' /\ UNCHANGED <<roster, sealed>>
      BY <1>2, <2>2 DEF ReceiveData, Deny
    <3>3. NoAnswer
      BY <1>2, <2>2, QuietReceive
    <3>. QED BY <3>1, <3>2, <3>3, FlowsSame, RequestOrStutter DEF SS!SSNext
  <2>. QED BY <2>1, <2>2
<1>3. ASSUME NEW n \in DOMAIN calls, ReceiveOk(m, n, rest), m.key.e = n
      PROVE  [SS!SSNext]_(SS!ssVars)
  <2>1. NoAnswer
    BY <1>3, OkStep
  <2>2. UNCHANGED <<roster, log>> /\ sealed \subseteq sealed'
    BY <1>3 DEF ReceiveOk, SendData, serviceVars
  <2>. QED BY <2>1, <2>2, FlowsSame, RequestOrStutter DEF SS!SSNext
<1>4. ASSUME NEW n \in DOMAIN calls, ReceiveEcho(m, n, rest) \/ (ReceiveOk(m, n, rest) /\ m.key.e # n)
      PROVE  [SS!SSNext]_(SS!ssVars)
  <2>1. UNCHANGED <<roster, log, sealed>>
    BY <1>4 DEF ReceiveOk, ReceiveEcho, serviceVars
  <2>2. Permitted' = Permitted /\ Flows' = Flows
    BY <2>1 DEF Permitted, Flows
  <2>3. CallsGrow
    BY <1>4, QuietReply
  <2>4. CASE Succeeded' \subseteq Succeeded
    BY <2>1, <2>2, <2>3, <2>4, RequestOrStutter DEF SS!SSNext, NoAnswer
  <2>5. ASSUME NEW k \in DOMAIN calls, Flow(k) \in log, Succeeded' = Succeeded \cup {k}
        PROVE  [SS!SSNext]_(SS!ssVars)
    <3>1. \E r \in Flows : r.call = k
      <4>1. Flow(k) \in {y \in log : y.type = "flow"} /\ Flow(k).call = k
        BY <2>5 DEF Flow
      <4>. DEFINE r(y) == [call |-> y.call, client |-> y.peer, port |-> y.port]
      <4>2. r(Flow(k)) \in Flows
        BY <4>1 DEF Flows
      <4>. QED BY <4>1, <4>2
    <3>2. Requested' = Requested
      <4>1. \A b \in sealed : b.call \in DOMAIN calls
        BY DEF IInv, SealedUnderSessions, UnderSession, Established
      <4>. QED BY <2>1, <2>3, <4>1 DEF Requested, CallsGrow
    <3>. QED BY <2>2, <2>5, <3>1, <3>2 DEF SS!SSNext, SS!Answer
  <2>. QED BY <1>4, <2>4, <2>5, QuietReply
<1>. QED BY <1>1, <1>2, <1>3, <1>4 DEF Receive

\* and so is every step
LEMMA RefinesStep == IInv /\ IInv' /\ [Next]_vars => [SS!SSNext]_(SS!ssVars)
<1>. SUFFICES ASSUME IInv, IInv', [Next]_vars PROVE [SS!SSNext]_(SS!ssVars)
  OBVIOUS
<1>1. ASSUME NoAnswer, sealed \subseteq sealed', UNCHANGED <<roster, log>>
      PROVE  [SS!SSNext]_(SS!ssVars)
  BY <1>1, FlowsSame, RequestOrStutter DEF SS!SSNext
<1>2. CASE Start
  <2>1. PICK c \in Client, port \in Port :
          \/ StartConnect(c, port)
          \/ \E kind \in Kinds : StartWithoutSession(c, kind, port) \/ StartProbe(c, kind, port)
    BY <1>2 DEF Start
  <2>2. NoAnswer
    BY <2>1, QuietStart, ProbeStep
  <2>3. sealed \subseteq sealed' /\ UNCHANGED <<roster, log>>
    BY <2>1 DEF StartConnect, StartWithoutSession, StartProbe, SendData, serviceVars
  <2>. QED BY <1>1, <2>2, <2>3
<1>3. CASE Proceed \/ \E n \in DOMAIN calls : Timeout(n)
  <2>1. 1..MaxClock \subseteq Nat
    BY BoundsAssumption
  <2>2. NoAnswer
    BY <1>3, <2>1, InitiateStep, QuietEnd DEF Proceed
  <2>3. sealed \subseteq sealed' /\ UNCHANGED <<roster, log>>
    BY <1>3 DEF Proceed, Initiate, LookupFails, Timeout, serviceVars
  <2>. QED BY <1>1, <2>2, <2>3
<1>4. CASE Deliver
  <2>. PICK m \in net : \E rest \in {net, net \ {m}} : Taken(m, rest) /\ Receive(m, rest)
    BY <1>4 DEF Deliver
  <2>1. PICK rest \in {net, net \ {m}} : Taken(m, rest) /\ Receive(m, rest)
    OBVIOUS
  <2>2. faults' \in Nat
    BY <2>1, FaultType DEF Taken, IInv
  <2>. QED BY <2>1, <2>2, ReceiveRefines
<1>5. CASE RosterChanges
  <2>1. UNCHANGED <<calls, sealed, log>>
    BY <1>5 DEF RosterChanges, clientVars, serviceVars
  <2>2. UNCHANGED <<Requested, Flows, Succeeded>>
    BY <2>1 DEF Requested, Flows, Succeeded
  <2>3. (Permitted \subseteq Client \X Port)'
    BY PermittedType, PTL DEF IInv
  <2>. QED BY <2>2, <2>3 DEF SS!SSNext, SS!Permit
<1>6. CASE (\E m \in net : Lose(m)) \/ RendezvousCrash \/ UNCHANGED vars
  <2>1. NoAnswer
    BY <1>6, QuietRest, QuietCrash
  <2>2. sealed \subseteq sealed' /\ UNCHANGED <<roster, log>>
    BY <1>6 DEF Lose, RendezvousCrash, vars, serviceVars
  <2>. QED BY <1>1, <2>1, <2>2
<1>. QED BY <1>2, <1>3, <1>4, <1>5, <1>6 DEF Next

(***************************************************************************)
(* The tunnel implements SecureService for any number of clients, calls    *)
(* and faults: what the audit log calls a flow was requested by that peer  *)
(* and permitted at that moment, and an answered call was served           *)
(* (agent.js:156-195, 206-226).                                            *)
(***************************************************************************)
THEOREM TunnelImplements == Spec => ImplementsSecureService
<1>1. Init => SS!SSInit
  <2>. SUFFICES ASSUME Init PROVE SS!SSInit
    OBVIOUS
  <2>1. Permitted \subseteq Client \X Port
    BY IInvInitial, PermittedType DEF IInv
  <2>2. Requested = {} /\ Flows = {} /\ Succeeded = {}
    BY DEF Init, Requested, Flows, Succeeded
  <2>. QED BY <2>1, <2>2 DEF SS!SSInit
<1>. QED BY <1>1, IInvInitial, IInvStep, RefinesStep, PTL DEF Spec, ImplementsSecureService, SS!SSSpec
=============================================================================
