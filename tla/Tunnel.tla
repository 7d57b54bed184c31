------------------------------- MODULE Tunnel -------------------------------
(***************************************************************************)
(* Sessions and requests between client agents and the agent in front of   *)
(* finance-db (src/nodes/agent.js, src/crypto/noise.js), introduced by the *)
(* rendezvous (src/nodes/rendezvous.js).                                   *)
(*                                                                         *)
(* A 'connect' looks the service up, does a Noise handshake and sends one  *)
(* sealed request; a 'probe' seals a request under the session it finds,   *)
(* directly or through the rendezvous.  Commands are not awaited, so calls *)
(* of one client overlap.  Datagrams may be lost, duplicated, reordered.   *)
(*                                                                         *)
(* Cryptography is what it guarantees: the key of a session is named by    *)
(* the two ephemerals it was derived from, a box opens only with the key   *)
(* it was sealed with, and the static key inside an initiation identifies  *)
(* its client.  The roster in force is ControlPlane's; here it changes to  *)
(* any roster at any time.                                                 *)
(***************************************************************************)
EXTENDS Naturals, Sequences, FiniteSets

CONSTANTS
  Client, Port,
  Rosters,     \* the rosters that may come into force
  MaxCalls,    \* bound: calls made
  MaxOpen,     \* bound: calls in progress at once
  MaxClock,    \* bound: readings of Date.now()
  MaxRefresh,  \* bound: changes of the roster in force
  MaxFaults    \* bound: losses, duplicates, early timeouts, failed lookups,
               \* rendezvous crash

Roster == [enrolled: SUBSET Client,
           refused: SUBSET Client,              \* revoked, or the lease has run out
           policy: SUBSET (Client \X Port)]

ASSUME RostersAssumption == Rosters \subseteq Roster
ASSUME BoundsAssumption ==
  {MaxCalls, MaxOpen, MaxClock, MaxRefresh, MaxFaults} \subseteq Nat

VARIABLES
  \* clients
  calls,       \* every call ever made, by number
  lastNs,      \* the last timestamp a client has used
  outSessions, \* per client, its session with the service
  \* network
  rdvUp, net,
  \* the agent in front of the service
  roster, sessions,
  seenTimestamps,
  log,         \* its audit log
  \* history and budgets
  sealed,      \* every transport box that was ever sealed
  refreshes, faults

clientVars == <<calls, lastNs, outSessions>>
serviceVars == <<sessions, seenTimestamps, log>>
vars == <<clientVars, rdvUp, net, roster, serviceVars, sealed, refreshes, faults>>

\* the initiator's ephemeral belongs to call e, the responder's is its r-th
Key == [e: Nat, r: Nat]
NoKey == [e |-> 0, r |-> 0]
Session == [key: Key, ctr: Nat]
NoSession == [key |-> NoKey, ctr |-> 0]

Kinds == {"connect", "direct", "relayed"}
Awaiting == {"init", "data"}
Call == [client: Client, kind: Kinds, port: Port, key: Key, ts: Nat,
         at: {"lookup", "ok", "failed"} \cup Awaiting]

\* cid: the call and the one of its two asks that waits for the reply.  For a
\* relayed request it is the socket the rendezvous has opened for it.
Cid == [call: Nat, at: Awaiting]

InitMsg(n, c, ts) == [t |-> "init", cid |-> [call |-> n, at |-> "init"], client |-> c, ts |-> ts]
OkMsg(cid, k) == [t |-> "ok", cid |-> cid, key |-> k]
DataMsg(n, c, k, ctr, port) ==
  [t |-> "data", cid |-> [call |-> n, at |-> "data"], client |-> c,
   key |-> k, ctr |-> ctr, port |-> port]
EchoMsg(cid, k, ctr) == [t |-> "echo", cid |-> cid, key |-> k, ctr |-> ctr]

Messages ==
  [t: {"init"}, cid: Cid, client: Client, ts: Nat]
  \cup [t: {"ok"}, cid: Cid, key: Key]
  \cup [t: {"data"}, cid: Cid, client: Client, key: Key, ctr: Nat, port: Port]
  \cup [t: {"echo"}, cid: Cid, key: Key, ctr: Nat]

Box == [dir: {"request", "reply"}, key: Key, ctr: Nat, call: Nat]

\* "unknown" and "replayed" are silent to the peer
Reasons == {"unknown", "replayed", "no session", "AEAD", "admit"}

Entry == [type: {"handshake"}, peer: Client, key: Key]
         \cup [type: {"flow"}, peer: Client, port: Port, call: Nat]
         \cup [type: {"deny"}, peer: Client, reason: Reasons]

TypeOK ==
  /\ calls \in Seq(Call)
  /\ lastNs \in [Client -> Nat]
  /\ outSessions \in [Client -> Session]
  /\ rdvUp \in BOOLEAN
  /\ net \subseteq Messages
  /\ roster \in Roster
  /\ sessions \in [Client -> Session]
  /\ seenTimestamps \in [Client -> Nat]
  /\ log \subseteq Entry /\ IsFiniteSet(log)
  /\ sealed \subseteq Box
  /\ refreshes \in Nat /\ faults \in Nat
-----------------------------------------------------------------------------
(***************************************************************************)
(* Clients.                                                                *)
(***************************************************************************)
Open == {n \in DOMAIN calls : calls[n].at \notin {"ok", "failed"}}

NewCall(c, kind, port, at, k) ==
  [client |-> c, kind |-> kind, port |-> port, key |-> k, ts |-> 0, at |-> at]

CanStart == Len(calls) < MaxCalls /\ Cardinality(Open) < MaxOpen

\* faulty variant: the counter of the session is not advanced
NextCtrStuck(s) == s.ctr

\* ++s.ctr
NextCtr(s) == s.ctr + 1

\* send(): seal {port, payload} under the session's next counter
SendData(n, c, s, port) ==
  /\ outSessions' = [outSessions EXCEPT ![c] = [s EXCEPT !.ctr = NextCtr(s)]]
  /\ sealed' = sealed \cup {[dir |-> "request", key |-> s.key, ctr |-> NextCtr(s), call |-> n]}

Data(n, c, s, port) == DataMsg(n, c, s.key, NextCtr(s), port)

\* connect(): the handshake starts with a refresh and a lookup, both awaited
StartConnect(c, port) ==
  /\ CanStart
  /\ calls' = Append(calls, NewCall(c, "connect", port, "lookup", NoKey))
  /\ UNCHANGED <<lastNs, outSessions, rdvUp, net, roster, serviceVars, sealed, refreshes, faults>>

\* 'probe' without a session fails at once
StartWithoutSession(c, kind, port) ==
  /\ CanStart
  /\ kind # "connect"
  /\ outSessions[c] = NoSession
  /\ calls' = Append(calls, NewCall(c, kind, port, "failed", NoKey))
  /\ UNCHANGED <<lastNs, outSessions, rdvUp, net, roster, serviceVars, sealed, refreshes, faults>>

\* faulty variant: every request goes through the rendezvous
RelaysAll(kind) == TRUE

Relays(kind) == kind = "relayed"

\* 'probe': without the rendezvous a relayed one seals its box in vain
StartProbe(c, kind, port) ==
  LET n == Len(calls) + 1
      s == outSessions[c]
      sent == ~Relays(kind) \/ rdvUp
  IN  /\ CanStart
      /\ kind # "connect"
      /\ s # NoSession
      /\ calls' = Append(calls, NewCall(c, kind, port, IF sent THEN "data" ELSE "failed", s.key))
      /\ SendData(n, c, s, port)
      /\ net' = IF sent THEN net \cup {Data(n, c, s, port)} ELSE net
      /\ UNCHANGED <<lastNs, rdvUp, roster, serviceVars, refreshes, faults>>

\* faulty variant: the timestamp is the clock
Tai64nClock(c, ns) == ns

\* tai64n(): later than the last one, whatever the clock reads
Tai64n(c, ns) == IF ns <= lastNs[c] THEN lastNs[c] + 1 ELSE ns

\* the lookup is answered; initiate()
Initiate(n, ns) ==
  LET c == calls[n].client
      ts == Tai64n(c, ns)
  IN  /\ calls[n].at = "lookup"
      /\ rdvUp
      /\ lastNs' = [lastNs EXCEPT ![c] = ts]
      /\ calls' = [calls EXCEPT ![n].at = "init", ![n].ts = ts]
      /\ net' = net \cup {InitMsg(n, c, ts)}
      /\ UNCHANGED <<outSessions, rdvUp, roster, serviceVars, sealed, refreshes, faults>>

SpendFault(spent) ==
  /\ spent => faults < MaxFaults
  /\ faults' = IF spent THEN faults + 1 ELSE faults

\* the rendezvous cannot be reached; or it lives, but the service is not on the
\* client's roster or not known there
LookupFails(n) ==
  /\ calls[n].at = "lookup"
  /\ SpendFault(rdvUp)
  /\ calls' = [calls EXCEPT ![n].at = "failed"]
  /\ UNCHANGED <<lastNs, outSessions, rdvUp, net, roster, serviceVars, sealed, refreshes>>

\* the datagram is taken from the network, or a duplicate of it is left there
Taken(m, rest) ==
  \/ rest = net \ {m} /\ SpendFault(FALSE)
  \/ rest = net /\ SpendFault(TRUE)

\* faulty variant: a reply is taken for any ask that waits
WaitsForAny(m, n) == n \in DOMAIN calls /\ calls[n].at = m.cid.at

\* pending.get(m.cid)
Waits(m, n) == n \in DOMAIN calls /\ n = m.cid.call /\ calls[n].at = m.cid.at

\* complete(), then send() in the same turn; a response to another initiation
\* does not authenticate
ReceiveOk(m, n, rest) ==
  LET c == calls[n].client
      s == [key |-> m.key, ctr |-> 0]
  IN  /\ m.t = "ok"
      /\ Waits(m, n)
      /\ IF m.key.e = n
         THEN /\ calls' = [calls EXCEPT ![n].at = "data", ![n].key = m.key]
              /\ SendData(n, c, s, calls[n].port)
              /\ net' = rest \cup {Data(n, c, s, calls[n].port)}
         ELSE /\ calls' = [calls EXCEPT ![n].at = "failed"]
              /\ net' = rest
              /\ UNCHANGED <<outSessions, sealed>>
      /\ UNCHANGED <<lastNs, rdvUp, roster, serviceVars, refreshes>>

\* aeadOpen() with the key of the session the request was sealed under; a box
\* it does not open makes the command an error
ReceiveEcho(m, n, rest) ==
  /\ m.t = "echo"
  /\ Waits(m, n)
  /\ calls' = [calls EXCEPT ![n].at = IF m.key = calls[n].key THEN "ok" ELSE "failed"]
  /\ net' = rest
  /\ UNCHANGED <<lastNs, outSessions, rdvUp, roster, serviceVars, sealed, refreshes>>

\* nobody waits for this cid any more
ReceiveLate(m, rest) ==
  /\ m.t \in {"ok", "echo"}
  /\ \A n \in DOMAIN calls : ~Waits(m, n)
  /\ net' = rest
  /\ UNCHANGED <<clientVars, rdvUp, roster, serviceVars, sealed, refreshes>>

\* faulty variant: only the handshake has a timer
TimedHandshake(n) == calls[n].at = "init"

\* the 4 s timer of ask(), or the 2.5 s timer of the rendezvous
Timed(n) == calls[n].at \in Awaiting

Timeout(n) ==
  /\ Timed(n)
  /\ SpendFault(\E m \in net : m.cid = [call |-> n, at |-> calls[n].at])
  /\ calls' = [calls EXCEPT ![n].at = "failed"]
  /\ UNCHANGED <<lastNs, outSessions, rdvUp, net, roster, serviceVars, sealed, refreshes>>
-----------------------------------------------------------------------------
(***************************************************************************)
(* The agent in front of the service.                                      *)
(***************************************************************************)
Deny(p, reason) == log' = log \cup {[type |-> "deny", peer |-> p, reason |-> reason]}

\* faulty variant: timestamps are not compared
ReplayedNever(m) == FALSE

\* the timestamp must be newer than the last one of this static key
Replayed(m) == m.ts <= seenTimestamps[m.client]

\* an ephemeral of the responder's own for every initiation it accepts
FreshKey(m) ==
  [e |-> m.cid.call, r |-> 1 + Cardinality({x \in log : x.type = "handshake"})]

\* respond(): a static key not on the roster and a replay are dropped silently
ReceiveInit(m, rest) ==
  /\ m.t = "init"
  /\ IF m.client \notin roster.enrolled \/ Replayed(m)
     THEN /\ Deny(m.client, IF m.client \notin roster.enrolled THEN "unknown" ELSE "replayed")
          /\ net' = rest
          /\ UNCHANGED <<sessions, seenTimestamps>>
     ELSE /\ seenTimestamps' = [seenTimestamps EXCEPT ![m.client] = m.ts]
          /\ sessions' = [sessions EXCEPT ![m.client] = [key |-> FreshKey(m), ctr |-> 0]]
          /\ log' = log \cup {[type |-> "handshake", peer |-> m.client, key |-> FreshKey(m)]}
          /\ net' = rest \cup {OkMsg(m.cid, FreshKey(m))}
  /\ UNCHANGED <<clientVars, rdvUp, roster, sealed, refreshes>>

\* faulty variant: whoever has a session is let in
AdmitEnrolled(p, port) == p \in roster.enrolled

\* admit(peerId, port) = null
Admit(p, port) ==
  /\ p \in roster.enrolled
  /\ p \notin roster.refused
  /\ <<p, port>> \in roster.policy

\* the box is opened with the session of the peer named in the clear
ReceiveData(m, rest) ==
  LET s == sessions[m.client]
      refusal == CASE s = NoSession -> "no session"
                   [] s # NoSession /\ s.key # m.key -> "AEAD"
                   [] OTHER -> "admit"
      ctr == NextCtr(s) + 1000
  IN  /\ m.t = "data"
      /\ IF s = NoSession \/ s.key # m.key \/ ~Admit(m.client, m.port)
         THEN /\ Deny(m.client, refusal)
              /\ net' = rest
              /\ UNCHANGED <<sessions, sealed>>
         ELSE /\ log' = log \cup {[type |-> "flow", peer |-> m.client, port |-> m.port,
                                   call |-> m.cid.call]}
              /\ sessions' = [sessions EXCEPT ![m.client].ctr = NextCtr(s)]
              /\ sealed' = sealed \cup {[dir |-> "reply", key |-> s.key, ctr |-> ctr,
                                         call |-> m.cid.call]}
              /\ net' = rest \cup {EchoMsg(m.cid, s.key, ctr)}
      /\ UNCHANGED <<clientVars, rdvUp, roster, seenTimestamps, refreshes>>

\* refreshRoster brings another roster into force, or a lease runs out
RosterChanges ==
  /\ refreshes < MaxRefresh
  /\ refreshes' = refreshes + 1
  /\ roster' \in Rosters
  /\ UNCHANGED <<clientVars, rdvUp, net, serviceVars, sealed, faults>>
-----------------------------------------------------------------------------
(***************************************************************************)
(* The network and the rendezvous.                                         *)
(***************************************************************************)
Lose(m) ==
  /\ SpendFault(TRUE)
  /\ net' = net \ {m}
  /\ UNCHANGED <<clientVars, rdvUp, roster, serviceVars, sealed, refreshes>>

\* requests that are being relayed end with an error; nothing restarts it
RendezvousCrash ==
  /\ rdvUp
  /\ SpendFault(TRUE)
  /\ rdvUp' = FALSE
  /\ calls' = [n \in DOMAIN calls |->
                 IF Relays(calls[n].kind) /\ calls[n].at = "data"
                 THEN [calls[n] EXCEPT !.at = "failed"] ELSE calls[n]]
  /\ UNCHANGED <<lastNs, outSessions, net, roster, serviceVars, sealed, refreshes>>
-----------------------------------------------------------------------------
Init ==
  /\ calls = <<>>
  /\ lastNs = [c \in Client |-> 0]
  /\ outSessions = [c \in Client |-> NoSession]
  /\ rdvUp = TRUE /\ net = {}
  /\ roster \in Rosters
  /\ sessions = [c \in Client |-> NoSession]
  /\ seenTimestamps = [c \in Client |-> 0]
  /\ log = {} /\ sealed = {}
  /\ refreshes = 0 /\ faults = 0

Start ==
  \E c \in Client, port \in Port :
    \/ StartConnect(c, port)
    \/ \E kind \in Kinds : StartWithoutSession(c, kind, port) \/ StartProbe(c, kind, port)

Proceed ==
  \E n \in DOMAIN calls :
    \/ \E ns \in 1..MaxClock : Initiate(n, ns)
    \/ LookupFails(n)

Receive(m, rest) ==
  \/ ReceiveInit(m, rest) \/ ReceiveData(m, rest)
  \/ \E n \in DOMAIN calls : ReceiveOk(m, n, rest) \/ ReceiveEcho(m, n, rest)
  \/ ReceiveLate(m, rest)

Deliver == \E m \in net : \E rest \in {net, net \ {m}} : Taken(m, rest) /\ Receive(m, rest)

Next ==
  \/ Start \/ Proceed \/ Deliver
  \/ \E n \in DOMAIN calls : Timeout(n)
  \/ RosterChanges
  \/ \E m \in net : Lose(m)
  \/ RendezvousCrash

Spec == Init /\ [][Next]_vars

(***************************************************************************)
(* The agents' event loops run and a lookup is answered; a datagram that   *)
(* is not lost arrives.  Commands, faults and roster changes may never     *)
(* happen, and nothing obliges a timer to beat an answer.                  *)
(***************************************************************************)
Fairness ==
  /\ WF_vars(Proceed) /\ WF_vars(Deliver)
  /\ WF_vars(\E n \in DOMAIN calls : Timeout(n))

FairSpec == Spec /\ Fairness
-----------------------------------------------------------------------------
(***************************************************************************)
(* Properties.                                                             *)
(***************************************************************************)

(***************************************************************************)
(* ChaCha20-Poly1305 is only sound if a key and nonce are used once.       *)
(* Whatever calls overlap and whatever is duplicated, no two boxes of one  *)
(* direction share key and counter (agent.js:178, 224), although the reply *)
(* counter and the request counter restart with every session.             *)
(***************************************************************************)
NonceUsedOnce ==
  \A a, b \in sealed : a.dir = b.dir /\ a.key = b.key /\ a.ctr = b.ctr => a = b

(***************************************************************************)
(* A session that a client holds was granted to it, and unless the service *)
(* has accepted a later initiation of that client both ends hold the same  *)
(* key: no duplicate or delayed initiation takes a session away            *)
(* (noise.js:132-137).                                                     *)
(***************************************************************************)
SessionsAgree ==
  \A c \in Client :
    LET k == outSessions[c].key
    IN  k # NoKey =>
          /\ [type |-> "handshake", peer |-> c, key |-> k] \in log
          /\ calls[k.e].ts <= seenTimestamps[c]
          /\ calls[k.e].ts = seenTimestamps[c] => sessions[c].key = k

\* what the roster in force lets through, and the requests and flows as the
\* abstract specification sees them
Permitted == {cp \in roster.policy : cp[1] \in roster.enrolled \ roster.refused}
Requested ==
  {[call |-> b.call, client |-> calls[b.call].client, port |-> calls[b.call].port] :
     b \in {x \in sealed : x.dir = "request"}}
Flows ==
  {[call |-> x.call, client |-> x.peer, port |-> x.port] : x \in {y \in log : y.type = "flow"}}

Succeeded == {n \in DOMAIN calls : calls[n].at = "ok"}

SS == INSTANCE SecureService WITH
        permitted <- Permitted, requests <- Requested, served <- Flows,
        answered <- Succeeded

(***************************************************************************)
(* The tunnel implements SecureService: whatever is lost, duplicated or    *)
(* late, a flow in the audit log is a request that this peer sealed for    *)
(* this port, admitted by the roster of that moment and not by the one its *)
(* session was made under, and a call ends well only if it was served.     *)
(***************************************************************************)
ImplementsSecureService == SS!SSSpec

(***************************************************************************)
(* Every call ends: its reply comes, or a timer gives up on it.            *)
(***************************************************************************)
EveryCallEnds == \A n \in 1..MaxCalls : (n \in Open) ~> (n \notin Open)

PermittedCalls == {n \in DOMAIN calls : <<calls[n].client, calls[n].port>> \in Permitted}

(***************************************************************************)
(* A call that runs alone, permitted and without a fault succeeds; in      *)
(* particular a reconnection is not taken for a replay, however the clock  *)
(* reads (noise.js:61-65), and the session it leaves behind serves the     *)
(* probes after it.                                                        *)
(***************************************************************************)
LoneCallSucceeds ==
  \A n \in 1..MaxCalls :
    (n \in Open \cap PermittedCalls /\ faults = 0)
      ~> (n \in Succeeded \/ n \notin PermittedCalls \/ faults > 0)

\* a fault other than the crash of the rendezvous
Disturbed == faults > (IF rdvUp THEN 0 ELSE 1)

(***************************************************************************)
(* "Once the peers are introduced it drops out of the path"                *)
(* (rendezvous.js:6-7): a call that is past its lookup and does not ask to *)
(* be relayed succeeds whether the rendezvous lives or dies.               *)
(***************************************************************************)
IntroducedCallSucceeds ==
  \A n \in 1..MaxCalls :
    (n \in Open \cap PermittedCalls /\ ~Disturbed
       /\ calls[n].at \in Awaiting /\ calls[n].kind # "relayed")
      ~> (n \in Succeeded \/ n \notin PermittedCalls \/ Disturbed)
-----------------------------------------------------------------------------
(***************************************************************************)
(* The inductive invariant behind the safety properties.                   *)
(***************************************************************************)
Handshakes == {x \in log : x.type = "handshake"}
Handshake(c, k) == [type |-> "handshake", peer |-> c, key |-> k]
Flow(n) == [type |-> "flow", peer |-> calls[n].client, port |-> calls[n].port, call |-> n]

\* calls that are past their handshake, if they ever had one
Established == {n \in DOMAIN calls : calls[n].at \notin {"lookup", "init"}}

\* a client's timestamps differ from call to call; a lookup comes before them
TimestampsDiffer ==
  /\ \A n \in DOMAIN calls :
       /\ calls[n].ts <= lastNs[calls[n].client]
       /\ calls[n].at = "lookup" => calls[n].ts = 0
  /\ \A m, n \in DOMAIN calls :
       calls[m].client = calls[n].client /\ calls[m].ts = calls[n].ts /\ calls[n].ts > 0 => m = n

\* an initiation is accepted once, by its own client's timestamp
HandshakesOnce ==
  /\ \A x \in Handshakes :
       /\ x.key.e \in DOMAIN calls
       /\ calls[x.key.e].client = x.peer
       /\ calls[x.key.e].ts \in 1..seenTimestamps[x.peer]
       /\ sessions[x.peer] # NoSession
  /\ \A x, y \in Handshakes : x.key.e = y.key.e => x = y

\* either end's session is one that was granted, the service's the newest one
ServiceGranted ==
  \A c \in Client : sessions[c] # NoSession =>
    /\ Handshake(c, sessions[c].key) \in log
    /\ calls[sessions[c].key.e].ts = seenTimestamps[c]

ClientGranted ==
  \A c \in Client : outSessions[c] # NoSession =>
    /\ Handshake(c, outSessions[c].key) \in log
    /\ outSessions[c].key.e \in Established

\* datagrams come from the calls they name and the entries they answer
Sourced(m) ==
  LET n == m.cid.call
  IN  /\ n \in DOMAIN calls
      /\ m.t = "init" => /\ m.cid.at = "init"
                         /\ m.client = calls[n].client
                         /\ m.ts = calls[n].ts /\ m.ts > 0
      /\ m.t = "ok" => /\ m.cid.at = "init"
                       /\ m.key.e = n
                       /\ Handshake(calls[n].client, m.key) \in log
      /\ m.t = "data" => /\ m.cid.at = "data"
                         /\ m.client = calls[n].client /\ m.port = calls[n].port
                         /\ m.key = calls[n].key
                         /\ [dir |-> "request", key |-> m.key, ctr |-> m.ctr, call |-> n] \in sealed
      /\ m.t = "echo" => /\ m.cid.at = "data"
                         /\ m.key = calls[n].key
                         /\ Flow(n) \in log

NetSourced == \A m \in net : Sourced(m)

\* boxes are sealed under granted keys, with counters the session has reached
UnderSession(b) ==
  LET c == calls[b.call].client
  IN  /\ b.call \in Established
      /\ b.key = calls[b.call].key
      /\ Handshake(c, b.key) \in log
      /\ b.key.e \in Established
      /\ IF b.dir = "request"
         THEN outSessions[c].key = b.key => b.ctr <= outSessions[c].ctr
         ELSE sessions[c].key = b.key => b.ctr <= sessions[c].ctr + 1000

SealedUnderSessions == \A b \in sealed : UnderSession(b)

\* a flow was requested, an answered call was served
FlowsRequested ==
  /\ \A x \in log : x.type = "flow" =>
       /\ x.call \in DOMAIN calls /\ x = Flow(x.call)
       /\ \E b \in sealed : b.dir = "request" /\ b.call = x.call
  /\ \A n \in Succeeded : Flow(n) \in log

IInv ==
  /\ TypeOK
  /\ TimestampsDiffer /\ HandshakesOnce /\ ServiceGranted /\ ClientGranted
  /\ NetSourced /\ SealedUnderSessions /\ FlowsRequested
  /\ NonceUsedOnce
=============================================================================
