---------------------------- MODULE ControlPlane ----------------------------
(***************************************************************************)
(* Rosters and emergency revocations on their way from the officers to the *)
(* enforcement point.  Three programs and the links between them:          *)
(*                                                                         *)
(*   console  src/apps/console/server.js builds, signs and publishes       *)
(*            events.  handle(cmd) is not awaited by its caller, so several*)
(*            publishes can be outstanding at once.                        *)
(*   relay    src/nodes/directory.js verifies, stores and answers.         *)
(*   agent    src/nodes/agent.js, the one in front of finance-db: fetches  *)
(*            the roster, then the revocations, and admits peers by them.  *)
(*            A 'refresh' line starts refreshRoster without waiting for    *)
(*            the one before, so its awaits interleave.                    *)
(*                                                                         *)
(* Time is counted in seconds.  Events are those of Nip01.                 *)
(***************************************************************************)
EXTENDS Nip01, Sequences

CONSTANTS
  Alice, Rogue,   \* officer-laptop and unknown-device
  LeaseSecs,      \* length of the lease the 'lease' command grants
  MaxCmds,        \* bound: publishes the console starts, boot included
  MaxPending,     \* bound: publishes outstanding at once
  MaxTasks,       \* bound: refreshes running at once in the agent
  MaxNow,         \* bound: the clock
  MaxFaults       \* bound: timeouts of calls to a live relay, and its crash

ASSUME PeerAssumption == Alice \in Peer /\ Rogue \in Peer /\ Alice # Rogue
ASSUME BoundAssumption ==
  /\ {MaxCmds, MaxPending, MaxTasks, MaxNow, MaxFaults} \subseteq Nat
  /\ LeaseSecs \in Nat \ {0}

VARIABLES
  \* console
  version,     \* the counter `version`
  conRoster,   \* `roster`: a body and, per peer, the command that made the object
  jobs,        \* publishes that have not resolved
  cmds,        \* publishes started so far
  \* links of the console's WebSocket, in order
  toRelay, acks,
  \* relay
  relayUp, store,
  now,
  \* agent
  asked,       \* 'refresh' lines written to its stdin
  served,      \* of those, the ones read
  tasks,       \* refreshRoster calls in progress
  roster,      \* the roster in force
  audit,       \* emergency_revocation_applied entries, with the version in force
  \* history and fault budget
  built,       \* every event that was ever built
  faults

consoleVars == <<version, conRoster, jobs, cmds>>
linkVars == <<toRelay, acks>>
relayVars == <<relayUp, store>>
agentVars == <<asked, served, tasks, roster, audit>>
vars == <<consoleVars, linkVars, relayVars, now, agentVars, built, faults>>

Commands == {"restore", "enrollOne", "enrollTwo", "lease", "revoke"}

\* A roster in the console's memory.  enroll commands put the old peer objects
\* into the new roster, so one object can be reached from several rosters.
LiveRoster == [body: Body, obj: [Peer -> Nat]]
NullRoster == [body |-> NoRoster, obj |-> [p \in Peer |-> 0]]

PublishJob == [cmd: Commands, n: Nat, ev: Event, registered: BOOLEAN, content: LiveRoster]

\* A refresh awaiting the answer to its roster query or to its revocation query
Task == [n: Nat, at: {"roster", "revocations"}, eose: BOOLEAN, got: SUBSET Event]

\* ["OK", id, ok]
Ack == [ev: Event, ok: BOOLEAN]

AuditEntry == [peer: Peer, version: Nat]

TypeOK ==
  /\ version \in Nat /\ cmds \in Nat
  /\ conRoster \in LiveRoster
  /\ jobs \subseteq PublishJob
  /\ toRelay \in Seq(Event) /\ acks \in Seq(Ack)
  /\ relayUp \in BOOLEAN /\ store \subseteq Event
  /\ now \in Nat
  /\ asked \in Nat /\ served \in Nat
  /\ tasks \subseteq Task
  /\ roster \in Body
  /\ audit \subseteq AuditEntry
  /\ built \subseteq Event
  /\ faults \in Nat
-----------------------------------------------------------------------------
(***************************************************************************)
(* Console.                                                                *)
(***************************************************************************)

\* okWaiters is keyed by event id: publishing the same event again takes the
\* waiter away from the first publish, which then only its timer resolves
Unregister(js, ev) ==
  {IF j.ev = ev THEN [j EXCEPT !.registered = FALSE] ELSE j : j \in js}

Publish(cmd, ev, content) ==
  /\ cmds < MaxCmds
  /\ Cardinality(jobs) < MaxPending
  /\ cmds' = cmds + 1
  /\ jobs' = Unregister(jobs, ev) \cup
             {[cmd |-> cmd, n |-> cmds + 1, ev |-> ev, registered |-> TRUE, content |-> content]}
  /\ toRelay' = IF relayUp THEN Append(toRelay, ev) ELSE toRelay
  /\ built' = built \cup {ev}
  /\ UNCHANGED <<conRoster, acks, relayVars, now, agentVars, faults>>

\* publishRoster(body, signerCount): the version is taken before the publish
PublishRoster(cmd, enrolled, lease, policy, revoked, obj, signers) ==
  LET b == [version |-> version + 1, enrolled |-> enrolled, lease |-> lease,
            policy |-> policy, revoked |-> revoked]
  IN  /\ version' = version + 1
      /\ Publish(cmd, RosterEvent(b, signers, now + version + 1), [body |-> b, obj |-> obj])

\* the object the console makes for a peer in command number cmds + 1
Fresh(p) == [conRoster.obj EXCEPT ![p] = cmds + 1]

\* A peer that is already present stays first in the list and is the one found
WithRogue == IF Rogue \in conRoster.body.enrolled THEN conRoster.obj ELSE Fresh(Rogue)

HasRoster == conRoster.body.version > 0

\* [...roster.peers, rogue], signed by one share only
EnrollOne ==
  /\ HasRoster
  /\ PublishRoster("enrollOne", conRoster.body.enrolled \cup {Rogue}, conRoster.body.lease,
                   conRoster.body.policy, conRoster.body.revoked, WithRogue, 1)

\* the same with a rule for the newcomer, signed by two shares
EnrollTwo ==
  /\ HasRoster
  /\ PublishRoster("enrollTwo", conRoster.body.enrolled \cup {Rogue}, conRoster.body.lease,
                   conRoster.body.policy \cup {Rogue}, conRoster.body.revoked, WithRogue, 2)

\* {...p, leaseExpires} is a new object for Alice
Lease ==
  /\ HasRoster
  /\ PublishRoster("lease", conRoster.body.enrolled,
                   [conRoster.body.lease EXCEPT ![Alice] = now + LeaseSecs],
                   conRoster.body.policy, conRoster.body.revoked, Fresh(Alice), 2)

BaselineBody(v) ==
  [version |-> v, enrolled |-> {Alice}, lease |-> [p \in Peer |-> 0],
   policy |-> {Alice}, revoked |-> {}]

\* also the roster that boot() publishes
Restore ==
  LET b == BaselineBody(version + 1)
  IN  PublishRoster("restore", b.enrolled, b.lease, b.policy, b.revoked,
                    [p \in Peer |-> cmds + 1], 2)

\* publishRevocation(idx, [p]) is stamped with the counter
Revoke(o, p) ==
  /\ UNCHANGED version
  /\ Publish("revoke", RevocationEvent(o, p, version, now), NullRoster)

\* for (const p of roster.peers) if (peerIds.includes(p.id)) p.revoked = true
MarkObject(r, p, k) ==
  IF p \in r.body.enrolled /\ r.obj[p] = k THEN [r EXCEPT !.body.revoked = @ \cup {p}] ELSE r

MarkEverywhere(js, p, k) ==
  {[j EXCEPT !.content = MarkObject(@, p, k)] : j \in js}

\* faulty variant: revoke does not have the agent refresh
RefreshesOnRoster(cmd) == cmd \notin {"enrollOne", "revoke"}

\* the commands that end with a 'refresh' of the agent
Refreshes(cmd) == cmd # "enrollOne"

\* The continuation after `await publish(ev)`, and the 'refresh' line written to
\* the agent afterwards.
Resolve(j, js, ok) ==
  /\ IF j.cmd = "revoke"
     THEN LET p == j.ev.content.revoke
              k == conRoster.obj[p]
          IN  /\ UNCHANGED version
              /\ conRoster' = IF ok THEN MarkObject(conRoster, p, k) ELSE conRoster
              /\ jobs' = IF ok /\ p \in conRoster.body.enrolled
                         THEN MarkEverywhere(js, p, k) ELSE js
     ELSE /\ version' = IF ok THEN version ELSE version - 1
          /\ conRoster' = IF ok THEN j.content ELSE conRoster
          /\ jobs' = js
  /\ asked' = IF Refreshes(j.cmd) THEN asked + 1 ELSE asked

\* faulty variant: an OK is taken for whatever is being published
WaitsForAny(j, ev) == j.registered

\* okWaiters.get(id)
Waits(j, ev) == j.registered /\ j.ev = ev

\* an ["OK", id, ok] arrives; without a waiter for its id it is dropped
ConsoleAck ==
  /\ acks # <<>>
  /\ acks' = Tail(acks)
  /\ \/ \E j \in jobs : /\ Waits(j, Head(acks).ev)
                        /\ Resolve(j, jobs \ {j}, Head(acks).ok)
     \/ /\ \A j \in jobs : ~Waits(j, Head(acks).ev)
        /\ UNCHANGED <<version, conRoster, jobs, asked>>
  /\ UNCHANGED <<cmds, toRelay, relayVars, now, served, tasks, roster, audit, built, faults>>

\* A timeout of a call that the relay could still answer uses up a fault
SpendFault(answerable) ==
  /\ answerable => faults < MaxFaults
  /\ faults' = IF answerable THEN faults + 1 ELSE faults

\* on its way to the relay, or its OK on the way back
InFlight(ev) ==
  \/ \E i \in DOMAIN toRelay : toRelay[i] = ev
  \/ \E i \in DOMAIN acks : acks[i].ev = ev

\* the 3 s timer; timers run out in the order the publishes were sent in, and
\* each deletes whatever waiter its event id has by then
PublishTimeout ==
  /\ \E j \in jobs :
       /\ \A i \in jobs : j.n <= i.n
       /\ SpendFault(InFlight(j.ev))
       /\ Resolve(j, Unregister(jobs \ {j}, j.ev), FALSE)
  /\ UNCHANGED <<cmds, linkVars, relayVars, now, served, tasks, roster, audit, built>>
-----------------------------------------------------------------------------
(***************************************************************************)
(* Relay.                                                                  *)
(***************************************************************************)

\* the answer is OK true for every event that verifies, kept or not
RelayEvent ==
  /\ relayUp
  /\ toRelay # <<>>
  /\ LET ev == Head(toRelay)
         ok == VerifyEvent(ev)
     IN  /\ store' = IF ok THEN Store(store, ev) ELSE store
         /\ acks' = Append(acks, [ev |-> ev, ok |-> ok])
  /\ toRelay' = Tail(toRelay)
  /\ UNCHANGED <<consoleVars, relayUp, now, agentVars, built, faults>>

\* Everything is in memory, nothing restarts the relay and no client reconnects
RelayCrash ==
  /\ relayUp
  /\ faults < MaxFaults
  /\ faults' = faults + 1
  /\ relayUp' = FALSE
  /\ store' = {}
  /\ toRelay' = <<>> /\ acks' = <<>>
  /\ UNCHANGED <<consoleVars, now, agentVars, built>>
-----------------------------------------------------------------------------
(***************************************************************************)
(* Agent.                                                                  *)
(***************************************************************************)

Query(n, at) == [n |-> n, at |-> at, eose |-> FALSE, got |-> {}]

StartRefresh ==
  /\ served < asked
  /\ Cardinality(tasks) < MaxTasks
  /\ served' = served + 1
  /\ tasks' = tasks \cup {Query(served + 1, "roster")}
  /\ UNCHANGED <<consoleVars, linkVars, relayVars, now, asked, roster, audit, built, faults>>

Matching(t) ==
  {ev \in store : IF t.at = "roster" THEN MatchesRoster(ev) ELSE MatchesRevocation(ev)}

\* REQ: the stored matches and EOSE are sent in one turn of the relay
AnswerQuery(t) ==
  /\ relayUp /\ ~t.eose
  /\ tasks' = (tasks \ {t}) \cup {[t EXCEPT !.eose = TRUE, !.got = Matching(t)]}
  /\ UNCHANGED <<consoleVars, linkVars, relayVars, now, asked, served, roster, audit, built, faults>>

\* What query() resolves with: everything on EOSE, or what had come in so far
\* when its 3 s timer ran out first
Received(t, answer) ==
  \/ t.eose /\ answer = t.got /\ UNCHANGED faults
  \/ answer \in SUBSET t.got /\ answer # t.got /\ SpendFault(relayUp)
  \/ ~t.eose /\ answer = {} /\ SpendFault(relayUp)

\* faulty variants: no stale check; only a higher version is taken
UsableAnyVersion(answer) == {ev \in answer : VerifyEvent(ev)}
UsableNewerOnly(answer) ==
  {ev \in answer : VerifyEvent(ev) /\ ev.content.version > roster.version}

Usable(answer) == {ev \in answer : VerifyEvent(ev) /\ ev.content.version >= roster.version}

\* lines 70-83: no roster, a bad signature or a lower version ends the refresh;
\* otherwise the roster is replaced as it was signed and the second query sent
GetRoster(t, answer) ==
  /\ t.at = "roster"
  /\ Received(t, answer)
  /\ \/ /\ Usable(answer) = {}
        /\ tasks' = tasks \ {t}
        /\ UNCHANGED roster
     \/ \E ev \in Usable(answer) :
          /\ roster' = ev.content
          /\ tasks' = (tasks \ {t}) \cup {Query(t.n, "revocations")}
  /\ UNCHANGED <<consoleVars, linkVars, relayVars, now, asked, served, audit, built>>

\* faulty variants: the version stamp is ignored; absent peers are named too
NamedByAnyVersion(answer) ==
  {ev.content.revoke : ev \in {e \in answer : VerifyEvent(e)}} \cap roster.enrolled
NamedByAbsent(answer) ==
  {ev.content.revoke : ev \in {e \in answer : /\ VerifyEvent(e)
                                              /\ ~(roster.version > e.content.rosterVersion)}}

\* peers on the roster that a received revocation of this version or later names
NamedBy(answer) ==
  {ev.content.revoke : ev \in {e \in answer : /\ VerifyEvent(e)
                                              /\ ~(roster.version > e.content.rosterVersion)}}
  \cap roster.enrolled

\* lines 86-104
GetRevocations(t, answer) ==
  /\ t.at = "revocations"
  /\ Received(t, answer)
  /\ roster' = [roster EXCEPT !.revoked = @ \cup NamedBy(answer)]
  /\ audit' = audit \cup {[peer |-> p, version |-> roster.version] :
                            p \in NamedBy(answer) \ roster.revoked}
  /\ tasks' = tasks \ {t}
  /\ UNCHANGED <<consoleVars, linkVars, relayVars, now, asked, served, built>>

\* admit(peerId, port) for the port the policy names
Admits(p) ==
  /\ p \in roster.enrolled
  /\ p \notin roster.revoked
  /\ roster.lease[p] # 0 => now <= roster.lease[p]
  /\ p \in roster.policy
-----------------------------------------------------------------------------
Tick ==
  /\ now < MaxNow
  /\ now' = now + 1
  /\ UNCHANGED <<consoleVars, linkVars, relayVars, agentVars, built, faults>>

\* boot() has just published the first roster
BootEvent == RosterEvent(BaselineBody(1), 2, 1)

Init ==
  /\ version = 1
  /\ conRoster = NullRoster
  /\ jobs = {[cmd |-> "restore", n |-> 1, ev |-> BootEvent, registered |-> TRUE,
              content |-> [body |-> BaselineBody(1), obj |-> [p \in Peer |-> 1]]]}
  /\ cmds = 1
  /\ toRelay = <<BootEvent>> /\ acks = <<>>
  /\ relayUp = TRUE /\ store = {}
  /\ now = 0
  /\ asked = 0 /\ served = 0 /\ tasks = {}
  /\ roster = NoRoster
  /\ audit = {}
  /\ built = {BootEvent}
  /\ faults = 0

ConsoleCommand ==
  \/ EnrollOne \/ EnrollTwo \/ Lease \/ Restore
  \/ \E o \in Officer, p \in Peer : Revoke(o, p)

AgentStep ==
  \/ StartRefresh
  \/ \E t \in tasks : AnswerQuery(t)
  \/ \E t \in tasks : \E answer \in SUBSET t.got : GetRoster(t, answer) \/ GetRevocations(t, answer)

Next ==
  \/ ConsoleCommand \/ ConsoleAck \/ PublishTimeout
  \/ RelayEvent \/ RelayCrash
  \/ AgentStep
  \/ Tick

Spec == Init /\ [][Next]_vars

(***************************************************************************)
(* A live event loop runs its callbacks and a live relay reads its socket. *)
(* Commands, faults and the clock are not obliged to happen; while the     *)
(* relay is up nothing obliges a timer to beat an answer either.           *)
(***************************************************************************)
Fairness ==
  /\ WF_vars(ConsoleAck) /\ WF_vars(PublishTimeout)
  /\ WF_vars(RelayEvent)
  /\ WF_vars(AgentStep)

FairSpec == Spec /\ Fairness
-----------------------------------------------------------------------------
(***************************************************************************)
(* Properties.                                                             *)
(***************************************************************************)

\* two bodies of one version that differ in revoked peers at most
SameGrants(a, b) ==
  a.version = b.version /\ a.enrolled = b.enrolled /\ a.lease = b.lease /\ a.policy = b.policy

\* what a quorum of shares has signed, and what an officer has signed
QuorumSigned == {ev.content : ev \in {e \in built : e.pubkey = Group /\ e.signers >= Threshold}}
OfficerSigned == {ev.content : ev \in {e \in built : e.pubkey \in Officer}}

(***************************************************************************)
(* Whatever events, acknowledgements and refreshes interleave, a peer the  *)
(* agent would admit (agent.js admit) is enrolled, allowed by policy and   *)
(* unrevoked, with the same lease, on a roster of that version which a     *)
(* quorum signed.  A roster signed by fewer shares (enrollOne) grants      *)
(* nothing, and no access is assembled from two rosters.                   *)
(***************************************************************************)
GrantsWithinQuorum ==
  \A p \in Peer : Admits(p) =>
    \E b \in QuorumSigned : /\ b.version = roster.version
                            /\ p \in (b.enrolled \cap b.policy) \ b.revoked
                            /\ b.lease[p] = roster.lease[p]

(***************************************************************************)
(* Taking access away costs one officer, but it costs one: a peer that is  *)
(* revoked in force is revoked on a quorum-signed roster of that version,  *)
(* or some officer signed a revocation that covers the version             *)
(* (agent.js:89-95) and the agent has logged that it applied it.           *)
(***************************************************************************)
NarrowingAuthorised ==
  \A p \in roster.revoked :
    \/ \E b \in QuorumSigned : b.version = roster.version /\ p \in b.revoked
    \/ /\ \E r \in OfficerSigned : r.revoke = p /\ r.rosterVersion >= roster.version
       /\ [peer |-> p, version |-> roster.version] \in audit

(***************************************************************************)
(* The console shows `roster` as what the network runs on (server.js:107). *)
(* With several publishes outstanding and acknowledgements coming in late, *)
(* it never shows one that no quorum signed: an OK is taken for the event  *)
(* it names only.                                                          *)
(***************************************************************************)
ConsoleShowsSigned ==
  conRoster # NullRoster =>
    \E b \in QuorumSigned : SameGrants(conRoster.body, b)

(***************************************************************************)
(* agent.js:79 "ignore stale": the roster in force never goes back to a    *)
(* lower version, although refreshes overlap, the relay may answer from    *)
(* before a newer publish and the console counts its version down again.   *)
(***************************************************************************)
VersionMonotone == [][roster'.version >= roster.version]_vars

\* Rosters and revocations as the abstract specification sees them
AC == INSTANCE AccessControl WITH
        Bodies <- Body, Revocations <- Revocation, Nothing <- NoRoster,
        approved <- QuorumSigned, ordered <- OfficerSigned, inForce <- roster

(***************************************************************************)
(* The control plane implements AccessControl.                             *)
(***************************************************************************)
ImplementsAccessControl == AC!ACSpec

(***************************************************************************)
(* A revocation the relay holds reaches the enforcement point: with the    *)
(* relay up and no call timing out, the agent comes to refuse the peer, or *)
(* runs a roster the revocation no longer covers, or another revocation of *)
(* the same officer has taken its place at the relay.                      *)
(***************************************************************************)
RevocationReaches ==
  \A o \in Officer, p \in Peer, v \in 1..MaxCmds, c \in 0..MaxNow :
    LET r == RevocationEvent(o, p, v, c)
    IN  (r \in store) ~> \/ r \notin store
                         \/ roster.version > v
                         \/ ~Admits(p)
-----------------------------------------------------------------------------
(***************************************************************************)
(* The inductive invariant behind the safety properties.                   *)
(***************************************************************************)

\* commands have numbers of their own
JobsNumbered ==
  /\ \A j \in jobs : j.n \in 1..cmds
  /\ \A i, j \in jobs : i.n = j.n => i = j

\* Rosters that are being published.  Each has taken one from the counter, and
\* gives back no more than that, so `version--` never makes it negative.
Outstanding == {n \in 1..cmds : \E j \in jobs : j.n = n /\ j.cmd # "revoke"}
VersionCountsPublishes == Cardinality(Outstanding) <= version

\* what a publish keeps in memory is what it sent, but for marks set since
JobsMatchEvents ==
  \A j \in jobs :
    /\ j.ev \in built
    /\ IF j.cmd = "revoke" THEN j.ev \in RevocationEvents
       ELSE /\ j.ev \in RosterEvents
            /\ SameGrants(j.content.body, j.ev.content)

\* nothing on a link, in the relay or in an answer that was not built, and the
\* relay vouches only for events that verify
EventsSourced ==
  /\ \A i \in DOMAIN toRelay : toRelay[i] \in built
  /\ \A i \in DOMAIN acks : acks[i].ev \in built /\ (acks[i].ok => VerifyEvent(acks[i].ev))
  /\ store \subseteq built
  /\ \A t \in tasks : t.got \subseteq {ev \in built : IF t.at = "roster" THEN MatchesRoster(ev)
                                                      ELSE MatchesRevocation(ev)}

\* the roster in force is one signed body, narrowed by logged revocations
NarrowedFrom(b) ==
  /\ SameGrants(roster, b)
  /\ b.revoked \subseteq roster.revoked
  /\ \A p \in roster.revoked \ b.revoked :
       /\ \E r \in OfficerSigned : r.revoke = p /\ r.rosterVersion >= roster.version
       /\ [peer |-> p, version |-> roster.version] \in audit

RosterAuthorised == roster = NoRoster \/ \E b \in QuorumSigned : NarrowedFrom(b)

IInv ==
  /\ TypeOK
  /\ JobsNumbered /\ VersionCountsPublishes /\ JobsMatchEvents
  /\ EventsSourced
  /\ RosterAuthorised
  /\ ConsoleShowsSigned
=============================================================================
