------------------------- MODULE ControlPlaneProofs -------------------------
(***************************************************************************)
(* Safety of the control plane for every set of peers and officers, every  *)
(* threshold up to two shares and every bound.  The invariant IInv of      *)
(* ControlPlane is shown inductive one action at a time.                   *)
(***************************************************************************)
EXTENDS ControlPlane, FiniteSetTheorems, TLAPS

-----------------------------------------------------------------------------
(***************************************************************************)
(* What the constructors build.                                            *)
(***************************************************************************)

\* `roster = null` is a body and a roster in memory, though of no version
LEMMA NoRosterType == NoRoster \in Body /\ NullRoster \in LiveRoster
BY DEF NoRoster, NullRoster, Body, LiveRoster

\* the baseline is a body for every version
LEMMA BaselineType == ASSUME NEW v \in Nat PROVE BaselineBody(v) \in Body
BY PeerAssumption DEF BaselineBody, Body

\* nostr.build of a roster body gives a roster event
LEMMA RosterEventType ==
  ASSUME NEW b \in Body, NEW k \in Nat, NEW t \in Nat
  PROVE  /\ RosterEvent(b, k, t) \in RosterEvents
         /\ RosterEvent(b, k, t) \in Event
         /\ RosterEvent(b, k, t).content = b
BY DEF RosterEvent, RosterEvents, Event

\* nostr.build of a revocation gives a revocation event
LEMMA RevocationEventType ==
  ASSUME NEW o \in Officer, NEW p \in Peer, NEW v \in Nat, NEW t \in Nat
  PROVE  /\ RevocationEvent(o, p, v, t) \in RevocationEvents
         /\ RevocationEvent(o, p, v, t) \in Event
BY DEF RevocationEvent, RevocationEvents, Revocation, Event

\* an event's author tells what it contains
LEMMA EventByAuthor ==
  ASSUME NEW ev \in Event
  PROVE  /\ ev.pubkey = Group => ev \in RosterEvents /\ ev.content \in Body
         /\ ev.pubkey \in Officer => ev \in RevocationEvents /\ ev.content \in Revocation
BY GroupAssumption DEF Event, RosterEvents, RevocationEvents

\* marking an object changes the revoked peers of a roster and nothing else
LEMMA MarkObjectFacts ==
  ASSUME NEW r \in LiveRoster, NEW p \in Peer, NEW k
  PROVE  /\ MarkObject(r, p, k) \in LiveRoster
         /\ SameGrants(r.body, MarkObject(r, p, k).body)
<1>1. CASE p \in r.body.enrolled /\ r.obj[p] = k
  <2>1. MarkObject(r, p, k) = [r EXCEPT !.body.revoked = @ \cup {p}]
    BY <1>1 DEF MarkObject
  <2>2. r.body.revoked \cup {p} \in SUBSET Peer
    BY DEF LiveRoster, Body
  <2>. QED BY <2>1, <2>2 DEF LiveRoster, Body, SameGrants
<1>2. CASE ~(p \in r.body.enrolled /\ r.obj[p] = k)
  BY <1>2 DEF MarkObject, SameGrants
<1>. QED BY <1>1, <1>2

\* signatures are never taken back
LEMMA SignedGrows ==
  ASSUME built \subseteq built'
  PROVE  QuorumSigned \subseteq QuorumSigned' /\ OfficerSigned \subseteq OfficerSigned'
BY DEF QuorumSigned, OfficerSigned

\* what has been signed has the form that was signed
LEMMA SignedType ==
  ASSUME TypeOK
  PROVE  QuorumSigned \subseteq Body /\ OfficerSigned \subseteq Revocation
BY EventByAuthor DEF TypeOK, QuorumSigned, OfficerSigned
-----------------------------------------------------------------------------
(***************************************************************************)
(* Sets of outstanding publishes.                                          *)
(***************************************************************************)

Unique(js) == \A i, j \in js : i.n = j.n => i = j

\* the publishes of new are publishes of old, with other waiters and marks
Updates(new, old) ==
  /\ new \subseteq PublishJob /\ Unique(new)
  /\ \A j \in new : \E i \in old :
       /\ i.n = j.n /\ i.cmd = j.cmd /\ i.ev = j.ev
       /\ SameGrants(i.content.body, j.content.body)

\* leaving publishes out leaves the rest as they are
LEMMA SubsetUpdates ==
  ASSUME NEW old \in SUBSET PublishJob, Unique(old), NEW new \in SUBSET old
  PROVE  Updates(new, old)
BY DEF Updates, Unique, SameGrants

\* deleting a waiter resolves no publish
LEMMA UnregisterUpdates ==
  ASSUME NEW old \in SUBSET PublishJob, Unique(old), NEW ev
  PROVE  Updates(Unregister(old, ev), old)
<1> DEFINE F(j) == IF j.ev = ev THEN [j EXCEPT !.registered = FALSE] ELSE j
<1>1. Unregister(old, ev) = {F(j) : j \in old}
  BY DEF Unregister
<1>2. ASSUME NEW j \in old
      PROVE  /\ F(j) \in PublishJob /\ F(j).n = j.n /\ F(j).cmd = j.cmd /\ F(j).ev = j.ev
             /\ F(j).content = j.content
  BY DEF PublishJob
<1> HIDE DEF F
<1>. QED BY <1>1, <1>2 DEF Updates, Unique, SameGrants

\* neither does marking the objects of a revoked peer
LEMMA MarkUpdates ==
  ASSUME NEW old \in SUBSET PublishJob, Unique(old), NEW p \in Peer, NEW k
  PROVE  Updates(MarkEverywhere(old, p, k), old)
<1> DEFINE F(j) == [j EXCEPT !.content = MarkObject(@, p, k)]
<1>1. MarkEverywhere(old, p, k) = {F(j) : j \in old}
  BY DEF MarkEverywhere
<1>2. ASSUME NEW j \in old
      PROVE  /\ F(j) \in PublishJob /\ F(j).n = j.n /\ F(j).cmd = j.cmd /\ F(j).ev = j.ev
             /\ SameGrants(j.content.body, F(j).content.body)
  <2>1. j \in PublishJob /\ j.content \in LiveRoster
    BY DEF PublishJob
  <2>2. MarkObject(j.content, p, k) \in LiveRoster
    BY <2>1, MarkObjectFacts
  <2>3. SameGrants(j.content.body, MarkObject(j.content, p, k).body)
    BY <2>1, MarkObjectFacts DEF SameGrants
  <2>4. F(j) = [j EXCEPT !.content = MarkObject(j.content, p, k)]
    OBVIOUS
  <2>5. /\ F(j) \in PublishJob /\ F(j).n = j.n /\ F(j).cmd = j.cmd /\ F(j).ev = j.ev
        /\ F(j).content = MarkObject(j.content, p, k)
    BY <2>1, <2>2, <2>4 DEF PublishJob
  <2>. QED BY <2>3, <2>5
<1> HIDE DEF F
<1>. QED BY <1>1, <1>2 DEF Updates, Unique

\* one update after another
LEMMA UpdatesTransitive ==
  ASSUME NEW a, NEW b, NEW c, Updates(c, b), Updates(b, a)
  PROVE  Updates(c, a)
BY DEF Updates, SameGrants

\* the numbers of outstanding publishes are a finite set
LEMMA OutstandingFinite ==
  ASSUME cmds \in Nat
  PROVE  IsFiniteSet(Outstanding) /\ Cardinality(Outstanding) \in Nat
<1>1. IsFiniteSet(1..cmds)
  BY FS_Interval
<1>2. Outstanding \in SUBSET (1..cmds)
  BY DEF Outstanding
<1>. QED BY <1>1, <1>2, FS_Subset, FS_CardinalityType

\* a resolved publish gives its number back
LEMMA OutstandingShrinks ==
  ASSUME TypeOK, JobsNumbered, cmds' = cmds,
         NEW j \in jobs, Updates(jobs', jobs \ {j})
  PROVE  /\ Cardinality(Outstanding') <= Cardinality(Outstanding)
         /\ j.cmd # "revoke" => Cardinality(Outstanding') <= Cardinality(Outstanding) - 1
<1>1. IsFiniteSet(Outstanding) /\ Cardinality(Outstanding) \in Nat
  BY OutstandingFinite DEF TypeOK
<1>2. Outstanding' \subseteq Outstanding \ {j.n}
  <2>1. SUFFICES ASSUME NEW n \in 1..cmds, NEW i \in jobs', i.n = n, i.cmd # "revoke"
                 PROVE  n \in Outstanding \ {j.n}
    BY DEF Outstanding
  <2>2. PICK h \in jobs \ {j} : h.n = i.n /\ h.cmd = i.cmd
    BY DEF Updates
  <2>. QED BY <2>1, <2>2 DEF Outstanding, JobsNumbered
<1>3. IsFiniteSet(Outstanding \ {j.n}) /\
      Cardinality(Outstanding \ {j.n}) = IF j.n \in Outstanding THEN Cardinality(Outstanding) - 1
                                         ELSE Cardinality(Outstanding)
  BY <1>1, FS_RemoveElement
<1>4. Cardinality(Outstanding') <= Cardinality(Outstanding \ {j.n})
  BY <1>2, <1>3, FS_Subset
<1>5. IsFiniteSet(Outstanding') /\ Cardinality(Outstanding') \in Nat
  BY <1>2, <1>3, FS_Subset, FS_CardinalityType
<1>6. j.cmd # "revoke" => j.n \in Outstanding
  BY DEF Outstanding, JobsNumbered
<1>. QED BY <1>1, <1>3, <1>4, <1>5, <1>6
-----------------------------------------------------------------------------
(***************************************************************************)
(* The invariant holds at the start and every action keeps it.             *)
(***************************************************************************)

\* an agent at rest stays authorised while more is signed
LEMMA AuthorisedFrame ==
  ASSUME RosterAuthorised, built \subseteq built', roster' = roster, audit \subseteq audit'
  PROVE  RosterAuthorised'
<1>1. QuorumSigned \subseteq QuorumSigned' /\ OfficerSigned \subseteq OfficerSigned'
  BY SignedGrows
<1>2. ASSUME NEW b, NarrowedFrom(b) PROVE NarrowedFrom(b)'
  BY <1>1, <1>2 DEF NarrowedFrom
<1>. QED BY <1>1, <1>2 DEF RosterAuthorised

\* so does what the console shows
LEMMA ConsoleFrame ==
  ASSUME ConsoleShowsSigned, built \subseteq built', conRoster' = conRoster
  PROVE  ConsoleShowsSigned'
BY SignedGrows DEF ConsoleShowsSigned

\* the state in which boot() has published the first roster
LEMMA InitInvariant == Init => IInv
<1> SUFFICES ASSUME Init PROVE IInv
  OBVIOUS
<1>1. /\ BaselineBody(1) \in Body /\ BootEvent \in RosterEvents /\ BootEvent \in Event
      /\ BootEvent.content = BaselineBody(1)
  BY BaselineType, RosterEventType DEF BootEvent
<1>2. TypeOK
  <2>1. conRoster \in LiveRoster /\ roster \in Body
    BY NoRosterType DEF Init
  <2>2. jobs \subseteq PublishJob
    BY <1>1 DEF Init, PublishJob, LiveRoster, Commands
  <2>3. toRelay \in Seq(Event) /\ acks \in Seq(Ack)
    BY <1>1 DEF Init
  <2>. QED BY <1>1, <2>1, <2>2, <2>3 DEF Init, TypeOK
<1>3. JobsNumbered
  BY DEF Init, JobsNumbered
<1>4. VersionCountsPublishes
  <2>1. Outstanding = {1}
    BY DEF Init, Outstanding
  <2>2. Cardinality({1}) = 1
    BY FS_Singleton
  <2>. QED BY <2>1, <2>2 DEF Init, VersionCountsPublishes
<1>5. JobsMatchEvents
  BY <1>1 DEF Init, JobsMatchEvents, SameGrants
<1>6. EventsSourced
  BY DEF Init, EventsSourced
<1>7. RosterAuthorised /\ ConsoleShowsSigned
  BY DEF Init, RosterAuthorised, ConsoleShowsSigned
<1>. QED BY <1>2, <1>3, <1>4, <1>5, <1>6, <1>7 DEF IInv

\* starting a publish, whatever the command
LEMMA PublishInvariant ==
  ASSUME IInv, NEW cmd \in Commands, NEW ev \in Event, NEW content \in LiveRoster,
         Publish(cmd, ev, content), version' \in Nat,
         IF cmd = "revoke" THEN ev \in RevocationEvents /\ version' = version
         ELSE ev \in RosterEvents /\ ev.content = content.body /\ version' = version + 1
  PROVE  IInv'
<1> DEFINE new == [cmd |-> cmd, n |-> cmds + 1, ev |-> ev, registered |-> TRUE,
                   content |-> content]
<1> USE DEF IInv
<1>1. /\ cmds' = cmds + 1 /\ built' = built \cup {ev}
      /\ jobs' = Unregister(jobs, ev) \cup {new}
      /\ toRelay' \in {toRelay, Append(toRelay, ev)}
      /\ UNCHANGED <<conRoster, acks, relayUp, store, now, asked, served, tasks, roster, audit, faults>>
  BY DEF Publish, relayVars, agentVars
<1>2. Updates(Unregister(jobs, ev), jobs)
  BY UnregisterUpdates DEF TypeOK, JobsNumbered, Unique
<1>3. new \in PublishJob
  BY DEF PublishJob, TypeOK
<1>. HIDE DEF new
<1>4. TypeOK'
  <2>1. toRelay' \in Seq(Event)
    BY SMTT(30), <1>1 DEF TypeOK
  <2>2. jobs' \subseteq PublishJob
    BY <1>1, <1>2, <1>3 DEF Updates
  <2>. QED BY <1>1, <2>1, <2>2 DEF TypeOK
<1>5. \A j \in Unregister(jobs, ev) : j.n \in 1..cmds
  BY <1>2 DEF Updates, JobsNumbered
<1>6. new.n = cmds + 1 /\ new.cmd = cmd /\ new.ev = ev /\ new.content = content
  BY DEF new
<1>7. JobsNumbered'
  BY <1>1, <1>2, <1>5, <1>6 DEF JobsNumbered, Updates, Unique, TypeOK
<1>8. VersionCountsPublishes'
  <2>1. IsFiniteSet(Outstanding) /\ Cardinality(Outstanding) \in Nat
    BY OutstandingFinite DEF TypeOK
  <2>2. Outstanding' \subseteq Outstanding \cup (IF cmd = "revoke" THEN {} ELSE {cmds + 1})
    <3>1. SUFFICES ASSUME NEW n \in 1..(cmds + 1), NEW j \in jobs', j.n = n, j.cmd # "revoke"
                   PROVE  n \in Outstanding \/ (cmd # "revoke" /\ n = cmds + 1)
      BY <1>1 DEF Outstanding
    <3>2. CASE j = new
      BY <1>6, <3>1, <3>2
    <3>3. CASE j \in Unregister(jobs, ev)
      <4>1. PICK i \in jobs : i.n = j.n /\ i.cmd = j.cmd
        BY <1>2, <3>3 DEF Updates
      <4>. QED BY <1>5, <3>1, <3>3, <4>1 DEF Outstanding
    <3>. QED BY <1>1, <3>2, <3>3
  <2>3. IsFiniteSet(Outstanding \cup {cmds + 1}) /\
        Cardinality(Outstanding \cup {cmds + 1}) <= Cardinality(Outstanding) + 1 /\
        Cardinality(Outstanding \cup {cmds + 1}) \in Nat
    <3>1. IsFiniteSet(Outstanding \cup {cmds + 1}) /\
          Cardinality(Outstanding \cup {cmds + 1}) =
            IF cmds + 1 \in Outstanding THEN Cardinality(Outstanding)
            ELSE Cardinality(Outstanding) + 1
      BY <2>1, FS_AddElement
    <3>. QED BY <2>1, <3>1
  <2>4. CASE cmd = "revoke"
    <3>1. Cardinality(Outstanding') <= Cardinality(Outstanding)
      BY <2>1, <2>2, <2>4, FS_Subset
    <3>2. IsFiniteSet(Outstanding') /\ Cardinality(Outstanding') \in Nat
      BY <2>1, <2>2, <2>4, FS_Subset, FS_CardinalityType
    <3>. QED BY <2>1, <2>4, <3>1, <3>2 DEF VersionCountsPublishes, TypeOK
  <2>5. CASE cmd # "revoke"
    <3>1. Cardinality(Outstanding') <= Cardinality(Outstanding \cup {cmds + 1})
      BY <2>2, <2>3, <2>5, FS_Subset
    <3>2. IsFiniteSet(Outstanding') /\ Cardinality(Outstanding') \in Nat
      BY <2>2, <2>3, <2>5, FS_Subset, FS_CardinalityType
    <3>. QED BY <2>1, <2>3, <2>5, <3>1, <3>2 DEF VersionCountsPublishes, TypeOK
  <2>. QED BY <2>4, <2>5
<1>9. JobsMatchEvents'
  <2>1. SUFFICES ASSUME NEW j \in jobs'
                 PROVE  /\ j.ev \in built'
                        /\ IF j.cmd = "revoke" THEN j.ev \in RevocationEvents
                           ELSE /\ j.ev \in RosterEvents
                                /\ SameGrants(j.content.body, j.ev.content)
    BY DEF JobsMatchEvents
  <2>2. CASE j = new
    BY <1>1, <1>6, <2>2 DEF SameGrants
  <2>3. CASE j \in Unregister(jobs, ev)
    <3>1. PICK i \in jobs : i.cmd = j.cmd /\ i.ev = j.ev /\ SameGrants(i.content.body, j.content.body)
      BY <1>2, <2>3 DEF Updates
    <3>. QED BY <1>1, <3>1 DEF JobsMatchEvents, SameGrants
  <2>. QED BY <1>1, <2>2, <2>3
<1>10. EventsSourced'
  <2>1. \A i \in DOMAIN toRelay' : toRelay'[i] \in built'
    BY <1>1 DEF EventsSourced, TypeOK
  <2>. QED BY <1>1, <2>1 DEF EventsSourced
<1>11. RosterAuthorised' /\ ConsoleShowsSigned'
  BY <1>1, AuthorisedFrame, ConsoleFrame
<1>. QED BY <1>4, <1>7, <1>8, <1>9, <1>10, <1>11

\* publishRoster with any well-formed body
LEMMA PublishRosterInvariant ==
  ASSUME IInv, NEW cmd \in Commands \ {"revoke"}, NEW enrolled \in SUBSET Peer,
         NEW lease \in [Peer -> Nat], NEW policy \in SUBSET Peer, NEW revoked \in SUBSET Peer,
         NEW obj \in [Peer -> Nat], NEW signers \in Nat,
         PublishRoster(cmd, enrolled, lease, policy, revoked, obj, signers)
  PROVE  IInv'
<1> DEFINE b == [version |-> version + 1, enrolled |-> enrolled, lease |-> lease,
                 policy |-> policy, revoked |-> revoked]
           ev == RosterEvent(b, signers, now + version + 1)
           content == [body |-> b, obj |-> obj]
<1>1. version \in Nat /\ now \in Nat
  BY DEF IInv, TypeOK
<1>2. b \in Body
  BY <1>1 DEF Body
<1>3. content \in LiveRoster /\ content.body = b
  BY <1>2 DEF LiveRoster
<1>4. ev \in RosterEvents /\ ev \in Event /\ ev.content = b
  <2>1. now + version + 1 \in Nat
    BY <1>1
  <2> HIDE DEF b
  <2>. QED BY <1>2, <2>1, RosterEventType
<1>5. version' = version + 1 /\ Publish(cmd, ev, content)
  BY DEF PublishRoster
<1> HIDE DEF b, ev, content
<1>6. version' \in Nat
  BY <1>1, <1>5
<1>. QED BY <1>3, <1>4, <1>5, <1>6, PublishInvariant

\* every console command keeps the invariant
LEMMA CommandInvariant == ASSUME IInv, ConsoleCommand PROVE IInv'
<1>1. /\ version \in Nat /\ now \in Nat /\ cmds \in Nat /\ conRoster \in LiveRoster
      /\ conRoster.body \in Body /\ conRoster.obj \in [Peer -> Nat]
  BY DEF IInv, TypeOK, LiveRoster
<1>2. /\ conRoster.body.enrolled \in SUBSET Peer /\ conRoster.body.lease \in [Peer -> Nat]
      /\ conRoster.body.policy \in SUBSET Peer /\ conRoster.body.revoked \in SUBSET Peer
  BY <1>1 DEF Body
<1>3. WithRogue \in [Peer -> Nat] /\ Fresh(Alice) \in [Peer -> Nat]
  BY <1>1, PeerAssumption DEF WithRogue, Fresh
<1>4. CASE EnrollOne
  <2>1. conRoster.body.enrolled \cup {Rogue} \in SUBSET Peer
    BY <1>2, PeerAssumption
  <2>. QED BY <1>2, <1>3, <1>4, <2>1, PublishRosterInvariant DEF EnrollOne, Commands
<1>5. CASE EnrollTwo
  <2>1. /\ conRoster.body.enrolled \cup {Rogue} \in SUBSET Peer
        /\ conRoster.body.policy \cup {Rogue} \in SUBSET Peer
    BY <1>2, PeerAssumption
  <2>. QED BY <1>2, <1>3, <1>5, <2>1, PublishRosterInvariant DEF EnrollTwo, Commands
<1>6. CASE Lease
  <2>1. [conRoster.body.lease EXCEPT ![Alice] = now + LeaseSecs] \in [Peer -> Nat]
    <3>1. now + LeaseSecs \in Nat
      BY <1>1, BoundAssumption
    <3>. QED BY <1>2, <3>1
  <2>. QED BY <1>2, <1>3, <1>6, <2>1, PublishRosterInvariant DEF Lease, Commands
<1>7. CASE Restore
  <2>1. /\ BaselineBody(version + 1).enrolled \in SUBSET Peer
        /\ BaselineBody(version + 1).lease \in [Peer -> Nat]
        /\ BaselineBody(version + 1).policy \in SUBSET Peer
        /\ BaselineBody(version + 1).revoked \in SUBSET Peer
    BY PeerAssumption DEF BaselineBody
  <2>2. [p \in Peer |-> cmds + 1] \in [Peer -> Nat]
    BY <1>1
  <2>. QED BY <1>7, <2>1, <2>2, PublishRosterInvariant DEF Restore, Commands
<1>8. ASSUME NEW o \in Officer, NEW p \in Peer, Revoke(o, p) PROVE IInv'
  <2>1. /\ RevocationEvent(o, p, version, now) \in RevocationEvents
        /\ RevocationEvent(o, p, version, now) \in Event
    BY <1>1, RevocationEventType
  <2>2. version' \in Nat /\ version' = version
    BY <1>1, <1>8 DEF Revoke
  <2>3. Publish("revoke", RevocationEvent(o, p, version, now), NullRoster)
    BY <1>8 DEF Revoke
  <2>. QED BY <2>1, <2>2, <2>3, NoRosterType, PublishInvariant DEF Commands
<1>. QED BY <1>4, <1>5, <1>6, <1>7, <1>8 DEF ConsoleCommand

\* a publish resolves, accepted only if its event verifies
LEMMA ResolveInvariant ==
  ASSUME IInv, NEW j \in jobs, NEW js, Updates(js, jobs \ {j}), NEW ok \in BOOLEAN,
         ok => VerifyEvent(j.ev), Resolve(j, js, ok),
         UNCHANGED <<cmds, toRelay, relayUp, store, now, served, tasks, roster, audit, built>>,
         faults' \in Nat, acks' \in Seq(Ack),
         \A i \in DOMAIN acks' : acks'[i].ev \in built /\ (acks'[i].ok => VerifyEvent(acks'[i].ev))
  PROVE  IInv'
<1> USE DEF IInv
<1>1. /\ j \in PublishJob /\ j.content \in LiveRoster /\ j.ev \in built /\ j.ev \in Event
      /\ conRoster \in LiveRoster /\ Unique(js) /\ js \in SUBSET PublishJob
  BY DEF TypeOK, PublishJob, JobsMatchEvents, Updates
<1>2. j.cmd = "revoke" => j.ev.content.revoke \in Peer
  BY DEF JobsMatchEvents, RevocationEvents, Revocation
<1>3. Updates(jobs', jobs \ {j})
  <2>1. CASE jobs' = js
    BY <2>1
  <2>2. CASE j.cmd = "revoke" /\ jobs' = MarkEverywhere(js, j.ev.content.revoke,
                                                        conRoster.obj[j.ev.content.revoke])
    <3>1. Updates(jobs', js)
      BY <1>1, <1>2, <2>2, MarkUpdates
    <3>. QED BY <3>1, UpdatesTransitive
  <2>. QED BY <2>1, <2>2 DEF Resolve
<1>4. conRoster' \in LiveRoster
  <2>1. CASE j.cmd = "revoke"
    BY <1>1, <1>2, <2>1, MarkObjectFacts DEF Resolve
  <2>2. CASE j.cmd # "revoke"
    BY <1>1, <2>2 DEF Resolve
  <2>. QED BY <2>1, <2>2
<1>5. version' \in Nat /\ VersionCountsPublishes'
  <2>1. /\ Cardinality(Outstanding') <= Cardinality(Outstanding)
        /\ j.cmd # "revoke" => Cardinality(Outstanding') <= Cardinality(Outstanding) - 1
    BY <1>3, OutstandingShrinks
  <2>2. Cardinality(Outstanding) \in Nat
    BY OutstandingFinite DEF TypeOK
  <2>3. Cardinality(Outstanding') \in Nat
    <3>1. cmds \in Nat
      BY DEF TypeOK
    <3>2. IsFiniteSet(1..cmds)
      BY <3>1, FS_Interval
    <3>3. Outstanding' \in SUBSET (1..cmds)
      BY DEF Outstanding
    <3>. QED BY <3>2, <3>3, FS_Subset, FS_CardinalityType
  <2>4. version \in Nat /\ Cardinality(Outstanding) <= version
    BY DEF TypeOK, VersionCountsPublishes
  <2>5. IF j.cmd = "revoke" THEN version' = version ELSE version' \in {version, version - 1}
    BY DEF Resolve
  <2>. QED BY <2>1, <2>2, <2>3, <2>4, <2>5 DEF VersionCountsPublishes
<1>6. TypeOK'
  <2>1. asked' \in Nat
    BY DEF Resolve, TypeOK
  <2>2. jobs' \subseteq PublishJob
    BY <1>3 DEF Updates
  <2>. QED BY <1>4, <1>5, <2>1, <2>2 DEF TypeOK
<1>7. JobsNumbered'
  BY <1>3 DEF Updates, Unique, JobsNumbered
<1>8. JobsMatchEvents'
  <2>1. SUFFICES ASSUME NEW k \in jobs'
                 PROVE  /\ k.ev \in built
                        /\ IF k.cmd = "revoke" THEN k.ev \in RevocationEvents
                           ELSE /\ k.ev \in RosterEvents
                                /\ SameGrants(k.content.body, k.ev.content)
    BY DEF JobsMatchEvents
  <2>2. PICK i \in jobs \ {j} : i.cmd = k.cmd /\ i.ev = k.ev /\ SameGrants(i.content.body, k.content.body)
    BY <1>3, <2>1 DEF Updates
  <2>. QED BY <2>2 DEF JobsMatchEvents, SameGrants
<1>9. EventsSourced'
  BY DEF EventsSourced
<1>10. ConsoleShowsSigned'
  <2>1. QuorumSigned' = QuorumSigned
    BY DEF QuorumSigned
  <2>2. CASE j.cmd # "revoke" /\ ok
    <3>1. /\ conRoster' = j.content /\ j.ev.pubkey = Group
          /\ SameGrants(j.content.body, j.ev.content)
      BY <2>2 DEF Resolve, JobsMatchEvents, RosterEvents
    <3>2. j.ev.content \in QuorumSigned
      BY <1>1, <2>2, <3>1 DEF QuorumSigned, VerifyEvent
    <3>. QED BY <2>1, <3>1, <3>2 DEF ConsoleShowsSigned
  <2>3. CASE j.cmd = "revoke" /\ ok
    <3>1. conRoster' = MarkObject(conRoster, j.ev.content.revoke, conRoster.obj[j.ev.content.revoke])
      BY <2>3 DEF Resolve
    <3>2. SameGrants(conRoster.body, conRoster'.body)
      BY <1>1, <1>2, <2>3, <3>1, MarkObjectFacts
    <3>3. conRoster' # NullRoster => conRoster # NullRoster
      <4>1. NullRoster.body.enrolled = {}
        BY DEF NullRoster, NoRoster
      <4>. QED BY <3>1, <4>1 DEF MarkObject
    <3>. QED BY <2>1, <3>2, <3>3 DEF ConsoleShowsSigned, SameGrants
  <2>4. CASE ~ok
    BY <2>1, <2>4 DEF Resolve, ConsoleShowsSigned
  <2>. QED BY <2>2, <2>3, <2>4
<1>11. RosterAuthorised'
  BY AuthorisedFrame
<1>. QED BY <1>5, <1>6, <1>7, <1>8, <1>9, <1>10, <1>11

\* an acknowledgement, with or without a waiter
LEMMA AckInvariant == ASSUME IInv, ConsoleAck PROVE IInv'
<1> USE DEF IInv
<1>1. /\ acks \in Seq(Ack) /\ acks # <<>> /\ acks' = Tail(acks)
      /\ jobs \subseteq PublishJob /\ Unique(jobs)
  BY DEF TypeOK, ConsoleAck, JobsNumbered, Unique
<1>2. /\ acks' \in Seq(Ack)
      /\ \A i \in DOMAIN acks' : i + 1 \in DOMAIN acks /\ acks'[i] = acks[i + 1]
  BY <1>1
<1>3. \A i \in DOMAIN acks' : acks'[i].ev \in built /\ (acks'[i].ok => VerifyEvent(acks'[i].ev))
  BY <1>2 DEF EventsSourced
<1>4. Head(acks) = acks[1] /\ 1 \in DOMAIN acks /\ Head(acks) \in Ack
  BY <1>1
<1>5. CASE \E j \in jobs : Waits(j, Head(acks).ev) /\ Resolve(j, jobs \ {j}, Head(acks).ok)
  <2>1. PICK j \in jobs : j.ev = Head(acks).ev /\ Resolve(j, jobs \ {j}, Head(acks).ok)
    BY <1>5 DEF Waits
  <2>2. Head(acks).ok \in BOOLEAN /\ (Head(acks).ok => VerifyEvent(j.ev))
    BY <1>4, <2>1 DEF EventsSourced, Ack
  <2>3. Updates(jobs \ {j}, jobs \ {j})
    BY <1>1, SubsetUpdates DEF Unique
  <2>4. /\ UNCHANGED <<cmds, toRelay, relayUp, store, now, served, tasks, roster, audit, built>>
        /\ faults' \in Nat
    BY DEF ConsoleAck, relayVars, TypeOK
  <2>. QED BY <1>2, <1>3, <2>1, <2>2, <2>3, <2>4, ResolveInvariant
<1>6. CASE UNCHANGED <<version, conRoster, jobs, asked>>
  <2>1. /\ UNCHANGED <<version, conRoster, jobs, cmds, toRelay, relayUp, store, now>>
        /\ UNCHANGED <<asked, served, tasks, roster, audit, built, faults>>
    BY <1>6 DEF ConsoleAck, relayVars
  <2>2. TypeOK' /\ JobsNumbered' /\ JobsMatchEvents' /\ EventsSourced'
    BY <1>2, <1>3, <2>1 DEF TypeOK, JobsNumbered, JobsMatchEvents, EventsSourced
  <2>3. VersionCountsPublishes'
    BY <2>1 DEF VersionCountsPublishes, Outstanding
  <2>. QED BY <2>1, <2>2, <2>3, AuthorisedFrame, ConsoleFrame
<1>. QED BY <1>5, <1>6 DEF ConsoleAck

\* a publish whose timer runs out
LEMMA TimeoutInvariant == ASSUME IInv, PublishTimeout PROVE IInv'
<1> USE DEF IInv
<1>1. PICK j \in jobs : SpendFault(InFlight(j.ev)) /\ Resolve(j, Unregister(jobs \ {j}, j.ev), FALSE)
  BY DEF PublishTimeout
<1>2. jobs \subseteq PublishJob /\ Unique(jobs) /\ Unique(jobs \ {j})
  BY DEF TypeOK, JobsNumbered, Unique
<1>3. Updates(Unregister(jobs \ {j}, j.ev), jobs \ {j})
  BY <1>2, UnregisterUpdates
<1>4. /\ UNCHANGED <<cmds, toRelay, relayUp, store, now, served, tasks, roster, audit, built>>
      /\ acks' = acks
  BY DEF PublishTimeout, linkVars, relayVars
<1>5. faults' \in Nat
  BY <1>1 DEF SpendFault, TypeOK
<1>6. /\ acks' \in Seq(Ack)
      /\ \A i \in DOMAIN acks' : acks'[i].ev \in built /\ (acks'[i].ok => VerifyEvent(acks'[i].ev))
  BY <1>4 DEF TypeOK, EventsSourced
<1>. QED BY <1>1, <1>3, <1>4, <1>5, <1>6, ResolveInvariant

\* whatever leaves console, rosters and signatures alone has only to keep the
\* links, the store and the answers sourced
LEMMA MessagesInvariant ==
  ASSUME IInv, UNCHANGED <<version, conRoster, jobs, cmds, roster, audit, built>>,
         TypeOK', EventsSourced'
  PROVE  IInv'
<1> USE DEF IInv
<1>1. JobsNumbered' /\ JobsMatchEvents'
  BY DEF JobsNumbered, JobsMatchEvents
<1>2. VersionCountsPublishes'
  BY DEF VersionCountsPublishes, Outstanding
<1>. QED BY <1>1, <1>2, AuthorisedFrame, ConsoleFrame

\* the relay takes in an event
LEMMA RelayInvariant == ASSUME IInv, RelayEvent PROVE IInv'
<1> USE DEF IInv
<1> DEFINE ev == Head(toRelay)
<1>1. /\ toRelay \in Seq(Event) /\ toRelay # <<>> /\ toRelay' = Tail(toRelay)
      /\ acks' = Append(acks, [ev |-> ev, ok |-> VerifyEvent(ev)])
      /\ store' = IF VerifyEvent(ev) THEN Store(store, ev) ELSE store
      /\ UNCHANGED <<version, conRoster, jobs, cmds, roster, audit, built>>
      /\ UNCHANGED <<relayUp, now, asked, served, tasks, faults>>
  BY DEF TypeOK, RelayEvent, consoleVars, agentVars
<1>2. ev \in Event /\ ev \in built
  BY <1>1 DEF EventsSourced
<1>3. toRelay' \in Seq(Event) /\ \A i \in DOMAIN toRelay' : toRelay'[i] \in built
  BY <1>1 DEF EventsSourced
<1>4. store' \subseteq store \cup {ev}
  BY <1>1 DEF Store
<1>5. VerifyEvent(ev) \in BOOLEAN
  BY DEF VerifyEvent
<1>6. [ev |-> ev, ok |-> VerifyEvent(ev)] \in Ack
  BY <1>2, <1>5 DEF Ack
<1>7. acks \in Seq(Ack)
  BY DEF TypeOK
<1>8. acks' \in Seq(Ack)
  BY <1>1, <1>6, <1>7
<1>9. ASSUME NEW i \in DOMAIN acks'
      PROVE  acks'[i].ev \in built /\ (acks'[i].ok => VerifyEvent(acks'[i].ev))
  <2> DEFINE a == [ev |-> ev, ok |-> VerifyEvent(ev)]
  <2>1. a.ev = ev /\ a.ok = VerifyEvent(ev)
    OBVIOUS
  <2> HIDE DEF a
  <2>2. acks'[i] = a \/ (i \in DOMAIN acks /\ acks'[i] = acks[i])
    <3>1. a \in Ack /\ acks' = Append(acks, a)
      BY <1>1, <1>6 DEF a
    <3>. QED BY <1>7, <3>1
  <2>3. CASE acks'[i] = a
    BY <1>2, <2>1, <2>3
  <2>4. CASE i \in DOMAIN acks /\ acks'[i] = acks[i]
    BY <2>4 DEF EventsSourced
  <2>. QED BY <2>2, <2>3, <2>4
<1>10. TypeOK'
  BY <1>1, <1>2, <1>3, <1>4, <1>8 DEF TypeOK
<1>11. EventsSourced'
  <2>1. \A i \in DOMAIN acks' : acks'[i].ev \in built' /\ (acks'[i].ok => VerifyEvent(acks'[i].ev))
    BY <1>1, <1>9
  <2>2. store' \subseteq built'
    BY <1>1, <1>2, <1>4 DEF EventsSourced
  <2>3. \A i \in DOMAIN toRelay' : toRelay'[i] \in built'
    BY <1>1, <1>3
  <2>. QED BY <1>1, <2>1, <2>2, <2>3 DEF EventsSourced
<1>. QED BY <1>1, <1>10, <1>11, MessagesInvariant

\* the relay dies with all it held
LEMMA CrashInvariant == ASSUME IInv, RelayCrash PROVE IInv'
<1>1. /\ UNCHANGED <<version, conRoster, jobs, cmds, roster, audit, built>>
      /\ UNCHANGED <<now, asked, served, tasks>>
      /\ relayUp' = FALSE /\ store' = {} /\ toRelay' = <<>> /\ acks' = <<>> /\ faults' = faults + 1
  BY DEF RelayCrash, consoleVars, agentVars
<1>2. /\ toRelay' \in Seq(Event) /\ acks' \in Seq(Ack)
      /\ DOMAIN toRelay' = {} /\ DOMAIN acks' = {}
  BY <1>1
<1>3. TypeOK'
  <2>1. relayUp' \in BOOLEAN /\ store' \subseteq Event /\ faults' \in Nat
    <3>1. relayUp' \in BOOLEAN /\ store' \subseteq Event
      BY <1>1, Zenon
    <3>2. faults \in Nat
      BY DEF IInv, TypeOK
    <3>. QED BY <1>1, <3>1, <3>2
  <2>2. /\ UNCHANGED <<version, conRoster, jobs, cmds, roster, audit, built>>
        /\ UNCHANGED <<now, asked, served, tasks>>
    BY <1>1
  <2>. QED BY <1>2, <2>1, <2>2 DEF IInv, TypeOK
<1>4. EventsSourced'
  BY <1>1, <1>2 DEF IInv, EventsSourced
<1>. QED BY <1>1, <1>3, <1>4, MessagesInvariant

\* a refresh begins with nothing received
LEMMA StartRefreshInvariant == ASSUME IInv, StartRefresh PROVE IInv'
<1>1. /\ UNCHANGED <<version, conRoster, jobs, cmds, roster, audit, built>>
      /\ UNCHANGED <<toRelay, acks, relayUp, store, now, asked, faults>>
      /\ served' = served + 1 /\ tasks' = tasks \cup {Query(served + 1, "roster")}
  BY DEF StartRefresh, consoleVars, linkVars, relayVars
<1>2. Query(served + 1, "roster") \in Task /\ Query(served + 1, "roster").got = {}
  BY DEF IInv, TypeOK, Query, Task
<1>3. TypeOK' /\ EventsSourced'
  BY <1>1, <1>2 DEF IInv, TypeOK, EventsSourced
<1>. QED BY <1>1, <1>3, MessagesInvariant

\* an answer holds what the relay held
LEMMA AnswerInvariant == ASSUME IInv, NEW t \in tasks, AnswerQuery(t) PROVE IInv'
<1> DEFINE u == [t EXCEPT !.eose = TRUE, !.got = Matching(t)]
<1>1. /\ UNCHANGED <<version, conRoster, jobs, cmds, roster, audit, built>>
      /\ UNCHANGED <<toRelay, acks, relayUp, store, now, asked, served, faults>>
      /\ tasks' = (tasks \ {t}) \cup {u}
  BY DEF AnswerQuery, consoleVars, linkVars, relayVars
<1>2. t \in Task /\ Matching(t) \subseteq Event /\ store \subseteq built
  BY DEF IInv, TypeOK, Matching, EventsSourced
<1>3. u \in Task /\ u.at = t.at /\ u.got = Matching(t)
  BY <1>2 DEF Task
<1> HIDE DEF u
<1>4. u.got \subseteq {ev \in built : IF u.at = "roster" THEN MatchesRoster(ev) ELSE MatchesRevocation(ev)}
  BY <1>2, <1>3 DEF Matching
<1>5. TypeOK'
  BY <1>1, <1>3 DEF IInv, TypeOK
<1>6. EventsSourced'
  BY <1>1, <1>4 DEF IInv, EventsSourced
<1>. QED BY <1>1, <1>5, <1>6, MessagesInvariant

\* what query() resolves with is part of the answer, a fault or not
LEMMA ReceivedFacts ==
  ASSUME IInv, NEW t \in tasks, NEW answer \in SUBSET t.got, Received(t, answer)
  PROVE  /\ faults' \in Nat /\ t \in Task
         /\ answer \subseteq {ev \in built : IF t.at = "roster" THEN MatchesRoster(ev)
                                             ELSE MatchesRevocation(ev)}
<1>1. faults' \in Nat
  BY DEF Received, SpendFault, IInv, TypeOK
<1>. QED BY <1>1 DEF IInv, TypeOK, EventsSourced

\* the first half of a refresh puts a signed body in force, as it was signed
LEMMA GetRosterInvariant ==
  ASSUME IInv, NEW t \in tasks, NEW answer \in SUBSET t.got, GetRoster(t, answer)
  PROVE  IInv'
<1>1. /\ UNCHANGED <<version, conRoster, jobs, cmds, audit, built>>
      /\ UNCHANGED <<toRelay, acks, relayUp, store, now, asked, served>>
      /\ t.at = "roster" /\ Received(t, answer)
  BY DEF GetRoster, consoleVars, linkVars, relayVars
<1>2. /\ faults' \in Nat /\ t \in Task
      /\ answer \subseteq {ev \in built : MatchesRoster(ev)}
  BY <1>1, ReceivedFacts
<1>3. CASE tasks' = tasks \ {t} /\ UNCHANGED roster
  <2>1. TypeOK' /\ EventsSourced'
    BY <1>1, <1>2, <1>3 DEF IInv, TypeOK, EventsSourced
  <2>. QED BY <1>1, <1>3, <2>1, MessagesInvariant
<1>4. ASSUME NEW ev \in answer, VerifyEvent(ev), roster' = ev.content,
             tasks' = (tasks \ {t}) \cup {Query(t.n, "revocations")}
      PROVE  IInv'
  <2>1. ev \in built /\ ev \in Event /\ ev.pubkey = Group /\ ev.signers >= Threshold
    BY <1>2, <1>4 DEF MatchesRoster, VerifyEvent, IInv, TypeOK
  <2>2. ev.content \in Body /\ ev.content \in QuorumSigned
    BY <2>1, EventByAuthor DEF QuorumSigned
  <2>3. Query(t.n, "revocations") \in Task /\ Query(t.n, "revocations").got = {}
    BY <1>2 DEF Query, Task
  <2>4. TypeOK'
    BY <1>1, <1>2, <1>4, <2>2, <2>3 DEF IInv, TypeOK
  <2>5. EventsSourced'
    BY <1>1, <1>4, <2>3 DEF IInv, EventsSourced
  <2>6. JobsNumbered' /\ JobsMatchEvents'
    BY <1>1 DEF IInv, JobsNumbered, JobsMatchEvents
  <2>7. VersionCountsPublishes'
    BY <1>1 DEF IInv, VersionCountsPublishes, Outstanding
  <2>8. RosterAuthorised'
    <3>1. ev.content \in QuorumSigned'
      BY <1>1, <2>2 DEF QuorumSigned
    <3>2. NarrowedFrom(ev.content)'
      BY <1>4 DEF NarrowedFrom, SameGrants
    <3>. QED BY <3>1, <3>2 DEF RosterAuthorised
  <2>9. ConsoleShowsSigned'
    BY <1>1, ConsoleFrame DEF IInv
  <2>. QED BY <2>4, <2>5, <2>6, <2>7, <2>8, <2>9 DEF IInv
<1>. QED BY <1>3, <1>4 DEF GetRoster, Usable

\* the peers named are on the roster, by a revocation that covers its version
LEMMA NamedByFacts ==
  ASSUME IInv, NEW answer \in SUBSET {ev \in built : MatchesRevocation(ev)}
  PROVE  /\ NamedBy(answer) \subseteq roster.enrolled
         /\ \A p \in NamedBy(answer) :
              \E r \in OfficerSigned : r.revoke = p /\ r.rosterVersion >= roster.version
<1>1. NamedBy(answer) \subseteq roster.enrolled
  BY DEF NamedBy
<1>2. ASSUME NEW p \in NamedBy(answer)
      PROVE  \E r \in OfficerSigned : r.revoke = p /\ r.rosterVersion >= roster.version
  <2>1. PICK e \in answer : p = e.content.revoke /\ ~(roster.version > e.content.rosterVersion)
    BY <1>2 DEF NamedBy
  <2>2. e \in built /\ e \in Event /\ e.pubkey \in Officer
    BY <2>1 DEF MatchesRevocation, IInv, TypeOK
  <2>3. e.content \in Revocation /\ e.content \in OfficerSigned
    BY <2>2, EventByAuthor DEF OfficerSigned
  <2>4. e.content.rosterVersion \in Nat /\ roster.version \in Nat
    BY <2>3 DEF Revocation, IInv, TypeOK, Body
  <2>. QED BY <2>1, <2>3, <2>4
<1>. QED BY <1>1, <1>2

\* the second half narrows it
LEMMA GetRevocationsInvariant ==
  ASSUME IInv, NEW t \in tasks, NEW answer \in SUBSET t.got, GetRevocations(t, answer)
  PROVE  IInv'
<1> DEFINE N == NamedBy(answer)
<1>1. /\ UNCHANGED <<version, conRoster, jobs, cmds, built>>
      /\ UNCHANGED <<toRelay, acks, relayUp, store, now, asked, served>>
      /\ t.at = "revocations" /\ Received(t, answer) /\ tasks' = tasks \ {t}
      /\ roster' = [roster EXCEPT !.revoked = @ \cup N]
      /\ audit' = audit \cup {[peer |-> p, version |-> roster.version] : p \in N \ roster.revoked}
  BY DEF GetRevocations, consoleVars, linkVars, relayVars
<1>2. /\ faults' \in Nat
      /\ answer \in SUBSET {ev \in built : MatchesRevocation(ev)}
  BY <1>1, ReceivedFacts
<1>3. /\ N \subseteq roster.enrolled
      /\ \A p \in N : \E r \in OfficerSigned : r.revoke = p /\ r.rosterVersion >= roster.version
  BY <1>2, NamedByFacts
<1> HIDE DEF N
<1>4. roster \in Body /\ N \subseteq Peer
  BY <1>3 DEF IInv, TypeOK, Body
<1>5. /\ roster' \in Body /\ SameGrants(roster', roster) /\ roster'.version = roster.version
      /\ roster'.revoked = roster.revoked \cup N
  BY <1>1, <1>4 DEF Body, SameGrants
<1>6. audit \subseteq audit' /\ audit' \subseteq AuditEntry
  <2>1. ASSUME NEW p \in N PROVE [peer |-> p, version |-> roster.version] \in AuditEntry
    BY <1>4 DEF AuditEntry, Body
  <2>. QED BY <1>1, <2>1 DEF IInv, TypeOK
<1>7. TypeOK'
  BY <1>1, <1>2, <1>5, <1>6 DEF IInv, TypeOK
<1>8. EventsSourced'
  BY <1>1 DEF IInv, EventsSourced
<1>9. JobsNumbered' /\ JobsMatchEvents'
  BY <1>1 DEF IInv, JobsNumbered, JobsMatchEvents
<1>10. VersionCountsPublishes'
  BY <1>1 DEF IInv, VersionCountsPublishes, Outstanding
<1>11. RosterAuthorised'
  <2>1. QuorumSigned' = QuorumSigned /\ OfficerSigned' = OfficerSigned
    BY <1>1 DEF QuorumSigned, OfficerSigned
  <2>2. CASE roster = NoRoster
    <3>1. N = {}
      BY <1>3, <2>2 DEF NoRoster
    <3>2. roster' = NoRoster
      BY <1>1, <2>2, <3>1 DEF NoRoster
    <3>. QED BY <3>2 DEF RosterAuthorised
  <2>3. CASE \E b \in QuorumSigned : NarrowedFrom(b)
    <3>1. PICK b \in QuorumSigned : NarrowedFrom(b)
      BY <2>3
    <3>2. SameGrants(roster', b) /\ b.revoked \subseteq roster'.revoked
      BY <1>5, <3>1 DEF NarrowedFrom, SameGrants
    <3>3. ASSUME NEW p \in roster'.revoked \ b.revoked
          PROVE  /\ \E r \in OfficerSigned' : r.revoke = p /\ r.rosterVersion >= roster'.version
                 /\ [peer |-> p, version |-> roster'.version] \in audit'
      <4>1. CASE p \in roster.revoked
        BY <1>5, <1>6, <2>1, <3>1, <3>3, <4>1 DEF NarrowedFrom
      <4>2. CASE p \in N \ roster.revoked
        BY <1>1, <1>3, <1>5, <2>1, <4>2
      <4>. QED BY <1>5, <3>3, <4>1, <4>2
    <3>4. NarrowedFrom(b)'
      BY <3>2, <3>3 DEF NarrowedFrom
    <3>. QED BY <2>1, <3>4 DEF RosterAuthorised
  <2>. QED BY <2>2, <2>3 DEF IInv, RosterAuthorised
<1>12. ConsoleShowsSigned'
  BY <1>1, ConsoleFrame DEF IInv
<1>. QED BY <1>7, <1>8, <1>9, <1>10, <1>11, <1>12 DEF IInv

\* nothing in IInv depends on the clock
LEMMA TickInvariant == ASSUME IInv, Tick PROVE IInv'
<1>1. /\ UNCHANGED <<version, conRoster, jobs, cmds, roster, audit, built>>
      /\ UNCHANGED <<toRelay, acks, relayUp, store, asked, served, tasks, faults>>
      /\ now' = now + 1
  BY DEF Tick, consoleVars, linkVars, relayVars, agentVars
<1>2. TypeOK' /\ EventsSourced'
  BY <1>1 DEF IInv, TypeOK, EventsSourced
<1>. QED BY <1>1, <1>2, MessagesInvariant

\* one step of the system, or none of its variables changes
LEMMA StepInvariant == IInv /\ [Next]_vars => IInv'
<1> SUFFICES ASSUME IInv, [Next]_vars PROVE IInv'
  OBVIOUS
<1>1. CASE ConsoleCommand
  BY <1>1, CommandInvariant
<1>2. CASE ConsoleAck
  BY <1>2, AckInvariant
<1>3. CASE PublishTimeout
  BY <1>3, TimeoutInvariant
<1>4. CASE RelayEvent
  BY <1>4, RelayInvariant
<1>5. CASE RelayCrash
  BY <1>5, CrashInvariant
<1>6. CASE AgentStep
  BY <1>6, StartRefreshInvariant, AnswerInvariant, GetRosterInvariant, GetRevocationsInvariant
     DEF AgentStep
<1>7. CASE Tick
  BY <1>7, TickInvariant
<1>8. CASE UNCHANGED vars
  <2>1. /\ UNCHANGED <<version, conRoster, jobs, cmds, roster, audit, built>>
        /\ UNCHANGED <<toRelay, acks, relayUp, store, now, asked, served, tasks, faults>>
    BY <1>8 DEF vars, consoleVars, linkVars, relayVars, agentVars
  <2>2. TypeOK' /\ EventsSourced'
    BY <2>1 DEF IInv, TypeOK, EventsSourced
  <2>. QED BY <2>1, <2>2, MessagesInvariant
<1>. QED BY <1>1, <1>2, <1>3, <1>4, <1>5, <1>6, <1>7, <1>8 DEF Next

-----------------------------------------------------------------------------
(***************************************************************************)
(* Theorems.                                                               *)
(***************************************************************************)

\* IInv holds in every reachable state of the control plane.
THEOREM Invariance == Spec => []IInv
BY InitInvariant, StepInvariant, PTL DEF Spec

\* Variables keep their types; the version counter that publishRoster counts up
\* and down (server.js:99, 106) never becomes negative.
THEOREM TypeCorrect == Spec => []TypeOK
<1>1. IInv => TypeOK
  BY DEF IInv
<1>. QED BY <1>1, Invariance, PTL

\* The agent admits a peer only as a quorum-signed roster of the version in
\* force grants it (agent.js admit, refreshRoster).
THEOREM QuorumSafety == Spec => []GrantsWithinQuorum
<1>1. IInv => GrantsWithinQuorum
  <2>1. SUFFICES ASSUME IInv, NEW p \in Peer, Admits(p)
                 PROVE  \E b \in QuorumSigned :
                          /\ b.version = roster.version
                          /\ p \in (b.enrolled \cap b.policy) \ b.revoked
                          /\ b.lease[p] = roster.lease[p]
    BY DEF GrantsWithinQuorum
  <2>2. roster # NoRoster
    BY <2>1 DEF Admits, NoRoster
  <2>3. PICK b \in QuorumSigned : NarrowedFrom(b)
    BY <2>1, <2>2 DEF IInv, RosterAuthorised
  <2>. QED BY <2>1, <2>3 DEF NarrowedFrom, SameGrants, Admits
<1>. QED BY <1>1, Invariance, PTL

\* A peer is cut off only by a quorum, or by an officer's revocation that covers
\* the version in force and is in the audit log.
THEOREM NarrowingSafety == Spec => []NarrowingAuthorised
<1>1. IInv => NarrowingAuthorised
  <2>1. SUFFICES ASSUME IInv, NEW p \in roster.revoked
                 PROVE  \/ \E b \in QuorumSigned : b.version = roster.version /\ p \in b.revoked
                        \/ /\ \E r \in OfficerSigned : r.revoke = p /\ r.rosterVersion >= roster.version
                           /\ [peer |-> p, version |-> roster.version] \in audit
    BY DEF NarrowingAuthorised
  <2>2. roster # NoRoster
    BY <2>1 DEF NoRoster
  <2>3. PICK b \in QuorumSigned : NarrowedFrom(b)
    BY <2>1, <2>2 DEF IInv, RosterAuthorised
  <2>. QED BY <2>1, <2>3 DEF NarrowedFrom, SameGrants
<1>. QED BY <1>1, Invariance, PTL

\* The console never shows a roster that no quorum signed (server.js:107).
THEOREM ConsoleSafety == Spec => []ConsoleShowsSigned
<1>1. IInv => ConsoleShowsSigned
  BY DEF IInv
<1>. QED BY <1>1, Invariance, PTL

\* every step but the two halves of a refresh leaves the roster in force alone,
\* and no step takes a signature back
LEMMA RosterFrame ==
  ASSUME IInv, [Next]_vars
  PROVE  \/ roster' = roster /\ built \subseteq built'
         \/ /\ built' = built
            /\ \E t \in tasks : \E answer \in SUBSET t.got :
                 GetRoster(t, answer) \/ GetRevocations(t, answer)
<1>1. CASE ConsoleCommand
  BY <1>1 DEF ConsoleCommand, EnrollOne, EnrollTwo, Lease, Restore, Revoke, PublishRoster,
              Publish, agentVars
<1>2. CASE ConsoleAck \/ PublishTimeout
  BY <1>2 DEF ConsoleAck, PublishTimeout
<1>3. CASE RelayEvent \/ RelayCrash \/ Tick
  BY <1>3 DEF RelayEvent, RelayCrash, Tick, agentVars
<1>4. CASE AgentStep
  BY <1>4 DEF AgentStep, StartRefresh, AnswerQuery, GetRoster, GetRevocations
<1>5. CASE UNCHANGED vars
  BY <1>5 DEF vars, agentVars
<1>. QED BY <1>1, <1>2, <1>3, <1>4, <1>5 DEF Next

\* The roster in force never goes back to a lower version (agent.js:79).
THEOREM VersionSafety == Spec => VersionMonotone
<1>1. IInv /\ [Next]_vars => [roster'.version >= roster.version]_vars
  <2>1. SUFFICES ASSUME IInv, [Next]_vars PROVE roster'.version >= roster.version
    OBVIOUS
  <2>2. roster \in Body /\ roster.version \in Nat
    BY <2>1 DEF IInv, TypeOK, Body
  <2>3. CASE roster' = roster
    BY <2>2, <2>3
  <2>4. CASE \E t \in tasks : \E answer \in SUBSET t.got : GetRoster(t, answer)
    BY <2>2, <2>4 DEF GetRoster, Usable
  <2>5. CASE \E t \in tasks : \E answer \in SUBSET t.got : GetRevocations(t, answer)
    <3>1. roster'.version = roster.version
      BY <2>2, <2>5 DEF GetRevocations, Body
    <3>. QED BY <2>2, <3>1
  <2>. QED BY <2>1, <2>3, <2>4, <2>5, RosterFrame
<1>. QED BY <1>1, Invariance, PTL DEF Spec, VersionMonotone

\* nothing is ordered and no roster is in force when the control plane starts
LEMMA RefinementInit == Init => AC!ACInit
<1> SUFFICES ASSUME Init PROVE AC!ACInit
  OBVIOUS
<1>1. QuorumSigned \subseteq Body
  BY InitInvariant, SignedType DEF IInv
<1>2. OfficerSigned = {}
  BY GroupAssumption DEF Init, OfficerSigned, BootEvent, RosterEvent
<1>. QED BY <1>1, <1>2 DEF AC!ACInit, Init

\* every step is a Sign, an Adopt, a Narrow or no step of AccessControl
LEMMA RefinementStep == IInv /\ [Next]_vars => [AC!ACNext]_(AC!acVars)
<1> SUFFICES ASSUME IInv, [Next]_vars PROVE [AC!ACNext]_(AC!acVars)
  OBVIOUS
<1>1. /\ roster \in Body /\ TypeOK /\ TypeOK'
  BY StepInvariant DEF IInv, TypeOK
<1>2. CASE roster' = roster /\ built \subseteq built'
  <2>1. /\ QuorumSigned \subseteq QuorumSigned' /\ QuorumSigned' \subseteq Body
        /\ OfficerSigned \subseteq OfficerSigned' /\ OfficerSigned' \subseteq Revocation
    <3>1. QuorumSigned \subseteq QuorumSigned' /\ OfficerSigned \subseteq OfficerSigned'
      BY <1>2, SignedGrows
    <3>2. built' \subseteq Event
      BY <1>1 DEF TypeOK
    <3>3. QuorumSigned' \subseteq Body /\ OfficerSigned' \subseteq Revocation
      BY <3>2, EventByAuthor DEF QuorumSigned, OfficerSigned
    <3>. QED BY <3>1, <3>3
  <2>. QED BY <1>2, <2>1 DEF AC!ACNext, AC!Sign
<1>3. ASSUME built' = built, NEW t \in tasks, NEW answer \in SUBSET t.got, GetRoster(t, answer)
      PROVE  [AC!ACNext]_(AC!acVars)
  <2>1. QuorumSigned' = QuorumSigned /\ OfficerSigned' = OfficerSigned
    BY <1>3 DEF QuorumSigned, OfficerSigned
  <2>2. CASE UNCHANGED roster
    BY <2>1, <2>2 DEF AC!acVars
  <2>3. ASSUME NEW ev \in answer, VerifyEvent(ev), ev.content.version >= roster.version,
               roster' = ev.content
        PROVE  [AC!ACNext]_(AC!acVars)
    <3>1. ev \in built /\ MatchesRoster(ev)
      BY <1>3, ReceivedFacts DEF GetRoster
    <3>2. roster' \in QuorumSigned /\ roster'.version >= roster.version
      BY <2>3, <3>1 DEF QuorumSigned, MatchesRoster, VerifyEvent
    <3>. QED BY <2>1, <3>2 DEF AC!ACNext, AC!Adopt
  <2>. QED BY <1>3, <2>2, <2>3 DEF GetRoster, Usable
<1>4. ASSUME built' = built, NEW t \in tasks, NEW answer \in SUBSET t.got, GetRevocations(t, answer)
      PROVE  [AC!ACNext]_(AC!acVars)
  <2>1. QuorumSigned' = QuorumSigned /\ OfficerSigned' = OfficerSigned
    BY <1>4 DEF QuorumSigned, OfficerSigned
  <2>2. answer \in SUBSET {ev \in built : MatchesRevocation(ev)}
    BY <1>4, ReceivedFacts DEF GetRevocations
  <2>3. /\ NamedBy(answer) \subseteq roster.enrolled
        /\ \A p \in NamedBy(answer) :
             \E r \in OfficerSigned : r.revoke = p /\ r.rosterVersion >= roster.version
    BY <2>2, NamedByFacts
  <2> DEFINE R == {r \in OfficerSigned : r.rosterVersion >= roster.version
                                         /\ r.revoke \in NamedBy(answer)}
  <2>4. {r.revoke : r \in R} \cap roster.enrolled = NamedBy(answer)
    BY <2>3
  <2>5. R \in SUBSET {r \in OfficerSigned : AC!Covers(r, roster)}
    BY DEF AC!Covers
  <2>6. roster' = [roster EXCEPT !.revoked = @ \cup ({r.revoke : r \in R} \cap roster.enrolled)]
    BY <1>4, <2>4 DEF GetRevocations
  <2> HIDE DEF R
  <2>. QED BY <2>1, <2>5, <2>6 DEF AC!ACNext, AC!Narrow
<1>. QED BY <1>2, <1>3, <1>4, RosterFrame

\* The control plane implements AccessControl: whatever relay, links, faults
\* and overlapping refreshes do, the roster in force changes by its rules.
THEOREM Refinement == Spec => ImplementsAccessControl
BY RefinementInit, RefinementStep, Invariance, PTL DEF Spec, ImplementsAccessControl, AC!ACSpec
=============================================================================
