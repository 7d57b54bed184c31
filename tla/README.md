# ZeroPort in TLA+

ZeroPort is a private network whose services have no listening port. Officers
sign a roster with a threshold signature, a relay stores it, the agent in front
of a service fetches it and lets a machine in only if the roster says so; the
machines talk over Noise sessions, and the agent keeps a hash-chained audit log.
This directory models that program, checks the models with TLC and proves with
TLAPS all of their safety properties. All paths below are relative to the repository.

## The system and its parts

| Part | Code | State | Operations | Talks to |
| :-- | :-- | :-- | :-- | :-- |
| Signed events | `src/protocol/nostr-event.js` | none | build, verifyEvent, matches | used by console, relay, agents |
| Relay | `src/nodes/directory.js` | `events`, `replaceable`, `subs` | EVENT, REQ, CLOSE | WebSocket, console and agents |
| Relay client | `src/transport/relay-client.js` | `subs`, `okWaiters`, timers | publish, query | the relay |
| Console, roster | `apps/console/server.js` 50-189, 314-357 | `version`, `roster` | publishRoster, publishRevocation, five commands | relay; agent's stdin |
| Console, audit | same file 125-141, 261-294, 358-388 | `log`, `lastSize`, `anchoredHead`, files | readNewAudit, anchor, forge, tamper, untamper, verify | the log file, agent, calendars |
| Console, asks | same file 84-94, 192-206 | `p.events` | ask, denyReasonSince | agents' stdout |
| Agent, roster | `src/nodes/agent.js` 53-120 | `roster`, audit log | refreshRoster, admit | relay |
| Agent, tunnel | same file 122-242 | `sessions`, `outSessions`, `pending`, `seenTimestamps` | handshake, connect, send, inbound handler | agents over UDP, rendezvous |
| Noise | `src/crypto/noise.js` | `lastNs` | initiate, respond, complete, tai64n | agent |
| Rendezvous | `src/nodes/rendezvous.js` | `endpoints` | announce, lookup, relay | agents over HTTP and UDP |
| Audit chain | `src/domain/zeroport.js` 112-147 | `prev`, `seq`, a file | append, head, verifyLog | agent, console |
| Quorum rules | `src/domain/zeroport.js` 69-110 | the body accepted last, with the caller | verifyRoster, isRevocationOnly, acceptRoster | nobody any more |
| FROST, BIP-340 | `src/crypto/frost.js`, `bip340.js` | a dealt group, key pairs | deal, sign, verify | console, events |
| WebSocket | `src/transport/websocket.js` | `buf` of a socket | frame, data, close | relay, console |
| SOCKS5 | `src/transport/socks5.js` | `stage`, `raw`, two timers | connect, request, dechunk | Tor |
| Walkthrough | `apps/walkthrough/run-demo.js` | `kids`, `p.events`, `tor`, exit code | launch, waitReady, ask, step, shutdown | all nodes, Tor |
| Console, processes | `apps/console/server.js` 60-94, 145-206, 296-313, 425 | the same, and marks in the audit log | boot, ask, denyReasonSince, bye | all nodes |
| Tor start | `platform/tor/start-tor.js` | `proc`, `done` | start, stop | walkthrough |
| Exit with parent | `src/nodes/exit-with-parent.js` | none | end of stdin | every node |

What is hard in it, and what each part must get right:

* Nothing awaits a console command, so publishes overlap while they share one
  version counter. The counter is taken before an await and given back after it.
* `refreshRoster` awaits twice and may run several times at once; the roster in
  force changes at the first await and is narrowed after the second. Access must
  never be assembled from two rosters nor granted by fewer than a quorum, and
  taking it away must cost an officer's signature.
* Timers race answers (3 s at the relay, 4 s between agents), and what was given
  up on may have happened.
* The relay has everything in memory and may die.
* UDP loses, duplicates and reorders; handshakes of one client overlap; there is
  one session per peer. Keys of both ends must agree and no nonce be used twice.
* Two programs start all others, wait for lines of their output and tell their
  answers apart by position only. Any of these processes may fail, stop or be
  killed at any moment; what was started must end, and the exit code be honest.
* TCP cuts frames, heads and chunk sizes anywhere and may end at any byte.
* The console and the agent share a file without a lock. A log that verifies
  must be the log that was written.

`PROJECT.json` lists each hazard with its line and the properties aimed at it.

## Modules

| Module | What it is |
| :-- | :-- |
| `Nip01` | operators on events: rosters, revocations, verification, the relay's replacement rule |
| `AccessControl` | abstract: a roster in force that only becomes what a quorum signed and only loses what an officer revoked |
| `ControlPlane` | console, relay and the service's agent, from command to admission; implements `AccessControl` |
| `MCControlPlane` | the instance, liveness of settling, and what comments claim that the code does not keep |
| `ControlPlaneProofs` | the theorems about `ControlPlane` |
| `SecureService` | abstract: requests are served only when permitted, answers come from service |
| `Tunnel` | agents' handshakes, sessions and requests over a lossy network, and the rendezvous; implements `SecureService` |
| `TunnelProofs` | the theorems about `Tunnel` |
| `MCTunnel` | its instance: two clients, one service, two rosters |
| `AuditChain` | the log, its file, and the console's commands on the file |
| `AuditChainProofs` | the theorems about `AuditChain` |
| `CommonLemmas` | lemmas about data: counting up or down through a set of numbers, parts of sequences, flattening, residues, loops that halve or fold, powers modulo a prime, interpolation |
| `MCAuditChain` | its constants for TLC, and a claim of a comment that does not hold |
| `Bip340` | operators: field and point arithmetic, liftX, sign and verify, with the curve as constants |
| `Frost` | dealing a group or an identity and signing with it |
| `RosterQuorum` | the rule that counts single officers' signatures and lets one of them revoke |
| `FrostProofs` | the theorems about `Bip340`, `Frost` and `RosterQuorum` |
| `MCFrost` | the instances of both: a curve of 31 points, two peers |
| `Processes` | the walkthrough and the console as parents: children, #READY, asks and answers, refusals and their reasons, Tor, the end |
| `ProcessesProofs` | theorems about how its runs end, and whose answers and refusals are reported |
| `MCProcesses` | its instance: a script with one step of each kind |
| `WebSocket` | frames of one client, cut by TCP, and what the server makes of them |
| `WebSocketProofs` | the theorems about `WebSocket` |
| `Socks5` | one HTTP request through a SOCKS proxy: bytes, characters, chunks, both timers |
| `Socks5Proofs` | the theorems about `Socks5` |
| `MCSocks5` | its instance, and what a comment says of `dechunk` that does not hold |
| `MCWire` | `WebSocket`, `Socks5` and `AuditChain` side by side: the three readers of what arrives in pieces |

### ControlPlane and the code

The console's `publish` promises are `jobs`: a record per promise that has not
resolved, with the command whose continuation follows, the event, and whether
`okWaiters` still has its entry (publishing an identical event takes it away).
`Resolve` is everything after the await in `publishRoster` or
`publishRevocation`, with the `refresh` line the command writes to the agent
(`asked`). The peers of console rosters are shared objects (`[...roster.peers]`);
`obj` remembers which command made each, because `publishRevocation` marks the
object and so every roster it is in.

A refresh of the agent is a task that awaits its first or its second query.
`AnswerQuery` is the relay's REQ handler: stored matches and EOSE are sent in one
turn, so the answer is a snapshot, and pushes for the subscription that come
later find it closed. The 3 s timer may deliver any part of it. `GetRoster` and
`GetRevocations` are what the code does after each await.

`Init` is the moment after `boot()` has sent the first roster. An event is what
its id binds; a group signature is the number of FROST shares in it.

Deliberate abstractions. `finance-db`'s own roster entry is left out, since the
service does not admit itself. A roster of version 0 with nobody on it stands
for `null`. Tasks take up answers in any order, more than one connection would
allow, except that `relay()` does give two connections to calls that overlap
before the first has opened. The branch `roster_rejected` (agent.js:74-77) is
unreachable, as the relay has verified what it stores. There is one officer key
in the runs because the console always uses the first (server.js:333).

### Tunnel and the code

`calls` has one record per `connect` or `probe`, with the await it is at; a cid
is the call and the one of its two asks. A key is named by the two ephemerals
it comes from. `ReceiveOk` is `complete` and the `send` that follows in the same
turn. `ReceiveInit` and `ReceiveData` are the inbound handler with every refusal
in the order of the code. `Taken` takes a datagram from the network or leaves a
duplicate there. The roster in force may become any roster at any time:
what it may become is `ControlPlane`'s concern. A lapsed lease and a revocation
are one set here, `refused`. A relayed request goes into the network at once;
its HTTP legs fail only with the rendezvous. A lookup fails when the rendezvous is dead, or, as one of
the counted faults, at a living one that does not know the service or for a client
whose roster does not list it.

### AuditChain and the code

A digest is the sequence of the entries it commits to, so hashing is injective.
`block` is the place between two file operations of a synchronous block of the
console, at which the agent may append; no other console action happens there.
`shown` and `lastSize` are `log` and `lastSize` of `readNewAudit`. Time stamps
of entries are left out. `forge` and `tamper` are commands of the demonstration
console and are modelled as what happens to the file.

### Bip340, Frost and the code

Loops over bits are recursive functions of the loop's variables, loops over signers
(`SumOf`, `ProductOf`, `Commitment`) of the number they have come to; `Mul` keeps
the Jacobian coordinates of the code, and `Times` is the reference, adding k times.
`P`, `N` and `G` are constants: TLC has a curve over 43 elements, and the proofs speak
of any for which the assumptions of `Bip340` hold. A tagged hash is any
number, chosen when something is signed: a binding factor or a challenge. `key`
is what a process holds, a dealt group or one secret. `Deal`, `Lambda`,
`Commitment` and `Partial` are the parts of frost.js in its order; a signing is
one action, since `sign` is one synchronous call with all shares at hand, and
the throw for an R at infinity is the guard of `GroupSign`. `ControlPlane` counts
shares instead of doing this arithmetic: what `EnoughVerifies` and `OneTooFewFails`
say is what it takes a group signature to be.

### RosterQuorum and the code

A document's signatures are a sequence of signers, each with a signature that
verifies over this body or does not; `Signers` is the set that `seen` ends as.
`peers` is a function, since no caller lists a peer twice. `currentBody` is the
caller's argument, which is the body accepted before. No node calls these functions any
more: the relay and the agent go by the group key and `ControlPlane`'s
revocations, and the comment at zeroport.js:84 describes an earlier design.

### Processes and the code

`mode` says which of the two programs runs. `pc` is the await that `main`
(run-demo.js) or `boot` (server.js) is at; one turn of the event loop is one
action. `kid` is what the operating system knows of a child, `heard` what the
parent knows, and `ready` the promise of `waitReady`, which in the console no
exit settles. An `ask` remembers the length of `p.events` when it was put
(`from`) and returns the first event of its kind after that, whoever it is meant
for; the number `n` in an event is not in the program and only tells the
properties whose answer it is. Commands of one agent are handled in any order,
because `on('line')` does not wait. `Throw` is a rejection in main, which the
walkthrough catches and the console does not. The script is abstracted to one
publish, one refresh, a key, two connects and the ask for the anchor without which
`submit` cannot go on. `Tor` is external up to its output, which
start-tor.js reads in chunks of one or more lines.

### WebSocket, Socks5 and the code

`Loop` is the while loop over `buf`, and `OnData` calls it with any number of the
bytes under way. The lengths at which a longer field is needed are scaled from
126 and 65536 to 2 and 4, so that frames of each of the three forms, cut in each
place, can be enumerated. Bytes and `Xor` are constants: in `MCWire` they are 0 to
3 and the bitwise operator. `PingsAnswered` says that there is one pong for each
ping handled, in order and with the ping's payload.

`Socks5` has a `stage` for each answer that is awaited, and handles a chunk of TCP
with it as one answer, as the code does. Tokens stand for bytes; `Decoded` is
`raw.toString()`, which makes one character of the two bytes of a wide one, and
`Dechunk` works on characters, while the size line of a chunk, `SizeLine`, counts its
bytes. `SizeOf` reads the digits as `parseInt` does, so that digits and line breaks
of a body may be taken for sizes when a count has gone wrong. `timers` has the timers that are
set: `SocksInit` sets the first, `HandOver` clears it and sets the second in one
step, since the continuation of `await connect(...)` is run before the event loop
takes another event, and each ends the request by an action of its own. `Cut`
and `ProxyAnswers` are the proxy's, which may refuse, fall silent or end at any place.

## Runs

| Run | What it shows | Distinct states |
| :-- | :-- | --: |
| `control_plane` | `IInv`, `GrantsWithinQuorum`, `NarrowingAuthorised`, `ConsoleShowsSigned`, `VersionMonotone`, and `ControlPlane` implements `AccessControl` | 402 000 |
| `control_plane_live` | `RevocationReaches`, `AgentSettles` | 78 000 |
| `refresh_window` | violation: a refresh re-admits a revoked peer until its second query returns | - |
| `second_revocation` | violation: an officer's second revocation ends the first | - |
| `revocation_stamp` | violation: a revocation stamped below the roster in force | - |
| `tunnel` | `IInv`, `NonceUsedOnce`, `SessionsAgree`, and `Tunnel` implements `SecureService` | 635 000 |
| `tunnel_live` | `EveryCallEnds`, `LoneCallSucceeds`, `IntroducedCallSucceeds` | 22 000 |
| `frost` | `IInv`, `EnoughVerifies`, `OneTooFewFails`, `BoundToMessage`, `KeyOfSecret`, and of the counting rule `NarrowedSinceQuorum` | 9 800 |
| `processes` | `ExitCodeTells`, `OnionStopped`, `AnsweredByOwn`, `ReasonIsOwn`, `RunEnds`, `NoneLeftBehind` | 178 000 |
| `wire` | of `WebSocket`: `MessagesIntact`, `PingsAnswered`; of `Socks5`: `ResponseIntact`, `OneTimerWaits`, `SocksSettles`; of `AuditChain`: `IInv`, of which `AnchorsAreHistory` is a part, `TamperEvident`, `ShownFollowsFile`, `EditCaught`, `LogCatchesUp` | 103 000 |
| `chunked_body` | violation: a framed body with a two-byte character is not what the server sent | - |
| `anchored_growth` | violation: an untouched log fails against its anchor once it has grown | - |

Bounds. `control_plane` has the boot publish and two more commands, two at a
time, two refreshes at a time, one clock step and one fault, which is a timeout
that races its answer or the death of the relay. Two overlapping publishes are
what sharing the counter takes, and two overlapping refreshes what the window
between the awaits takes. `control_plane_live` needs three commands after
another, so it has no fault and no clock step. `tunnel` has three calls, two at a
time, of two clients: a session in use, a handshake that replaces it and a probe
on what is left, with one datagram lost, duplicated or given up on, or one lookup failed,
and one change of the roster. `frost` has every
secret and every nonce of a single key, and groups of 2 of 3 and 3 of 4 with
every set of signers over three coefficients, two nonces (whose sum is 0, so that
commitments cancel), two binding factors and three challenges, one of them 0.
Half of these have an odd group key or an odd R. On so small a curve two
signers fewer than needed may sign by chance, which is why only one fewer is
claimed to fail. `NarrowedSinceQuorum` is checked over all rosters of two peers, with and without a
lease of two lengths, and up to two signatures of two officers and a stranger.
`processes` has one fault: a child that dies or stops, Tor that dies, or a
parent that is killed, at any point. The console gets two commands, enough to
overlap and for one to be late for the other. `MaxTries` polls stand for 40.
Two cases are left out by guards: a child that is suspended before the last #READY,
for which main has no timer, and console commands before `boot` is through. What
a child prints when its parent is gone is nobody's. `wire` has three frames, of
lengths that need each of the three forms of head, with any opcode and one mask,
and one request whose body is empty, has one chunk or two, with digits and line breaks in them, with
more than 15 bytes, or with wide characters, one of which two chunks share. Its log has
three entries and two editing commands, enough to lose an append, forge a chain and
restore over it. A behaviour of `wire` is one of one of the three; what the others start with is fixed.
The deadlock check
is off everywhere: all models stop when their bounds are used up.

What the code does not keep. The comment at `src/nodes/agent.js:89-92` says that
a revocation applies to the roster in force and to every roster after it until
officers re-admit the peer with a newer one. `refresh_window`,
`second_revocation` and `revocation_stamp` are three ways in which it does not:
`roster = body` (agent.js:80) forgets applied revocations before they are
queried again; the relay replaces the officer's earlier revocation
(directory.js:25); and `version--` (server.js:106) after a refused publish that
overlapped an accepted one leaves the counter below the roster in force.
`anchored_growth` is about `verifyLog` (zeroport.js:144), which compares the
anchored head with the head of a log that has grown since.
`chunked_body` is about `dechunk` ("Decode HTTP/1.1 chunked transfer encoding",
`src/transport/socks5.js:48`), which slices a decoded string by sizes that count bytes: a chunk
of size 2 with one two-byte character in it comes out as the character and
the CR after it, and the sizes after that are looked for at the wrong place. What
the rendezvous frames is ASCII, so the program itself does not meet this.

Limits of what passes. `AgentSettles` is checked with at most two publishes
outstanding. With three, two of them refused, the counter falls two behind; the
relay may then serve a roster of a lower version that the agent never takes.
`SessionsAgree` says when the ends hold the same key, not that they come to
agree again: two handshakes whose oks arrive in the other order leave the client
with the older session until its next connect. `SecureService` lets a request be
served twice, since data packets have no replay window. `AnsweredByOwn` holds only of
asks of a kind and an agent for which none has timed out and none overlapped: a late
answer is taken by the next ask of its kind, and its own by the one after that.
`ReasonIsOwn` excepts commands that overlap and refusals later than a second:
`denyReasonSince` takes the last refusal since its mark, whoever's it is.
`RunEnds` is about the walkthrough: the console's `launch` has no handler for a child
that dies before its #READY, and its boot then waits for ever. `OnionStopped`
speaks of runs that end on their own; Tor is no child of `exitWithParent` and
outlives a parent that is killed. A Tor whose last lines come in one chunk is
given up on after three minutes although it runs (start-tor.js:69 looks at the
first percentage of a chunk only). `NarrowedSinceQuorum` excepts leases: at
zeroport.js:95 a roster without a lease counts as one with a lease of 0, so a
single officer who revokes somebody may drop the lease of somebody else, which
then has no end. This differs from the comment at line 83 ("extends no lease"); no node calls
`acceptRoster`, and `NarrowedSinceQuorum` names the exception. `ResponseIntact` claims a
framed body only if its characters are of one byte (`OneByteEach`), a plain one always.
`TamperEvident`, `EditCaught` and `LogCatchesUp` do not say that no append is lost under an edit, that
`untamper` brings back what was there first, that an anchored head was published or that
every edit is shown: none of these holds. Nor is the console's roster compared with the relay's.
The hazards in `PROJECT.json` that no property covers say so.

Fairness. Callbacks of a live event loop run (`ConsoleAck`, `AgentStep`,
`Proceed`), the relay reads its socket, timers of what cannot be answered any
more run out, a datagram that is not lost arrives, and the 700 ms interval fires
again. In `Processes`, settled promises are continued, exits are heard of, children come up or
die, and EOF on stdin is seen by whoever can still run; nobody has to press a
key, and Tor has to say nothing. In `Socks5` only the timers are fair, each for itself while it is set:
neither proxy nor server has to answer, nor the socket to fail. Commands, clock, faults and roster changes are never obliged to happen. A
timer that races an answer in flight is a fault and is counted, because 3 or 4
seconds against a local network is the exception.

Every property of a passing run has a mutant: a faulty variant of one definition
("faulty variant" in the modules) under which TLC finds the property violated.

## Proofs

`ControlPlaneProofs` proves, for any sets of peers and officers, any threshold,
lease and bounds:

* `Invariance`: `Spec => []IInv`
* `TypeCorrect`, `QuorumSafety`, `NarrowingSafety`, `ConsoleSafety`: the type
  invariant and the three safety invariants
* `VersionSafety`: the roster in force never goes back to a lower version
* `Refinement`: `Spec => ImplementsAccessControl`

`FrostProofs` proves, for any field, group, sizes, draws and hashes:

* `FrostInvariant`: `Spec => []IInv`, and `FrostTypeCorrect`: `Spec => []TypeOK`
* `EnoughAlwaysVerifies`: `Spec => []EnoughVerifies`, for every t of n and every
  set of signers, whatever the parities of the group key and of R
* `OneTooFewNeverVerifies`: `Spec => []OneTooFewFails`
* `SignatureBindsMessage`: `Spec => []BoundToMessage`
* `PublicKeyOfSecret`: `Spec => []KeyOfSecret`

What the code computes is proved first, operator by operator. The argument:

* Square and multiply is the power (`PowIs`), and by Fermat (`FermatLittle`,
  because multiplying by a permutes 1 to m - 1) the power m - 2 is the inverse
  (`InvInverts`). On this rest the divisions of `Add`, `Affine` and `Lambda`.
* Jacobian coordinates stand for points: `JDblStands` and `JAddStands` show that
  what `JDbl` and `JAdd` make of coordinates stands for what `Add` makes of their
  points, with each of their early returns. Double and add over the bits is
  then adding k times (`MulCounts`).
* Of two roots one is even, as P is odd, so `LiftX` finds the point of even y with the
  power (P + 1) / 4 (`LiftFinds`), and points with the same x are equal or opposite.
  So a signature verifies exactly for the challenges for which s - e d is its
  nonce (`VerifyOpens`).
* As many values of a polynomial as it has coefficients give its value at 0 by
  Lagrange's coefficients, and one value fewer misses it by a multiple of the highest
  coefficient, which is not 0 (`Interpolation`). The proof removes one place at
  a time and needs of the coefficients only what that does to the others
  (`Coefficients`), which `Lambda` satisfies (`LambdasAre`).
* `IInv` then says (`KeyInv`) that shares are values of a polynomial none of whose
  coefficients is 0, the first of which is the secret, whose point is even and the
  public key's; and (`SigInv`) that the last signature opens to a nonce of even
  y if there were enough signers, and does not if there was one too few. None
  of the properties says where the shares come from, or what a signature opens to, so
  none of them is inductive.

Assumed are `FieldAssumption` and `OrderAssumption` (P and N are prime, P is 3 modulo 4,
as the exponent in `liftX` needs), that `G` is on the curve, and `GroupAssumption`: sums
of points are points, adding `G` may be done first or last, no point has y = 0 and N
times `G` is the identity. The last are facts about secp256k1 that the code
takes from the specification of the curve; that chords and tangents are
associative on every curve is not proved here. TLC evaluates all of them on the small
curve. `SizesAssumption` has 1 <= t <= n < N. Hashes are any numbers: that a
challenge cannot be found that equals another is not claimed.

`FrostProofs` also proves `EmergencyOnlyNarrows`, `QuorumSpec => []NarrowedSinceQuorum`, for any
sets of peers, rules, leases and officers and any threshold. The rule compares
with the roster before, the property with the last one that had a quorum: the
invariant `Narrowed` relates the two peer by peer, and is kept because being
revoked and the end of a lease are ordered.

`ProcessesProofs` proves, for any scripts, any log of Tor and any number of faults:

* `HonestExitCode`: `Spec => []ExitCodeTells`. `EndInv` adds what it rests on: children
  that main awaits have been launched (`LaunchedInv`), and a child that is heard to
  be gone leaves no promise open (`HeardSettled`), so that the event loop cannot
  run empty, with exit code 0, while main still waits (`NotStuck`).
* `OnionIsStopped`: `Spec => []OnionStopped`, by `TorInv`: a running Tor is known
  to main, or its start is still pending, and shutdown() is not reached while it is.
* `AnswersAreOwn`: `Spec => []AnsweredByOwn`, and `ReasonsAreOwn`: `Spec => []ReasonIsOwn`.
  Both rest on `AskInv`: numbers of asks are given out once and answered at most
  once; unless an exception applies, an answer that is not taken belongs to
  the ask that waits (`OwnAnswers`), and likewise a refusal (`OwnReasons`).

The properties of `ControlPlane` are not inductive. `IInv` adds what they rest on:

* `EventsSourced`: whatever is on a link, in the relay or in an answer was built
  by the console, and an OK true is only given for an event that verifies.
  `GrantsWithinQuorum` needs it, as the agent acts on answers.
* `JobsMatchEvents`: what a publish keeps in memory is what it sent, except for
  marks set meanwhile on shared objects. `ConsoleShowsSigned` needs it.
* `JobsNumbered` and `VersionCountsPublishes`: each outstanding roster has taken
  one from the counter and gives no more back, so `version--` keeps `version` a
  natural number. Type correctness fails without them.
* `RosterAuthorised`: the roster in force is one quorum-signed body, narrowed by
  logged revocations that cover it. The two access properties and the refinement
  follow from it.

One lemma per action shows that it preserves `IInv`; lemmas on the store
(`Store` keeps what was built), on `Unregister` and `MarkEverywhere` (what they
leave alone) and on `QuorumSigned` (it only grows) are stated once. The
assumptions used are the named ones of `Nip01` and `ControlPlane`: the group
key is no officer's key, the threshold is positive, Alice and Rogue are
different peers, the bounds are natural numbers.

`TunnelProofs` proves, for any clients, rosters, faults and bounds:

* `TunnelInvariant`: `Spec => []IInv`
* `TunnelNonceUsedOnce`, `TunnelSessionsAgree`: the two safety invariants
* `TunnelImplements`: `Spec => ImplementsSecureService`, one lemma per action that
  says which abstract step it is

Its `IInv` says where everything comes from: time stamps of initiations differ, so
that the service accepts each at most once; a session of the service or of a client
was granted to a call (`ServiceGranted`, `ClientGranted`); every datagram was
sent by whom it claims, under a session that existed (`Sourced`, `UnderSession`),
and a counter is only used by the session it belongs to. `NonceUsedOnce` fails
without the first, as a duplicated initiation would start the counter of a key again.

`AuditChainProofs` proves, for any number of entries and edits and any lines:

* `AuditInvariant`: `Spec => []IInv`, and `ShownFollows`: `ShownFollowsFile`
* `AnchorsHistory`: an anchored head is a part of the agent's history
* `TamperEvidence`: a file that verifies against a head has exactly the entries
  that head stands for; `VerifiedIsHistory` joins the two
* `EditIsCaught`: an edit that changes a line breaks the chain by itself
* `ForgedChainIntact`: a forged chain does not, which is why the anchor is needed

That the hash of an intact chain commits to all its contents is an induction along
the file. The library's induction theorems cannot be used here, so it is
a least counterexample: the set of lines whose hash does not stand for the lines up
to it has a least one (`LeastNatural` of `CommonLemmas`), and its predecessor
contradicts it. `EditsNoted` keeps track of which lines an edit has
broken, as `EditCaught` speaks of one step only.

`Socks5Proofs` proves, for any bodies, any way to write a size in hex digits
(`Socks5Assumption`: `SizeOf` reads a size line as the number of bytes), any length of a
SOCKS reply and any cut of the stream:

* `SocksResponseIntact`: `SocksSpec => []ResponseIntact`
* `SocksOneTimer`: `SocksSpec => []OneTimerWaits`

The invariant `SocksInv` says that what was collected and what is under way are a
part of a few bytes left over from the SOCKS reply and then the response, all of it
if the stream was not cut, and which timer is set at which stage. What follows
an ASCII head decodes on its own (`DecodedAfter`). Of bytes without wide characters it is
the identity (`DecodedPlain`), which is where `OneByteEach` is needed: a framed body is then decoded
character for byte, every size line is found where `Chunk` put it and read as the number it stands for
(`ChunkSizeAt`), and what `dechunk` makes of a part of the frames is a part of the
body (`DechunkPart`), by induction from the last chunk to the first with `CountDown` of
`CommonLemmas`. That the recursive functions of `SizeOf`, `Dechunk` and `FlattenSeq`
exist is shown with `CountUp` and `CountDown`. TLC has checked `SocksInv` on the instance of
`chunked_body`.

`WebSocketProofs` proves, for any payloads, masks, lengths and base of the fields
and any cut of the stream:

* `WsInvariant`: `WsSpec => []WsInv`
* `MessagesArriveIntact`: `WsSpec => []MessagesIntact`
* `PingsGetAnswers`: `WsSpec => []PingsAnswered`

They assume of the constants (`WebSocketAssumption`) that the same mask undoes
`Xor`, that the fields are long enough for the lengths they announce, and that a
first length byte cannot be taken for a flag. With the code's 126, 127, 128, 2 and
8 bytes this is so. `MessagesIntact` says nothing of bytes that are not handled
yet. `WsInv` does: all bytes sent are the encoded frames in order; the first of
these frames have been handled and answered; `buf` and then `wire` hold the rest,
and `buf` less than one frame. The proof goes from a number and its digits (`CountUp`) and a
mask applied twice to one encoded frame, which `ReadFrame` reads back whatever
follows it and finds incomplete when a byte is missing; then to the loop over
`buf`, which by counting down the frames handles all whole ones (`LoopReads`);
and to the answers, read by the client as frames again (`RepliesRead`). That the
recursive functions exist is proved, not assumed.

Only model-checked: liveness (`RevocationReaches`, `AgentSettles`, `EveryCallEnds`,
`LoneCallSucceeds`, `IntroducedCallSucceeds`, `LogCatchesUp`, `RunEnds`,
`NoneLeftBehind`, `SocksSettles`), which needs fairness and `ENABLED`. Every other
property of a passing run is a theorem.

## Plan

1. `ControlPlane` with `Nip01` and `AccessControl`: done, proved.
2. `Tunnel` with `SecureService`: done, proved.
3. `AuditChain`: done, proved. Next: that `untamper` restores the log (it does
   not after a second `tamper`, nor if the agent has appended), that the anchored
   head was published, and which row the page marks as forged.
4. `RosterQuorum`: done, proved.
5. `Bip340` and `Frost`: done, proved. Next: that the assumed group law holds on the curve.
6. `Processes`: done, proved.
7. `Socks5` and `WebSocket`: done, proved.
8. `Directory`: subscriptions, fan-out and replacement: no kept event is missed
   between the stored answers and the live ones.

## Not modelled

* That secp256k1 satisfies the assumptions about field and group, and Node's ciphers and hashes.
* The relay's live subscriptions: clients close theirs at EOSE. Connecting to the relay,
  but for its failure in `Processes`.
* Parts of programs without state that is kept: socket probes (`scan`, `rawPacket`), the
  choice of a network interface, the HTTP upgrade, narration, key export, `seal` and `open`,
  which no node calls any more.
* The exchange with OpenTimestamps calendars, which only ends well or not.
* `test-onion.js` and `wan-measure.js`, which measure one thing after the other; the WireGuard
  scripts, which drive an interface of Windows; the web pages.

`PROJECT.json` lists every part with its status and reason.
