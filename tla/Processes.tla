----------------------------- MODULE Processes -----------------------------
(***************************************************************************)
(* The two programs that start the others, the walkthrough                 *)
(* (apps/walkthrough/run-demo.js) and the console (apps/console/server.js),*)
(* the processes they start, and Tor.  Both wait for #READY lines, put     *)
(* questions on a child's stdin, look for the answers among the events the *)
(* child prints, and end; their children end with them                     *)
(* (src/nodes/exit-with-parent.js).                                        *)
(*                                                                         *)
(* A timer may fire whenever it is set: clocks are not modelled.           *)
(***************************************************************************)
EXTENDS Naturals, Sequences, FiniteSets

CONSTANTS
  Relay, Rdv, Db, Laptop,   \* the processes that are started
  BootSteps,                \* what main does once they are up, in both programs
  WalkSteps,                \* what the walkthrough does after that
  TorLog,                   \* the percentages that Tor logs while it starts
  MaxTries,                 \* polls for the hostname file, 40 in the code
  MaxCommands,              \* commands the console is sent
  MaxFaults                 \* processes that fail, or stop, or are killed

Agents == {Db, Laptop}
Kids == {Relay, Rdv} \cup Agents

(* A step of a script: what it does, and for an ask the child, the kind of *)
(* answer, and whether main trips over the lack of one.                    *)
StepKinds == [do : {"publish", "ask", "key"}, to : Kids,
              t : {"none", "roster", "result", "anchor"}, needed : BOOLEAN]

ASSUME ProcessesAssumption ==
  /\ Relay # Rdv /\ Db # Laptop /\ {Relay, Rdv} \cap Agents = {}
  /\ BootSteps \in Seq(StepKinds) /\ WalkSteps \in Seq(StepKinds)
  /\ MaxTries \in Nat /\ MaxCommands \in Nat /\ MaxFaults \in Nat
  /\ TorLog \in Seq(0..100)

VARIABLES
  mode,      \* which program runs, and its switches
  pc, at,    \* what main awaits; the step of the script it is at
  code, how, \* exit code; how the parent ended
  quit,      \* the user pressed q
  kid,       \* child -> what the process is
  stopped,   \* children that are suspended: no signal and no EOF ends them
  heard,     \* children whose exit the parent has heard of
  ready,     \* child -> the promise of waitReady()
  work,      \* child -> commands on its stdin or being handled
  events,    \* child -> p.events
  asks,      \* calls of ask() and denyReasonSince() that have not returned
  count,     \* calls of ask() so far
  astray,    \* calls of ask() that returned the answer to another one
  crossed,   \* pairs of child and kind of answer of which an ask() was given
             \* up on, or was put while another one was open
  owed,      \* commands that the service has not refused yet
  denies,    \* the deny entries of the service's audit log
  reports,   \* what denyReasonSince() returned
  mixed,     \* two console commands overlapped, or a refusal came too late
  tor, onion,\* the Tor process and its start(); main's variable tor
  faults

parentVars == <<pc, at, code, how, quit>>
kidVars == <<kid, stopped, heard, ready, work>>
askVars == <<events, asks, count, astray, crossed>>
logVars == <<owed, denies, reports, mixed>>
vars == <<mode, parentVars, kidVars, askVars, logVars, tor, onion, faults>>

Walks == mode.program = "walkthrough"
Gone == pc = "gone"
Steps == IF Walks THEN BootSteps \o WalkSteps ELSE BootSteps
Timeout == 0
Launched == {k \in Kids : kid[k] # "none"}
Able(k) == kid[k] \in {"starting", "up"} /\ k \notin stopped

-----------------------------------------------------------------------------
(* The start: relay and rendezvous are launched in one turn.               *)

NoTor == [proc |-> "none", start |-> "idle", log |-> 0, read |-> 0,
          polling |-> FALSE, tries |-> 0, hostname |-> FALSE]

Init ==
  /\ mode \in {[program |-> "walkthrough", tor |-> FALSE],
              [program |-> "walkthrough", tor |-> TRUE],
              [program |-> "console", tor |-> FALSE]}
  /\ pc = "relay" /\ at = 1
  /\ code = 0 /\ how = "running" /\ quit = FALSE
  /\ kid = [k \in Kids |-> IF k \in Agents THEN "none" ELSE "starting"]
  /\ stopped = {}
  /\ heard = {}
  /\ ready = [k \in Kids |-> "pending"]
  /\ work = [k \in Kids |-> {}] /\ events = [k \in Kids |-> <<>>]
  /\ asks = {} /\ count = 0 /\ astray = {} /\ crossed = {}
  /\ owed = {} /\ denies = <<>> /\ reports = {} /\ mixed = FALSE
  /\ tor = NoTor /\ onion = FALSE
  /\ faults = 0

-----------------------------------------------------------------------------
(* A child.                                                                *)

Kill(S) ==
  LET dying == {k \in S : Able(k)} IN
  /\ kid' = [k \in Kids |-> IF k \in dying THEN "dead" ELSE kid[k]]
  /\ work' = [k \in Kids |-> IF k \in dying THEN {} ELSE work[k]]

(* server.listen() or the announcement is through: the child says #READY,  *)
(* and waitReady() is kept.                                                *)
BecomeReady(k) ==
  /\ kid[k] = "starting" /\ Able(k) /\ ~Gone
  /\ kid' = [kid EXCEPT ![k] = "up"]
  /\ ready' = [ready EXCEPT ![k] = "yes"]
  /\ UNCHANGED <<mode, parentVars, stopped, heard, work, askVars, logVars,
                 tor, onion, faults>>

(* A port that is taken, a throw nobody catches.                           *)
Die(k) ==
  /\ faults < MaxFaults /\ ~Gone
  /\ Able(k)
  /\ Kill({k})
  /\ faults' = faults + 1
  /\ UNCHANGED <<mode, parentVars, stopped, heard, ready, askVars,
                 logVars, tor, onion>>

(* The child that will not die which shutdown() has timers for.  main waits *)
(* for a #READY without a timer: what stops before the last one is left    *)
(* out.                                                                    *)
Stop(k) ==
  /\ faults < MaxFaults /\ ~Gone
  /\ kid[k] = "up" /\ k \notin stopped
  /\ pc \notin {"relay", "rdv", "tor", "agents"}
  /\ stopped' = stopped \cup {k}
  /\ faults' = faults + 1
  /\ UNCHANGED <<mode, parentVars, kid, heard, ready, work, askVars,
                 logVars, tor, onion>>

(* exitWithParent(): the end of the parent is the end of stdin.            *)
AgentsHearParent(k) == Gone /\ k \in Agents   \* faulty variant: the call is missing
HearsParent(k) == Gone
ExitWithParent(k) ==
  /\ HearsParent(k) /\ Able(k)
  /\ Kill({k})
  /\ UNCHANGED <<mode, parentVars, stopped, heard, ready, askVars,
                 logVars, tor, onion, faults>>

(* Each line on an agent's stdin is handled on its own, so answers come in *)
(* any order.  A handler that throws answers with an event of kind error.  *)
(* What is printed when the parent is gone is read by nobody.              *)
Answer(k) ==
  /\ kid[k] = "up" /\ Able(k) /\ ~Gone
  /\ \E c \in work[k], t \in {"roster", "result", "anchor", "error"} :
       /\ t = c.t \/ (t = "error" /\ c.t # "anchor")
       /\ work' = [work EXCEPT ![k] = @ \ {c}]
       /\ events' = [events EXCEPT ![k] = Append(@, [t |-> t, n |-> c.n])]
  /\ UNCHANGED <<mode, parentVars, kid, stopped, heard, ready, asks, count,
                 astray, crossed, logVars, tor, onion, faults>>

(* The service's agent refuses the request of a command and writes it down.*)
Deny ==
  /\ kid[Db] = "up" /\ Able(Db) /\ ~Gone
  /\ \E n \in owed :
       /\ owed' = owed \ {n}
       /\ denies' = Append(denies, n)
  /\ UNCHANGED <<mode, parentVars, kidVars, askVars, reports, mixed, tor,
                 onion, faults>>

-----------------------------------------------------------------------------
(* What launch() hangs on a child.                                         *)

(* The walkthrough's handler of 'exit'; the console has none.              *)
OnExitNothing(k) == ready[k]     \* faulty variant: only the child settles the promise
OnExit(k) == IF Walks /\ ready[k] = "pending" THEN "no" ELSE ready[k]

HearExit(k) ==
  /\ ~Gone /\ kid[k] = "dead" /\ k \notin heard
  /\ heard' = heard \cup {k}
  /\ ready' = [ready EXCEPT ![k] = OnExit(k)]
  /\ UNCHANGED <<mode, parentVars, kid, stopped, work, askVars, logVars, tor,
                 onion, faults>>

-----------------------------------------------------------------------------
(* The end of the parent.                                                  *)

(* Nobody looks at answers and refusals any more.                          *)
Forget ==
  /\ events' = [k \in Kids |-> <<>>]
  /\ asks' = {} /\ count' = 0 /\ astray' = {} /\ crossed' = {}
  /\ owed' = {} /\ denies' = <<>> /\ reports' = {} /\ mixed' = FALSE

(* shutdown(c), up to its await.                                           *)
Shutdown(c) ==
  /\ pc' = "closing" /\ code' = c /\ Forget
  /\ Kill(Launched \ heard)
  /\ onion' = FALSE
  /\ tor' = IF onion THEN [tor EXCEPT !.proc = "dead"] ELSE tor

(* The end of the process without shutdown(): an error nobody catches, a   *)
(* signal.                                                                 *)
End(h, c) ==
  /\ pc' = "gone" /\ how' = h /\ code' = c /\ Forget

(* A throw in main: the walkthrough has a catch, the console's boot() has  *)
(* none.                                                                   *)
CatchAll ==     \* faulty variant: the catch ends like the end of main
  IF Walks THEN Shutdown(0) /\ UNCHANGED how
  ELSE End("crash", 1) /\ UNCHANGED <<kid, work, tor, onion>>
Throw ==
  IF Walks THEN Shutdown(1) /\ UNCHANGED how
  ELSE End("crash", 1) /\ UNCHANGED <<kid, work, tor, onion>>

GoOn == UNCHANGED <<code, how, kid, work, tor, onion>>

(* The children are gone, or the timers of 2 s that were set for them in   *)
(* one turn have fired.                                                    *)
StopWaiting ==
  /\ pc = "closing"
  /\ pc' = "draining"
  /\ UNCHANGED <<mode, at, code, how, quit, kidVars, askVars, logVars, tor,
                 onion, faults>>

(* The promises that main awaits: relay and rendezvous one after another,  *)
(* the agents by Promise.all.                                              *)
Awaited == IF pc = "relay" THEN {Relay}
           ELSE IF pc = "rdv" THEN {Rdv}
           ELSE IF pc = "agents" THEN Agents ELSE {}
Fulfilled == \A k \in Awaited : ready[k] = "yes"
Rejected == \E k \in Awaited : ready[k] = "no"

(* Nothing keeps the loop alive, so the process ends with the exit code it *)
(* has; the console's has an HTTP server.                                  *)
Drain ==
  /\ Walks
  /\ \/ pc = "draining"
     \/ Awaited # {} /\ ~Fulfilled /\ ~Rejected
  /\ Launched \subseteq heard
  /\ End("drained", code)
  /\ UNCHANGED <<mode, at, quit, kidVars, tor, onion, faults>>

ForceExit ==
  /\ pc = "draining"
  /\ End("forced", code)
  /\ UNCHANGED <<mode, at, quit, kidVars, tor, onion, faults>>

(* Ctrl-C, a closed terminal, taskkill.  The console catches the signals.  *)
Interrupt ==
  /\ faults < MaxFaults /\ ~Gone
  /\ faults' = faults + 1
  /\ \/ End("killed", 1) /\ UNCHANGED <<kid, work>>
     \/ ~Walks /\ End("bye", 0) /\ Kill(Launched)
  /\ UNCHANGED <<mode, at, quit, stopped, heard, ready, tor, onion>>

-----------------------------------------------------------------------------
(* main, up to the script.                                                 *)

NextAwait == IF pc = "relay" THEN "rdv"
             ELSE IF pc = "rdv" /\ mode.tor THEN "tor"
             ELSE IF pc = "rdv" THEN "agents" ELSE "script"

LaunchAgents(next) ==
  kid' = IF next = "agents"
         THEN [k \in Kids |-> IF k \in Agents THEN "starting" ELSE kid[k]]
         ELSE kid

Continue ==
  /\ Awaited # {} /\ Fulfilled
  /\ pc' = NextAwait
  /\ LaunchAgents(NextAwait)
  /\ UNCHANGED <<mode, at, code, how, quit, stopped, heard,
                 ready, work, askVars, logVars, tor, onion, faults>>

NeverStarted ==
  /\ Awaited # {} /\ Rejected
  /\ Throw
  /\ UNCHANGED <<mode, at, quit, stopped, heard, ready, faults>>

-----------------------------------------------------------------------------
(* ask() and the steps of the script.                                      *)

Step == Steps[at]
InScript == pc = "script" /\ at <= Len(Steps)
Advance == pc' = "script" /\ at' = at + 1

(* A write to a child that is gone is dropped once its exit is known, and  *)
(* is an 'error' event nobody listens to as long as it is not.             *)
Broken(k) == kid[k] = "dead" /\ k \notin heard

FromStart(k) == 0     \* faulty variant: every event is looked at
From(k) == Len(events[k])

PutAsk(k, t, by, mark) ==
  LET c == [n |-> count + 1, t |-> t] IN
  /\ count' = count + 1
  /\ asks' = asks \cup {[n |-> c.n, t |-> t, to |-> k, by |-> by,
                         from |-> From(k), mark |-> mark, got |-> FALSE]}
  /\ work' = [work EXCEPT ![k] = IF kid[k] = "dead" THEN @ ELSE @ \cup {c}]
  /\ crossed' = IF \E a \in asks : a.to = k /\ a.t = t /\ ~a.got
                THEN crossed \cup {<<k, t>>} ELSE crossed
  /\ UNCHANGED <<events, astray>>

(* The first event of the kind after those that were there at the start.   *)
Matches(a) ==
  {i \in (a.from + 1)..Len(events[a.to]) : events[a.to][i].t = a.t}
FirstOf(I) == CHOOSE i \in I : \A j \in I : i <= j

Return(a, n) ==
  /\ astray' = IF n \in {a.n, Timeout} THEN astray
               ELSE astray \cup {[n |-> a.n, to |-> a.to, t |-> a.t]}
  /\ crossed' = IF n = Timeout THEN crossed \cup {<<a.to, a.t>>} ELSE crossed
  /\ asks' = IF a.by = "main" THEN asks \ {a}
             ELSE (asks \ {a}) \cup {[a EXCEPT !.got = TRUE]}
  /\ UNCHANGED <<events, count>>

Answered(a) ==
  /\ Matches(a) # {}
  /\ Return(a, events[a.to][FirstOf(Matches(a))].n)

TimedOut(a) == Return(a, Timeout)

(* The first publish connects to the relay, within 5 s or not at all.  What*)
(* the relay says to the event is looked at by later steps only.           *)
Publish ==
  /\ InScript /\ Step.do = "publish"
  /\ IF Able(Relay)
     THEN Advance /\ GoOn /\ UNCHANGED <<askVars, logVars>>
     ELSE Throw /\ UNCHANGED at
  /\ UNCHANGED <<mode, quit, stopped, heard, ready, faults>>

ScriptAsks ==
  /\ InScript /\ Step.do = "ask"
  /\ IF Broken(Step.to)
     THEN End("crash", 1) /\ UNCHANGED <<at, work>>
     ELSE /\ pc' = "asking" /\ UNCHANGED <<at, code, how, logVars>>
          /\ PutAsk(Step.to, Step.t, "main", 0)
  /\ UNCHANGED <<mode, quit, kid, stopped, heard, ready, tor, onion, faults>>

(* An answer to the script, or after 8 s the lack of one, which some steps *)
(* go on without and others trip over.                                     *)
ScriptAnswered ==
  /\ pc = "asking"
  /\ \E a \in asks :
       /\ a.by = "main"
       /\ \/ /\ Answered(a) \/ (TimedOut(a) /\ ~Step.needed)
             /\ Advance /\ GoOn /\ UNCHANGED logVars
          \/ Step.needed /\ Throw /\ UNCHANGED at
  /\ UNCHANGED <<mode, quit, stopped, heard, ready, faults>>

(* step() waits for a key when it runs slowly.                             *)
WaitKey ==
  /\ InScript /\ Step.do = "key"
  /\ \/ pc' = "key" /\ UNCHANGED at
     \/ Advance
  /\ UNCHANGED <<mode, code, how, quit, kidVars, askVars, logVars,
                 tor, onion, faults>>

PressEnter ==
  /\ pc = "key" /\ Advance
  /\ UNCHANGED <<mode, code, how, quit, kidVars, askVars, logVars,
                 tor, onion, faults>>

PressQ ==
  /\ pc = "key"
  /\ quit' = TRUE
  /\ Shutdown(0)
  /\ UNCHANGED <<mode, at, how, stopped, heard, ready, faults>>

Finish ==
  /\ pc = "script" /\ at > Len(Steps)
  /\ IF Walks THEN Shutdown(0)
     ELSE /\ pc' = "serving"
          /\ UNCHANGED <<code, kid, work, askVars, logVars, tor, onion>>
  /\ UNCHANGED <<mode, at, how, quit, stopped, heard, ready, faults>>

-----------------------------------------------------------------------------
(* The console's commands that are refused.  They are sent once boot() is   *)
(* through; before that handle() has no agents to ask.                     *)

NoMark == 0     \* faulty variant: the last refusal of the whole log
Mark == Len(denies)

Command ==
  /\ pc = "serving"
  /\ Cardinality({a \in asks : a.by = "command"}) + Cardinality(reports) < MaxCommands
  /\ IF Broken(Laptop)
     THEN End("crash", 1) /\ UNCHANGED work
     ELSE /\ PutAsk(Laptop, "result", "command", Mark)
          /\ owed' = owed \cup {count + 1}
          /\ mixed' = (mixed \/ \E a \in asks : a.by = "command")
          /\ UNCHANGED <<pc, how, code, denies, reports>>
  /\ UNCHANGED <<mode, at, quit, kid, stopped, heard, ready, tor, onion,
                 faults>>

CommandAnswered ==
  /\ ~Gone
  /\ \E a \in asks :
       /\ a.by = "command" /\ ~a.got
       /\ Answered(a) \/ TimedOut(a)
  /\ UNCHANGED <<mode, parentVars, kidVars, logVars, tor, onion, faults>>

(* denyReasonSince(mark): the last refusal among the lines since the mark, *)
(* or an empty reason when twenty tries have found none.                   *)
ReadReason ==
  /\ ~Gone
  /\ \E a \in asks :
       /\ a.by = "command" /\ a.got
       /\ asks' = asks \ {a}
       /\ LET r == IF Len(denies) > a.mark THEN denies[Len(denies)] ELSE Timeout
          IN /\ reports' = reports \cup {[n |-> a.n, reason |-> r]}
             /\ mixed' = (mixed \/ r = Timeout)
  /\ UNCHANGED <<mode, parentVars, kidVars, events, count, astray,
                 crossed, owed, denies, tor, onion, faults>>

-----------------------------------------------------------------------------
(* start-tor.js.                                                           *)

SpawnTor ==
  /\ pc = "tor" /\ tor.start = "idle"
  /\ tor' \in {[NoTor EXCEPT !.start = "rejected"]}      \* no tor.exe
       \cup [proc : {"running"}, start : {"pending"}, log : {0}, read : {0},
             polling : {FALSE}, tries : {0}, hostname : BOOLEAN]
  /\ UNCHANGED <<mode, parentVars, kidVars, askVars, logVars, onion, faults>>

TorRuns ==
  /\ tor.proc = "running" /\ pc = "tor"
  /\ \/ /\ tor.log < Len(TorLog)
        /\ tor' = [tor EXCEPT !.log = @ + 1] /\ UNCHANGED faults
     \/ /\ ~tor.hostname
        /\ tor' = [tor EXCEPT !.hostname = TRUE] /\ UNCHANGED faults
     \/ /\ faults < MaxFaults
        /\ tor' = [tor EXCEPT !.proc = "dead"] /\ faults' = faults + 1
  /\ UNCHANGED <<mode, parentVars, kidVars, askVars, logVars, onion>>

(* A chunk of Tor's output holds one line or several; the match is the     *)
(* first percentage in it.                                                 *)
TorData ==
  /\ ~Gone /\ tor.read < tor.log
  /\ \E to \in (tor.read + 1)..tor.log :
       tor' = [tor EXCEPT !.read = to,
                          !.polling = @ \/ (TorLog[tor.read + 1] = 100
                                            /\ tor.start = "pending")]
  /\ UNCHANGED <<mode, parentVars, kidVars, askVars, logVars, onion, faults>>

Poll ==
  /\ ~Gone /\ tor.polling
  /\ tor' = IF tor.start # "pending" THEN [tor EXCEPT !.polling = FALSE]
            ELSE IF tor.hostname
            THEN [tor EXCEPT !.polling = FALSE, !.start = "resolved"]
            ELSE [tor EXCEPT !.tries = @ + 1, !.polling = tor.tries < MaxTries]
  /\ UNCHANGED <<mode, parentVars, kidVars, askVars, logVars, onion, faults>>

TorTimeoutOnly ==     \* faulty variant: proc.kill() is missing
  /\ ~Gone /\ tor.start = "pending"
  /\ tor' = [tor EXCEPT !.start = "rejected"]
  /\ UNCHANGED <<mode, parentVars, kidVars, askVars, logVars, onion, faults>>
TorTimeout ==
  /\ ~Gone /\ tor.start = "pending"
  /\ tor' = [tor EXCEPT !.start = "rejected", !.proc = "dead"]
  /\ UNCHANGED <<mode, parentVars, kidVars, askVars, logVars, onion, faults>>

TorExited ==
  /\ ~Gone /\ tor.start = "pending" /\ tor.proc = "dead"
  /\ tor' = [tor EXCEPT !.start = "rejected"]
  /\ UNCHANGED <<mode, parentVars, kidVars, askVars, logVars, onion, faults>>

(* With or without it, the walkthrough goes on; the rest of start() has no *)
(* effect any more.                                                        *)
TorSettled ==
  /\ pc = "tor" /\ tor.start \in {"resolved", "rejected"}
  /\ onion' = (tor.start = "resolved")
  /\ tor' = [NoTor EXCEPT !.proc = tor.proc]
  /\ pc' = "agents" /\ LaunchAgents("agents")
  /\ UNCHANGED <<mode, at, code, how, quit, stopped, heard,
                 ready, work, askVars, logVars, faults>>

-----------------------------------------------------------------------------
Main == Continue \/ NeverStarted \/ Publish \/ ScriptAsks \/ ScriptAnswered
          \/ WaitKey \/ Finish \/ StopWaiting
Endings == Drain \/ ForceExit
TorHandlers == SpawnTor \/ TorData \/ Poll \/ TorTimeout \/ TorExited \/ TorSettled
Child(k) == BecomeReady(k) \/ ExitWithParent(k)

Next ==
  \/ Main \/ Endings \/ TorHandlers \/ TorRuns
  \/ PressEnter \/ PressQ \/ Interrupt
  \/ Command \/ CommandAnswered \/ ReadReason \/ Deny
  \/ \E k \in Kids : HearExit(k) \/ Child(k) \/ Die(k) \/ Stop(k) \/ Answer(k)

(* Promises, events and timers of a process that runs are seen to; a child *)
(* that starts ends up ready or dead.  Nobody has to press a key.          *)
Fairness ==
  /\ WF_vars(Main) /\ WF_vars(Endings) /\ WF_vars(TorHandlers)
  /\ \A k \in Kids : WF_vars(HearExit(k)) /\ WF_vars(Child(k))

Spec == Init /\ [][Next]_vars /\ Fairness

-----------------------------------------------------------------------------
TypeOK ==
  /\ mode \in [program : {"walkthrough", "console"}, tor : BOOLEAN]
  /\ pc \in {"relay", "rdv", "tor", "agents", "script", "asking", "key",
             "serving", "closing", "draining", "gone"}
  /\ at \in 1..(Len(Steps) + 1) /\ code \in {0, 1} /\ quit \in BOOLEAN
  /\ how \in {"running", "drained", "forced", "crash", "killed", "bye"}
  /\ stopped \subseteq Kids /\ heard \subseteq Kids
  /\ kid \in [Kids -> {"none", "starting", "up", "dead"}]
  /\ ready \in [Kids -> {"pending", "yes", "no"}]
  /\ onion \in BOOLEAN /\ faults \in 0..MaxFaults

(* The walkthrough exits with 0 only if it got to its end or was asked to  *)
(* stop, never in silence because a child it waits for is gone             *)
(* (run-demo.js:223-227).                                                  *)
ExitCodeTells ==
  /\ TypeOK
  /\ Walks /\ Gone /\ code = 0 => quit \/ at > Len(Steps)

(* Whatever way Tor's start went, a walkthrough that ends in its own time  *)
(* leaves no Tor behind that holds the SOCKS port of the next run          *)
(* (run-demo.js:149-150, start-tor.js:52-54).                              *)
OnionStopped ==
  Walks /\ how \in {"drained", "forced"} => tor.proc # "running"

(* What ask() returns is the answer to its own command, unless an ask of   *)
(* the same kind to the same child timed out before, or is open at the     *)
(* same time (run-demo.js:250-259, server.js:85-94).                       *)
AnsweredByOwn ==
  \A a \in astray : <<a.to, a.t>> \in crossed

(* The reason the console shows is of the refusal of its own command, if   *)
(* commands do not overlap and no refusal took more than the second the    *)
(* console waits for it: "so we never report a stale refusal"              *)
(* (server.js:195-206).                                                    *)
ReasonIsOwn ==
  \A r \in reports : r.reason \in {r.n, Timeout} \/ mixed

(* The walkthrough ends, or waits for a key that nobody presses.           *)
RunEnds == Walks => <>(Gone \/ [](pc = "key"))

(* However the parent ends, its children end too, so that the next run     *)
(* finds its ports free (exit-with-parent.js:4-14); except those that      *)
(* nothing ends.                                                           *)
NoneLeftBehind == Gone ~> \A k \in Launched \ stopped : kid[k] = "dead"
=============================================================================
