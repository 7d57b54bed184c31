--------------------------- MODULE ProcessesProofs ---------------------------
(***************************************************************************)
(* How a run of the walkthrough or the console ends, for every script,     *)
(* every log of Tor and any number of failing processes: what the exit     *)
(* code says, and that Tor does not outlive a walkthrough that ends in its *)
(* own time.  And, for any number of commands, whose answer an ask() gets  *)
(* and whose refusal a command reports.                                    *)
(***************************************************************************)
EXTENDS Processes, CommonLemmas, TLAPS

Boot == {"relay", "rdv", "agents"}
Ending == {"closing", "draining", "gone"}

\* Tor's process and its start, as far as the way they end depends on it
TorType ==
  [proc : {"none", "running", "dead"},
   start : {"idle", "pending", "resolved", "rejected"},
   log : Nat, read : Nat, polling : BOOLEAN, tries : Nat, hostname : BOOLEAN]

\* main is at a step while it waits for a key or an answer
AtStep == pc \in {"asking", "key"} => at <= Len(Steps)

\* only the steps of start() that are taken launch a child
LaunchedInv ==
  /\ kid[Relay] # "none" /\ kid[Rdv] # "none"
  /\ pc = "agents" => kid[Db] # "none" /\ kid[Laptop] # "none"

\* no promise of the walkthrough is left open by a child that is heard to be gone
HeardSettled == Walks => \A k \in heard : ready[k] # "pending"

\* an end with code 0 has its reason
CodeInv == Walks /\ pc \in Ending /\ code = 0 => quit \/ at > Len(Steps)

EndInv == TypeOK /\ AtStep /\ LaunchedInv /\ HeardSettled /\ CodeInv

\* before and after its start, Tor runs only if main knows of it
TorInv ==
  /\ tor \in TorType
  /\ pc \notin {"tor", "gone"} =>
       /\ tor.start = "idle" /\ tor.log = 0 /\ tor.read = 0 /\ ~tor.polling
  /\ pc \in {"relay", "rdv", "tor"} => ~onion
  /\ tor.proc = "running" => onion \/ tor.start \in {"pending", "resolved"}
  /\ pc \in {"closing", "draining"} \/ how \in {"drained", "forced"} => tor.proc # "running"
  /\ pc # "gone" => how = "running"
  /\ how \in {"drained", "forced"} => pc = "gone"
-----------------------------------------------------------------------------
(***************************************************************************)
(* What the definitions are built from.                                    *)
(***************************************************************************)

\* a script is a sequence of steps, whichever program runs
LEMMA StepsType == Steps \in Seq(StepKinds) /\ Len(Steps) \in Nat
<1>1. BootSteps \in Seq(StepKinds) /\ WalkSteps \in Seq(StepKinds)
  BY ProcessesAssumption
<1>2. BootSteps \o WalkSteps \in Seq(StepKinds)
  BY <1>1
<1>3. Steps \in Seq(StepKinds)
  BY <1>1, <1>2 DEF Steps
<1>. QED BY <1>3

\* a script's length depends on the program only
LEMMA StepsFixed == mode' = mode => Steps' = Steps /\ Walks' = Walks
BY DEF Steps, Walks

\* kill() makes children dead and no child unlaunched
LEMMA KillFacts ==
  ASSUME NEW S, Kill(S), kid \in [Kids -> {"none", "starting", "up", "dead"}]
  PROVE  /\ kid' \in [Kids -> {"none", "starting", "up", "dead"}]
         /\ \A k \in Kids : kid[k] # "none" => kid'[k] # "none"
BY DEF Kill, Able

\* launching the agents leaves no child unlaunched that was
LEMMA LaunchFacts ==
  ASSUME NEW next, LaunchAgents(next), kid \in [Kids -> {"none", "starting", "up", "dead"}]
  PROVE  /\ kid' \in [Kids -> {"none", "starting", "up", "dead"}]
         /\ \A k \in Kids : kid[k] # "none" => kid'[k] # "none"
         /\ next = "agents" => kid'[Db] # "none" /\ kid'[Laptop] # "none"
BY DEF LaunchAgents, Agents, Kids

\* the children by name
LEMMA KidsFacts == {Relay, Rdv, Db, Laptop} \subseteq Kids /\ Agents = {Db, Laptop}
BY DEF Kids, Agents

\* with every child gone that main waits for, the promise it awaits is settled
LEMMA NotStuck ==
  ASSUME EndInv, Walks, Awaited # {}, Launched \subseteq heard
  PROVE  Fulfilled \/ Rejected
<1>1. \A k \in Awaited : k \in Kids /\ kid[k] # "none"
  BY KidsFacts DEF Awaited, EndInv, LaunchedInv
<1>2. \A k \in Awaited : k \in heard
  BY <1>1 DEF Launched
<1>3. \A k \in Awaited : ready[k] \in {"yes", "no"}
  BY <1>1, <1>2 DEF EndInv, TypeOK, HeardSettled
<1>. QED BY <1>3 DEF Fulfilled, Rejected
-----------------------------------------------------------------------------
\* the invariants hold at the start
LEMMA EndInitial == Init => EndInv /\ TorInv
<1>. SUFFICES ASSUME Init PROVE EndInv /\ TorInv
  OBVIOUS
<1>1. TypeOK
  <2>1. mode \in [program : {"walkthrough", "console"}, tor : BOOLEAN]
    <3>1. PICK p \in {"walkthrough", "console"}, t \in BOOLEAN : mode = [program |-> p, tor |-> t]
      BY DEF Init
    <3>. QED BY <3>1
  <2>2. at \in 1..(Len(Steps) + 1)
    BY StepsType DEF Init
  <2>3. faults \in 0..MaxFaults
    BY ProcessesAssumption DEF Init
  <2>. QED BY <2>1, <2>2, <2>3 DEF Init, TypeOK
<1>2. AtStep /\ HeardSettled /\ CodeInv
  BY DEF Init, AtStep, HeardSettled, CodeInv, Ending
<1>3. LaunchedInv
  BY KidsFacts, ProcessesAssumption DEF Init, LaunchedInv
<1>4. TorInv
  BY DEF Init, TorInv, TorType, NoTor
<1>. QED BY <1>1, <1>2, <1>3, <1>4 DEF EndInv

(***************************************************************************)
(* EndInv.  Most steps leave main where it is and end nobody.              *)
(***************************************************************************)
LEMMA QuietStep ==
  ASSUME EndInv, UNCHANGED <<mode, parentVars, kid, stopped, heard, ready, onion>>,
         faults' \in 0..MaxFaults
  PROVE  EndInv'
BY StepsFixed
   DEF EndInv, TypeOK, AtStep, LaunchedInv, HeardSettled, CodeInv, parentVars, Steps, Walks

\* what happens to children leaves main where it is
LEMMA KidStep ==
  ASSUME EndInv, UNCHANGED <<mode, parentVars, onion>>,
         kid' \in [Kids -> {"none", "starting", "up", "dead"}],
         \A k \in Kids : kid[k] # "none" => kid'[k] # "none",
         stopped' \subseteq Kids, heard' \subseteq Kids,
         ready' \in [Kids -> {"pending", "yes", "no"}], HeardSettled',
         faults' \in 0..MaxFaults
  PROVE  EndInv'
<1>1. TypeOK' /\ AtStep' /\ CodeInv'
  BY StepsFixed DEF EndInv, TypeOK, AtStep, CodeInv, parentVars, Steps, Walks
<1>2. LaunchedInv'
  BY KidsFacts DEF EndInv, LaunchedInv, parentVars
<1>. QED BY <1>1, <1>2 DEF EndInv

\* a step of main: where it may come to, and what that takes
LEMMA MainStep ==
  ASSUME EndInv, UNCHANGED <<mode, stopped, heard, ready>>,
         kid' \in [Kids -> {"none", "starting", "up", "dead"}],
         \A k \in Kids : kid[k] # "none" => kid'[k] # "none",
         pc' = "agents" => pc = "agents" \/ (kid'[Db] # "none" /\ kid'[Laptop] # "none"),
         pc' \in {"relay", "rdv", "tor", "agents", "script", "asking", "key",
                  "serving", "closing", "draining", "gone"},
         at' \in 1..(Len(Steps) + 1), pc' \in {"asking", "key"} => at' <= Len(Steps),
         code' \in {0, 1}, quit' \in BOOLEAN, onion' \in BOOLEAN,
         how' \in {"running", "drained", "forced", "crash", "killed", "bye"},
         Walks /\ pc' \in Ending /\ code' = 0 => quit' \/ at' > Len(Steps),
         faults' \in 0..MaxFaults
  PROVE  EndInv'
<1>1. Steps' = Steps /\ Walks' = Walks
  BY StepsFixed
<1>2. TypeOK' /\ AtStep' /\ CodeInv' /\ HeardSettled'
  BY <1>1 DEF EndInv, TypeOK, AtStep, CodeInv, HeardSettled
<1>3. LaunchedInv'
  BY KidsFacts DEF EndInv, LaunchedInv
<1>. QED BY <1>2, <1>3 DEF EndInv

\* a throw ends the run, and says so
LEMMA ThrowFacts ==
  ASSUME TypeOK, Throw
  PROVE  /\ pc' \in {"closing", "gone"} /\ code' = 1
         /\ pc' = "closing" => how' = how
         /\ pc' = "gone" => how' = "crash" /\ tor' = tor /\ onion' = onion
         /\ how' \in {"running", "drained", "forced", "crash", "killed", "bye"}
         /\ onion' \in BOOLEAN
         /\ kid' \in [Kids -> {"none", "starting", "up", "dead"}]
         /\ \A k \in Kids : kid[k] # "none" => kid'[k] # "none"
<1>1. CASE Walks
  <2>1. Shutdown(1) /\ UNCHANGED how
    BY <1>1 DEF Throw
  <2>2. Kill(Launched \ heard)
    BY <2>1 DEF Shutdown
  <2>. QED BY <2>1, <2>2, KillFacts DEF Shutdown, TypeOK
<1>2. CASE ~Walks
  BY <1>2 DEF Throw, End, TypeOK
<1>. QED BY <1>1, <1>2
-----------------------------------------------------------------------------
\* steps of the children, of Tor and of commands
LEMMA EndInvOthers ==
  ASSUME EndInv, [Next]_vars
  PROVE  /\ UNCHANGED vars => EndInv'
         /\ TorHandlers /\ ~TorSettled => EndInv'
         /\ TorRuns \/ CommandAnswered \/ ReadReason \/ Deny => EndInv'
         /\ \A k \in Kids : HearExit(k) \/ Child(k) \/ Die(k) \/ Stop(k) \/ Answer(k) => EndInv'
<1>. USE DEF parentVars, kidVars, askVars, logVars
<1>1. TypeOK /\ faults \in 0..MaxFaults /\ MaxFaults \in Nat
  BY ProcessesAssumption DEF EndInv, TypeOK
<1>2. UNCHANGED vars => EndInv'
  BY <1>1, QuietStep DEF vars
<1>3. TorHandlers /\ ~TorSettled => EndInv'
  BY <1>1, QuietStep DEF TorHandlers, SpawnTor, TorData, Poll, TorTimeout, TorExited
<1>4. TorRuns \/ CommandAnswered \/ ReadReason \/ Deny => EndInv'
  <2>1. CASE TorRuns
    <3>1. faults' \in 0..MaxFaults
      BY <1>1, <2>1 DEF TorRuns
    <3>. QED BY <2>1, <3>1, QuietStep DEF TorRuns
  <2>2. CASE CommandAnswered \/ ReadReason \/ Deny
    BY <1>1, <2>2, QuietStep DEF CommandAnswered, ReadReason, Deny
  <2>. QED BY <2>1, <2>2
<1>5. ASSUME NEW k \in Kids, HearExit(k) \/ Child(k) \/ Die(k) \/ Stop(k) \/ Answer(k)
      PROVE  EndInv'
  <2>1. CASE HearExit(k)
    <3>1. ready' \in [Kids -> {"pending", "yes", "no"}]
      BY <1>1, <2>1 DEF HearExit, OnExit, TypeOK
    <3>2. HeardSettled'
      BY <1>1, <2>1, StepsFixed DEF HearExit, OnExit, TypeOK, EndInv, HeardSettled
    <3>. QED BY <1>1, <2>1, <3>1, <3>2, KidStep DEF HearExit, TypeOK
  <2>2. CASE BecomeReady(k)
    <3>1. HeardSettled'
      BY <1>1, <2>2, StepsFixed DEF BecomeReady, TypeOK, EndInv, HeardSettled
    <3>. QED BY <1>1, <2>2, <3>1, KidStep DEF BecomeReady, TypeOK
  <2>3. CASE ExitWithParent(k) \/ Die(k)
    <3>1. Kill({k}) /\ UNCHANGED <<mode, parentVars, stopped, heard, ready, onion>>
      BY <2>3 DEF ExitWithParent, Die
    <3>2. faults' \in 0..MaxFaults
      BY <1>1, <2>3 DEF ExitWithParent, Die
    <3>3. HeardSettled'
      BY <3>1, StepsFixed DEF EndInv, HeardSettled
    <3>. QED BY <1>1, <3>1, <3>2, <3>3, KillFacts, KidStep DEF TypeOK
  <2>4. CASE Stop(k)
    <3>1. HeardSettled'
      BY <2>4, StepsFixed DEF Stop, EndInv, HeardSettled
    <3>2. faults' \in 0..MaxFaults
      BY <1>1, <2>4 DEF Stop
    <3>. QED BY <1>1, <2>4, <3>1, <3>2, KidStep DEF Stop, TypeOK
  <2>5. CASE Answer(k)
    BY <1>1, <2>5, QuietStep DEF Answer
  <2>. QED BY <1>5, <2>1, <2>2, <2>3, <2>4, <2>5 DEF Child
<1>. QED BY <1>2, <1>3, <1>4, <1>5

\* steps of main that neither throw nor end the run
LEMMA EndInvMain ==
  ASSUME EndInv, Continue \/ TorSettled \/ WaitKey \/ PressEnter
  PROVE  EndInv'
<1>1. TypeOK
  BY DEF EndInv
<1>2. CASE Continue
  <2>1. pc' = NextAwait /\ LaunchAgents(NextAwait) /\ NextAwait \in {"rdv", "tor", "agents", "script"}
    BY <1>2 DEF Continue, NextAwait
  <2>. QED BY <1>1, <1>2, <2>1, LaunchFacts, MainStep DEF Continue, TypeOK, Ending
<1>3. CASE TorSettled
  <2>1. pc' = "agents" /\ LaunchAgents("agents") /\ onion' \in BOOLEAN
    BY <1>3 DEF TorSettled
  <2>. QED BY <1>1, <1>3, <2>1, LaunchFacts, MainStep DEF TorSettled, TypeOK, Ending
<1>4. CASE WaitKey \/ PressEnter
  <2>1. at \in 1..Len(Steps) /\ at + 1 \in 1..(Len(Steps) + 1)
    BY <1>1, <1>4, StepsType DEF WaitKey, PressEnter, InScript, EndInv, TypeOK, AtStep
  <2>2. /\ pc' \in {"key", "script"} /\ at' \in 1..(Len(Steps) + 1)
        /\ pc' = "key" => at' <= Len(Steps)
    BY <1>1, <1>4, <2>1 DEF WaitKey, PressEnter, InScript, Advance, TypeOK
  <2>. QED BY <1>1, <1>4, <2>2, MainStep
       DEF WaitKey, PressEnter, TypeOK, Ending, kidVars
<1>. QED BY <1>2, <1>3, <1>4

\* steps of main that may throw
LEMMA EndInvThrows ==
  ASSUME EndInv, NeverStarted \/ Publish \/ ScriptAsks \/ ScriptAnswered
  PROVE  EndInv'
<1>1. TypeOK
  BY DEF EndInv
<1>2. ASSUME Throw, UNCHANGED <<mode, at, quit, stopped, heard, ready, faults>>
      PROVE  EndInv'
  BY <1>1, <1>2, ThrowFacts, MainStep DEF TypeOK, Ending
<1>3. ASSUME Advance, GoOn, at <= Len(Steps), UNCHANGED <<mode, quit, stopped, heard, ready, faults>>
      PROVE  EndInv'
  <2>1. at' \in 1..(Len(Steps) + 1)
    BY <1>1, <1>3, StepsType DEF Advance, TypeOK
  <2>. QED BY <1>1, <1>3, <2>1, MainStep DEF Advance, GoOn, TypeOK, Ending
<1>4. CASE NeverStarted
  BY <1>2, <1>4 DEF NeverStarted
<1>5. CASE Publish
  BY <1>2, <1>3, <1>5 DEF Publish, InScript
<1>6. CASE ScriptAsks
  <2>1. \/ pc' = "asking" /\ UNCHANGED <<at, code, how>>
        \/ End("crash", 1) /\ UNCHANGED at
    BY <1>6 DEF ScriptAsks
  <2>2. at <= Len(Steps) /\ UNCHANGED <<mode, quit, kid, stopped, heard, ready, onion, faults>>
    BY <1>6 DEF ScriptAsks, InScript
  <2>. QED BY <1>1, <2>1, <2>2, MainStep DEF End, TypeOK, Ending
<1>7. CASE ScriptAnswered
  <2>1. at <= Len(Steps)
    BY <1>7 DEF ScriptAnswered, EndInv, AtStep
  <2>2. (Advance /\ GoOn) \/ (Throw /\ UNCHANGED at)
    BY <1>7 DEF ScriptAnswered
  <2>3. UNCHANGED <<mode, quit, stopped, heard, ready, faults>>
    BY <1>7 DEF ScriptAnswered
  <2>. QED BY <1>2, <1>3, <2>1, <2>2, <2>3
<1>. QED BY <1>4, <1>5, <1>6, <1>7

\* steps that end the run or serve
LEMMA EndInvEnds ==
  ASSUME EndInv,
         StopWaiting \/ Drain \/ ForceExit \/ Interrupt \/ PressQ \/ Finish \/ Command
  PROVE  EndInv'
<1>1. TypeOK
  BY DEF EndInv
<1>. USE DEF kidVars
<1>2. CASE StopWaiting
  BY <1>1, <1>2, MainStep DEF StopWaiting, EndInv, CodeInv, TypeOK, Ending
<1>3. CASE Drain
  <2>1. pc = "draining"
    <3>1. Walks /\ Launched \subseteq heard
      BY <1>3 DEF Drain
    <3>. QED BY <1>3, <3>1, NotStuck DEF Drain
  <2>. QED BY <1>1, <1>3, <2>1, MainStep DEF Drain, End, EndInv, CodeInv, TypeOK, Ending
<1>4. CASE ForceExit
  BY <1>1, <1>4, MainStep DEF ForceExit, End, EndInv, CodeInv, TypeOK, Ending
<1>5. CASE Interrupt
  <2>1. faults' \in 0..MaxFaults
    BY <1>1, <1>5, ProcessesAssumption DEF Interrupt, TypeOK
  <2>2. /\ kid' \in [Kids -> {"none", "starting", "up", "dead"}]
        /\ \A k \in Kids : kid[k] # "none" => kid'[k] # "none"
    <3>1. UNCHANGED kid \/ Kill(Launched)
      BY <1>5 DEF Interrupt
    <3>. QED BY <1>1, <3>1, KillFacts DEF TypeOK
  <2>3. pc' = "gone" /\ how' \in {"killed", "bye"} /\ (Walks => code' = 1) /\ code' \in {0, 1}
    BY <1>5 DEF Interrupt, End
  <2>. QED BY <1>1, <1>5, <2>1, <2>2, <2>3, MainStep DEF Interrupt, TypeOK
<1>6. ASSUME Shutdown(0), UNCHANGED <<mode, at, how, stopped, heard, ready, faults>>,
             quit' \in BOOLEAN, quit' \/ at > Len(Steps)
      PROVE  EndInv'
  <2>1. Kill(Launched \ heard) /\ pc' = "closing" /\ code' = 0 /\ onion' = FALSE
    BY <1>6 DEF Shutdown
  <2>. QED BY <1>1, <1>6, <2>1, KillFacts, MainStep DEF TypeOK
<1>7. CASE PressQ
  BY <1>6, <1>7 DEF PressQ
<1>8. CASE Finish
  <2>1. CASE Walks
    BY <1>1, <1>6, <1>8, <2>1 DEF Finish, TypeOK
  <2>2. CASE ~Walks
    BY <1>1, <1>8, <2>2, MainStep DEF Finish, TypeOK, Ending
  <2>. QED BY <2>1, <2>2
<1>9. CASE Command
  <2>1. (End("crash", 1) \/ UNCHANGED <<pc, how, code>>)
          /\ UNCHANGED <<mode, at, quit, kid, stopped, heard, ready, onion, faults>>
    BY <1>9 DEF Command
  <2>2. pc = "serving"
    BY <1>9 DEF Command
  <2>. QED BY <1>1, <2>1, <2>2, MainStep DEF End, TypeOK, Ending
<1>. QED BY <1>2, <1>3, <1>4, <1>5, <1>7, <1>8, <1>9

\* every step preserves the first
LEMMA EndInvPreserved == EndInv /\ [Next]_vars => EndInv'
BY EndInvOthers, EndInvMain, EndInvThrows, EndInvEnds
   DEF Next, Main, Endings, TorHandlers

(***************************************************************************)
(* run-demo.js:223-227, for every script and any number of failures: an    *)
(* exit code of 0 means that the walkthrough got to its end or was stopped *)
(* by its user.                                                            *)
(***************************************************************************)
THEOREM HonestExitCode == Spec => []ExitCodeTells
<1>1. EndInv => ExitCodeTells
  BY DEF EndInv, CodeInv, ExitCodeTells, Gone, Ending
<1>. QED BY <1>1, EndInitial, EndInvPreserved, PTL DEF Spec
-----------------------------------------------------------------------------
(***************************************************************************)
(* TorInv.                                                                 *)
(***************************************************************************)

\* children and commands
LEMMA TorInvQuiet == ASSUME TorInv, UNCHANGED <<pc, how, tor, onion>> PROVE TorInv'
BY DEF TorInv

\* main goes on, and what it knows of Tor is up to date
LEMMA TorInvGoesOn ==
  ASSUME TorInv, UNCHANGED <<how, tor, onion>>, pc \notin {"tor", "gone", "closing", "draining"},
         pc' \notin {"gone", "closing", "draining"},
         pc' \in {"relay", "rdv", "tor"} => pc \in {"relay", "rdv"}
  PROVE  TorInv'
BY DEF TorInv

\* shutdown() stops the Tor that main knows of, and there is no other
LEMMA TorInvShutdown ==
  ASSUME TorInv, NEW c, Shutdown(c), UNCHANGED how, pc \notin {"tor", "gone"}
  PROVE  TorInv'
<1>1. pc' = "closing" /\ onion' = FALSE /\ how' = "running"
  BY DEF Shutdown, TorInv
<1>2. CASE onion
  <2>1. tor' = [tor EXCEPT !.proc = "dead"]
    BY <1>2 DEF Shutdown
  <2>2. tor' \in TorType /\ tor'.proc = "dead" /\ tor'.start = tor.start
          /\ tor'.log = tor.log /\ tor'.read = tor.read /\ tor'.polling = tor.polling
    BY <2>1 DEF TorInv, TorType
  <2>. QED BY <1>1, <2>2 DEF TorInv
<1>3. CASE ~onion
  <2>1. tor' = tor
    BY <1>3 DEF Shutdown
  <2>. QED BY <1>1, <1>3, <2>1 DEF TorInv
<1>. QED BY <1>2, <1>3

\* an end without shutdown() is no end in the run's own time
LEMMA TorInvEnd ==
  ASSUME TorInv, NEW h, NEW c, End(h, c), UNCHANGED <<tor, onion>>,
         h \in {"drained", "forced"} => pc = "draining"
  PROVE  TorInv'
BY DEF TorInv, End

\* a failure shuts the run down or ends it
LEMMA TorInvThrow ==
  ASSUME TorInv, Throw, pc \notin {"tor", "gone"}
  PROVE  TorInv'
<1>1. CASE Walks
  BY <1>1, TorInvShutdown DEF Throw
<1>2. CASE ~Walks
  BY <1>2, TorInvEnd DEF Throw
<1>. QED BY <1>1, <1>2

\* Tor itself and the handlers of start()
LEMMA TorInvStart ==
  ASSUME TorInv, TorHandlers \/ TorRuns
  PROVE  TorInv'
<1>. USE DEF parentVars
<1>1. CASE SpawnTor
  <2>1. CASE tor' = [NoTor EXCEPT !.start = "rejected"]
    BY <1>1, <2>1 DEF SpawnTor, NoTor, TorInv, TorType
  <2>2. CASE tor' # [NoTor EXCEPT !.start = "rejected"]
    <3>1. PICK b \in BOOLEAN :
            tor' = [proc |-> "running", start |-> "pending", log |-> 0, read |-> 0,
                    polling |-> FALSE, tries |-> 0, hostname |-> b]
      BY <1>1, <2>2 DEF SpawnTor
    <3>. QED BY <1>1, <3>1 DEF SpawnTor, TorInv, TorType
  <2>. QED BY <2>1, <2>2
<1>2. CASE TorRuns
  <2>1. tor' \in TorType /\ tor'.start = tor.start /\ tor'.proc \in {tor.proc, "dead"}
    <3>1. CASE tor' = [tor EXCEPT !.log = @ + 1]
      BY <3>1 DEF TorInv, TorType
    <3>2. CASE tor' = [tor EXCEPT !.hostname = TRUE]
      BY <3>2 DEF TorInv, TorType
    <3>3. CASE tor' = [tor EXCEPT !.proc = "dead"]
      BY <3>3 DEF TorInv, TorType
    <3>. QED BY <1>2, <3>1, <3>2, <3>3 DEF TorRuns
  <2>. QED BY <1>2, <2>1 DEF TorRuns, TorInv
<1>3. CASE TorData
  <2>1. PICK to \in (tor.read + 1)..tor.log :
          tor' = [tor EXCEPT !.read = to,
                             !.polling = @ \/ (TorLog[tor.read + 1] = 100
                                               /\ tor.start = "pending")]
    BY <1>3 DEF TorData
  <2>2. tor' \in TorType /\ tor'.proc = tor.proc /\ tor'.start = tor.start
    <3>1. to \in Nat
      BY <2>1 DEF TorInv, TorType
    <3>2. (tor.polling \/ (TorLog[tor.read + 1] = 100 /\ tor.start = "pending")) \in BOOLEAN
      OBVIOUS
    <3>. QED BY <2>1, <3>1, <3>2 DEF TorInv, TorType
  <2>3. pc \in {"tor", "gone"}
    BY <1>3 DEF TorData, TorInv
  <2>. QED BY <1>3, <2>2, <2>3 DEF TorData, TorInv
<1>4. CASE Poll
  <2>1. pc = "tor"
    BY <1>4 DEF Poll, TorInv, Gone
  <2>2. /\ tor' \in TorType /\ tor'.proc = tor.proc
        /\ tor'.start = tor.start \/ (tor.start = "pending" /\ tor'.start = "resolved")
    <3>1. CASE tor.start # "pending"
      BY <1>4, <3>1 DEF Poll, TorInv, TorType
    <3>2. CASE tor.start = "pending" /\ tor.hostname
      BY <1>4, <3>2 DEF Poll, TorInv, TorType
    <3>3. CASE tor.start = "pending" /\ ~tor.hostname
      <4>1. tor' = [tor EXCEPT !.tries = @ + 1, !.polling = tor.tries < MaxTries]
        BY <1>4, <3>3 DEF Poll
      <4>2. (tor.tries < MaxTries) \in BOOLEAN /\ tor.tries + 1 \in Nat
        BY DEF TorInv, TorType
      <4>. QED BY <4>1, <4>2 DEF TorInv, TorType
    <3>. QED BY <3>1, <3>2, <3>3
  <2>. QED BY <1>4, <2>1, <2>2 DEF Poll, TorInv
<1>5. CASE TorTimeout \/ TorExited
  <2>1. tor' \in TorType /\ tor'.proc = "dead"
    BY <1>5 DEF TorTimeout, TorExited, TorInv, TorType
  <2>2. pc = "tor"
    BY <1>5 DEF TorTimeout, TorExited, TorInv, Gone
  <2>. QED BY <1>5, <2>1, <2>2 DEF TorTimeout, TorExited, TorInv
<1>6. CASE TorSettled
  <2>1. tor' = [NoTor EXCEPT !.proc = tor.proc] /\ onion' = (tor.start = "resolved")
          /\ pc = "tor" /\ pc' = "agents" /\ how' = how /\ tor.start \in {"resolved", "rejected"}
    BY <1>6 DEF TorSettled
  <2>2. tor' \in TorType /\ tor'.proc = tor.proc /\ tor'.start = "idle"
          /\ tor'.log = 0 /\ tor'.read = 0 /\ tor'.polling = FALSE
    BY <2>1 DEF NoTor, TorInv, TorType
  <2>. QED BY <2>1, <2>2 DEF TorInv
<1>. QED BY <1>1, <1>2, <1>3, <1>4, <1>5, <1>6 DEF TorHandlers

\* the steps of main
LEMMA TorInvMain ==
  ASSUME EndInv, TorInv, Main \/ PressEnter \/ PressQ \/ Command
  PROVE  TorInv'
<1>. USE DEF parentVars
<1>1. CASE Continue
  BY <1>1, TorInvGoesOn DEF Continue, NextAwait, Awaited
<1>2. CASE NeverStarted
  BY <1>2, TorInvThrow DEF NeverStarted, Awaited
<1>3. CASE Publish \/ ScriptAnswered
  <2>1. pc \in {"script", "asking"} /\ ((Advance /\ GoOn) \/ Throw)
    BY <1>3 DEF Publish, ScriptAnswered, InScript
  <2>. QED BY <2>1, TorInvGoesOn, TorInvThrow DEF Advance, GoOn
<1>4. CASE ScriptAsks
  <2>1. pc = "script" /\ UNCHANGED <<tor, onion>>
          /\ (End("crash", 1) \/ (pc' = "asking" /\ UNCHANGED how))
    BY <1>4 DEF ScriptAsks, InScript
  <2>. QED BY <2>1, TorInvGoesOn, TorInvEnd
<1>5. CASE WaitKey \/ PressEnter
  BY <1>5, TorInvGoesOn DEF WaitKey, PressEnter, InScript, Advance
<1>6. CASE PressQ
  BY <1>6, TorInvShutdown DEF PressQ
<1>7. CASE Finish
  <2>1. CASE Walks
    BY <1>7, <2>1, TorInvShutdown DEF Finish
  <2>2. CASE ~Walks
    BY <1>7, <2>2, TorInvGoesOn DEF Finish
  <2>. QED BY <2>1, <2>2
<1>8. CASE StopWaiting
  BY <1>8 DEF StopWaiting, TorInv
<1>9. CASE Command
  <2>1. pc = "serving" /\ UNCHANGED <<tor, onion>> /\ (End("crash", 1) \/ UNCHANGED <<pc, how>>)
    BY <1>9 DEF Command
  <2>. QED BY <2>1, TorInvQuiet, TorInvEnd
<1>. QED BY <1>1, <1>2, <1>3, <1>4, <1>5, <1>6, <1>7, <1>8, <1>9 DEF Main

\* the ends without shutdown(), and those after it
LEMMA TorInvEnds ==
  ASSUME EndInv, TorInv, Endings \/ Interrupt
  PROVE  TorInv'
<1>1. CASE Drain
  <2>1. pc = "draining"
    <3>1. Walks /\ Launched \subseteq heard
      BY <1>1 DEF Drain
    <3>. QED BY <1>1, <3>1, NotStuck DEF Drain
  <2>. QED BY <1>1, <2>1, TorInvEnd DEF Drain
<1>2. CASE ForceExit
  BY <1>2, TorInvEnd DEF ForceExit
<1>3. CASE Interrupt
  BY <1>3, TorInvEnd DEF Interrupt
<1>. QED BY <1>1, <1>2, <1>3 DEF Endings

\* and the second
LEMMA TorInvPreserved == EndInv /\ TorInv /\ [Next]_vars => TorInv'
<1>. SUFFICES ASSUME EndInv, TorInv, [Next]_vars PROVE TorInv'
  OBVIOUS
<1>1. CASE UNCHANGED vars \/ CommandAnswered \/ ReadReason \/ Deny
  BY <1>1, TorInvQuiet DEF vars, parentVars, CommandAnswered, ReadReason, Deny
<1>2. ASSUME NEW k \in Kids, HearExit(k) \/ Child(k) \/ Die(k) \/ Stop(k) \/ Answer(k)
      PROVE  TorInv'
  BY <1>2, TorInvQuiet
     DEF parentVars, HearExit, Child, BecomeReady, ExitWithParent, Die, Stop, Answer
<1>. QED BY <1>1, <1>2, TorInvStart, TorInvMain, TorInvEnds DEF Next

(***************************************************************************)
(* run-demo.js:149-150, start-tor.js:52-54, for every script, every log of *)
(* Tor and any number of failures: a walkthrough that ends in its own time *)
(* has no Tor running, whether its start succeeded, failed or was given up *)
(* on.                                                                     *)
(***************************************************************************)
THEOREM OnionIsStopped == Spec => []OnionStopped
<1>1. TorInv => OnionStopped
  BY DEF TorInv, OnionStopped
<1>. QED BY <1>1, EndInitial, EndInvPreserved, TorInvPreserved, PTL DEF Spec
-----------------------------------------------------------------------------
(***************************************************************************)
(* Answers and refusals.                                                   *)
(***************************************************************************)

\* commands, what is printed about them, and the waits for it
Kinds == {"none", "roster", "result", "anchor"}
Commands == [n : Nat, t : Kinds]
Printed == [t : Kinds \cup {"error"}, n : Nat]
Waits == [n : Nat, t : Kinds, to : Kids, by : {"main", "command"},
          from : Nat, mark : Nat, got : BOOLEAN]

AskType ==
  /\ count \in Nat
  /\ asks \subseteq Waits /\ \A a \in asks : a.by = "main" => ~a.got
  /\ work \in [Kids -> SUBSET Commands] /\ events \in [Kids -> Seq(Printed)]
  /\ owed \subseteq Nat /\ denies \in Seq(Nat)

\* a number is given out once
Numbered ==
  /\ \A k \in Kids : \A c \in work[k] : c.n <= count
  /\ \A k \in Kids : \A i \in DOMAIN events[k] : events[k][i].n <= count
  /\ \A n \in owed : n <= count
  /\ \A i \in DOMAIN denies : denies[i] <= count

\* a command is answered once
AnsweredOnce ==
  \A k \in Kids :
    /\ \A c, d \in work[k] : c.n = d.n => c = d
    /\ \A c \in work[k] : \A i \in DOMAIN events[k] : events[k][i].n # c.n

OpenAt(k, t) == {a \in asks : a.to = k /\ a.t = t /\ ~a.got}

\* while no ask is given up on or put too early, there is one open at a time,
\* and all that may come is its own answer
OwnAnswers ==
  \A k \in Kids, t \in Kinds : <<k, t>> \notin crossed =>
    /\ \A a, b \in OpenAt(k, t) : a = b
    /\ \A c \in work[k] : c.t = t => \E a \in OpenAt(k, t) : a.n = c.n
    /\ \A a \in OpenAt(k, t) : \A i \in Matches(a) : events[k][i].n = a.n

\* the same for the refusals of commands, each of which is written down once
OwnReasons ==
  /\ \A n \in owed : \A i \in DOMAIN denies : denies[i] # n
  /\ ~mixed =>
       /\ \A a, b \in asks : a.by = "command" /\ b.by = "command" => a = b
       /\ \A n \in owed : \E a \in asks : a.by = "command" /\ a.n = n
       /\ \A a \in asks : \A i \in DOMAIN denies :
            a.by = "command" /\ i > a.mark => denies[i] = a.n

\* at its end the parent forgets them all
AskInv ==
  IF pc \in Ending
  THEN asks = {} /\ astray = {} /\ reports = {}
  ELSE /\ AskType /\ Numbered /\ AnsweredOnce
       /\ OwnAnswers /\ AnsweredByOwn /\ OwnReasons /\ ReasonIsOwn

-----------------------------------------------------------------------------
\* no answer and no refusal has come yet
LEMMA AskInitial == Init => AskInv
<1>. SUFFICES ASSUME Init PROVE AskInv
  OBVIOUS
<1>1. work = [k \in Kids |-> {}] /\ events = [k \in Kids |-> <<>>] /\ denies = <<>>
  BY DEF Init
<1>2. /\ asks = {} /\ count = 0 /\ astray = {} /\ crossed = {} /\ owed = {} /\ reports = {}
      /\ pc = "relay"
  BY DEF Init
<1>3. AskType
  <2>1. <<>> \in Seq(Printed) /\ <<>> \in Seq(Nat)
    OBVIOUS
  <2>. QED BY <1>1, <1>2, <2>1 DEF AskType
<1>4. \A k \in Kids : work[k] = {} /\ DOMAIN events[k] = {}
  BY <1>1
<1>5. Numbered /\ AnsweredOnce
  BY <1>1, <1>2, <1>4 DEF Numbered, AnsweredOnce
<1>6. OwnAnswers /\ AnsweredByOwn
  BY <1>2, <1>4 DEF OwnAnswers, OpenAt, AnsweredByOwn
<1>7. OwnReasons /\ ReasonIsOwn
  BY <1>2 DEF OwnReasons, ReasonIsOwn
<1>. QED BY <1>2, <1>3, <1>5, <1>6, <1>7 DEF AskInv, Ending

\* the end of the parent
LEMMA AskForget == Forget /\ pc' \in Ending => AskInv'
BY DEF Forget, AskInv

\* after a failure no answer is waited for
LEMMA ThrowForgets == Throw => Forget /\ pc' \in Ending
BY DEF Throw, Shutdown, End, Ending

\* nothing happens to asks but that a child dies with its commands
LEMMA AskSame ==
  ASSUME AskInv, pc \notin Ending, pc' \notin Ending, UNCHANGED <<askVars, logVars>>,
         work' \in [Kids -> SUBSET Commands], \A k \in Kids : work'[k] \subseteq work[k]
  PROVE  AskInv'
<1>. USE DEF askVars, logVars
<1>1. AskType /\ Numbered /\ AnsweredOnce /\ OwnAnswers /\ AnsweredByOwn /\ OwnReasons /\ ReasonIsOwn
  BY DEF AskInv
<1>2. AskType' /\ Numbered' /\ AnsweredOnce'
  BY <1>1 DEF AskType, Numbered, AnsweredOnce
<1>3. OwnAnswers' /\ AnsweredByOwn'
  BY <1>1 DEF OwnAnswers, OpenAt, Matches, AnsweredByOwn
<1>4. OwnReasons' /\ ReasonIsOwn'
  BY <1>1 DEF OwnReasons, ReasonIsOwn
<1>. QED BY <1>2, <1>3, <1>4 DEF AskInv

\* when the parent has forgotten them, no ask() starts any more
LEMMA AskEnding ==
  ASSUME AskInv, pc \in Ending, [Next]_vars
  PROVE  AskInv'
<1>. USE DEF Ending, askVars, logVars, parentVars, kidVars
<1>1. asks = {} /\ astray = {} /\ reports = {}
  BY DEF AskInv
<1>2. CASE UNCHANGED <<pc, askVars, logVars>>
  BY <1>1, <1>2 DEF AskInv
<1>3. CASE UNCHANGED <<pc, asks, astray, reports>>
  BY <1>1, <1>3 DEF AskInv
<1>4. CASE Main
  <2>1. StopWaiting
    BY <1>4 DEF Main, Continue, NeverStarted, Awaited, Publish, ScriptAsks, ScriptAnswered, InScript,
                WaitKey, Finish
  <2>. QED BY <1>1, <2>1 DEF StopWaiting, AskInv
<1>5. CASE Endings \/ Interrupt
  <2>1. Forget /\ pc' = "gone"
    BY <1>5 DEF Endings, Drain, ForceExit, Interrupt, End
  <2>. QED BY <2>1, AskForget
<1>6. CASE TorHandlers \/ TorRuns
  <2>1. UNCHANGED <<pc, askVars, logVars>>
    BY <1>6 DEF TorHandlers, SpawnTor, TorData, Poll, TorTimeout, TorExited, TorSettled, TorRuns
  <2>. QED BY <1>2, <2>1
<1>7. CASE PressEnter \/ PressQ \/ Command \/ CommandAnswered \/ ReadReason
  BY <1>1, <1>7 DEF PressEnter, PressQ, Command, CommandAnswered, ReadReason
<1>8. CASE Deny
  BY <1>3, <1>8 DEF Deny
<1>9. ASSUME NEW k \in Kids, HearExit(k) \/ Child(k) \/ Die(k) \/ Stop(k) \/ Answer(k)
      PROVE  AskInv'
  BY <1>3, <1>9 DEF HearExit, Child, BecomeReady, ExitWithParent, Die, Stop, Answer
<1>10. CASE UNCHANGED vars
  BY <1>3, <1>10 DEF vars
<1>. QED BY <1>4, <1>5, <1>6, <1>7, <1>8, <1>9, <1>10 DEF Next
-----------------------------------------------------------------------------
\* the first of the matching messages is one of them
LEMMA FirstMatch ==
  ASSUME NEW a, a.from \in Nat, Matches(a) # {}
  PROVE  FirstOf(Matches(a)) \in Matches(a)
<1>1. Matches(a) \subseteq Nat
  BY DEF Matches
<1>2. \E i \in Matches(a) : \A j \in Matches(a) : i <= j
  BY <1>1, LeastNatural
<1>. QED BY <1>2 DEF FirstOf

\* ask() puts a command that nobody has had
LEMMA AskPut ==
  ASSUME AskInv, pc \notin Ending, NEW k \in Kids, NEW t \in Kinds,
         NEW by \in {"main", "command"}, NEW mark \in Nat, PutAsk(k, t, by, mark),
         owed' \subseteq owed \cup {count + 1}, denies' = denies
  PROVE  AskType' /\ Numbered' /\ AnsweredOnce' /\ OwnAnswers' /\ AnsweredByOwn'
<1>. DEFINE c == [n |-> count + 1, t |-> t]
            a == [n |-> count + 1, t |-> t, to |-> k, by |-> by,
                  from |-> Len(events[k]), mark |-> mark, got |-> FALSE]
<1>1. AskType /\ Numbered /\ AnsweredOnce /\ OwnAnswers /\ AnsweredByOwn
  BY DEF AskInv
<1>2. /\ count \in Nat /\ count + 1 \in Nat /\ owed \subseteq Nat /\ denies \in Seq(Nat)
      /\ events[k] \in Seq(Printed) /\ Len(events[k]) \in Nat
  BY <1>1 DEF AskType
<1>3. /\ count' = count + 1 /\ asks' = asks \cup {a} /\ events' = events /\ astray' = astray
      /\ work' = [work EXCEPT ![k] = IF kid[k] = "dead" THEN @ ELSE @ \cup {c}]
      /\ crossed' = IF \E b \in asks : b.to = k /\ b.t = t /\ ~b.got
                    THEN crossed \cup {<<k, t>>} ELSE crossed
  BY DEF PutAsk, From
<1>4. c \in Commands /\ c.n = count + 1 /\ c.t = t
  BY <1>2 DEF Commands
<1>5. /\ a \in Waits /\ a.n = count + 1 /\ a.t = t /\ a.to = k /\ a.by = by
      /\ a.from = Len(events[k]) /\ a.mark = mark /\ a.got = FALSE
  BY <1>2 DEF Waits
<1>. HIDE DEF c, a
<1>6. \A j \in Kids : work'[j] \subseteq work[j] \cup (IF j = k THEN {c} ELSE {})
  BY <1>1, <1>3 DEF AskType
<1>7. AskType'
  <2>1. work' \in [Kids -> SUBSET Commands]
    BY <1>1, <1>3, <1>4 DEF AskType
  <2>2. owed' \subseteq Nat
    BY <1>2
  <2>3. asks' \subseteq Waits /\ \A b \in asks' : b.by = "main" => ~b.got
    BY <1>1, <1>3, <1>5 DEF AskType
  <2>. QED BY <1>1, <1>2, <1>3, <2>1, <2>2, <2>3 DEF AskType
<1>8. Numbered'
  <2>1. ASSUME NEW n \in Nat, n <= count PROVE n <= count'
    BY <1>2, <1>3, <2>1
  <2>2. ASSUME NEW j \in Kids, NEW d \in work'[j] PROVE d.n <= count'
    <3>1. CASE d \in work[j]
      BY <1>1, <2>1, <3>1 DEF Numbered, AskType, Commands
    <3>2. CASE d = c
      BY <1>2, <1>3, <1>4, <3>2
    <3>. QED BY <1>6, <2>2, <3>1, <3>2
  <2>3. ASSUME NEW j \in Kids, NEW i \in DOMAIN events[j] PROVE events[j][i].n <= count'
    <3>1. events[j] \in Seq(Printed) /\ events[j][i].n <= count
      BY <1>1, <2>3 DEF Numbered, AskType
    <3>2. events[j][i] \in Printed
      BY <2>3, <3>1
    <3>. QED BY <2>1, <3>1, <3>2 DEF Printed
  <2>4. ASSUME NEW n \in owed' PROVE n <= count'
    BY <1>1, <1>2, <1>3, <2>1 DEF Numbered
  <2>5. ASSUME NEW i \in DOMAIN denies PROVE denies[i] <= count'
    BY <1>1, <1>2, <2>1 DEF Numbered
  <2>. QED BY <1>3, <2>2, <2>3, <2>4, <2>5 DEF Numbered
<1>9. AnsweredOnce'
  <2>1. \A j \in Kids : \A d \in work[j] : d.n # c.n
    BY <1>1, <1>2, <1>4 DEF Numbered, AskType, Commands
  <2>2. \A j \in Kids : \A i \in DOMAIN events[j] : events[j][i].n # c.n
    BY <1>1, <1>2, <1>4 DEF Numbered, AskType, Printed
  <2>3. ASSUME NEW j \in Kids
        PROVE  /\ \A d, e \in work'[j] : d.n = e.n => d = e
               /\ \A d \in work'[j] : \A i \in DOMAIN events[j] : events[j][i].n # d.n
    <3>1. work'[j] \subseteq work[j] \cup {c}
      BY <1>6
    <3>. QED BY <1>1, <2>1, <2>2, <3>1 DEF AnsweredOnce
  <2>. QED BY <1>3, <2>3 DEF AnsweredOnce
<1>10. OwnAnswers'
  <2>. SUFFICES ASSUME NEW j \in Kids, NEW u \in Kinds, <<j, u>> \notin crossed'
                PROVE  /\ \A b, d \in OpenAt(j, u)' : b = d
                       /\ \A d \in work'[j] : d.t = u => \E b \in OpenAt(j, u)' : b.n = d.n
                       /\ \A b \in OpenAt(j, u)' : \A i \in Matches(b)' : events'[j][i].n = b.n
    BY DEF OwnAnswers
  <2>1. <<j, u>> \notin crossed
    BY <1>3
  <2>2. \A b : Matches(b)' = Matches(b)
    BY <1>3 DEF Matches
  <2>3. CASE j = k /\ u = t
    <3>1. OpenAt(j, u) = {}
      BY <1>3, <2>3 DEF OpenAt
    <3>2. OpenAt(j, u)' = {a}
      BY <1>3, <1>5, <2>3, <3>1 DEF OpenAt
    <3>3. Matches(a) = {}
      BY <1>2, <1>5 DEF Matches
    <3>4. ASSUME NEW d \in work'[j], d.t = u PROVE a.n = d.n
      <4>1. d \notin work[j]
        BY <1>1, <2>1, <3>1, <3>4 DEF OwnAnswers
      <4>2. d = c
        BY <1>6, <4>1
      <4>. QED BY <1>4, <1>5, <4>2
    <3>. QED BY <2>2, <3>2, <3>3, <3>4
  <2>4. CASE ~(j = k /\ u = t)
    <3>1. OpenAt(j, u)' = OpenAt(j, u)
      BY <1>3, <1>5, <2>4 DEF OpenAt
    <3>2. \A d \in work'[j] : d.t = u => d \in work[j]
      BY <1>4, <1>6, <2>4
    <3>. QED BY <1>1, <1>3, <2>1, <2>2, <3>1, <3>2 DEF OwnAnswers
  <2>. QED BY <2>3, <2>4
<1>11. AnsweredByOwn'
  BY <1>1, <1>3 DEF AnsweredByOwn
<1>. QED BY <1>7, <1>8, <1>9, <1>10, <1>11

\* a question of the script is no command
LEMMA AskPutMain ==
  ASSUME AskInv, pc \notin Ending, pc' \notin Ending, NEW k \in Kids, NEW t \in Kinds,
         PutAsk(k, t, "main", 0), UNCHANGED logVars
  PROVE  AskInv'
<1>. USE DEF logVars
<1>1. AskType' /\ Numbered' /\ AnsweredOnce' /\ OwnAnswers' /\ AnsweredByOwn'
  <2>1. owed' \subseteq owed \cup {count + 1} /\ denies' = denies /\ 0 \in Nat
    OBVIOUS
  <2>2. "main" \in {"main", "command"}
    OBVIOUS
  <2>. QED BY <2>1, <2>2, AskPut
<1>. DEFINE a == [n |-> count + 1, t |-> t, to |-> k, by |-> "main",
                  from |-> Len(events[k]), mark |-> 0, got |-> FALSE]
<1>2. asks' = asks \cup {a} /\ a.by = "main"
  BY DEF PutAsk, From
<1>. HIDE DEF a
<1>3. \A b \in asks' : b.by = "command" => b \in asks
  BY <1>2
<1>4. asks \subseteq asks'
  BY <1>2
<1>5. OwnReasons' /\ ReasonIsOwn'
  BY <1>3, <1>4 DEF AskInv, OwnReasons, ReasonIsOwn
<1>. QED BY <1>1, <1>5 DEF AskInv

\* with no other one about, a command's refusal is the next one
LEMMA AskPutCommand ==
  ASSUME AskInv, pc \notin Ending, pc' \notin Ending,
         PutAsk(Laptop, "result", "command", Mark), owed' = owed \cup {count + 1},
         mixed' = (mixed \/ \E a \in asks : a.by = "command"), UNCHANGED <<denies, reports>>
  PROVE  AskInv'
<1>1. /\ Laptop \in Kids /\ "result" \in Kinds
      /\ count \in Nat /\ owed \subseteq Nat /\ denies \in Seq(Nat) /\ Mark \in Nat
      /\ Mark = Len(denies) /\ OwnReasons /\ ReasonIsOwn /\ Numbered
  BY KidsFacts DEF Kinds, AskInv, AskType, Mark
<1>2. AskType' /\ Numbered' /\ AnsweredOnce' /\ OwnAnswers' /\ AnsweredByOwn'
  <2>1. owed' \subseteq owed \cup {count + 1} /\ denies' = denies
    OBVIOUS
  <2>2. "command" \in {"main", "command"}
    OBVIOUS
  <2>. QED BY <1>1, <2>1, <2>2, AskPut
<1>. DEFINE a == [n |-> count + 1, t |-> "result", to |-> Laptop, by |-> "command",
                  from |-> Len(events[Laptop]), mark |-> Len(denies), got |-> FALSE]
<1>3. asks' = asks \cup {a} /\ a.by = "command" /\ a.n = count + 1 /\ a.mark = Len(denies)
  BY <1>1 DEF PutAsk, From
<1>. HIDE DEF a
<1>4. OwnReasons'
  <2>1. \A n \in owed' : \A i \in DOMAIN denies : denies[i] # n
    <3>1. \A i \in DOMAIN denies : denies[i] \in Nat /\ denies[i] # count + 1
      BY <1>1 DEF Numbered
    <3>. QED BY <1>1, <3>1 DEF OwnReasons
  <2>2. ASSUME ~mixed'
        PROVE  /\ \A b, d \in asks' : b.by = "command" /\ d.by = "command" => b = d
               /\ \A n \in owed' : \E b \in asks' : b.by = "command" /\ b.n = n
               /\ \A b \in asks' : \A i \in DOMAIN denies :
                    b.by = "command" /\ i > b.mark => denies[i] = b.n
    <3>0. ~(mixed \/ \E b \in asks : b.by = "command")
      BY <2>2
    <3>1. ~mixed /\ \A b \in asks' : b.by = "command" => b = a
      BY <1>3, <3>0
    <3>2. owed = {}
      BY <1>1, <3>0 DEF OwnReasons
    <3>3. \A i \in DOMAIN denies : ~(i > Len(denies))
      BY <1>1
    <3>. QED BY <1>3, <3>1, <3>2, <3>3
  <2>. QED BY <2>1, <2>2 DEF OwnReasons
<1>5. ReasonIsOwn'
  BY <1>1 DEF ReasonIsOwn
<1>. QED BY <1>2, <1>4, <1>5 DEF AskInv

(***************************************************************************)
(* ask() returns: with no other wait and no answer missed, it is given its *)
(* own answer.                                                             *)
(***************************************************************************)
LEMMA AskReturn ==
  ASSUME AskInv, pc \notin Ending, pc' \notin Ending, NEW a \in asks, ~a.got,
         Answered(a) \/ TimedOut(a), work' = work, UNCHANGED logVars
  PROVE  AskInv'
<1>. USE DEF logVars
<1>. DEFINE got == [a EXCEPT !.got = TRUE]
<1>1. /\ AskType /\ Numbered /\ AnsweredOnce /\ OwnAnswers /\ AnsweredByOwn /\ OwnReasons /\ ReasonIsOwn
      /\ a \in Waits /\ a.to \in Kids /\ a.t \in Kinds /\ a.from \in Nat
  BY DEF AskInv, AskType, Waits
<1>2. PICK n : /\ Return(a, n)
               /\ \/ n = Timeout
                  \/ \E i \in Matches(a) : n = events[a.to][i].n
  <2>1. CASE Answered(a)
    BY <1>1, <2>1, FirstMatch DEF Answered
  <2>2. CASE TimedOut(a)
    BY <2>2 DEF TimedOut
  <2>. QED BY <2>1, <2>2
<1>3. /\ got \in Waits /\ got.n = a.n /\ got.by = a.by /\ got.mark = a.mark /\ got.to = a.to
      /\ got.t = a.t /\ got.got = TRUE
  BY <1>1 DEF Waits
<1>4. /\ asks' = IF a.by = "main" THEN asks \ {a} ELSE (asks \ {a}) \cup {got}
      /\ UNCHANGED <<events, count>>
      /\ n = Timeout => crossed' = crossed \cup {<<a.to, a.t>>}
      /\ n # Timeout => crossed' = crossed
      /\ n \in {a.n, Timeout} => astray' = astray
      /\ n \notin {a.n, Timeout} => astray' = astray \cup {[n |-> a.n, to |-> a.to, t |-> a.t]}
  BY <1>2 DEF Return
<1>. HIDE DEF got
<1>5. <<a.to, a.t>> \notin crossed => n \in {a.n, Timeout}
  <2>1. a \in OpenAt(a.to, a.t)
    BY DEF OpenAt
  <2>. QED BY <1>1, <1>2, <2>1 DEF OwnAnswers
<1>6. AskType'
  <2>1. asks' \subseteq Waits /\ \A b \in asks' : b.by = "main" => ~b.got
    BY <1>1, <1>3, <1>4 DEF AskType
  <2>. QED BY <1>1, <1>4, <2>1 DEF AskType
<1>7. Numbered' /\ AnsweredOnce'
  BY <1>1, <1>4 DEF Numbered, AnsweredOnce
<1>8. OwnAnswers'
  <2>. SUFFICES ASSUME NEW j \in Kids, NEW u \in Kinds, <<j, u>> \notin crossed'
                PROVE  /\ \A b, d \in OpenAt(j, u)' : b = d
                       /\ \A d \in work[j] : d.t = u => \E b \in OpenAt(j, u)' : b.n = d.n
                       /\ \A b \in OpenAt(j, u)' : \A i \in Matches(b)' : events[j][i].n = b.n
    BY <1>4 DEF OwnAnswers
  <2>1. <<j, u>> \notin crossed
    BY <1>4
  <2>2. \A b : Matches(b)' = Matches(b)
    BY <1>4 DEF Matches
  <2>3. OpenAt(j, u)' = OpenAt(j, u) \ {a}
    BY <1>3, <1>4 DEF OpenAt
  <2>4. ASSUME NEW d \in work[j], d.t = u PROVE \E b \in OpenAt(j, u)' : b.n = d.n
    <3>1. PICK b \in OpenAt(j, u) : b.n = d.n
      BY <1>1, <2>1, <2>4 DEF OwnAnswers
    <3>2. CASE b = a
      <4>1. a.to = j /\ a.t = u /\ n # Timeout
        BY <1>4, <3>2 DEF OpenAt
      <4>2. PICK i \in Matches(a) : n = events[j][i].n
        BY <1>2, <4>1
      <4>3. n = d.n
        BY <1>5, <2>1, <3>1, <3>2, <4>1
      <4>4. i \in DOMAIN events[j]
        <5>1. events[j] \in Seq(Printed) /\ i \in (a.from + 1)..Len(events[j])
          BY <1>1, <4>1, <4>2 DEF AskType, Matches
        <5>. QED BY <1>1, <5>1
      <4>. QED BY <1>1, <4>2, <4>3, <4>4 DEF AnsweredOnce
    <3>. QED BY <2>3, <3>1, <3>2
  <2>. QED BY <1>1, <2>1, <2>2, <2>3, <2>4 DEF OwnAnswers
<1>9. AnsweredByOwn'
  <2>1. crossed \subseteq crossed'
    BY <1>4
  <2>2. ASSUME NEW x \in astray', x \notin astray PROVE <<x.to, x.t>> \in crossed'
    <3>1. x = [n |-> a.n, to |-> a.to, t |-> a.t] /\ n \notin {a.n, Timeout}
      BY <1>4, <2>2
    <3>. QED BY <1>5, <2>1, <3>1
  <2>. QED BY <1>1, <2>1, <2>2 DEF AnsweredByOwn
<1>10. OwnReasons' /\ ReasonIsOwn'
  <2>1. \A b \in asks' : b.by = "command" => b \in asks \ {a} \/ (b = got /\ a.by = "command")
    BY <1>3, <1>4
  <2>2. \A b \in asks : b.by = "command" => b \in asks' \/ (b = a /\ got \in asks')
    BY <1>4
  <2>3. ASSUME ~mixed
        PROVE  /\ \A b, d \in asks' : b.by = "command" /\ d.by = "command" => b = d
               /\ \A m \in owed : \E b \in asks' : b.by = "command" /\ b.n = m
               /\ \A b \in asks' : \A i \in DOMAIN denies :
                    b.by = "command" /\ i > b.mark => denies[i] = b.n
    BY <1>1, <1>3, <2>1, <2>2, <2>3 DEF OwnReasons
  <2>4. OwnReasons'
    BY <1>1, <2>3 DEF OwnReasons
  <2>. QED BY <1>1, <2>4 DEF ReasonIsOwn
<1>. QED BY <1>6, <1>7, <1>8, <1>9, <1>10 DEF AskInv

\* a child answers a command it has, once
LEMMA AskAnswer ==
  ASSUME AskInv, pc \notin Ending, pc' \notin Ending, NEW k \in Kids, Answer(k)
  PROVE  AskInv'
<1>. USE DEF logVars
<1>1. AskType /\ Numbered /\ AnsweredOnce /\ OwnAnswers /\ AnsweredByOwn /\ OwnReasons /\ ReasonIsOwn
  BY DEF AskInv
<1>2. PICK c \in work[k], t \in {"roster", "result", "anchor", "error"} :
        /\ t = c.t \/ (t = "error" /\ c.t # "anchor")
        /\ work' = [work EXCEPT ![k] = @ \ {c}]
        /\ events' = [events EXCEPT ![k] = Append(@, [t |-> t, n |-> c.n])]
  BY DEF Answer
<1>. DEFINE e == [t |-> t, n |-> c.n]
<1>3. UNCHANGED <<asks, count, astray, crossed, owed, denies, reports, mixed>>
  BY DEF Answer
<1>4. c \in Commands /\ c.n \in Nat /\ c.n <= count /\ events[k] \in Seq(Printed) /\ Len(events[k]) \in Nat
  BY <1>1 DEF AskType, Numbered, Commands
<1>5. e \in Printed /\ e.t = t /\ e.n = c.n
  BY <1>4 DEF Printed, Kinds
<1>6. /\ work' \in [Kids -> SUBSET Commands] /\ \A j \in Kids : work'[j] \subseteq work[j]
      /\ c \notin work'[k]
  BY <1>1, <1>2 DEF AskType
<1>7. events' = [events EXCEPT ![k] = Append(events[k], e)]
  BY <1>2
<1>. HIDE DEF e
<1>8. /\ events' \in [Kids -> Seq(Printed)] /\ events'[k] = Append(events[k], e)
      /\ \A j \in Kids \ {k} : events'[j] = events[j]
  <2>1. \A q \in Seq(Printed), x \in Printed : Append(q, x) \in Seq(Printed)
    OBVIOUS
  <2>2. Append(events[k], e) \in Seq(Printed)
    BY <1>4, <1>5, <2>1
  <2>. QED BY <1>1, <1>7, <2>2 DEF AskType
<1>9. ASSUME NEW j \in Kids, NEW i \in DOMAIN events'[j]
      PROVE  \/ i \in DOMAIN events[j] /\ events'[j][i] = events[j][i]
             \/ j = k /\ i = Len(events[k]) + 1 /\ events'[j][i] = e
  <2>1. CASE j = k
    <3>1. events'[k] = Append(events[k], e)
      BY <1>8
    <3>2. DOMAIN events'[k] = 1..(Len(events[k]) + 1) /\ DOMAIN events[k] = 1..Len(events[k])
      BY <1>4, <1>5, <3>1
    <3>3. i = Len(events[k]) + 1 => Append(events[k], e)[i] = e
      BY <1>4, <1>5
    <3>4. i \in 1..Len(events[k]) => Append(events[k], e)[i] = events[k][i]
      BY <1>4, <1>5
    <3>5. i \in 1..Len(events[k]) \/ i = Len(events[k]) + 1
      BY <1>4, <1>9, <2>1, <3>2
    <3>. QED BY <2>1, <3>1, <3>2, <3>3, <3>4, <3>5
  <2>2. CASE j # k
    BY <1>8, <1>9, <2>2
  <2>. QED BY <2>1, <2>2
<1>10. AskType' /\ Numbered'
  <2>1. AskType'
    BY <1>1, <1>3, <1>6, <1>8 DEF AskType
  <2>2. \A j \in Kids : \A i \in DOMAIN events'[j] : events'[j][i].n <= count
    BY <1>1, <1>4, <1>5, <1>9 DEF Numbered
  <2>3. \A j \in Kids : \A d \in work'[j] : d.n <= count
    BY <1>1, <1>6 DEF Numbered
  <2>. QED BY <1>1, <1>3, <2>1, <2>2, <2>3 DEF Numbered
<1>11. AnsweredOnce'
  <2>1. ASSUME NEW j \in Kids, NEW d \in work'[j], NEW i \in DOMAIN events'[j]
        PROVE  events'[j][i].n # d.n
    <3>1. CASE i \in DOMAIN events[j] /\ events'[j][i] = events[j][i]
      BY <1>1, <1>6, <3>1 DEF AnsweredOnce
    <3>2. CASE j = k /\ events'[j][i] = e
      BY <1>1, <1>5, <1>6, <3>2 DEF AnsweredOnce
    <3>. QED BY <1>9, <3>1, <3>2
  <2>2. \A j \in Kids : \A d, x \in work'[j] : d.n = x.n => d = x
    BY <1>1, <1>6 DEF AnsweredOnce
  <2>. QED BY <2>1, <2>2 DEF AnsweredOnce
<1>12. OwnAnswers'
  <2>. SUFFICES ASSUME NEW j \in Kids, NEW u \in Kinds, <<j, u>> \notin crossed
                PROVE  /\ \A b, d \in OpenAt(j, u) : b = d
                       /\ \A d \in work'[j] : d.t = u => \E b \in OpenAt(j, u) : b.n = d.n
                       /\ \A b \in OpenAt(j, u) : \A i \in Matches(b)' : events'[j][i].n = b.n
    <3>1. \A j \in Kids, u \in Kinds : OpenAt(j, u)' = OpenAt(j, u)
      BY <1>3 DEF OpenAt
    <3>. QED BY <1>3, <3>1 DEF OwnAnswers
  <2>1. /\ \A b, d \in OpenAt(j, u) : b = d
        /\ \A d \in work[j] : d.t = u => \E b \in OpenAt(j, u) : b.n = d.n
        /\ \A b \in OpenAt(j, u) : \A i \in Matches(b) : events[j][i].n = b.n
    BY <1>1 DEF OwnAnswers
  <2>2. ASSUME NEW b \in OpenAt(j, u), NEW i \in Matches(b)'
        PROVE  events'[j][i].n = b.n
    <3>1. b.to = j /\ b.t = u /\ b.from \in Nat
      BY <1>1 DEF OpenAt, AskType, Waits
    <3>2. i \in (b.from + 1)..Len(events'[j]) /\ events'[j][i].t = u
      BY <3>1 DEF Matches
    <3>3. events'[j] \in Seq(Printed) /\ events[j] \in Seq(Printed)
      BY <1>1, <1>8 DEF AskType
    <3>4. i \in DOMAIN events'[j]
      BY <3>1, <3>2, <3>3
    <3>5. CASE i \in DOMAIN events[j] /\ events'[j][i] = events[j][i]
      <4>1. i \in (b.from + 1)..Len(events[j])
        BY <3>1, <3>2, <3>3, <3>5
      <4>2. i \in Matches(b)
        BY <3>1, <3>2, <3>5, <4>1 DEF Matches
      <4>. QED BY <2>1, <3>5, <4>2
    <3>6. CASE j = k /\ events'[j][i] = e
      <4>1. c.t = u
        BY <1>2, <1>5, <3>2, <3>6 DEF Kinds
      <4>. QED BY <1>5, <2>1, <3>6, <4>1
    <3>. QED BY <1>9, <3>4, <3>5, <3>6
  <2>. QED BY <1>6, <2>1, <2>2
<1>13. AnsweredByOwn' /\ OwnReasons' /\ ReasonIsOwn'
  BY <1>1, <1>3 DEF AnsweredByOwn, OwnReasons, ReasonIsOwn
<1>. QED BY <1>10, <1>11, <1>12, <1>13 DEF AskInv

\* the refusal of a command that is open is a new one
LEMMA AskDeny ==
  ASSUME AskInv, pc \notin Ending, pc' \notin Ending, Deny
  PROVE  AskInv'
<1>. USE DEF askVars, kidVars
<1>1. AskType /\ Numbered /\ AnsweredOnce /\ OwnAnswers /\ AnsweredByOwn /\ OwnReasons /\ ReasonIsOwn
  BY DEF AskInv
<1>2. PICK n \in owed : owed' = owed \ {n} /\ denies' = Append(denies, n)
  BY DEF Deny
<1>3. UNCHANGED <<work, events, asks, count, astray, crossed, reports, mixed>>
  BY DEF Deny
<1>4. n \in Nat /\ n <= count /\ denies \in Seq(Nat) /\ Len(denies) \in Nat
  BY <1>1 DEF AskType, Numbered
<1>5. denies' \in Seq(Nat)
  BY <1>2, <1>4
<1>6. ASSUME NEW i \in DOMAIN denies'
      PROVE  (i \in DOMAIN denies /\ denies'[i] = denies[i]) \/ (i = Len(denies) + 1 /\ denies'[i] = n)
  BY <1>2, <1>4
<1>7. AskType' /\ Numbered' /\ AnsweredOnce'
  <2>1. AskType' /\ AnsweredOnce'
    BY <1>1, <1>2, <1>3, <1>5 DEF AskType, AnsweredOnce
  <2>2. \A i \in DOMAIN denies' : denies'[i] <= count
    BY <1>1, <1>4, <1>6 DEF Numbered
  <2>. QED BY <1>1, <1>2, <1>3, <2>1, <2>2 DEF Numbered
<1>8. OwnAnswers' /\ AnsweredByOwn'
  BY <1>1, <1>3 DEF OwnAnswers, OpenAt, Matches, AnsweredByOwn
<1>9. OwnReasons'
  <2>1. \A m \in owed' : \A i \in DOMAIN denies' : denies'[i] # m
    BY <1>1, <1>2, <1>6 DEF OwnReasons
  <2>2. ASSUME ~mixed
        PROVE  /\ \A a, b \in asks : a.by = "command" /\ b.by = "command" => a = b
               /\ \A m \in owed' : \E a \in asks : a.by = "command" /\ a.n = m
               /\ \A a \in asks : \A i \in DOMAIN denies' :
                    a.by = "command" /\ i > a.mark => denies'[i] = a.n
    <3>1. /\ \A a, b \in asks : a.by = "command" /\ b.by = "command" => a = b
          /\ \A m \in owed : \E a \in asks : a.by = "command" /\ a.n = m
          /\ \A a \in asks : \A i \in DOMAIN denies :
               a.by = "command" /\ i > a.mark => denies[i] = a.n
      BY <1>1, <2>2 DEF OwnReasons
    <3>2. \A a \in asks : a.by = "command" => a.n = n
      BY <3>1
    <3>. QED BY <1>2, <1>6, <3>1, <3>2
  <2>. QED BY <1>3, <2>1, <2>2 DEF OwnReasons
<1>10. ReasonIsOwn'
  BY <1>1, <1>3 DEF ReasonIsOwn
<1>. QED BY <1>7, <1>8, <1>9, <1>10 DEF AskInv

\* denyReasonSince() returns
LEMMA AskRead ==
  ASSUME AskInv, pc \notin Ending, pc' \notin Ending, ReadReason
  PROVE  AskInv'
<1>. USE DEF kidVars
<1>1. AskType /\ Numbered /\ AnsweredOnce /\ OwnAnswers /\ AnsweredByOwn /\ OwnReasons /\ ReasonIsOwn
  BY DEF AskInv
<1>. DEFINE Read(a) == IF Len(denies) > a.mark THEN denies[Len(denies)] ELSE Timeout
<1>2. PICK a \in asks : /\ a.by = "command" /\ a.got
                        /\ asks' = asks \ {a}
                        /\ reports' = reports \cup {[n |-> a.n, reason |-> Read(a)]}
                        /\ mixed' = (mixed \/ Read(a) = Timeout)
  BY DEF ReadReason
<1>3. UNCHANGED <<work, events, count, astray, crossed, owed, denies>>
  BY DEF ReadReason
<1>4. AskType' /\ Numbered' /\ AnsweredOnce'
  BY <1>1, <1>2, <1>3 DEF AskType, Numbered, AnsweredOnce
<1>5. OwnAnswers' /\ AnsweredByOwn'
  <2>1. \A k, t : OpenAt(k, t)' = OpenAt(k, t)
    BY <1>2 DEF OpenAt
  <2>2. \A b : Matches(b)' = Matches(b)
    BY <1>3 DEF Matches
  <2>. QED BY <1>1, <1>3, <2>1, <2>2 DEF OwnAnswers, AnsweredByOwn
<1>6. ASSUME ~(mixed \/ Read(a) = Timeout)
      PROVE  Read(a) = a.n /\ owed = {} /\ \A b \in asks : b.by = "command" => b = a
  <2>1. /\ \A b, d \in asks : b.by = "command" /\ d.by = "command" => b = d
        /\ \A m \in owed : \E b \in asks : b.by = "command" /\ b.n = m
        /\ \A b \in asks : \A i \in DOMAIN denies :
             b.by = "command" /\ i > b.mark => denies[i] = b.n
    BY <1>1, <1>6 DEF OwnReasons
  <2>2. Len(denies) > a.mark /\ Read(a) = denies[Len(denies)]
    BY <1>6
  <2>3. Len(denies) \in DOMAIN denies
    BY <1>1, <1>2, <2>2 DEF AskType, Waits
  <2>4. denies[Len(denies)] = a.n
    BY <1>2, <2>1, <2>2, <2>3
  <2>5. \A b \in asks : b.by = "command" => b = a
    BY <1>2, <2>1
  <2>6. a.n \notin owed
    BY <1>1, <2>3, <2>4 DEF OwnReasons
  <2>. QED BY <2>1, <2>2, <2>4, <2>5, <2>6
<1>. HIDE DEF Read
<1>7. OwnReasons'
  <2>1. ASSUME ~mixed'
        PROVE  owed = {} /\ \A b \in asks' : b.by # "command"
    <3>1. ~(mixed \/ Read(a) = Timeout)
      BY <1>2, <2>1
    <3>. QED BY <1>2, <1>6, <3>1
  <2>. QED BY <1>1, <1>3, <2>1 DEF OwnReasons
<1>8. ReasonIsOwn'
  <2>1. CASE mixed \/ Read(a) = Timeout
    BY <1>2, <2>1 DEF ReasonIsOwn
  <2>2. CASE ~(mixed \/ Read(a) = Timeout)
    BY <1>1, <1>2, <1>6, <2>2 DEF ReasonIsOwn
  <2>. QED BY <2>1, <2>2
<1>. QED BY <1>4, <1>5, <1>7, <1>8 DEF AskInv
-----------------------------------------------------------------------------
\* the script's steps
LEMMA AskMain ==
  ASSUME EndInv, AskInv, pc \notin Ending, Main \/ PressEnter \/ PressQ
  PROVE  AskInv'
<1>. USE DEF parentVars, kidVars
<1>1. AskType
  BY DEF AskInv
<1>2. ASSUME Throw PROVE AskInv'
  BY <1>2, ThrowForgets, AskForget
<1>3. ASSUME pc' \notin Ending, UNCHANGED <<askVars, logVars, work>> PROVE AskInv'
  <2>1. work' \in [Kids -> SUBSET Commands] /\ \A k \in Kids : work'[k] \subseteq work[k]
    BY <1>1, <1>3 DEF AskType
  <2>. QED BY <1>3, <2>1, AskSame
<1>4. CASE Continue
  <2>1. pc' \notin Ending
    BY <1>4 DEF Continue, NextAwait, Ending
  <2>. QED BY <1>3, <1>4, <2>1 DEF Continue
<1>5. CASE NeverStarted
  BY <1>2, <1>5 DEF NeverStarted
<1>6. CASE Publish
  BY <1>2, <1>3, <1>6 DEF Publish, Advance, GoOn, Ending
<1>7. CASE ScriptAsks
  <2>1. CASE Broken(Step.to)
    BY <1>7, <2>1, AskForget DEF ScriptAsks, End, Ending
  <2>2. CASE ~Broken(Step.to)
    <3>1. at \in 1..Len(Steps) /\ Steps \in Seq(StepKinds)
      BY <1>7, StepsType DEF ScriptAsks, InScript, EndInv, TypeOK
    <3>2. Step \in StepKinds
      BY <3>1 DEF Step
    <3>3. Step.to \in Kids /\ Step.t \in Kinds
      BY <3>2 DEF StepKinds, Kinds
    <3>4. PutAsk(Step.to, Step.t, "main", 0) /\ UNCHANGED logVars /\ pc' = "asking"
      BY <1>7, <2>2 DEF ScriptAsks
    <3>5. pc' \notin Ending
      BY <3>4 DEF Ending
    <3>. QED BY <3>3, <3>4, <3>5, AskPutMain
  <2>. QED BY <2>1, <2>2
<1>8. CASE ScriptAnswered
  <2>1. CASE Throw
    BY <1>2, <2>1
  <2>2. CASE ~Throw
    <3>1. PICK a \in asks : a.by = "main" /\ (Answered(a) \/ TimedOut(a)) /\ Advance /\ GoOn /\ UNCHANGED logVars
      BY <1>8, <2>2 DEF ScriptAnswered
    <3>2. ~a.got /\ pc' \notin Ending /\ work' = work
      BY <1>1, <3>1 DEF AskType, Advance, GoOn, Ending
    <3>. QED BY <3>1, <3>2, AskReturn
  <2>. QED BY <2>1, <2>2
<1>9. CASE WaitKey \/ PressEnter
  <2>1. pc' \notin Ending
    BY <1>9 DEF WaitKey, PressEnter, Advance, Ending
  <2>. QED BY <1>3, <1>9, <2>1 DEF WaitKey, PressEnter
<1>10. CASE Finish
  <2>1. CASE Walks
    BY <1>10, <2>1, AskForget DEF Finish, Shutdown, Ending
  <2>2. CASE ~Walks
    BY <1>3, <1>10, <2>2 DEF Finish, Ending
  <2>. QED BY <2>1, <2>2
<1>11. CASE PressQ
  BY <1>11, AskForget DEF PressQ, Shutdown, Ending
<1>12. ~StopWaiting
  BY DEF StopWaiting, Ending
<1>. QED BY <1>4, <1>5, <1>6, <1>7, <1>8, <1>9, <1>10, <1>11, <1>12 DEF Main

\* every step preserves the invariant of the asks
LEMMA AskInvPreserved == EndInv /\ AskInv /\ [Next]_vars => AskInv'
<1>. SUFFICES ASSUME EndInv, AskInv, [Next]_vars PROVE AskInv'
  OBVIOUS
<1>. USE DEF parentVars, kidVars
<1>1. CASE pc \in Ending
  BY <1>1, AskEnding
<1>2. CASE pc \notin Ending
  <2>1. AskType /\ kid \in [Kids -> {"none", "starting", "up", "dead"}]
    BY <1>2 DEF AskInv, EndInv, TypeOK
  <2>2. ASSUME pc' \notin Ending, UNCHANGED <<askVars, logVars>>,
               UNCHANGED work \/ \E S : Kill(S)
        PROVE  AskInv'
    <3>1. work' \in [Kids -> SUBSET Commands] /\ \A k \in Kids : work'[k] \subseteq work[k]
      BY <2>1, <2>2 DEF AskType, Kill
    <3>. QED BY <1>2, <2>2, <3>1, AskSame
  <2>3. CASE Main \/ PressEnter \/ PressQ
    BY <1>2, <2>3, AskMain
  <2>4. CASE Endings \/ Interrupt
    <3>1. Forget /\ pc' = "gone"
      BY <2>4 DEF Endings, Drain, ForceExit, Interrupt, End
    <3>. QED BY <3>1, AskForget DEF Ending
  <2>5. CASE TorHandlers \/ TorRuns
    <3>1. UNCHANGED <<askVars, logVars, work>> /\ pc' \in {pc, "agents"}
      BY <2>5 DEF TorHandlers, SpawnTor, TorData, Poll, TorTimeout, TorExited, TorSettled, TorRuns
    <3>. QED BY <1>2, <2>2, <3>1 DEF Ending
  <2>6. CASE Command
    <3>1. CASE Broken(Laptop)
      BY <2>6, <3>1, AskForget DEF Command, End, Ending
    <3>2. CASE ~Broken(Laptop)
      BY <1>2, <2>6, <3>2, AskPutCommand DEF Command
    <3>. QED BY <3>1, <3>2
  <2>7. CASE CommandAnswered
    <3>1. PICK a \in asks : ~a.got /\ (Answered(a) \/ TimedOut(a))
      BY <2>7 DEF CommandAnswered
    <3>2. pc' = pc /\ work' = work /\ UNCHANGED logVars
      BY <2>7 DEF CommandAnswered
    <3>. QED BY <1>2, <3>1, <3>2, AskReturn
  <2>8. CASE ReadReason
    BY <1>2, <2>8, AskRead DEF ReadReason
  <2>9. CASE Deny
    BY <1>2, <2>9, AskDeny DEF Deny
  <2>10. ASSUME NEW k \in Kids, HearExit(k) \/ Child(k) \/ Die(k) \/ Stop(k) \/ Answer(k)
         PROVE  AskInv'
    <3>1. CASE Answer(k)
      BY <1>2, <3>1, AskAnswer DEF Answer
    <3>2. CASE HearExit(k) \/ BecomeReady(k) \/ Stop(k)
      BY <1>2, <2>2, <3>2 DEF HearExit, BecomeReady, Stop
    <3>3. CASE ExitWithParent(k) \/ Die(k)
      BY <1>2, <2>2, <3>3 DEF ExitWithParent, Die
    <3>. QED BY <2>10, <3>1, <3>2, <3>3 DEF Child
  <2>11. CASE UNCHANGED vars
    BY <1>2, <2>2, <2>11 DEF vars
  <2>. QED BY <2>3, <2>4, <2>5, <2>6, <2>7, <2>8, <2>9, <2>10, <2>11 DEF Next
<1>. QED BY <1>1, <1>2

\* so it always holds
LEMMA AskInvariant == Spec => []AskInv
BY AskInitial, EndInitial, EndInvPreserved, AskInvPreserved, PTL DEF Spec

(***************************************************************************)
(* run-demo.js:250-259, server.js:85-94, for every script, any number of   *)
(* commands and whatever children die, stop or answer in what order: an    *)
(* ask() that is given the answer to another one shares its child and kind *)
(* with one that timed out or that was open beside another.                *)
(***************************************************************************)
THEOREM AnswersAreOwn == Spec => []AnsweredByOwn
<1>1. AskInv => AnsweredByOwn
  BY DEF AskInv, AnsweredByOwn
<1>. QED BY <1>1, AskInvariant, PTL

(***************************************************************************)
(* server.js:195-206, "so we never report a stale refusal": for any number *)
(* of commands, none of which overlaps another, and with every refusal     *)
(* found in time, the reason that is shown is the command's own.           *)
(***************************************************************************)
THEOREM ReasonsAreOwn == Spec => []ReasonIsOwn
<1>1. AskInv => ReasonIsOwn
  BY DEF AskInv, ReasonIsOwn
<1>. QED BY <1>1, AskInvariant, PTL
=============================================================================
