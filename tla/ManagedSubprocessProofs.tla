----------------------- MODULE ManagedSubprocessProofs -----------------------
(***************************************************************************)
(* Theorems about ManagedSubprocess where at most one user starts the         *)
(* subprocess (OneStarter), for any number of other users, any restart limit  *)
(* and any number of lives.  IInv is the inductive invariant.  Its centre is  *)
(* that instances do not overlap: before the first publication nobody but the *)
(* start is at work (YoungInv), and from the end of its drain to its own      *)
(* connection a restart has nothing beside it (DrainedInv).                   *)
(***************************************************************************)
EXTENDS ManagedSubprocess, TLAPS, FiniteSetTheorems, WellFoundedInduction

\* Two users who start a subprocess reach states in which neither property holds.
OneStarter == \A u, v \in User : "Start" \in Ops[u] /\ "Start" \in Ops[v] => u = v

\* TypeOK without the counter, whose type follows from WgInv.
TypeInv ==
    /\ state \in State
    /\ stopped \in BOOLEAN
    /\ life \in Life
    /\ cancelled \subseteq Life
    /\ conn \in Instance \cup {NoConn}
    /\ open \subseteq Instance
    /\ child \in [Instance -> Child]
    /\ under \in [Instance -> Life]
    /\ inst \in [Starter -> Instance \cup {NoConn}]
    /\ watch \in [Watcher -> WatchPC]
    /\ restarts \in Nat
    /\ seen \in Life
    /\ held \in [Instance -> Life]
    /\ registered \in BOOLEAN
    /\ pc \in [Starter -> PC]
    /\ op \in [User -> {"none", "Start", "Stop", "Unregister"}]
    /\ ret \in [User -> {"none", "ok", "err"}]
    /\ waiter \in [User -> {"off", "wait", "stamp", "done"}]
    /\ settled \subseteq User

\* The program points of a start, up to the store of Running.
BeforeSpawn == {"clear", "claim", "check", "install", "recheck", "connect", "nocon"}
BeforeRunning == BeforeSpawn \cup {"conn", "monitor", "verify", "publish", "abclose",
                                   "abcancel", "abort"}
RestartPC == {"none", "delay", "select", "awake", "tear", "drain", "rclose", "count",
              "reset", "rearm", "redo", "failed", "exit"}

\* What a start, and nobody else, does.
CallInv ==
    /\ pc[Restarter] \in RestartPC \cup CorePC
    /\ \A u \in User :
          /\ pc[u] \notin RestartPC
          /\ op[u] = "none" <=> pc[u] = "idle"
          /\ op[u] = "Start" => "Start" \in Ops[u] /\ pc[u] \in BeforeRunning \cup {"loop", "returned"}
          /\ pc[u] \in BeforeRunning \cup {"loop"} => op[u] = "Start"

Mon(n) == watch[<<"monitor", n>>]

\* An instance is held by the start that connects it, then by its monitor.
Held(n) == Mon(n) \notin {"off", "gone"} \/ \E a \in Starter : inst[a] = n

\* Somebody waits for its child, or is about to.
Tended(n) == Mon(n) = "watching" \/ \E a \in Starter : inst[a] = n

InstInv ==
    /\ \A a \in Starter :
          IF pc[a] \in {"conn", "monitor"}
          THEN inst[a] \in Instance /\ child[inst[a]] # "none" /\ Mon(inst[a]) = "off"
          ELSE inst[a] = NoConn
    /\ \A n \in Instance :
          /\ child[n] = "none" => Mon(n) = "off"
          /\ child[n] \in {"alive", "exit0", "exit1"} => Tended(n)
          /\ Mon(n) \in {"off", "watching", "fail", "stop", "budget", "over", "look",
                         "cas", "leave", "gone"}

\* No start has got as far as Running.
Young == \A u \in User : op[u] = "Start" => pc[u] \in BeforeRunning

\* Nothing has been connected.
Unconnected == \A u \in User : op[u] = "Start" => pc[u] \in BeforeSpawn

YoungInv ==
    /\ Young => /\ pc[Restarter] = "none"
                /\ state # "running"
                /\ \A n \in Instance : /\ watch[<<"loop", n>>] = "off"
                                       /\ Mon(n) \in {"off", "watching", "leave", "gone"}
    /\ Unconnected => open = {} /\ \A n \in Instance : child[n] = "none"

\* A restart that has drained sp.wg and not yet connected: no monitor is left.
Drained == {"rclose", "count", "reset", "rearm", "claim", "check", "install",
            "recheck", "connect"}

DrainedInv ==
    pc[Restarter] \in Drained => \A n \in Instance : Mon(n) \in {"off", "gone"}

\* One instance at a time.
HeldInv == \A n, m \in Instance : Held(n) /\ Held(m) => n = m

\* Whoever is about to connect has no open connection beside it.
Closed == {"count", "reset", "rearm", "claim", "check", "install", "recheck",
           "connect", "conn"}

OpenInv ==
    /\ open \subseteq {conn}
    /\ \A a \in Starter : pc[a] \in Closed => open = {}

\* The goroutines that sp.wg counts.
Working == {w \in Watcher : watch[w] \notin {"off", "gone"}}

WgInv == wg = Cardinality(Working)

IInv ==
    /\ TypeInv /\ CallInv /\ InstInv /\ YoungInv /\ DrainedInv /\ HeldInv /\ OpenInv
    /\ WgInv

USE SubprocessAssumption

-----------------------------------------------------------------------------
(* The operators. *)

\* Every nonempty set of instances has a first one.
LEMMA FirstFacts ==
  ASSUME NEW S \in SUBSET Instance, S # {}
  PROVE  First(S) \in S
<1>1. S \subseteq Nat
  BY DEF Instance
<1>2. PICK n \in S : \A k \in S : ~(<<k, n>> \in OpToRel(<, Nat))
  BY <1>1, NatLessThanWellFounded, WFMin, Zenon
<1>3. \A k \in S : ~(k < n)
  BY <1>1, <1>2 DEF OpToRel
<1>4. \A k \in S : n <= k
  BY <1>1, <1>3
<1> QED  BY <1>4, Zenon DEF First

\* The watchers of one instance are two, and those of two instances are four.
LEMMA WatcherFacts ==
  /\ \A n \in Instance : <<"loop", n>> \in Watcher /\ <<"monitor", n>> \in Watcher
                      /\ <<"loop", n>> # <<"monitor", n>>
  /\ \A n, m \in Instance : <<"loop", n>> # <<"monitor", m>>
  /\ \A n, m \in Instance : n # m => <<"loop", n>> # <<"loop", m>>
                                  /\ <<"monitor", n>> # <<"monitor", m>>
  /\ \A n \in Instance : n # NoConn
  /\ 0 \in Life
BY DEF Watcher, Instance, NoConn, Life

\* Whom the hypothesis lets start.
LEMMA OneStart ==
  ASSUME OneStarter, CallInv, NEW u \in User, NEW v \in User,
         op[u] = "Start", op[v] = "Start"
  PROVE  u = v
BY Zenon DEF OneStarter, CallInv

-----------------------------------------------------------------------------
(* Types. *)

\* The initial values have their types.
LEMMA TypeInit == Init => TypeInv
<1> SUFFICES ASSUME Init PROVE TypeInv
  OBVIOUS
<1>1. /\ child \in [Instance -> Child] /\ under \in [Instance -> Life]
      /\ held \in [Instance -> Life] /\ watch \in [Watcher -> WatchPC]
  BY WatcherFacts DEF Init, Child, WatchPC
<1>2. /\ inst \in [Starter -> Instance \cup {NoConn}] /\ pc \in [Starter -> PC]
  BY DEF Init, PC
<1> QED  BY <1>1, <1>2, WatcherFacts DEF Init, TypeInv, State

\* startCore.
LEMMA TypeCore ==
  ASSUME TypeInv, InstInv, NEW a \in Starter, CoreStep(a)
  PROVE  TypeInv'
<1> USE DEF TypeInv, Starter
<1> USE WatcherFacts
<1>1. CASE Claim(a) \/ CheckStopped(a) \/ RecheckStopped(a)
  BY <1>1 DEF Claim, CheckStopped, RecheckStopped, CoreReturns, Goto, Return, CoreFrame,
     lifeVars, wgVars, State, PC, CorePC
<1>2. CASE SpawnFails(a) \/ ConnectFailed(a) \/ Verify(a) \/ Abort(a) \/ Publish(a)
  BY <1>2 DEF SpawnFails, ConnectFailed, Verify, Abort, Publish, CoreReturns, Goto, Return,
     CoreFrame, lifeVars, wgVars, State, PC, CorePC
<1>3. CASE NewLifecycle(a)
  <2>1. life + 1 \in Life
    BY <1>3 DEF NewLifecycle, Life
  <2> QED  BY <1>3, <2>1 DEF NewLifecycle, Goto, CoreFrame, wgVars, PC, CorePC
<1>4. CASE Spawn(a)
  <2>1. First(Unspawned) \in Instance
    <3>1. Unspawned \in SUBSET Instance /\ Unspawned # {}
      BY <1>4 DEF Spawn, Unspawned
    <3> QED  BY <3>1, FirstFacts, Zenon
  <2> QED  BY <1>4, <2>1 DEF Spawn, Goto, CoreFrame, wgVars, PC, CorePC, Child
<1>5. CASE Connect(a)
  <2>1. inst[a] \in Instance
    BY <1>5 DEF Connect, InstInv
  <2> QED  BY <1>5, <2>1 DEF Connect, Goto, CoreFrame, wgVars, PC, CorePC
<1>6. CASE LaunchMonitor(a)
  <2>1. inst[a] \in Instance
    BY <1>6 DEF LaunchMonitor, InstInv
  <2> QED
    BY <1>6, <2>1 DEF LaunchMonitor, WatchGoto, Goto, CoreFrame, PC, CorePC, WatchPC
<1>7. CASE AbortClose(a) \/ AbortCancel(a)
  BY <1>7 DEF AbortClose, AbortCancel, CloseConn, CancelLifecycle, Goto, CoreFrame, wgVars,
     PC, CorePC
<1>8. CASE LaunchLoop(a)
  <2>1. First(Unlooped) \in Instance
    <3>1. Unlooped \in SUBSET Instance /\ Unlooped # {}
      BY <1>8 DEF LaunchLoop, Unlooped
    <3> QED  BY <3>1, FirstFacts, Zenon
  <2> QED
    BY ZenonT(60), <1>8, <2>1 DEF LaunchLoop, WatchGoto, CoreReturns, Goto, Return, CoreFrame,
       lifeVars, PC, WatchPC
<1> QED  BY <1>1, <1>2, <1>3, <1>4, <1>5, <1>6, <1>7, <1>8 DEF CoreStep

\* stop, Unregister and the entry of the calls.
LEMMA TypeUser ==
  ASSUME TypeInv, NEW u \in User, BeginCall(u) \/ UserStep(u) \/ StopWaits(u), ~CoreStep(u)
  PROVE  TypeInv'
<1> USE DEF TypeInv, Starter
<1>1. CASE BeginCall(u)
  <2>1. settled' \subseteq User
    BY <1>1 DEF BeginCall, BeginStart, BeginStop, BeginUnregister, Begin
  <2> QED
    BY <1>1, <2>1 DEF BeginCall, BeginStart, BeginStop, BeginUnregister, Begin, Goto, spVars,
       lifeVars, wgVars, PC
<1>2. CASE ClearStopped(u)
  BY <1>2 DEF ClearStopped, Goto, lifeVars, wgVars, PC, CorePC
<1>3. CASE StopRead(u) \/ StopMark(u) \/ StopStore(u) \/ StopCancel(u)
  <2>1. CASE StopRead(u)
    BY <2>1 DEF StopRead, CallFrame, Goto, Return, wgVars, State, PC
  <2>2. CASE StopMark(u)
    BY <2>2 DEF StopMark, CallFrame, Goto, Return, wgVars, State, PC
  <2>3. CASE StopStore(u)
    BY <2>3 DEF StopStore, CallFrame, Goto, Return, wgVars, State, PC
  <2>4. CASE StopCancel(u)
    BY <2>4 DEF StopCancel, CancelLifecycle, CallFrame, Goto, Return, wgVars, State, PC
  <2> QED  BY <1>3, <2>1, <2>2, <2>3, <2>4
<1>4. CASE StopClose(u) \/ StopReturns(u) \/ StopDrained(u) \/ StopStamp(u)
  <2>1. CASE StopClose(u)
    BY <2>1 DEF StopClose, CloseConn, CallFrame, Goto, Return, wgVars, State, PC
  <2>2. CASE StopReturns(u)
    BY <2>2 DEF StopReturns, CallFrame, Goto, Return, wgVars, State, PC
  <2>3. CASE StopDrained(u) \/ StopStamp(u)
    BY <2>3 DEF StopDrained, StopStamp, CallFrame, Goto, Return, wgVars, State, PC
  <2> QED  BY <1>4, <2>1, <2>2, <2>3
<1>5. CASE UnregisterMark(u) \/ UnregisterCancel(u) \/ UnregisterWaited(u)
  BY ZenonT(60), <1>5 DEF UnregisterMark, UnregisterCancel, UnregisterWaited, CancelLifecycle,
     CallFrame, Goto, wgVars, PC
<1>6. CASE UnregisterEnds(u)
  BY <1>6 DEF UnregisterEnds, CloseConn, CallFrame, Return, wgVars, PC
<1> QED  BY <1>1, <1>2, <1>3, <1>4, <1>5, <1>6 DEF UserStep, StopWaits

\* triggerAutoRestart and the end of a loop or monitor.
LEMMA TypeWatch ==
  ASSUME TypeInv, NEW w \in Watcher, WatchStep(w)
  PROVE  TypeInv'
<1> USE DEF TypeInv, Starter
<1>1. AfterTrigger(w) \in {"enter", "leave"}
  BY DEF AfterTrigger
<1>2. CASE TriggerBudget(w) \/ TriggerOver(w) \/ TriggerLook(w) \/ WatcherLeaves(w)
  BY <1>1, <1>2 DEF TriggerBudget, TriggerOver, TriggerLook, WatcherLeaves, WatchGoto,
     WatchFrame, CallsUntouched, lifeVars, callVars, WatchPC, State
<1>3. CASE TriggerCas(w)
  <2>1. pc' \in [Starter -> PC]
    BY <1>3 DEF TriggerCas, PC
  <2> QED
    BY <1>1, <1>3, <2>1 DEF TriggerCas, WatchGoto, WatchFrame, CallsUntouched, lifeVars,
       callVars, WatchPC
<1> QED  BY <1>2, <1>3 DEF WatchStep, TriggerStep

\* The rest of the loops, the monitors and the children.
LEMMA TypeInstance ==
  ASSUME TypeInv, NEW n \in Instance,
         LoopStep(n) \/ LoopTick(n) \/ LoopExits(n) \/ MonitorStep(n) \/ ChildExits(n)
           \/ ChildKilled(n)
  PROVE  TypeInv'
<1> USE DEF TypeInv
<1> USE WatcherFacts
<1>1. CASE LoopEnters(n) \/ LoopExits(n)
  BY <1>1 DEF LoopEnters, LoopExits, WatchGoto, WatchFrame, CallsUntouched, lifeVars,
     callVars, WatchPC
<1>2. CASE LoopTick(n)
  <2>1. open' \subseteq Instance
    BY <1>2 DEF LoopTick
  <2> QED
    BY <1>2, <2>1 DEF LoopTick, WatchGoto, CallsUntouched, callVars, WatchPC
<1>3. CASE MonitorWakes(n)
  <2>1. child' \in [Instance -> Child]
    BY <1>3 DEF MonitorWakes, Child
  <2> QED
    BY <1>3, <2>1 DEF MonitorWakes, WatchGoto, CallsUntouched, callVars, WatchPC
<1>4. CASE MonitorStores(n)
  BY <1>4 DEF MonitorStores, WatchGoto, WatchFrame, CallsUntouched, lifeVars, callVars,
     WatchPC, State
<1>5. CASE ChildExits(n) \/ ChildKilled(n)
  <2>1. child' \in [Instance -> Child]
    BY <1>5 DEF ChildExits, ChildKilled, Child
  <2> QED
    BY <1>5, <2>1 DEF ChildExits, ChildKilled, spVars, wgVars, callVars
<1>6. CASE WatchStep(<<"loop", n>>) \/ WatchStep(<<"monitor", n>>)
  BY <1>6, TypeWatch
<1> QED  BY <1>1, <1>2, <1>3, <1>4, <1>5, <1>6 DEF LoopStep, MonitorStep

\* doRestart.
LEMMA TypeRestart == TypeInv /\ RestartStep /\ ~CoreStep(Restarter) => TypeInv'
<1> SUFFICES ASSUME TypeInv, RestartStep, ~CoreStep(Restarter) PROVE TypeInv'
  OBVIOUS
<1> USE DEF TypeInv, Starter
<1> USE WatcherFacts
<1>1. CASE RestartDelay \/ RestartSelect \/ RestartAwake \/ RestartCancel \/ RestartDrained
  BY <1>1 DEF RestartDelay, RestartSelect, RestartAwake, RestartCancel, RestartDrained,
     CancelLifecycle, RestartFrame, Goto, wgVars, callVars, PC
<1>2. CASE RestartClose \/ RestartCount \/ RestartReset \/ RestartRearm
  BY <1>2 DEF RestartClose, RestartCount, RestartReset, RestartRearm, CloseConn,
     RestartFrame, Goto, wgVars, callVars, PC, CorePC, State
<1>3. CASE RestartRedo \/ RestartFailed \/ RestartExits
  BY <1>3 DEF RestartRedo, RestartFailed, RestartExits, RestartFrame, Goto, wgVars, callVars,
     PC, State
<1> QED  BY <1>1, <1>2, <1>3 DEF RestartStep

\* And every other step keeps the types.
LEMMA TypeStep == TypeInv /\ InstInv /\ [Next]_vars => TypeInv'
<1> SUFFICES ASSUME TypeInv, InstInv, [Next]_vars PROVE TypeInv'
  OBVIOUS
<1>1. CASE UNCHANGED vars \/ Terminated
  BY <1>1 DEF TypeInv, Terminated, vars, spVars, lifeVars, wgVars, callVars
<1>2. ASSUME NEW u \in User, BeginCall(u) \/ UserStep(u) \/ StopWaits(u) PROVE TypeInv'
  BY <1>2, TypeUser, TypeCore DEF Starter
<1>3. CASE RestartStep
  BY <1>3, TypeRestart, TypeCore DEF Starter
<1> QED  BY <1>1, <1>2, <1>3, TypeInstance DEF Next

-----------------------------------------------------------------------------
(* Where the calls are. *)

\* At first nobody calls and nothing restarts.
LEMMA CallInit == Init => CallInv
BY DEF Init, CallInv, Starter, RestartPC, BeforeRunning, BeforeSpawn

\* A step of one goroutine leaves the others where they are.
LEMMA CallUser ==
  ASSUME TypeInv, CallInv, NEW u \in User, BeginCall(u) \/ UserStep(u) \/ StopWaits(u)
  PROVE  CallInv'
<1> DEFINE Fits(v) == /\ pc[v] \notin RestartPC
                      /\ op[v] = "none" <=> pc[v] = "idle"
                      /\ op[v] = "Start" => "Start" \in Ops[v]
                           /\ pc[v] \in BeforeRunning \cup {"loop", "returned"}
                      /\ pc[v] \in BeforeRunning \cup {"loop"} => op[v] = "Start"
<1> USE DEF BeforeRunning, BeforeSpawn, RestartPC
<1>0. /\ u \in Starter /\ u # Restarter
      /\ pc \in [Starter -> PC] /\ op \in [User -> {"none", "Start", "Stop", "Unregister"}]
  BY DEF TypeInv, Starter
<1>1. Fits(u)
  BY DEF CallInv
<1>2. /\ \A v \in User \ {u} : pc'[v] = pc[v] /\ op'[v] = op[v]
      /\ pc'[Restarter] = pc[Restarter]
      /\ /\ pc'[u] \notin RestartPC
         /\ op'[u] = "none" <=> pc'[u] = "idle"
         /\ op'[u] = "Start" => "Start" \in Ops[u]
              /\ pc'[u] \in BeforeRunning \cup {"loop", "returned"}
         /\ pc'[u] \in BeforeRunning \cup {"loop"} => op'[u] = "Start"
  <2>1. CASE BeginCall(u)
    BY <1>0, <1>1, <2>1 DEF BeginCall, BeginStart, BeginStop, BeginUnregister, Begin, Goto, Starter
  <2>2. CASE CoreStep(u)
    <3>1. CASE Claim(u) \/ CheckStopped(u) \/ NewLifecycle(u) \/ RecheckStopped(u) \/ Spawn(u)
      BY <1>0, <1>1, <3>1 DEF Claim, CheckStopped, NewLifecycle, RecheckStopped, Spawn,
         CoreReturns, CoreFrame, Goto, Return, Starter
    <3>2. CASE Connect(u) \/ LaunchMonitor(u) \/ SpawnFails(u) \/ ConnectFailed(u) \/ Verify(u)
      BY <1>0, <1>1, <3>2 DEF Connect, LaunchMonitor, SpawnFails, ConnectFailed, Verify,
         CoreReturns, CoreFrame, Goto, Return, Starter
    <3>3. CASE AbortClose(u) \/ AbortCancel(u) \/ Abort(u) \/ Publish(u) \/ LaunchLoop(u)
      BY <1>0, <1>1, <3>3 DEF AbortClose, AbortCancel, Abort, Publish, LaunchLoop,
         CoreReturns, CoreFrame, Goto, Return, Starter
    <3> QED  BY <2>2, <3>1, <3>2, <3>3 DEF CoreStep
  <2>3. CASE ClearStopped(u) \/ StopRead(u) \/ StopMark(u) \/ StopStore(u) \/ StopCancel(u)
    BY <1>0, <1>1, <2>3 DEF ClearStopped, StopRead, StopMark, StopStore, StopCancel, CallFrame,
       Goto, Return, Starter
  <2>4. CASE StopClose(u) \/ StopReturns(u) \/ StopWaits(u)
    BY <1>0, <1>1, <2>4 DEF StopClose, StopReturns, StopWaits, StopDrained, StopStamp,
       CallFrame, Goto, Return, Starter
  <2>5. CASE UnregisterMark(u) \/ UnregisterCancel(u) \/ UnregisterWaited(u) \/ UnregisterEnds(u)
    BY <1>0, <1>1, <2>5 DEF UnregisterMark, UnregisterCancel, UnregisterWaited,
       UnregisterEnds, CallFrame, Goto, Return, Starter
  <2> QED  BY <2>1, <2>2, <2>3, <2>4, <2>5 DEF UserStep
<1>3. pc'[Restarter] \in RestartPC \cup CorePC
  BY <1>2 DEF CallInv
<1>4. ASSUME NEW v \in User
      PROVE  /\ pc'[v] \notin RestartPC
             /\ op'[v] = "none" <=> pc'[v] = "idle"
             /\ op'[v] = "Start" => "Start" \in Ops[v]
                  /\ pc'[v] \in BeforeRunning \cup {"loop", "returned"}
             /\ pc'[v] \in BeforeRunning \cup {"loop"} => op'[v] = "Start"
  <2>1. CASE v = u
    BY <1>2, <2>1
  <2>2. CASE v # u
    <3>1. Fits(v) /\ pc'[v] = pc[v] /\ op'[v] = op[v]
      BY <1>2, <2>2 DEF CallInv
    <3> QED  BY <3>1
  <2> QED  BY <2>1, <2>2
<1> QED  BY <1>3, <1>4, Zenon DEF CallInv

\* doRestart moves among its own program points and those of startCore.
LEMMA CallRestart == TypeInv /\ CallInv /\ RestartStep => CallInv'
<1> SUFFICES ASSUME TypeInv, CallInv, RestartStep PROVE CallInv'
  OBVIOUS
<1>0. /\ \A u \in User : u # Restarter /\ u \in Starter
      /\ Restarter \in Starter /\ pc \in [Starter -> PC]
  BY DEF TypeInv, Starter
<1>1. /\ op' = op /\ \A u \in User : pc'[u] = pc[u]
      /\ pc'[Restarter] \in RestartPC \cup CorePC
  <2> USE DEF RestartPC, CorePC
  <2>1. CASE RestartDelay \/ RestartSelect \/ RestartAwake \/ RestartCancel \/ RestartDrained
    BY <1>0, <2>1 DEF RestartDelay, RestartSelect, RestartAwake, RestartCancel, RestartDrained,
       RestartFrame, callVars, Goto
  <2>2. CASE RestartClose \/ RestartCount \/ RestartReset \/ RestartRearm
    BY <1>0, <2>2 DEF RestartClose, RestartCount, RestartReset, RestartRearm,
       RestartFrame, callVars, Goto
  <2>3. CASE RestartRedo \/ RestartFailed \/ RestartExits
    BY <1>0, <2>3 DEF RestartRedo, RestartFailed, RestartExits, RestartFrame, callVars, Goto
  <2>4. CASE CoreStep(Restarter)
    <3> DEFINE a == Restarter
    <3>1. CASE Claim(a) \/ CheckStopped(a) \/ NewLifecycle(a) \/ RecheckStopped(a) \/ Spawn(a)
      BY <1>0, <3>1 DEF Claim, CheckStopped, NewLifecycle, RecheckStopped, Spawn,
         CoreReturns, CoreFrame, Goto
    <3>2. CASE Connect(a) \/ LaunchMonitor(a) \/ SpawnFails(a) \/ ConnectFailed(a) \/ Verify(a)
      BY <1>0, <3>2 DEF Connect, LaunchMonitor, SpawnFails, ConnectFailed, Verify,
         CoreReturns, CoreFrame, Goto
    <3>3. CASE AbortClose(a) \/ AbortCancel(a) \/ Abort(a) \/ Publish(a) \/ LaunchLoop(a)
      BY <1>0, <3>3 DEF AbortClose, AbortCancel, Abort, Publish, LaunchLoop,
         CoreReturns, CoreFrame, Goto
    <3> QED  BY <2>4, <3>1, <3>2, <3>3 DEF CoreStep
  <2> QED  BY <2>1, <2>2, <2>3, <2>4 DEF RestartStep
<1> QED  BY <1>1 DEF CallInv

\* A watcher moves doRestart at most, from none to its delay.
LEMMA WatchMoves ==
  ASSUME TypeInv, NEW w \in Watcher, WatchStep(w)
  PROVE  /\ UNCHANGED <<op, child, inst, open, conn>>
         /\ \E l : watch' = [watch EXCEPT ![w] = l]
                /\ \/ watch[w] = "leave" /\ l = "gone"
                   \/ l \in {"over", "look", "cas", "enter"} /\ watch[w] \in {"budget", "look", "over", "cas"}
                        /\ (l = "enter" => w[1] = "loop")
                   \/ l = "leave" /\ watch[w] \in {"over", "look", "cas"}
         /\ state' = state \/ state' = "failed"
         /\ \/ pc' = pc
            \/ watch[w] = "cas" /\ pc[Restarter] = "none"
                 /\ pc' = [pc EXCEPT ![Restarter] = "delay"]
BY DEF WatchStep, TriggerStep, TriggerBudget, TriggerOver, TriggerLook, TriggerCas,
   WatcherLeaves, WatchGoto, WatchFrame, CallsUntouched, AfterTrigger, lifeVars, callVars

\* The watchers move no user, and doRestart only into its delay.
LEMMA CallInstance ==
  ASSUME TypeInv, CallInv, NEW n \in Instance,
         LoopStep(n) \/ LoopTick(n) \/ LoopExits(n) \/ MonitorStep(n) \/ ChildExits(n)
           \/ ChildKilled(n)
  PROVE  CallInv'
<1>1. op' = op /\ (pc' = pc \/ pc' = [pc EXCEPT ![Restarter] = "delay"])
  <2>1. CASE WatchStep(<<"loop", n>>) \/ WatchStep(<<"monitor", n>>)
    BY <2>1, WatchMoves, WatcherFacts
  <2>2. CASE ~(WatchStep(<<"loop", n>>) \/ WatchStep(<<"monitor", n>>))
    BY <2>2 DEF LoopStep, LoopEnters, LoopTick, LoopExits, MonitorStep, MonitorWakes,
       MonitorStores, ChildExits, ChildKilled, WatchFrame, CallsUntouched, callVars
  <2> QED  BY <2>1, <2>2
<1>2. \A u \in User : u # Restarter
  OBVIOUS
<1>3. pc \in [Starter -> PC] /\ Restarter \in Starter /\ User \subseteq Starter
  BY DEF TypeInv, Starter
<1> QED  BY <1>1, <1>2, <1>3 DEF CallInv, RestartPC

\* So every step leaves each goroutine at a point of its own call.
LEMMA CallStep == TypeInv /\ CallInv /\ [Next]_vars => CallInv'
<1> SUFFICES ASSUME TypeInv, CallInv, [Next]_vars PROVE CallInv'
  OBVIOUS
<1>1. CASE UNCHANGED vars \/ Terminated
  BY <1>1 DEF CallInv, Terminated, vars, callVars
<1> QED  BY <1>1, CallUser, CallRestart, CallInstance DEF Next

-----------------------------------------------------------------------------
(* What the steps do to instances, connections and the two sets of program *)
(* points: first those of a goroutine a that starts, stops or restarts.     *)

Acts(a) ==
    \/ a \in User /\ (BeginCall(a) \/ UserStep(a) \/ StopWaits(a))
    \/ a = Restarter /\ RestartStep

Connects(a) == Spawn(a) \/ Connect(a) \/ LaunchMonitor(a) \/ LaunchLoop(a)

\* Every other step leaves the instances alone, closes sp.conn at most, and
\* enters the critical program points only where it should.
Moves(a) ==
    /\ UNCHANGED <<inst, child, watch, wg>>
    /\ \A b \in Starter \ {a} : pc'[b] = pc[b]
    /\ \A v \in User \ {a} : op'[v] = op[v]
    /\ pc[a] \in {"conn", "monitor"} \/ pc'[a] \in {"conn", "monitor"} => pc'[a] = pc[a]
    /\ a = Restarter /\ pc'[a] \in Drained => pc[a] \in Drained \/ wg = 0
    /\ pc'[a] \in Closed \ {"conn"}
         => pc[a] \in Closed \ {"conn"} \/ pc[a] = "clear" \/ open' = open \ {conn}
    /\ \/ UNCHANGED <<open, conn>>
       \/ open' = open \ {conn} /\ conn' = NoConn
    /\ state' = "running" => state = "running" \/ pc'[a] = "loop"
    /\ a = Restarter => pc[a] # "none" /\ op' = op
    /\ a \in User /\ op'[a] = "Start" /\ pc'[a] \in BeforeRunning
         => op[a] # "Start" \/ pc[a] \in BeforeRunning
    /\ a \in User /\ op'[a] = "Start" /\ pc'[a] \in BeforeSpawn
         => op[a] # "Start" \/ pc[a] \in BeforeSpawn
    /\ a \in User /\ op[a] = "Start" => op'[a] = "Start"

\* The steps of startCore that connect nothing.
LEMMA CoreMoves ==
  ASSUME TypeInv, CallInv, NEW a \in Starter, CoreStep(a), ~Connects(a)
  PROVE  Moves(a)
<1> USE DEF Moves, CoreFrame, CoreReturns, Goto, Return, BeforeRunning, BeforeSpawn, Drained,
        Closed, lifeVars, wgVars
<1>0. pc \in [Starter -> PC] /\ Restarter \notin User
  BY DEF TypeInv
<1>1. CASE Claim(a)
  BY <1>0, <1>1 DEF Claim
<1>2. CASE CheckStopped(a) \/ NewLifecycle(a) \/ RecheckStopped(a)
  BY <1>0, <1>2 DEF CheckStopped, NewLifecycle, RecheckStopped
<1>3. CASE SpawnFails(a) \/ ConnectFailed(a) \/ Verify(a)
  BY <1>0, <1>3 DEF SpawnFails, ConnectFailed, Verify
<1>4. CASE AbortClose(a) \/ AbortCancel(a)
  BY <1>0, <1>4 DEF AbortClose, AbortCancel, CloseConn, CancelLifecycle
<1>5. CASE Abort(a) \/ Publish(a)
  BY <1>0, <1>5 DEF Abort, Publish
<1> QED  BY <1>1, <1>2, <1>3, <1>4, <1>5 DEF CoreStep, Connects

\* Those of the calls.
LEMMA UserMoves ==
  ASSUME TypeInv, CallInv, NEW u \in User, BeginCall(u) \/ UserStep(u) \/ StopWaits(u),
         ~Connects(u)
  PROVE  Moves(u)
<1> USE DEF Moves, Goto, Return, BeforeRunning, BeforeSpawn, Drained, Closed, wgVars
<1>0. /\ pc \in [Starter -> PC] /\ op \in [User -> {"none", "Start", "Stop", "Unregister"}]
      /\ u \in Starter /\ u # Restarter
  BY DEF TypeInv, Starter
<1>1. CASE BeginCall(u)
  <2>1. op[u] = "none"
    BY <1>1 DEF CallInv, BeginCall, BeginStart, BeginStop, BeginUnregister, Begin
  <2> QED
    BY <1>0, <1>1, <2>1 DEF BeginCall, BeginStart, BeginStop, BeginUnregister, Begin, spVars,
       lifeVars
<1>2. CASE ClearStopped(u)
  BY <1>0, <1>2 DEF ClearStopped, lifeVars
<1>3. CASE StopRead(u) \/ StopMark(u) \/ StopStore(u) \/ StopCancel(u)
  BY <1>0, <1>3 DEF StopRead, StopMark, StopStore, StopCancel, CallFrame
<1>4. CASE StopClose(u) \/ StopReturns(u) \/ StopWaits(u)
  BY <1>0, <1>4 DEF StopClose, StopReturns, StopWaits, StopDrained, StopStamp, CallFrame,
     CloseConn
<1>5. CASE UnregisterMark(u) \/ UnregisterCancel(u) \/ UnregisterWaited(u) \/ UnregisterEnds(u)
  BY <1>0, <1>5 DEF UnregisterMark, UnregisterCancel, UnregisterWaited, UnregisterEnds,
     CallFrame, CloseConn
<1>6. CASE CoreStep(u)
  BY <1>0, <1>6, CoreMoves
<1> QED  BY <1>1, <1>2, <1>3, <1>4, <1>5, <1>6 DEF UserStep

\* Those of doRestart.
LEMMA RestartMoves ==
  ASSUME TypeInv, CallInv, RestartStep, ~Connects(Restarter)
  PROVE  Moves(Restarter)
<1> USE DEF Moves, Goto, BeforeRunning, BeforeSpawn, Drained, Closed, wgVars, RestartFrame,
        callVars
<1>0. pc \in [Starter -> PC] /\ Restarter \in Starter /\ Restarter \notin User
  BY DEF TypeInv, Starter
<1>1. CASE RestartDelay \/ RestartSelect \/ RestartAwake \/ RestartCancel \/ RestartDrained
  BY <1>0, <1>1 DEF RestartDelay, RestartSelect, RestartAwake, RestartCancel, RestartDrained
<1>2. CASE RestartClose \/ RestartCount \/ RestartReset \/ RestartRearm
  BY <1>0, <1>2 DEF RestartClose, RestartCount, RestartReset, RestartRearm, CloseConn
<1>3. CASE RestartRedo \/ RestartFailed \/ RestartExits
  BY <1>0, <1>3 DEF RestartRedo, RestartFailed, RestartExits
<1>4. CASE CoreStep(Restarter)
  BY <1>0, <1>4, CoreMoves
<1> QED  BY <1>1, <1>2, <1>3, <1>4 DEF RestartStep

-----------------------------------------------------------------------------
(* The invariants of the instances, kind of step by kind of step. *)

Apart == InstInv /\ YoungInv /\ DrainedInv /\ HeldInv /\ OpenInv

\* The sets of program points a step compares.
LEMMA PointFacts ==
  /\ "clear" \in BeforeSpawn /\ "connect" \in BeforeSpawn /\ BeforeSpawn \subseteq BeforeRunning
  /\ {"conn", "monitor", "verify"} \subseteq BeforeRunning
  /\ \A l \in {"conn", "monitor", "verify", "publish", "loop"} :
        l \notin BeforeSpawn /\ l \notin Drained
  /\ "loop" \notin BeforeRunning /\ "returned" \notin BeforeRunning
  /\ "conn" \in Closed /\ "connect" \in Drained /\ "connect" \in Closed
  /\ "monitor" \notin Closed /\ "verify" \notin Closed
  /\ BeforeRunning \cap RestartPC = {} /\ "none" \in RestartPC
  /\ Closed \subseteq BeforeRunning \cup RestartPC /\ Closed \cap BeforeRunning \subseteq BeforeSpawn \cup {"conn"}
  /\ "clear" \notin RestartPC /\ "clear" \notin CorePC
  /\ "none" \notin Drained /\ "none" \notin Closed /\ "delay" \notin Drained
  /\ "delay" \notin Closed /\ "loop" \notin Closed /\ "returned" \notin Closed
  /\ "exit" \notin Closed /\ "exit" \notin Drained
BY DEF BeforeSpawn, BeforeRunning, Drained, Closed, RestartPC, CorePC

\* The watchers are finitely many.
LEMMA WorkingFacts == IsFiniteSet(Watcher) /\ IsFiniteSet(Working) /\ Cardinality(Working) \in Nat
<1>1. IsFiniteSet(Watcher)
  <2>1. IsFiniteSet(Instance)
    BY FS_Interval DEF Instance
  <2>2. IsFiniteSet({"loop", "monitor"})
    <3>1. IsFiniteSet({"loop"}) /\ {"loop", "monitor"} = {"loop"} \cup {"monitor"}
      BY FS_Singleton
    <3> QED  BY <3>1, FS_AddElement
  <2> QED  BY <2>1, <2>2, FS_Product DEF Watcher
<1>2. IsFiniteSet(Working)
  BY <1>1, FS_Subset DEF Working
<1> QED  BY <1>1, <1>2, FS_CardinalityType

\* No tickets: no watcher is at work.
LEMMA NoTickets ==
  ASSUME WgInv, wg = 0
  PROVE  \A n \in Instance : Mon(n) \in {"off", "gone"}
<1>1. Working = {}
  BY WorkingFacts, FS_EmptySet DEF WgInv
<1> QED  BY <1>1, WatcherFacts DEF Working, Mon

\* Such a step keeps instances apart; a restart passes its drain with no ticket out.
LEMMA ApartMoves ==
  ASSUME OneStarter, TypeInv, CallInv, CallInv', Apart, WgInv, NEW a \in Starter, Moves(a)
  PROVE  Apart'
<1> USE DEF Apart
<1>0. /\ Restarter \notin User /\ Restarter \in Starter /\ User \subseteq Starter
      /\ a \in User \/ a = Restarter
      /\ open \subseteq {conn}
      /\ UNCHANGED <<inst, child, watch, wg>>
      /\ \A b \in Starter \ {a} : pc'[b] = pc[b]
      /\ open' \subseteq open
      /\ \A n \in Instance : Mon(n)' = Mon(n) /\ Held(n)' = Held(n) /\ Tended(n)' = Tended(n)
  BY DEF Starter, OpenInv, Moves, Mon, Held, Tended
<1>1. InstInv'
  BY <1>0 DEF InstInv, Moves
<1>2. HeldInv'
  BY <1>0 DEF HeldInv
<1>3. DrainedInv'
  BY <1>0, NoTickets DEF DrainedInv, Moves
<1>4. /\ \A u \in User : op[u] = "Start" => op'[u] = "Start"
      /\ Young' => Young
      /\ Unconnected' => Unconnected
  <2>1. CASE a = Restarter
    BY <1>0, <2>1 DEF Moves, Young, Unconnected
  <2>2. CASE a \in User
    BY <1>0, <2>2 DEF Moves, Young, Unconnected
  <2> QED  BY <1>0, <2>1, <2>2
<1>5. YoungInv'
  <2>1. ASSUME Young' PROVE pc'[Restarter] = "none" /\ state' # "running"
    <3>1. pc[Restarter] = "none" /\ state # "running" /\ a \in User
      BY <1>0, <1>4, <2>1 DEF YoungInv, Moves
    <3>2. pc'[a] # "loop"
      BY <2>1, <3>1, PointFacts DEF CallInv, Young
    <3> QED  BY <1>0, <3>1, <3>2 DEF Moves
  <2>2. ASSUME Unconnected' PROVE open' = {}
    BY <1>0, <1>4, <2>2 DEF YoungInv
  <2>3. ASSUME NEW n \in Instance
        PROVE  /\ Young' => watch'[<<"loop", n>>] = "off"
                         /\ Mon(n)' \in {"off", "watching", "leave", "gone"}
               /\ Unconnected' => child'[n] = "none"
    BY <1>0, <1>4 DEF YoungInv
  <2> QED  BY <2>1, <2>2, <2>3 DEF YoungInv
<1>6. OpenInv'
  <2>1. open' \subseteq {conn'}
    BY <1>0 DEF Moves
  <2>2. ASSUME NEW b \in Starter, pc'[b] \in Closed PROVE open' = {}
    <3>1. CASE b # a
      BY <1>0, <2>2, <3>1 DEF OpenInv
    <3>2. CASE pc[a] \in Closed
      BY <1>0, <3>2 DEF OpenInv
    <3>3. CASE b = a /\ pc[a] = "clear"
      <4>1. a \in User /\ op[a] = "Start"
        BY <1>0, <3>3, PointFacts DEF CallInv
      <4>2. Unconnected
        BY <3>3, <4>1, OneStart, PointFacts DEF Unconnected
      <4> QED  BY <1>0, <4>2 DEF YoungInv
    <3>4. CASE b = a /\ pc[a] # "clear" /\ pc[a] \notin Closed
      <4>1. pc'[a] # "conn"
        BY <3>4, PointFacts DEF Moves
      <4>2. open' = open \ {conn}
        BY <2>2, <3>4, <4>1 DEF Moves
      <4> QED  BY <1>0, <4>2
    <3> QED  BY <3>1, <3>2, <3>3, <3>4
  <2> QED  BY <2>1, <2>2 DEF OpenInv
<1> QED  BY <1>1, <1>2, <1>3, <1>5, <1>6

\* A start up to Running is alone: so is a restart, from its claim on.
LEMMA Alone ==
  ASSUME OneStarter, CallInv, YoungInv, NEW a \in Starter, pc[a] \in BeforeRunning
  PROVE  /\ a \in User => op[a] = "Start" /\ Young
         /\ a = Restarter => ~Young /\ ~Unconnected
         /\ \A b \in Starter \ {a} : pc[b] \notin BeforeRunning /\ pc[b] \notin Closed
<1>1. ASSUME NEW u \in User, pc[u] \in BeforeRunning
      PROVE  /\ op[u] = "Start" /\ Young /\ pc[Restarter] = "none"
             /\ \A v \in User : op[v] = "Start" => v = u
  <2>1. op[u] = "Start"
    BY <1>1 DEF CallInv
  <2>2. \A v \in User : op[v] = "Start" => v = u
    BY <2>1, OneStart
  <2> QED  BY <1>1, <2>1, <2>2 DEF Young, YoungInv
<1>2. a \in User => op[a] = "Start" /\ Young
  BY <1>1
<1>3. a = Restarter => ~Young /\ ~Unconnected
  BY PointFacts DEF YoungInv, Young, Unconnected
<1>4. ASSUME NEW b \in Starter \ {a} PROVE pc[b] \notin BeforeRunning /\ pc[b] \notin Closed
  <2>1. CASE b = Restarter
    BY <1>1, <2>1, PointFacts DEF Starter
  <2>2. CASE b \in User
    <3>1. pc[b] \notin BeforeRunning
      BY <1>1, <1>3, <2>2 DEF Starter, CallInv
    <3> QED  BY <2>2, <3>1, PointFacts DEF CallInv
  <2> QED  BY <2>1, <2>2 DEF Starter
<1> QED  BY <1>2, <1>3, <1>4

\* A spawn finds nothing alive and nothing open: the start is the first, or a restart
\* that has drained.
LEMMA ApartSpawn ==
  ASSUME OneStarter, TypeInv, CallInv, Apart, NEW a \in Starter, Spawn(a)
  PROVE  Apart'
<1> USE DEF Apart
<1>1. PICK n \in Instance : n = First(Unspawned) /\ child[n] = "none"
  <2>1. Unspawned \in SUBSET Instance /\ Unspawned # {}
    BY DEF Spawn, Unspawned
  <2>2. First(Unspawned) \in Unspawned
    BY <2>1, FirstFacts, Zenon
  <2> QED  BY <2>2 DEF Unspawned
<1>0. /\ Restarter \notin User /\ Restarter \in Starter /\ User \subseteq Starter
      /\ a \in User \/ a = Restarter
      /\ pc[a] = "connect" /\ pc' = [pc EXCEPT ![a] = "conn"]
      /\ inst' = [inst EXCEPT ![a] = n] /\ child' = [child EXCEPT ![n] = "alive"]
      /\ UNCHANGED <<op, state, conn, open, watch>>
      /\ pc \in [Starter -> PC] /\ inst \in [Starter -> Instance \cup {NoConn}]
      /\ child \in [Instance -> Child]
  BY <1>1 DEF Spawn, Goto, CoreFrame, wgVars, TypeInv, Starter
<1>2. \A m \in Instance : Mon(m)' = Mon(m)
  BY <1>0 DEF Mon
<1>3. /\ a \in User => op[a] = "Start" /\ Young
      /\ a = Restarter => ~Young /\ ~Unconnected
      /\ \A b \in Starter \ {a} : pc[b] \notin BeforeRunning /\ pc[b] \notin Closed
  BY <1>0, Alone, PointFacts
<1>4. \A b \in Starter : inst[b] = NoConn
  BY <1>0, <1>3, PointFacts DEF InstInv
<1>5. \A m \in Instance : Mon(m) \in {"off", "gone"}
  <2>1. CASE a = Restarter
    BY <1>0, <2>1, PointFacts DEF DrainedInv
  <2>2. CASE a \in User
    <3>1. Unconnected
      BY <1>0, <1>3, <2>2, OneStart, PointFacts DEF Unconnected
    <3> QED  BY <3>1 DEF YoungInv, InstInv
  <2> QED  BY <1>0, <2>1, <2>2
<1>6. \A m \in Instance : Held(m)' <=> m = n
  BY <1>0, <1>1, <1>2, <1>4, <1>5, WatcherFacts DEF Held
<1>7. InstInv'
  <2>1. \A b \in Starter \ {a} : pc'[b] \notin {"conn", "monitor"} /\ inst'[b] = NoConn
    BY <1>0, <1>3, <1>4, PointFacts
  <2>2. /\ inst'[a] = n /\ child'[n] = "alive" /\ Mon(n)' = "off" /\ pc'[a] = "conn"
    BY <1>0, <1>1, <1>2 DEF InstInv
  <2>3. ASSUME NEW m \in Instance, m # n
        PROVE  child'[m] = child[m] /\ ~Tended(m)
    BY <1>0, <1>4, <1>5, <2>3, WatcherFacts DEF Tended
  <2> HIDE DEF Apart
  <2>4. \A m \in Instance :
          /\ child'[m] = "none" => Mon(m)' = "off"
          /\ child'[m] \in {"alive", "exit0", "exit1"} => Tended(m)'
          /\ Mon(m)' \in {"off", "gone"}
    BY <1>1, <1>2, <1>5, <2>2, <2>3 DEF InstInv, Apart, Tended
  <2>5. \A b \in Starter :
          IF pc'[b] \in {"conn", "monitor"}
          THEN inst'[b] \in Instance /\ child'[inst'[b]] # "none" /\ Mon(n)' = "off" /\ inst'[b] = n
          ELSE inst'[b] = NoConn
    BY <1>1, <2>1, <2>2
  <2> QED  BY <2>4, <2>5 DEF InstInv, Mon
<1>8. HeldInv'
  BY <1>6 DEF HeldInv
<1>9. ~Unconnected' /\ (Young' => Young)
  BY <1>0, <1>3, PointFacts DEF Unconnected, Young
<1>10. YoungInv'
  BY <1>0, <1>2, <1>3, <1>9 DEF YoungInv
<1>11. DrainedInv'
  BY <1>0, <1>2, <1>5 DEF DrainedInv
<1>12. OpenInv'
  <2>1. open = {}
    BY <1>0, PointFacts DEF OpenInv
  <2> QED  BY <1>0, <2>1 DEF OpenInv
<1> QED  BY <1>7, <1>8, <1>10, <1>11, <1>12

\* The new connection is the only one.
LEMMA ApartConnect ==
  ASSUME OneStarter, TypeInv, CallInv, Apart, NEW a \in Starter, Connect(a)
  PROVE  Apart'
<1> USE DEF Apart
<1>0. /\ Restarter \notin User /\ Restarter \in Starter /\ User \subseteq Starter
      /\ a \in User \/ a = Restarter
      /\ pc[a] = "conn" /\ pc' = [pc EXCEPT ![a] = "monitor"]
      /\ conn' = inst[a] /\ open' = open \cup {inst[a]}
      /\ UNCHANGED <<op, state, inst, child, watch>>
      /\ pc \in [Starter -> PC]
  BY DEF Connect, Goto, CoreFrame, wgVars, TypeInv, Starter
<1>1. \A m \in Instance : Mon(m)' = Mon(m) /\ Held(m)' = Held(m) /\ Tended(m)' = Tended(m)
  BY <1>0 DEF Mon, Held, Tended
<1>2. /\ a \in User => op[a] = "Start" /\ Young
      /\ a = Restarter => ~Young /\ ~Unconnected
      /\ \A b \in Starter \ {a} : pc[b] \notin BeforeRunning /\ pc[b] \notin Closed
  BY <1>0, Alone, PointFacts
<1>3. InstInv'
  BY <1>0, <1>1 DEF InstInv
<1>4. HeldInv'
  BY <1>1 DEF HeldInv
<1>5. ~Unconnected' /\ (Young' => Young)
  BY <1>0, <1>2, PointFacts DEF Unconnected, Young
<1>6. YoungInv'
  BY <1>0, <1>1, <1>2, <1>5 DEF YoungInv
<1>7. DrainedInv'
  BY <1>0, <1>1, PointFacts DEF DrainedInv
<1>8. OpenInv'
  <2>1. open = {}
    BY <1>0, PointFacts DEF OpenInv
  <2> QED  BY <1>0, <1>2, <2>1, PointFacts DEF OpenInv
<1> QED  BY <1>3, <1>4, <1>6, <1>7, <1>8

\* The monitor takes the instance over from the start.
LEMMA ApartMonitor ==
  ASSUME OneStarter, TypeInv, CallInv, Apart, NEW a \in Starter, LaunchMonitor(a)
  PROVE  Apart'
<1> USE DEF Apart
<1>1. PICK n \in Instance : n = inst[a] /\ child[n] # "none"
  BY DEF LaunchMonitor, InstInv
<1>0. /\ Restarter \notin User /\ Restarter \in Starter /\ User \subseteq Starter
      /\ a \in User \/ a = Restarter
      /\ pc[a] = "monitor" /\ pc' = [pc EXCEPT ![a] = "verify"]
      /\ inst' = [inst EXCEPT ![a] = NoConn]
      /\ watch' = [watch EXCEPT ![<<"monitor", n>>] = "watching"]
      /\ UNCHANGED <<op, state, conn, open, child>>
      /\ pc \in [Starter -> PC] /\ inst \in [Starter -> Instance \cup {NoConn}]
      /\ watch \in [Watcher -> WatchPC]
  BY <1>1 DEF LaunchMonitor, WatchGoto, Goto, CoreFrame, TypeInv, Starter
<1>2. /\ Mon(n)' = "watching"
      /\ \A m \in Instance : m # n => Mon(m)' = Mon(m)
      /\ \A m \in Instance : watch'[<<"loop", m>>] = watch[<<"loop", m>>]
  BY <1>0, <1>1, WatcherFacts DEF Mon
<1>3. /\ a \in User => op[a] = "Start" /\ Young
      /\ a = Restarter => ~Young /\ ~Unconnected
      /\ \A b \in Starter \ {a} : pc[b] \notin BeforeRunning /\ pc[b] \notin Closed
  BY <1>0, Alone, PointFacts
<1>4. /\ \A b \in Starter : pc'[b] \notin {"conn", "monitor"} /\ inst'[b] = NoConn
      /\ \A b \in Starter \ {a} : inst[b] = NoConn
  BY <1>0, <1>3, PointFacts DEF InstInv
<1>6. \A m \in Instance : Held(m)' <=> Held(m)
  BY <1>0, <1>1, <1>2, <1>4, WatcherFacts DEF Held
<1>7. InstInv'
  <2>1. \A m \in Instance : Tended(m) => Tended(m)'
    BY <1>0, <1>1, <1>2, <1>4, WatcherFacts DEF Tended
  <2> QED  BY <1>0, <1>1, <1>2, <1>4, <2>1 DEF InstInv
<1>8. HeldInv'
  BY <1>6 DEF HeldInv
<1>9. ~Unconnected' /\ (Young' => Young)
  BY <1>0, <1>3, PointFacts DEF Unconnected, Young
<1>10. YoungInv'
  BY <1>0, <1>1, <1>2, <1>3, <1>9 DEF YoungInv
<1>11. DrainedInv'
  <2>1. pc'[Restarter] \notin Drained
    BY <1>0, <1>3, PointFacts DEF YoungInv
  <2> QED  BY <2>1 DEF DrainedInv
<1>12. OpenInv'
  BY <1>0, <1>3, PointFacts DEF OpenInv
<1> QED  BY <1>7, <1>8, <1>10, <1>11, <1>12

\* From the launch of the loop on, no user is at work on a start.
LEMMA ApartLoop ==
  ASSUME OneStarter, TypeInv, CallInv, CallInv', Apart, NEW a \in Starter, LaunchLoop(a)
  PROVE  Apart'
<1> USE DEF Apart
<1>0. /\ Restarter \notin User /\ Restarter \in Starter /\ User \subseteq Starter
      /\ a \in User \/ a = Restarter
      /\ pc[a] = "loop"
      /\ pc' = [pc EXCEPT ![a] = IF a \in User THEN "returned" ELSE "exit"]
      /\ UNCHANGED <<op, state, conn, open, child, inst>>
      /\ pc \in [Starter -> PC]
  BY DEF LaunchLoop, CoreReturns, Goto, Return, CoreFrame, lifeVars, TypeInv, Starter
<1>1. \A m \in Instance : Mon(m)' = Mon(m) /\ Held(m)' = Held(m) /\ Tended(m)' = Tended(m)
  <2>1. PICK n \in Instance : watch' = [watch EXCEPT ![<<"loop", n>>] = "enter"]
    <3>1. Unlooped \in SUBSET Instance /\ Unlooped # {}
      BY DEF LaunchLoop, Unlooped
    <3>2. First(Unlooped) \in Instance
      BY <3>1, FirstFacts, Zenon
    <3> QED  BY <3>2 DEF LaunchLoop, WatchGoto
  <2> QED  BY <1>0, <2>1, WatcherFacts DEF Mon, Held, Tended, TypeInv
<1>2. InstInv'
  BY <1>0, <1>1 DEF InstInv
<1>3. HeldInv'
  BY <1>1 DEF HeldInv
<1>4. ~Young' /\ ~Unconnected'
  <2>1. CASE a \in User
    <3>1. op[a] = "Start"
      BY <1>0, <2>1 DEF CallInv
    <3> QED  BY <1>0, <2>1, <3>1, PointFacts DEF Young, Unconnected
  <2>2. CASE a = Restarter
    BY <1>0, <2>2, PointFacts DEF Young, Unconnected, YoungInv
  <2> QED  BY <1>0, <2>1, <2>2
<1>5. YoungInv'
  BY <1>4 DEF YoungInv
<1>6. DrainedInv'
  BY <1>0, <1>1, PointFacts DEF DrainedInv
<1>7. OpenInv'
  BY <1>0, PointFacts DEF OpenInv
<1> QED  BY <1>2, <1>3, <1>5, <1>6, <1>7

\* A watcher's step: the loops and monitors go on, back, or away; a monitor that
\* ends has reaped its child.
LEMMA ApartWatch ==
  ASSUME OneStarter, TypeInv, CallInv, Apart, NEW w \in Watcher, WatchStep(w)
  PROVE  Apart'
<1> USE DEF Apart
<1>1. PICK l : /\ watch' = [watch EXCEPT ![w] = l]
               /\ \/ watch[w] = "leave" /\ l = "gone"
                  \/ /\ l \in {"over", "look", "cas", "enter"}
                     /\ watch[w] \in {"budget", "look", "over", "cas"}
                     /\ l = "enter" => w[1] = "loop"
                  \/ l = "leave" /\ watch[w] \in {"over", "look", "cas"}
  BY WatchMoves
<1>2. /\ UNCHANGED <<op, child, inst, open, conn>>
      /\ state' = state \/ state' = "failed"
      /\ \/ pc' = pc
         \/ watch[w] = "cas" /\ pc[Restarter] = "none" /\ pc' = [pc EXCEPT ![Restarter] = "delay"]
      /\ pc \in [Starter -> PC] /\ watch \in [Watcher -> WatchPC]
      /\ Restarter \in Starter /\ Restarter \notin User /\ User \subseteq Starter
  BY WatchMoves DEF TypeInv, Starter
<1>3. /\ \A u \in User : pc'[u] = pc[u]
      /\ \A b \in Starter : \/ pc'[b] = pc[b]
                            \/ b = Restarter /\ pc[b] = "none" /\ pc'[b] = "delay"
  BY <1>2
<1>4. \A n \in Instance :
        /\ Mon(n)' = IF w = <<"monitor", n>> THEN l ELSE Mon(n)
        /\ w = <<"monitor", n>> => Mon(n) = watch[w] /\ l # "enter"
        /\ watch'[<<"loop", n>>] = IF w = <<"loop", n>> THEN l ELSE watch[<<"loop", n>>]
  <2>1. \A n \in Instance : w = <<"monitor", n>> => w[1] = "monitor"
    OBVIOUS
  <2>2. \A n \in Instance : w = <<"monitor", n>> => l # "enter"
    BY <1>1, <2>1
  <2> QED  BY <1>1, <1>2, <2>2, WatcherFacts DEF Mon
<1>5. \A n \in Instance : /\ Held(n)' => Held(n)
                          /\ Tended(n) => Tended(n)'
  BY <1>1, <1>2, <1>4 DEF Held, Tended
<1>6. InstInv'
  BY ZenonT(60), <1>1, <1>2, <1>3, <1>4, <1>5 DEF InstInv
<1>7. HeldInv'
  BY <1>5 DEF HeldInv
<1>8. YoungInv'
  <2>1. (Young' <=> Young) /\ (Unconnected' <=> Unconnected)
    BY <1>2, <1>3 DEF Young, Unconnected
  <2>2. ASSUME Young
        PROVE  \E n \in Instance : w = <<"monitor", n>> /\ watch[w] = "leave" /\ l = "gone"
    <3>1. CASE \E n \in Instance : w = <<"loop", n>>
      BY <1>1, <2>2, <3>1 DEF YoungInv
    <3>2. CASE \E n \in Instance : w = <<"monitor", n>>
      BY <1>1, <2>2, <3>2 DEF YoungInv, Mon
    <3> QED  BY <3>1, <3>2 DEF Watcher
  <2>3. ASSUME Young
        PROVE  /\ pc'[Restarter] = "none" /\ state' # "running"
               /\ \A n \in Instance : /\ watch'[<<"loop", n>>] = "off"
                                      /\ Mon(n)' \in {"off", "watching", "leave", "gone"}
    BY <1>2, <1>4, <2>2, <2>3, WatcherFacts DEF YoungInv
  <2> QED  BY <1>2, <2>1, <2>3 DEF YoungInv
<1>9. DrainedInv'
  <2>1. ASSUME pc'[Restarter] \in Drained PROVE pc[Restarter] \in Drained
    BY <1>2, <1>3, <2>1, PointFacts
  <2> QED  BY <1>1, <1>4, <2>1 DEF DrainedInv
<1>10. OpenInv'
  BY <1>2, <1>3, PointFacts DEF OpenInv
<1> QED  BY <1>6, <1>7, <1>8, <1>9, <1>10

\* The loop's select.
LEMMA ApartTick ==
  ASSUME TypeInv, CallInv, Apart, NEW n \in Instance, LoopEnters(n) \/ LoopTick(n) \/ LoopExits(n)
  PROVE  Apart'
<1> USE DEF Apart
<1>1. /\ UNCHANGED <<op, child, inst, conn, pc, state>>
      /\ open' \subseteq open
      /\ \E l : watch' = [watch EXCEPT ![<<"loop", n>>] = l]
      /\ watch[<<"loop", n>>] # "off"
      /\ watch \in [Watcher -> WatchPC]
  BY DEF LoopEnters, LoopTick, LoopExits, WatchGoto, WatchFrame, CallsUntouched, lifeVars,
     callVars, TypeInv
<1>2. \A m \in Instance : Mon(m)' = Mon(m)
  BY <1>1, WatcherFacts DEF Mon
<1>3. \A m \in Instance : Held(m)' = Held(m) /\ Tended(m)' = Tended(m)
  BY <1>1, <1>2 DEF Held, Tended
<1>4. InstInv' /\ HeldInv' /\ DrainedInv' /\ OpenInv'
  BY <1>1, <1>2, <1>3 DEF InstInv, HeldInv, DrainedInv, OpenInv
<1>5. ~Young /\ ~Unconnected
  <2>1. ~Young
    BY <1>1 DEF YoungInv
  <2> QED  BY <2>1, PointFacts DEF Young, Unconnected
<1>6. YoungInv'
  BY <1>1, <1>5 DEF YoungInv, Young, Unconnected
<1> QED  BY <1>4, <1>6

\* The monitor's own steps.
LEMMA ApartWakes ==
  ASSUME TypeInv, CallInv, Apart, NEW n \in Instance, MonitorWakes(n) \/ MonitorStores(n)
  PROVE  Apart'
<1> USE DEF Apart
<1>1. /\ UNCHANGED <<op, inst, conn, open, pc>>
      /\ watch \in [Watcher -> WatchPC] /\ child \in [Instance -> Child]
  BY DEF MonitorWakes, MonitorStores, WatchFrame, CallsUntouched, lifeVars, callVars, TypeInv
<1>2. PICK l \in {"leave", "fail", "stop", "budget"} :
        /\ watch' = [watch EXCEPT ![<<"monitor", n>>] = l]
        /\ \/ /\ Mon(n) = "watching" /\ child[n] # "none"
              /\ child' = [child EXCEPT ![n] = "reaped"] /\ state' = state
              /\ state # "running" => l = "leave"
           \/ /\ Mon(n) \in {"fail", "stop"}
              /\ child' = child /\ state' \in {"failed", "stopped"}
  BY DEF MonitorWakes, MonitorStores, WatchGoto, WatchFrame, lifeVars, Mon
<1>3. /\ Mon(n)' = l
      /\ \A m \in Instance : m # n => Mon(m)' = Mon(m)
      /\ \A m \in Instance : watch'[<<"loop", m>>] = watch[<<"loop", m>>]
  BY <1>1, <1>2, WatcherFacts DEF Mon
<1>4. child[n] # "none" /\ child'[n] \notin {"none", "alive", "exit0", "exit1"}
  <2>1. CASE Mon(n) = "watching"
    BY <1>1, <1>2, <2>1
  <2>2. CASE Mon(n) \in {"fail", "stop"}
    <3>1. child[n] # "none"
      BY <2>2 DEF InstInv
    <3>2. ~Tended(n)
      <4>1. \A a \in Starter : inst[a] = n => Mon(n) = "off"
        BY WatcherFacts DEF InstInv
      <4> QED  BY <2>2, <4>1 DEF Tended
    <3> QED  BY <1>1, <1>2, <2>2, <3>1, <3>2 DEF InstInv, Child
  <2> QED  BY <1>2, <2>1, <2>2
<1>5. \A m \in Instance : m # n => child'[m] = child[m] /\ Tended(m)' = Tended(m)
  BY <1>1, <1>2, <1>3 DEF Tended
<1>6. \A m \in Instance : Held(m)' <=> Held(m)
  BY <1>1, <1>2, <1>3 DEF Held
<1>7. InstInv'
  <2>1. \A a \in Starter : inst[a] # n
    <3>1. Mon(n) # "off"
      BY <1>2
    <3> QED  BY <3>1, WatcherFacts DEF InstInv
  <2> QED  BY <1>1, <1>2, <1>3, <1>4, <1>5, <2>1 DEF InstInv
<1>8. HeldInv' /\ OpenInv'
  BY <1>1, <1>6 DEF HeldInv, OpenInv
<1>9. DrainedInv'
  BY <1>1, <1>2, <1>3 DEF DrainedInv
<1>10. YoungInv'
  <2>1. (Young' <=> Young) /\ (Unconnected' <=> Unconnected)
    BY <1>1 DEF Young, Unconnected
  <2>2. ~Unconnected
    BY <1>4 DEF YoungInv
  <2>3. ASSUME Young
        PROVE  /\ pc'[Restarter] = "none" /\ state' # "running"
               /\ \A m \in Instance : /\ watch'[<<"loop", m>>] = "off"
                                      /\ Mon(m)' \in {"off", "watching", "leave", "gone"}
    BY <1>1, <1>2, <1>3, <2>3 DEF YoungInv
  <2> QED  BY <2>1, <2>2, <2>3 DEF YoungInv
<1> QED  BY <1>7, <1>8, <1>9, <1>10

\* A child that ends is still tended.
LEMMA ApartChild ==
  ASSUME TypeInv, CallInv, Apart, NEW n \in Instance, ChildExits(n) \/ ChildKilled(n)
  PROVE  Apart'
<1> USE DEF Apart
<1>1. /\ UNCHANGED <<op, inst, conn, open, pc, watch, state>>
      /\ child[n] = "alive"
      /\ \E e \in {"exit0", "exit1"} : child' = [child EXCEPT ![n] = e]
      /\ child \in [Instance -> Child]
  BY DEF ChildExits, ChildKilled, spVars, wgVars, callVars, TypeInv
<1>2. \A m \in Instance : Mon(m)' = Mon(m) /\ Held(m)' = Held(m) /\ Tended(m)' = Tended(m)
  BY <1>1 DEF Mon, Held, Tended
<1>3. \A m \in Instance :
        /\ child'[m] = "none" <=> child[m] = "none"
        /\ child'[m] \in {"alive", "exit0", "exit1"} <=> child[m] \in {"alive", "exit0", "exit1"}
  BY <1>1
<1>4. InstInv' /\ HeldInv' /\ DrainedInv' /\ OpenInv'
  BY <1>1, <1>2, <1>3 DEF InstInv, HeldInv, DrainedInv, OpenInv
<1>5. YoungInv'
  BY <1>1, <1>2, <1>3 DEF YoungInv, Young, Unconnected
<1> QED  BY <1>4, <1>5

-----------------------------------------------------------------------------
(* The counter of sp.wg. *)

\* Every ticket of sp.wg belongs to a loop or a monitor that has not ended.
LEMMA WgStep == TypeInv /\ CallInv /\ InstInv /\ WgInv /\ [Next]_vars => WgInv'
<1> SUFFICES ASSUME TypeInv, CallInv, InstInv, WgInv, [Next]_vars PROVE WgInv'
  OBVIOUS
<1>0. watch \in [Watcher -> WatchPC] /\ Restarter \in Starter /\ User \subseteq Starter
  BY DEF TypeInv, Starter
<1>1. ASSUME watch' = watch, wg' = wg PROVE WgInv'
  BY <1>1 DEF WgInv, Working
<1>2. ASSUME NEW w \in Watcher, NEW l, watch' = [watch EXCEPT ![w] = l], wg' = wg,
             watch[w] \notin {"off", "gone"}, l \notin {"off", "gone"}
      PROVE  WgInv'
  <2>1. Working' = Working
    BY <1>0, <1>2 DEF Working
  <2> QED  BY <1>2, <2>1 DEF WgInv
<1>3. ASSUME NEW w \in Watcher, NEW l \in {"enter", "watching"}, watch[w] = "off",
             watch' = [watch EXCEPT ![w] = l], wg' = wg + 1
      PROVE  WgInv'
  <2>1. Working' = Working \cup {w} /\ w \notin Working
    BY <1>0, <1>3 DEF Working
  <2>2. Cardinality(Working') = Cardinality(Working) + 1
    BY <2>1, WorkingFacts, FS_AddElement
  <2> QED  BY <1>3, <2>2 DEF WgInv
<1>4. ASSUME NEW w \in Watcher, watch[w] = "leave", watch' = [watch EXCEPT ![w] = "gone"],
             wg' = wg - 1
      PROVE  WgInv'
  <2>1. Working' = Working \ {w} /\ w \in Working
    BY <1>0, <1>4 DEF Working
  <2>2. Cardinality(Working') = Cardinality(Working) - 1
    BY <2>1, WorkingFacts, FS_RemoveElement
  <2> QED  BY <1>4, <2>2 DEF WgInv
<1>5. ASSUME NEW a \in Starter, Connects(a) PROVE WgInv'
  <2>1. CASE Spawn(a) \/ Connect(a)
    BY <1>1, <2>1 DEF Spawn, Connect, wgVars
  <2>2. CASE LaunchMonitor(a)
    <3>1. inst[a] \in Instance /\ Mon(inst[a]) = "off"
      BY <2>2 DEF LaunchMonitor, InstInv
    <3> QED  BY <1>3, <2>2, <3>1, WatcherFacts DEF LaunchMonitor, WatchGoto, Mon
  <2>3. CASE LaunchLoop(a)
    <3>1. Unlooped \in SUBSET Instance /\ Unlooped # {}
      BY <2>3 DEF LaunchLoop, Unlooped
    <3>2. First(Unlooped) \in Unlooped
      BY <3>1, FirstFacts, Zenon
    <3>3. First(Unlooped) \in Instance /\ watch[<<"loop", First(Unlooped)>>] = "off"
      BY <3>2, Zenon DEF Unlooped
    <3> QED  BY <1>3, <2>3, <3>3, WatcherFacts DEF LaunchLoop, WatchGoto
  <2> QED  BY <1>5, <2>1, <2>2, <2>3 DEF Connects
<1>6. ASSUME NEW u \in User, BeginCall(u) \/ UserStep(u) \/ StopWaits(u) PROVE WgInv'
  BY <1>0, <1>1, <1>5, <1>6, UserMoves DEF Moves
<1>7. CASE RestartStep
  BY <1>0, <1>1, <1>5, <1>7, RestartMoves DEF Moves
<1>8. ASSUME NEW w \in Watcher, WatchStep(w) PROVE WgInv'
  <2>1. CASE WatcherLeaves(w)
    BY <1>4, <2>1 DEF WatcherLeaves, WatchGoto
  <2>2. CASE TriggerStep(w)
    <3>1. wg' = wg /\ watch[w] \in {"budget", "over", "look", "cas"}
      BY <2>2 DEF TriggerStep, TriggerBudget, TriggerOver, TriggerLook, TriggerCas
    <3>2. \E l \in {"over", "look", "cas", "enter", "leave"} : watch' = [watch EXCEPT ![w] = l]
      BY <2>2 DEF TriggerStep, TriggerBudget, TriggerOver, TriggerLook, TriggerCas, WatchGoto,
         AfterTrigger
    <3> QED  BY <1>2, <3>1, <3>2
  <2> QED  BY <1>8, <2>1, <2>2 DEF WatchStep
<1>9. ASSUME NEW n \in Instance,
             LoopStep(n) \/ LoopTick(n) \/ LoopExits(n) \/ MonitorStep(n) \/ ChildExits(n)
               \/ ChildKilled(n)
      PROVE  WgInv'
  <2>1. CASE WatchStep(<<"loop", n>>) \/ WatchStep(<<"monitor", n>>)
    BY <1>8, <2>1, WatcherFacts
  <2>2. CASE LoopEnters(n) \/ LoopTick(n) \/ LoopExits(n)
    <3>1. /\ wg' = wg /\ watch[<<"loop", n>>] \in {"enter", "watching"}
          /\ \E l \in {"enter", "watching", "budget", "leave"} :
                watch' = [watch EXCEPT ![<<"loop", n>>] = l]
      BY <2>2 DEF LoopEnters, LoopTick, LoopExits, WatchGoto
    <3> QED  BY <1>2, <3>1, WatcherFacts
  <2>3. CASE MonitorWakes(n) \/ MonitorStores(n)
    <3>1. /\ wg' = wg /\ watch[<<"monitor", n>>] \in {"watching", "fail", "stop"}
          /\ \E l \in {"leave", "fail", "stop", "budget"} :
                watch' = [watch EXCEPT ![<<"monitor", n>>] = l]
      BY <2>3 DEF MonitorWakes, MonitorStores, WatchGoto
    <3> QED  BY <1>2, <3>1, WatcherFacts
  <2>4. CASE ChildExits(n) \/ ChildKilled(n)
    BY <1>1, <2>4 DEF ChildExits, ChildKilled, wgVars
  <2> QED  BY <1>9, <2>1, <2>2, <2>3, <2>4 DEF LoopStep, MonitorStep
<1>10. CASE UNCHANGED vars \/ Terminated
  BY <1>1, <1>10 DEF Terminated, vars, wgVars
<1> QED  BY <1>6, <1>7, <1>9, <1>10 DEF Next

-----------------------------------------------------------------------------
(* The invariant. *)

\* At first there is no instance.
LEMMA ApartInit == Init => Apart /\ WgInv
<1> SUFFICES ASSUME Init PROVE Apart /\ WgInv
  OBVIOUS
<1>1. InstInv /\ YoungInv /\ OpenInv /\ HeldInv
  BY WatcherFacts DEF Init, InstInv, YoungInv, OpenInv, HeldInv, Held, Mon, Starter, Closed
<1>2. DrainedInv
  BY DEF Init, DrainedInv, Starter, Drained
<1>3. Working = {}
  BY DEF Init, Working
<1> QED  BY <1>1, <1>2, <1>3, FS_EmptySet DEF Apart, Init, WgInv

\* Every step keeps them apart.
LEMMA ApartStep ==
  ASSUME OneStarter, IInv, [Next]_vars
  PROVE  Apart'
<1> USE DEF IInv
<1>0. Apart /\ CallInv' /\ Restarter \in Starter /\ User \subseteq Starter
  BY CallStep DEF Apart, Starter
<1>1. ASSUME NEW a \in Starter, Connects(a) PROVE Apart'
  BY <1>0, <1>1, ApartSpawn, ApartConnect, ApartMonitor, ApartLoop DEF Connects
<1>2. ASSUME NEW u \in User, BeginCall(u) \/ UserStep(u) \/ StopWaits(u) PROVE Apart'
  BY <1>0, <1>1, <1>2, UserMoves, ApartMoves
<1>3. CASE RestartStep
  BY <1>0, <1>1, <1>3, RestartMoves, ApartMoves
<1>4. ASSUME NEW n \in Instance,
             LoopStep(n) \/ LoopTick(n) \/ LoopExits(n) \/ MonitorStep(n) \/ ChildExits(n)
               \/ ChildKilled(n)
      PROVE  Apart'
  <2>1. CASE WatchStep(<<"loop", n>>) \/ WatchStep(<<"monitor", n>>)
    BY <1>0, <2>1, ApartWatch, WatcherFacts
  <2>2. CASE LoopEnters(n) \/ LoopTick(n) \/ LoopExits(n)
    BY <1>0, <2>2, ApartTick
  <2>3. CASE MonitorWakes(n) \/ MonitorStores(n)
    BY <1>0, <2>3, ApartWakes
  <2>4. CASE ChildExits(n) \/ ChildKilled(n)
    BY <1>0, <2>4, ApartChild
  <2> QED  BY <1>4, <2>1, <2>2, <2>3, <2>4 DEF LoopStep, MonitorStep
<1>5. CASE UNCHANGED vars \/ Terminated
  <2>1. UNCHANGED <<state, watch, inst, child, open, conn, pc, op>>
    BY <1>5 DEF Terminated, vars, spVars, lifeVars, wgVars, callVars
  <2> QED
    BY <1>0, <2>1 DEF Apart, InstInv, YoungInv, DrainedInv, HeldInv, OpenInv, Mon, Held, Tended,
       Young, Unconnected
<1> QED  BY <1>2, <1>3, <1>4, <1>5 DEF Next

\* IInv holds in every reachable state, as long as one user at most may start the
\* subprocess.
THEOREM Inductive == OneStarter => (Spec => []IInv)
<1> SUFFICES ASSUME OneStarter PROVE Spec => []IInv
  OBVIOUS
<1>1. Init => IInv
  BY TypeInit, CallInit, ApartInit DEF IInv, Apart
<1>2. IInv /\ [Next]_vars => IInv'
  <2> SUFFICES ASSUME IInv, [Next]_vars PROVE IInv'
    OBVIOUS
  <2>1. TypeInv' /\ CallInv' /\ WgInv'
    BY TypeStep, CallStep, WgStep DEF IInv
  <2>2. Apart'
    BY ApartStep
  <2> QED  BY <2>1, <2>2 DEF IInv, Apart
<1> QED  BY <1>1, <1>2, PTL DEF Spec

\* TypeOK: every variable keeps its type, the counter of sp.wg its sign.
THEOREM Typed == OneStarter => (Spec => []TypeOK)
<1> SUFFICES ASSUME OneStarter PROVE Spec => []TypeOK
  OBVIOUS
<1>1. IInv => TypeOK
  BY WorkingFacts DEF IInv, TypeInv, TypeOK, WgInv
<1> QED  BY <1>1, Inductive, PTL

\* OneInstance: at most one child of the subprocess lives, whatever restarts, stops,
\* unregisters and crashes meet, and however many of them.
THEOREM OneLives == OneStarter => (Spec => []OneInstance)
<1> SUFFICES ASSUME OneStarter PROVE Spec => []OneInstance
  OBVIOUS
<1>1. ASSUME IInv PROVE OneInstance
  <2> DEFINE Alive == {n \in Instance : child[n] = "alive"}
  <2>1. \A n, m \in Alive : n = m
    <3>1. \A n \in Alive : Held(n)
      BY <1>1 DEF IInv, InstInv, Tended, Held
    <3> QED  BY <1>1, <3>1 DEF IInv, HeldInv
  <2>2. CASE Alive = {}
    BY <2>2, FS_EmptySet DEF OneInstance
  <2>3. CASE Alive # {}
    <3>1. PICK n : Alive = {n}
      BY <2>1, <2>3
    <3>2. Cardinality(Alive) = 1
      BY <3>1, FS_Singleton
    <3> QED  BY <3>2 DEF OneInstance
  <2> QED  BY <2>2, <2>3
<1> QED  BY <1>1, Inductive, PTL

\* NoLeakedConn: sp.conn names every connection that is open, so that a stop, an
\* unregister or the next restart closes it.
THEOREM NothingLeaks == OneStarter => (Spec => []NoLeakedConn)
<1> SUFFICES ASSUME OneStarter PROVE Spec => []NoLeakedConn
  OBVIOUS
<1>1. IInv => NoLeakedConn
  BY DEF IInv, OpenInv, NoLeakedConn
<1> QED  BY <1>1, Inductive, PTL

=============================================================================
