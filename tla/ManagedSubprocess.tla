-------------------------- MODULE ManagedSubprocess --------------------------
(***************************************************************************)
(* One external subprocess of the hub's router (package hub, router.go):     *)
(* Start, Stop and Unregister by users, the health loop, the goroutine that  *)
(* monitors the child, and the automatic restart that these two trigger.     *)
(*                                                                         *)
(* The transport is stdio: a connection and its child come and go together.  *)
(* Unix and TCP sockets are the case in which nothing monitors the peer.     *)
(* One action is one atomic load, store or CAS, one critical section of      *)
(* connMu, or one ready case of a select.  Every install of a lifecycle      *)
(* context is a new life; connections (with their children and monitors) and *)
(* health loops are numbered in the order in which they come.                *)
(*                                                                         *)
(* How many failed PINGs make the threshold, delays, statistics and routing  *)
(* are left out.  AutoRestart is set, HealthCheck is enabled.                *)
(***************************************************************************)
EXTENDS Integers, FiniteSets

CONSTANTS
    User,         \* goroutines, each performing one call
    Ops,          \* the kinds of call each user may make
    MaxRestarts,  \* sp.MaxRestarts, not 0 (which would be no limit)
    Restarter,    \* the goroutine that runs doRestart
    MaxLives      \* bound: how many lives, connections and health loops there may be

ASSUME SubprocessAssumption ==
    /\ IsFiniteSet(User)
    /\ Restarter \notin User
    /\ Ops \in [User -> SUBSET {"Start", "Stop", "Unregister"}]
    /\ MaxRestarts \in Nat \ {0}
    /\ MaxLives \in Nat

\* Register installs life 0; every start installs at most one more, makes at most
\* one connection and launches at most one loop.
Life == 0 .. MaxLives
Instance == 1 .. MaxLives

Starter == User \cup {Restarter}

\* The goroutines that sp.wg counts.
Watcher == {"loop", "monitor"} \X Instance

VARIABLES
    state,       \* sp.state
    stopped,     \* sp.stopped
    life,        \* the life whose context sp.life holds
    cancelled,   \* the lives whose context is cancelled
    conn,        \* sp.conn, or NoConn
    open,        \* the connections that nobody has closed
    child,       \* the OS process behind each connection
    under,       \* the life whose context its command runs under
    inst,        \* the instance that a start is connecting, or NoConn
    watch,       \* where the loops and monitors are
    wg,          \* the counter of sp.wg
    restarts,    \* sp.restartCount
    seen,        \* the life whose context doRestart waits on, or 0
    held,        \* the life whose context each health loop waits on, or 0
    registered,  \* the router still holds it
    pc,          \* where each user and doRestart is
    op,          \* the call a user makes
    ret,         \* what it returned
    waiter,      \* the goroutine of each stop that stamps Stopped
    settled      \* history: stops and unregisters that no start overlaps or follows

spVars == <<state, stopped, restarts, registered>>
lifeVars == <<life, cancelled, conn, open, child, under, inst>>
wgVars == <<watch, wg, held>>
callVars == <<op, ret, waiter, settled>>
vars == <<spVars, lifeVars, wgVars, seen, pc, callVars>>

NoConn == 0

State == {"pending", "starting", "running", "stopping", "stopped", "failed"}
Child == {"none", "alive", "exit0", "exit1", "reaped"}
WatchPC == {"off", "enter", "watching", "fail", "stop", "budget", "over", "look",
            "cas", "leave", "gone"}
CorePC == {"claim", "check", "install", "recheck", "connect", "conn", "monitor",
           "nocon", "verify", "publish", "loop", "abclose", "abcancel", "abort"}
PC == {"idle", "clear", "read", "mark", "stopping", "cancel", "close", "wait",
       "umark", "ucancel", "uwait", "uclose", "returned",
       "none", "delay", "select", "awake", "tear", "drain", "rclose", "count", "reset", "rearm", "redo",
       "failed", "exit"} \cup CorePC

Init ==
    /\ state = "pending"
    /\ stopped = FALSE
    /\ life = 0
    /\ cancelled = {}
    /\ conn = NoConn
    /\ open = {}
    /\ child = [n \in Instance |-> "none"]
    /\ under = [n \in Instance |-> 0]
    /\ inst = [a \in Starter |-> NoConn]
    /\ watch = [w \in Watcher |-> "off"]
    /\ wg = 0
    /\ restarts = 0
    /\ seen = 0
    /\ held = [n \in Instance |-> 0]
    /\ registered = TRUE
    /\ pc = [a \in Starter |-> IF a = Restarter THEN "none" ELSE "idle"]
    /\ op = [u \in User |-> "none"]
    /\ ret = [u \in User |-> "none"]
    /\ waiter = [u \in User |-> "off"]
    /\ settled = {}

-----------------------------------------------------------------------------
(* Helpers. *)

Goto(a, l) == pc' = [pc EXCEPT ![a] = l] /\ UNCHANGED ret

Return(u, r) ==
    /\ pc' = [pc EXCEPT ![u] = "returned"]
    /\ ret' = [ret EXCEPT ![u] = r]

\* The first of the instances that no start has used yet.
First(S) == CHOOSE n \in S : \A m \in S : n <= m
Unspawned == {n \in Instance : child[n] = "none"}
Unlooped == {n \in Instance : watch[<<"loop", n>>] = "off"}

WatchGoto(w, l) == watch' = [watch EXCEPT ![w] = l]

\* The end of startCore: back to the user, or to doRestart.
CoreReturns(a, r) ==
    IF a \in User THEN Return(a, r)
    ELSE Goto(a, IF r = "ok" THEN "exit" ELSE "redo")

CancelLifecycle == cancelled' = cancelled \cup {life}

CloseConn == open' = open \ {conn} /\ conn' = NoConn

Starting(u) == op[u] = "Start" /\ pc[u] # "returned"

-----------------------------------------------------------------------------
(* Entry of the calls. *)

Begin(u, kind, l) ==
    /\ pc[u] = "idle"
    /\ kind \in Ops[u]
    /\ registered
    /\ op' = [op EXCEPT ![u] = kind]
    /\ settled' = IF kind = "Start" THEN {}
                  ELSE IF \E v \in User : Starting(v) THEN settled
                  ELSE settled \cup {u}
    /\ Goto(u, l)
    /\ UNCHANGED <<spVars, lifeVars, wgVars, seen, waiter>>

BeginStart(u) == Begin(u, "Start", "clear")
BeginStop(u) == Begin(u, "Stop", "read")
BeginUnregister(u) == Begin(u, "Unregister", "umark")

\* start: the user re-arms the automatic restart.
ClearStopped(u) ==
    /\ pc[u] = "clear"
    /\ stopped' = FALSE
    /\ Goto(u, "claim")
    /\ UNCHANGED <<state, restarts, registered, lifeVars, wgVars, seen, op,
                   waiter, settled>>

-----------------------------------------------------------------------------
(* startCore, run by a user or by doRestart. *)

CoreFrame == UNCHANGED <<stopped, restarts, registered, seen, op, waiter, settled>>

\* The CAS into Starting.
Claim(a) ==
    /\ pc[a] = "claim"
    /\ IF state \in {"running", "starting", "stopping"}
       THEN CoreReturns(a, "err") /\ UNCHANGED state
       ELSE state' = "starting" /\ Goto(a, "check")
    /\ UNCHANGED <<lifeVars, wgVars>>
    /\ CoreFrame

CheckStopped(a) ==
    /\ pc[a] = "check"
    /\ Goto(a, IF stopped THEN "abort" ELSE "install")
    /\ UNCHANGED <<state, lifeVars, wgVars>>
    /\ CoreFrame

NewLifecycle(a) ==
    /\ pc[a] = "install"
    /\ life < MaxLives
    /\ life' = life + 1
    /\ Goto(a, "recheck")
    /\ UNCHANGED <<state, cancelled, conn, open, child, under, inst, wgVars>>
    /\ CoreFrame

RecheckStopped(a) ==
    /\ pc[a] = "recheck"
    /\ Goto(a, IF stopped THEN "abcancel" ELSE "connect")
    /\ UNCHANGED <<state, lifeVars, wgVars>>
    /\ CoreFrame

\* startStdio: the child starts under the current context, ...
Spawn(a) ==
    LET n == First(Unspawned) IN
    /\ pc[a] = "connect"
    /\ life \notin cancelled
    /\ Unspawned # {}
    /\ child' = [child EXCEPT ![n] = "alive"]
    /\ under' = [under EXCEPT ![n] = life]
    /\ inst' = [inst EXCEPT ![a] = n]
    /\ Goto(a, "conn")
    /\ UNCHANGED <<state, life, cancelled, conn, open, wgVars>>
    /\ CoreFrame

\* ... its connection is published under connMu, ...
Connect(a) ==
    /\ pc[a] = "conn"
    /\ conn' = inst[a]
    /\ open' = open \cup {inst[a]}
    /\ Goto(a, "monitor")
    /\ UNCHANGED <<state, life, cancelled, child, under, inst, wgVars>>
    /\ CoreFrame

\* ... and its monitor gets a ticket of sp.wg.
LaunchMonitor(a) ==
    /\ pc[a] = "monitor"
    /\ WatchGoto(<<"monitor", inst[a]>>, "watching")
    /\ wg' = wg + 1
    /\ inst' = [inst EXCEPT ![a] = NoConn]
    /\ Goto(a, "verify")
    /\ UNCHANGED <<state, life, cancelled, conn, open, child, under, held>>
    /\ CoreFrame

SpawnFails(a) ==
    /\ pc[a] = "connect"
    /\ Goto(a, "nocon")
    /\ UNCHANGED <<state, lifeVars, wgVars>>
    /\ CoreFrame

ConnectFailed(a) ==
    /\ pc[a] = "nocon"
    /\ state' = "failed"
    /\ CoreReturns(a, "err")
    /\ UNCHANGED <<lifeVars, wgVars>>
    /\ CoreFrame

\* The last check before the subprocess is published.
Verify(a) ==
    /\ pc[a] = "verify"
    /\ Goto(a, IF stopped \/ life \in cancelled THEN "abclose" ELSE "publish")
    /\ UNCHANGED <<state, lifeVars, wgVars>>
    /\ CoreFrame

AbortClose(a) ==
    /\ pc[a] = "abclose"
    /\ CloseConn
    /\ Goto(a, "abcancel")
    /\ UNCHANGED <<state, life, cancelled, child, under, inst, wgVars>>
    /\ CoreFrame

AbortCancel(a) ==
    /\ pc[a] = "abcancel"
    /\ CancelLifecycle
    /\ Goto(a, "abort")
    /\ UNCHANGED <<state, life, conn, open, child, under, inst, wgVars>>
    /\ CoreFrame

Abort(a) ==
    /\ pc[a] = "abort"
    /\ state' = "stopped"
    /\ CoreReturns(a, "err")
    /\ UNCHANGED <<lifeVars, wgVars>>
    /\ CoreFrame

Publish(a) ==
    /\ pc[a] = "publish"
    /\ state' = "running"
    /\ Goto(a, "loop")
    /\ UNCHANGED <<lifeVars, wgVars>>
    /\ CoreFrame

LaunchLoop(a) ==
    /\ pc[a] = "loop"
    /\ Unlooped # {}
    /\ WatchGoto(<<"loop", First(Unlooped)>>, "enter")
    /\ wg' = wg + 1
    /\ CoreReturns(a, "ok")
    /\ UNCHANGED <<state, lifeVars, held>>
    /\ CoreFrame

-----------------------------------------------------------------------------
(* stop and Unregister. *)

CallFrame == UNCHANGED <<restarts, seen, op, settled, wgVars, life, child, under, inst>>

\* A subprocess that is neither Running nor Starting has nothing to stop.
StopRead(u) ==
    /\ pc[u] = "read"
    /\ IF state \in {"running", "starting"} THEN Goto(u, "mark")
                                            ELSE Return(u, "ok")
    /\ UNCHANGED <<state, stopped, registered, cancelled, conn, open, waiter>>
    /\ CallFrame

\* Mutant: the stop is not marked, so a restart in flight does not see it.
StopUnmarked(u) ==
    /\ pc[u] = "mark"
    /\ Goto(u, "stopping")
    /\ UNCHANGED <<state, stopped, registered, cancelled, conn, open, waiter>>
    /\ CallFrame

StopMark(u) ==
    /\ pc[u] = "mark"
    /\ stopped' = TRUE
    /\ Goto(u, "stopping")
    /\ UNCHANGED <<state, registered, cancelled, conn, open, waiter>>
    /\ CallFrame

StopStore(u) ==
    /\ pc[u] = "stopping"
    /\ state' = "stopping"
    /\ Goto(u, "cancel")
    /\ UNCHANGED <<stopped, registered, cancelled, conn, open, waiter>>
    /\ CallFrame

StopCancel(u) ==
    /\ pc[u] = "cancel"
    /\ CancelLifecycle
    /\ Goto(u, "close")
    /\ UNCHANGED <<state, stopped, registered, conn, open, waiter>>
    /\ CallFrame

StopClose(u) ==
    /\ pc[u] = "close"
    /\ CloseConn
    /\ waiter' = [waiter EXCEPT ![u] = "wait"]
    /\ Goto(u, "wait")
    /\ UNCHANGED <<state, stopped, registered, cancelled>>
    /\ CallFrame

\* The goroutine that waits for sp.wg, whoever waits for it ...
StopDrained(u) ==
    /\ waiter[u] = "wait"
    /\ wg = 0
    /\ waiter' = [waiter EXCEPT ![u] = "stamp"]
    /\ UNCHANGED <<state, stopped, registered, cancelled, conn, open, pc, ret>>
    /\ CallFrame

\* Mutant: nothing is stamped.
StopUnstamped(u) ==
    /\ waiter[u] = "stamp"
    /\ waiter' = [waiter EXCEPT ![u] = "done"]
    /\ UNCHANGED <<state, stopped, registered, cancelled, conn, open, pc, ret>>
    /\ CallFrame

\* ... and stamps Stopped.
StopStamp(u) ==
    /\ waiter[u] = "stamp"
    /\ state' = "stopped"
    /\ waiter' = [waiter EXCEPT ![u] = "done"]
    /\ UNCHANGED <<stopped, registered, cancelled, conn, open, pc, ret>>
    /\ CallFrame

\* It is done; the caller's context may be done first.
StopReturns(u) ==
    /\ pc[u] = "wait"
    /\ \/ waiter[u] = "done" /\ Return(u, "ok")
       \/ Return(u, "err")
    /\ UNCHANGED <<state, stopped, registered, cancelled, conn, open, waiter>>
    /\ CallFrame

\* Mutant: Unregister only cancels.
UnregisterUnmarked(u) ==
    /\ pc[u] = "umark"
    /\ Goto(u, "ucancel")
    /\ UNCHANGED <<state, stopped, registered, cancelled, conn, open, waiter>>
    /\ CallFrame

UnregisterMark(u) ==
    /\ pc[u] = "umark"
    /\ stopped' = TRUE
    /\ Goto(u, "ucancel")
    /\ UNCHANGED <<state, registered, cancelled, conn, open, waiter>>
    /\ CallFrame

UnregisterCancel(u) ==
    /\ pc[u] = "ucancel"
    /\ CancelLifecycle
    /\ Goto(u, "uwait")
    /\ UNCHANGED <<state, stopped, registered, conn, open, waiter>>
    /\ CallFrame

\* sp.wg is zero, or five seconds have passed.
UnregisterWaited(u) ==
    /\ pc[u] = "uwait"
    /\ Goto(u, "uclose")
    /\ UNCHANGED <<state, stopped, registered, cancelled, conn, open, waiter>>
    /\ CallFrame

UnregisterEnds(u) ==
    /\ pc[u] = "uclose"
    /\ CloseConn
    /\ registered' = FALSE
    /\ Return(u, "ok")
    /\ UNCHANGED <<state, stopped, cancelled, waiter>>
    /\ CallFrame

-----------------------------------------------------------------------------
(* The health loop and the monitor of the child. *)

CallsUntouched == UNCHANGED <<stopped, restarts, registered, seen, callVars>>

WatchFrame == CallsUntouched /\ UNCHANGED lifeVars

\* The loop enters its select with the context of the moment.
LoopEnters(n) ==
    /\ watch[<<"loop", n>>] = "enter"
    /\ held' = [held EXCEPT ![n] = life]
    /\ WatchGoto(<<"loop", n>>, "watching")
    /\ UNCHANGED <<state, wg, pc>>
    /\ WatchFrame

\* A tick.  On a Running subprocess the PING may fail, which closes the connection
\* if it is the answer that cannot be read, and the failures may have reached the
\* threshold.
LoopTick(n) ==
    LET w == <<"loop", n>> IN
    /\ watch[w] = "watching"
    /\ \/ UNCHANGED open /\ WatchGoto(w, "enter")
       \/ /\ state = "running"
          /\ open' \in {open, open \ {conn}}
          /\ \E l \in {"enter", "budget"} : WatchGoto(w, l)
    /\ held' = [held EXCEPT ![n] = 0]
    /\ UNCHANGED <<state, life, cancelled, conn, child, under, inst, wg, pc>>
    /\ CallsUntouched

LoopExits(n) ==
    /\ watch[<<"loop", n>>] = "watching"
    /\ held[n] \in cancelled
    /\ WatchGoto(<<"loop", n>>, "leave")
    /\ held' = [held EXCEPT ![n] = 0]
    /\ UNCHANGED <<state, wg, pc>>
    /\ WatchFrame

\* cmd.Wait has returned; the monitor acts on what it reads as the state.
MonitorWakes(n) ==
    /\ watch[<<"monitor", n>>] = "watching"
    /\ child[n] \in {"exit0", "exit1"}
    /\ WatchGoto(<<"monitor", n>>,
                 IF state # "running" THEN "leave"
                 ELSE IF child[n] = "exit1" THEN "fail" ELSE "stop")
    /\ child' = [child EXCEPT ![n] = "reaped"]
    /\ UNCHANGED <<state, life, cancelled, conn, open, under, inst, wg, held, pc>>
    /\ CallsUntouched

MonitorStores(n) ==
    LET w == <<"monitor", n>> IN
    /\ \/ /\ watch[w] = "fail"
          /\ state' = "failed"
          /\ WatchGoto(w, "budget")
       \/ /\ watch[w] = "stop"
          /\ state' = "stopped"
          /\ WatchGoto(w, "leave")
    /\ UNCHANGED <<wg, held, pc>>
    /\ WatchFrame

\* The loop goes on, the monitor has done its work.
AfterTrigger(w) == IF w[1] = "loop" THEN "enter" ELSE "leave"

\* triggerAutoRestart: the limit, the state, and the single-flight CAS.
TriggerBudget(w) ==
    /\ watch[w] = "budget"
    /\ WatchGoto(w, IF restarts >= MaxRestarts THEN "over" ELSE "look")
    /\ UNCHANGED <<state, wg, held, pc>>
    /\ WatchFrame

TriggerOver(w) ==
    /\ watch[w] = "over"
    /\ state' = "failed"
    /\ WatchGoto(w, AfterTrigger(w))
    /\ UNCHANGED <<wg, held, pc>>
    /\ WatchFrame

TriggerLook(w) ==
    /\ watch[w] = "look"
    /\ WatchGoto(w, IF state \in {"running", "failed"} THEN "cas" ELSE AfterTrigger(w))
    /\ UNCHANGED <<state, wg, held, pc>>
    /\ WatchFrame

\* sp.restarting is set as long as doRestart runs.
TriggerCas(w) ==
    /\ watch[w] = "cas"
    /\ pc' = IF pc[Restarter] = "none" THEN [pc EXCEPT ![Restarter] = "delay"]
             ELSE pc
    /\ WatchGoto(w, AfterTrigger(w))
    /\ UNCHANGED <<state, wg, held>>
    /\ WatchFrame

\* Mutant: the ticket is given back twice.
WatcherLeavesTwice(w) ==
    /\ watch[w] = "leave"
    /\ WatchGoto(w, "gone")
    /\ wg' = wg - 2
    /\ UNCHANGED <<state, held, pc>>
    /\ WatchFrame

WatcherLeaves(w) ==
    /\ watch[w] = "leave"
    /\ WatchGoto(w, "gone")
    /\ wg' = wg - 1
    /\ UNCHANGED <<state, held, pc>>
    /\ WatchFrame

\* The child exits by itself, or is killed with its context or its connection.
ChildExits(n) ==
    /\ child[n] = "alive"
    /\ \E e \in {"exit0", "exit1"} : child' = [child EXCEPT ![n] = e]
    /\ UNCHANGED <<spVars, life, cancelled, conn, open, under, inst, wgVars, seen,
                   pc, callVars>>

ChildKilled(n) ==
    /\ child[n] = "alive"
    /\ under[n] \in cancelled \/ n \notin open
    /\ child' = [child EXCEPT ![n] = "exit1"]
    /\ UNCHANGED <<spVars, life, cancelled, conn, open, under, inst, wgVars, seen,
                   pc, callVars>>

-----------------------------------------------------------------------------
(* doRestart. *)

RestartFrame == UNCHANGED <<registered, child, under, inst, wgVars, callVars>>

\* The select is entered with the context of the moment ...
RestartDelay ==
    /\ pc[Restarter] = "delay"
    /\ seen' = life
    /\ Goto(Restarter, "select")
    /\ UNCHANGED <<state, stopped, restarts, life, cancelled, conn, open>>
    /\ RestartFrame

\* ... and left when that is cancelled, or when the delay is over.
RestartSelect ==
    /\ pc[Restarter] = "select"
    /\ \/ seen \in cancelled /\ Goto(Restarter, "exit")
       \/ Goto(Restarter, "awake")
    /\ seen' = 0
    /\ UNCHANGED <<state, stopped, restarts, life, cancelled, conn, open>>
    /\ RestartFrame

RestartAwake ==
    /\ pc[Restarter] = "awake"
    /\ Goto(Restarter, IF stopped THEN "exit" ELSE "tear")
    /\ UNCHANGED <<state, stopped, restarts, seen, life, cancelled, conn, open>>
    /\ RestartFrame

RestartCancel ==
    /\ pc[Restarter] = "tear"
    /\ CancelLifecycle
    /\ Goto(Restarter, "drain")
    /\ UNCHANGED <<state, stopped, restarts, seen, life, conn, open>>
    /\ RestartFrame

\* Mutant: the goroutines of the old instance are not waited for.
RestartUndrained ==
    /\ pc[Restarter] = "drain"
    /\ Goto(Restarter, "rclose")
    /\ UNCHANGED <<state, stopped, restarts, seen, life, cancelled, conn, open>>
    /\ RestartFrame

\* sp.wg.Wait has returned.
RestartDrained ==
    /\ pc[Restarter] = "drain"
    /\ wg = 0
    /\ Goto(Restarter, "rclose")
    /\ UNCHANGED <<state, stopped, restarts, seen, life, cancelled, conn, open>>
    /\ RestartFrame

\* Mutant: the old connection is dropped, not closed.
RestartUnclosed ==
    /\ pc[Restarter] = "rclose"
    /\ conn' = NoConn
    /\ Goto(Restarter, "count")
    /\ UNCHANGED <<state, stopped, restarts, seen, life, cancelled, open>>
    /\ RestartFrame

RestartClose ==
    /\ pc[Restarter] = "rclose"
    /\ CloseConn
    /\ Goto(Restarter, "count")
    /\ UNCHANGED <<state, stopped, restarts, seen, life, cancelled>>
    /\ RestartFrame

RestartCount ==
    /\ pc[Restarter] = "count"
    /\ restarts' = restarts + 1
    /\ Goto(Restarter, "reset")
    /\ UNCHANGED <<state, stopped, seen, life, cancelled, conn, open>>
    /\ RestartFrame

\* A stop during the drain is honoured ...
RestartReset ==
    /\ pc[Restarter] = "reset"
    /\ Goto(Restarter, IF stopped THEN "exit" ELSE "rearm")
    /\ UNCHANGED <<state, stopped, restarts, seen, life, cancelled, conn, open>>
    /\ RestartFrame

\* ... otherwise the state is set so that startCore accepts.
RestartRearm ==
    /\ pc[Restarter] = "rearm"
    /\ state' = "stopped"
    /\ Goto(Restarter, "claim")
    /\ UNCHANGED <<stopped, restarts, seen, life, cancelled, conn, open>>
    /\ RestartFrame

\* The attempt failed: a stop aborted it, or it counts as a failure and is
\* repeated within the limit.
RestartRedo ==
    /\ pc[Restarter] = "redo"
    /\ Goto(Restarter, IF stopped THEN "exit" ELSE "failed")
    /\ UNCHANGED <<state, stopped, restarts, seen, life, cancelled, conn, open>>
    /\ RestartFrame

RestartFailed ==
    /\ pc[Restarter] = "failed"
    /\ state' = "failed"
    /\ Goto(Restarter, IF restarts >= MaxRestarts THEN "exit" ELSE "delay")
    /\ UNCHANGED <<stopped, restarts, seen, life, cancelled, conn, open>>
    /\ RestartFrame

\* Mutant: sp.restarting is never reset.
RestartStuck ==
    /\ pc[Restarter] = "exit"
    /\ FALSE
    /\ UNCHANGED vars

\* The deferred reset of sp.restarting.
RestartExits ==
    /\ pc[Restarter] = "exit"
    /\ Goto(Restarter, "none")
    /\ UNCHANGED <<state, stopped, restarts, seen, life, cancelled, conn, open>>
    /\ RestartFrame

\* Every call made has returned and no goroutine is left with anything to do.
Terminated ==
    /\ \A u \in User : pc[u] \in {"idle", "returned"} /\ waiter[u] \in {"off", "done"}
    /\ pc[Restarter] = "none"
    /\ UNCHANGED vars

-----------------------------------------------------------------------------
CoreStep(a) ==
    \/ Claim(a) \/ CheckStopped(a) \/ NewLifecycle(a) \/ RecheckStopped(a)
    \/ Spawn(a) \/ Connect(a) \/ LaunchMonitor(a) \/ SpawnFails(a)
    \/ ConnectFailed(a) \/ Verify(a) \/ AbortClose(a) \/ AbortCancel(a) \/ Abort(a)
    \/ Publish(a) \/ LaunchLoop(a)

UserStep(u) ==
    \/ ClearStopped(u) \/ CoreStep(u)
    \/ StopRead(u) \/ StopMark(u) \/ StopStore(u) \/ StopCancel(u)
    \/ StopClose(u) \/ StopReturns(u)
    \/ UnregisterMark(u) \/ UnregisterCancel(u) \/ UnregisterWaited(u)
    \/ UnregisterEnds(u)

BeginCall(u) == BeginStart(u) \/ BeginStop(u) \/ BeginUnregister(u)

TriggerStep(w) ==
    TriggerBudget(w) \/ TriggerOver(w) \/ TriggerLook(w) \/ TriggerCas(w)

WatchStep(w) == TriggerStep(w) \/ WatcherLeaves(w)

MonitorStep(n) ==
    \/ MonitorWakes(n) \/ MonitorStores(n) \/ WatchStep(<<"monitor", n>>)

LoopStep(n) == LoopEnters(n) \/ WatchStep(<<"loop", n>>)

RestartStep ==
    \/ RestartDelay \/ RestartSelect \/ RestartAwake \/ RestartCancel
    \/ RestartDrained \/ RestartClose \/ RestartCount \/ RestartReset
    \/ RestartRearm \/ RestartRedo \/ RestartFailed \/ RestartExits
    \/ CoreStep(Restarter)

StopWaits(u) == StopDrained(u) \/ StopStamp(u)

Next ==
    \/ \E u \in User : BeginCall(u) \/ UserStep(u) \/ StopWaits(u)
    \/ \E n \in Instance :
          \/ LoopStep(n) \/ LoopTick(n) \/ LoopExits(n)
          \/ MonitorStep(n)
          \/ ChildExits(n) \/ ChildKilled(n)
    \/ RestartStep
    \/ Terminated

Spec == Init /\ [][Next]_vars

\* Goroutines are scheduled, timers fire, a killed child dies.  The health loop
\* selects among its ready channels at random, which is strong fairness for the
\* cancelled context against the ticker.  Nobody promises to make a call, and a
\* child need not exit by itself.
Fairness ==
    /\ \A u \in User : WF_vars(UserStep(u)) /\ WF_vars(StopWaits(u))
    /\ \A n \in Instance : WF_vars(LoopStep(n)) /\ SF_vars(LoopExits(n))
                         /\ WF_vars(MonitorStep(n)) /\ WF_vars(ChildKilled(n))
    /\ WF_vars(RestartStep)

FairSpec == Spec /\ Fairness

-----------------------------------------------------------------------------
(* Properties. *)

TypeOK ==
    /\ state \in State
    /\ stopped \in BOOLEAN
    /\ life \in Life
    /\ cancelled \subseteq Life
    /\ conn \in Instance \cup {NoConn}
    /\ open \subseteq Instance
    /\ child \in [Instance -> Child]
    /\ under \in [Instance -> Life]
    /\ inst \in [Starter -> Instance \cup {NoConn}]
    /\ watch \in [Watcher -> WatchPC]
    /\ wg \in Nat
    /\ restarts \in Nat
    /\ seen \in Life
    /\ held \in [Instance -> Life]
    /\ registered \in BOOLEAN
    /\ pc \in [Starter -> PC]
    /\ op \in [User -> {"none", "Start", "Stop", "Unregister"}]
    /\ ret \in [User -> {"none", "ok", "err"}]
    /\ waiter \in [User -> {"off", "wait", "stamp", "done"}]
    /\ settled \subseteq User

\* At most one child lives: a restart connects only when the child of the
\* instance before is gone, however the start, the monitor and the health loop of
\* that instance interleave with it.
OneInstance == Cardinality({n \in Instance : child[n] = "alive"}) <= 1

\* No connection is left open that sp.conn no longer names.
NoLeakedConn == open \subseteq {conn}

\* An Unregister that no start overlaps or follows is final: the child dies, the
\* connection is closed and the goroutines end, whatever restart was in flight.
UnregisteredIsGone ==
    \A u \in User :
        (op[u] = "Unregister" /\ pc[u] = "returned" /\ u \in settled)
            ~> (u \notin settled \/ (wg = 0 /\ open = {}))

\* So is a Stop that found the subprocess running or starting: its goroutines
\* end, its connection is closed and no child runs, from some point on, even if
\* a start or a restart past its last check has overwritten the state that the
\* stop stored (startCore's Store of Running).
StoppedIsGone ==
    \A u \in User :
        <>[](waiter[u] # "off" /\ u \in settled
                => wg = 0 /\ open = {} /\ \A n \in Instance : child[n] # "alive")

\* A stop that has stored Stopping ends: the state does not stay there, which
\* would refuse every later start.
StoppingEnds == (state = "stopping") ~> (state # "stopping")

\* A restart that was triggered resolves: its wait for the goroutines that
\* triggered it is no deadlock.
RestartResolves == (pc[Restarter] = "delay") ~> (pc[Restarter] = "none")

\* A subprocess that the user has stopped is not resurrected by an automatic
\* restart in flight: after a Stop that returned nil, and that no start overlaps
\* or follows, no child runs.
StopSticks ==
    \A u \in User : op[u] = "Stop" /\ ret[u] = "ok" /\ u \in settled =>
        \A n \in Instance : child[n] # "alive"
=============================================================================
