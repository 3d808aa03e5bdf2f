--------------------------- MODULE ProcessManager ---------------------------
(***************************************************************************)
(* The process manager of package process: the registry of managed         *)
(* processes, the life cycle of each one, and the public calls that race    *)
(* on both (Start, StartOrReuse, RunSync, Restart, Stop, StopAll,           *)
(* StopByProjectPath, Shutdown), with the goroutines they spawn.            *)
(*                                                                         *)
(* A Caller is one goroutine performing one public call.  A Proc is one     *)
(* *ManagedProcess object.  One action is one atomic step of the code: an   *)
(* atomic load, store or compare-and-swap, one operation of the sync.Map,   *)
(* one critical section of startMu, or one ready case of a select.          *)
(*                                                                         *)
(* The optional script registry is not installed in this configuration     *)
(* (pm.scriptRegistry = nil); the PID tracker is.  Descendants of a child   *)
(* live and die with it.  Signals are always delivered, as on Unix.         *)
(***************************************************************************)
EXTENDS Integers, FiniteSets

CONSTANTS
    Id,           \* process identifiers
    Path,         \* project paths
    Proc,         \* the ManagedProcess objects that may be created
    KeyOf,        \* the (id, path) each object is created with
    Caller,       \* goroutines, each performing one public call
    Cancellable,  \* the callers whose context may be cancelled or time out
    Ops,          \* the kinds of call each caller may make
    HealthOn,     \* config.HealthCheckPeriod > 0
    NoProc        \* nil

Key == Id \X Path

Op == {"Start", "StartOrReuse", "RunSync", "Restart", "Stop", "StopAll",
       "StopByPath", "Shutdown"}

ASSUME ConstantsAssumption ==
    /\ KeyOf \in [Proc -> Key]
    /\ NoProc \notin Proc
    /\ IsFiniteSet(Proc)
    /\ IsFiniteSet(Caller)
    /\ Cancellable \subseteq Caller
    /\ Ops \in [Caller -> SUBSET Op]
    /\ HealthOn \in BOOLEAN

VARIABLES
    registry,      \* pm.processes: key -> object or NoProc
    state,         \* proc.state
    done,          \* proc.done is closed
    child,         \* the OS process behind proc.cmd
    waiter,        \* progress of the goroutine running waitForProcess
    tracked,       \* the PID tracker's entry for a key
    totalFailed,   \* pm.totalFailed
    wg,            \* the counter of pm.wg
    shuttingDown,  \* pm.shuttingDown (and pm.shutdownChan closed)
    once,          \* pm.shutdownOnce
    health,        \* the health-check goroutine and what it last read
    pc,            \* where each caller is
    op,            \* the call it makes
    new,           \* the object it starts
    held,          \* the objects it looked up and works on
    stop,          \* stop[c][p]: c's StopProcess or forceKill of p
    ctxDone,       \* the caller's context is done
    ret            \* what the call returned

procVars == <<state, done, child, waiter>>
mgrVars  == <<registry, tracked, totalFailed, wg>>
downVars == <<shuttingDown, once>>
callVars == <<op, new, held, stop, ctxDone>>
vars == <<procVars, mgrVars, downVars, health, pc, callVars, ret>>

Terminal == {"stopped", "failed"}
State == {"pending", "starting", "running", "stopping"} \cup Terminal

\* "dying" has been sent SIGKILL; "exit0" and "exit1" are exited processes for
\* which cmd.Wait will return nil, respectively an error.
Child == {"none", "alive", "dying", "exit0", "exit1"}
Exited(p) == child[p] \in {"exit0", "exit1"}

Waiter == {"none", "wait", "failing", "settled", "untracked", "closed", "gone"}

StopPC == {"none", "read", "cas", "signal", "grace", "await", "kill",
           "ok", "err"}

StartPC == {"cas", "regcheck", "regstore", "spawn", "fail", "unregister",
            "closedone", "release", "track", "launch"}

PC == {"idle", "lookup", "readold", "waitold", "remove", "ticket", "awaitrun", "stopping",
       "runremove", "launchstops", "waitstops", "drain", "removeall",
       "once", "range", "wgwait", "wgwaiterr", "returned"} \cup StartPC

Init ==
    /\ registry = [k \in Key |-> NoProc]
    /\ state = [p \in Proc |-> "pending"]
    /\ done = [p \in Proc |-> FALSE]
    /\ child = [p \in Proc |-> "none"]
    /\ waiter = [p \in Proc |-> "none"]
    /\ tracked = [k \in Key |-> NoProc]
    /\ totalFailed = 0
    /\ wg = IF HealthOn THEN 1 ELSE 0
    /\ shuttingDown = FALSE
    /\ once = "free"
    /\ health = [live |-> HealthOn, proc |-> NoProc, saw |-> "running"]
    /\ pc = [c \in Caller |-> "idle"]
    /\ op = [c \in Caller |-> "none"]
    /\ new = [c \in Caller |-> NoProc]
    /\ held = [c \in Caller |-> {}]
    /\ stop = [c \in Caller |-> [p \in Proc |-> "none"]]
    /\ ctxDone = [c \in Caller |-> FALSE]
    /\ ret = [c \in Caller |-> "none"]

-----------------------------------------------------------------------------
(* Helpers. *)

Registered == {p \in Proc : registry[KeyOf[p]] = p}

\* pm.Get(id): the one registered object with this id; none when the id is
\* unknown or shared by two project paths (ErrProcessAmbiguous).
Get(id) ==
    LET found == {p \in Registered : KeyOf[p][1] = id}
    IN  IF Cardinality(found) = 1 THEN found ELSE {}

\* RemoveByPath deletes whatever the key holds, not a particular object.
RemoveByPath(keys) ==
    registry' = [k \in Key |-> IF k \in keys THEN NoProc ELSE registry[k]]

Fresh(p) == \A c \in Caller : new[c] # p

Goto(c, l) == pc' = [pc EXCEPT ![c] = l] /\ UNCHANGED ret

Return(c, r) ==
    /\ pc' = [pc EXCEPT ![c] = "returned"]
    /\ ret' = [ret EXCEPT ![c] = r]

StopGoto(c, p, l) == stop' = [stop EXCEPT ![c][p] = l]

StopsFinished(c) == \A p \in Proc : stop[c][p] \in {"none", "ok", "err"}
StopsFailed(c) == \E p \in Proc : stop[c][p] = "err"

\* What SIGKILL to the group and cancelling the exec context do to a child.  A
\* clean exit that cmd.Wait has not reported yet may turn into the context's
\* error.
KillOutcomes(p) ==
    CASE child[p] = "alive" -> {"dying"}
      [] child[p] = "exit0" -> {"exit0", "exit1"}
      [] OTHER -> {child[p]}

-----------------------------------------------------------------------------
(* Entry of each public call. *)

Begin(c, kind, p, ps, l) ==
    /\ pc[c] = "idle"
    /\ kind \in Ops[c]
    /\ op' = [op EXCEPT ![c] = kind]
    /\ new' = [new EXCEPT ![c] = p]
    /\ held' = [held EXCEPT ![c] = ps]
    /\ Goto(c, l)
    /\ UNCHANGED <<procVars, mgrVars, downVars, health, ctxDone>>

\* Start may be handed any object, one that another call has started included.
BeginStart(c) ==
    \E p \in Proc : Begin(c, "Start", p, {}, "ticket") /\ UNCHANGED stop

BeginStartOrReuse(c) ==
    \E p \in Proc :
        /\ Fresh(p)
        /\ Begin(c, "StartOrReuse", p, {}, "lookup")
        /\ UNCHANGED stop

BeginRunSync(c) ==
    \E p \in Proc :
        /\ Fresh(p)
        /\ Begin(c, "RunSync", p, {}, "ticket")
        /\ UNCHANGED stop

BeginRestart(c) ==
    \E id \in Id : \E old \in Get(id), p \in Proc :
        /\ Fresh(p)
        /\ KeyOf[p] = KeyOf[old]
        /\ Begin(c, "Restart", p, {old}, "stopping")
        /\ StopGoto(c, old, "read")

BeginStop(c) ==
    \E id \in Id : \E p \in Get(id) :
        /\ Begin(c, "Stop", NoProc, {p}, "stopping")
        /\ StopGoto(c, p, "read")

BeginStopAll(c) ==
    /\ Begin(c, "StopAll", NoProc, Registered, "launchstops")
    /\ UNCHANGED stop

BeginStopByPath(c) ==
    \E path \in Path :
        /\ Begin(c, "StopByPath", NoProc,
                 {p \in Registered : KeyOf[p][2] = path}, "launchstops")
        /\ UNCHANGED stop

BeginShutdown(c) ==
    Begin(c, "Shutdown", NoProc, {}, "once") /\ UNCHANGED stop

-----------------------------------------------------------------------------
(* Start. *)

\* Mutant: the deferred Done is armed before the shutdown check.
TakeTicketDeferredEarly(c) ==
    /\ pc[c] = "ticket"
    /\ IF shuttingDown
       THEN Goto(c, "release") /\ UNCHANGED wg
       ELSE Goto(c, "cas") /\ wg' = wg + 1
    /\ UNCHANGED <<procVars, registry, tracked, totalFailed, downVars, health,
                   callVars>>

\* The ticket of pm.wg is taken under startMu, ordered against Shutdown's flag.
TakeTicket(c) ==
    /\ pc[c] = "ticket"
    /\ IF shuttingDown
       THEN Return(c, "err") /\ UNCHANGED wg
       ELSE Goto(c, "cas") /\ wg' = wg + 1
    /\ UNCHANGED <<procVars, registry, tracked, totalFailed, downVars, health,
                   callVars>>

CasStarting(c) ==
    LET p == new[c] IN
    /\ pc[c] = "cas"
    /\ IF state[p] = "pending"
       THEN state' = [state EXCEPT ![p] = "starting"] /\ Goto(c, "regcheck")
       ELSE Goto(c, "release") /\ UNCHANGED state
    /\ UNCHANGED <<done, child, waiter, mgrVars, downVars, health, callVars>>

\* Register looks at shuttingDown first, LoadOrStores later; when it refuses,
\* Start puts the object back to pending.
RegisterCheck(c) ==
    LET p == new[c] IN
    /\ pc[c] = "regcheck"
    /\ IF shuttingDown
       THEN state' = [state EXCEPT ![p] = "pending"] /\ Goto(c, "release")
       ELSE Goto(c, "regstore") /\ UNCHANGED state
    /\ UNCHANGED <<done, child, waiter, mgrVars, downVars, health, callVars>>

\* Mutant: Store instead of LoadOrStore.
RegisterOverwrites(c) ==
    LET p == new[c] IN
    /\ pc[c] = "regstore"
    /\ registry' = [registry EXCEPT ![KeyOf[p]] = p]
    /\ Goto(c, "spawn")
    /\ UNCHANGED <<procVars, tracked, totalFailed, wg, downVars, health,
                   callVars>>

RegisterStore(c) ==
    LET p == new[c] IN
    /\ pc[c] = "regstore"
    /\ IF registry[KeyOf[p]] = NoProc
       THEN /\ registry' = [registry EXCEPT ![KeyOf[p]] = p]
            /\ Goto(c, "spawn")
            /\ UNCHANGED state
       ELSE /\ state' = [state EXCEPT ![p] = "pending"]
            /\ Goto(c, "release")
            /\ UNCHANGED registry
    /\ UNCHANGED <<done, child, waiter, tracked, totalFailed, wg, downVars,
                   health, callVars>>

\* One critical section of startMu: the final shutdown check, cmd.Start and the
\* publication of StateRunning.
Spawn(c) ==
    LET p == new[c] IN
    /\ pc[c] = "spawn"
    /\ ~shuttingDown
    /\ child' = [child EXCEPT ![p] = "alive"]
    /\ state' = [state EXCEPT ![p] = "running"]
    /\ Goto(c, "track")
    /\ UNCHANGED <<done, waiter, mgrVars, downVars, health, callVars>>

\* Mutant: the waiter is launched before cmd.Start is known to have succeeded.
SpawnFailsAfterLaunch(c) ==
    /\ pc[c] = "spawn"
    /\ waiter' = [waiter EXCEPT ![new[c]] = "wait"]
    /\ Goto(c, "fail")
    /\ UNCHANGED <<state, done, child, mgrVars, downVars, health, callVars>>

\* The shutdown check fails, or StdinPipe or cmd.Start returns an error.
SpawnFails(c) ==
    /\ pc[c] = "spawn"
    /\ Goto(c, "fail")
    /\ UNCHANGED <<procVars, mgrVars, downVars, health, callVars>>

Track(c) ==
    LET p == new[c] IN
    /\ pc[c] = "track"
    /\ tracked' = [tracked EXCEPT ![KeyOf[p]] = p]
    /\ Goto(c, "launch")
    /\ UNCHANGED <<procVars, registry, totalFailed, wg, downVars, health,
                   callVars>>

\* Mutant: started is not set, so Start's deferred Done fires as well.
LaunchWaiterAndRelease(c) ==
    LET p == new[c] IN
    /\ pc[c] = "launch"
    /\ waiter' = [waiter EXCEPT ![p] = "wait"]
    /\ wg' = wg - 1
    /\ IF op[c] = "RunSync" THEN Goto(c, "awaitrun") ELSE Return(c, "ok")
    /\ UNCHANGED <<state, done, child, registry, tracked, totalFailed, downVars,
                   health, callVars>>

\* go waitForProcess(proc): the ticket passes from Start to the waiter.
LaunchWaiter(c) ==
    LET p == new[c] IN
    /\ pc[c] = "launch"
    /\ waiter' = [waiter EXCEPT ![p] = "wait"]
    /\ IF op[c] = "RunSync" THEN Goto(c, "awaitrun") ELSE Return(c, "ok")
    /\ UNCHANGED <<state, done, child, mgrVars, downVars, health, callVars>>

\* failStart: SetState, then RemoveByPath, then close(done).
FailState(c) ==
    LET p == new[c] IN
    /\ pc[c] = "fail"
    /\ state' = [state EXCEPT ![p] = "failed"]
    /\ totalFailed' = totalFailed + 1
    /\ Goto(c, "unregister")
    /\ UNCHANGED <<done, child, waiter, registry, tracked, wg, downVars, health,
                   callVars>>

FailUnregister(c) ==
    /\ pc[c] = "unregister"
    /\ RemoveByPath({KeyOf[new[c]]})
    /\ Goto(c, "closedone")
    /\ UNCHANGED <<procVars, tracked, totalFailed, wg, downVars, health,
                   callVars>>

FailClose(c) ==
    /\ pc[c] = "closedone"
    /\ done' = [done EXCEPT ![new[c]] = TRUE]
    /\ Goto(c, "release")
    /\ UNCHANGED <<state, child, waiter, mgrVars, downVars, health, callVars>>

\* Mutant: an early return that forgets the ticket.
ReleaseTicketLeaks(c) ==
    /\ pc[c] = "release"
    /\ Return(c, "err")
    /\ UNCHANGED <<procVars, mgrVars, downVars, health, callVars>>

\* The deferred wg.Done of a Start that spawned nothing.
ReleaseTicket(c) ==
    /\ pc[c] = "release"
    /\ wg' = wg - 1
    /\ Return(c, "err")
    /\ UNCHANGED <<procVars, registry, tracked, totalFailed, downVars, health,
                   callVars>>

-----------------------------------------------------------------------------
(* waitForProcess, one goroutine per spawned object. *)

\* Mutant: any error exit is Failed, without the CAS.
WaitReturnsBlind(p) ==
    /\ waiter[p] = "wait"
    /\ Exited(p)
    /\ state' = [state EXCEPT ![p] = IF child[p] = "exit0" THEN "stopped"
                                     ELSE "failed"]
    /\ waiter' = [waiter EXCEPT ![p] = "settled"]
    /\ UNCHANGED <<done, child, mgrVars, downVars, health, pc, callVars, ret>>

\* Mutant: done is closed before the state is settled.
WaitReturnsClosing(p) ==
    /\ waiter[p] = "wait"
    /\ Exited(p)
    /\ done' = [done EXCEPT ![p] = TRUE]
    /\ IF child[p] = "exit0" \/ state[p] = "stopping"
       THEN /\ state' = [state EXCEPT ![p] = "stopped"]
            /\ waiter' = [waiter EXCEPT ![p] = "settled"]
       ELSE waiter' = [waiter EXCEPT ![p] = "failing"] /\ UNCHANGED state
    /\ UNCHANGED <<child, mgrVars, downVars, health, pc, callVars, ret>>

\* Mutant: the waiter takes the object out of the registry as it settles it.
WaitReturnsUnregistering(p) ==
    /\ waiter[p] = "wait"
    /\ Exited(p)
    /\ RemoveByPath({KeyOf[p]})
    /\ IF child[p] = "exit0" \/ state[p] = "stopping"
       THEN /\ state' = [state EXCEPT ![p] = "stopped"]
            /\ waiter' = [waiter EXCEPT ![p] = "settled"]
       ELSE waiter' = [waiter EXCEPT ![p] = "failing"] /\ UNCHANGED state
    /\ UNCHANGED <<done, child, tracked, totalFailed, wg, downVars, health, pc,
                   callVars, ret>>

\* cmd.Wait returned nil: SetState(StateStopped).  It returned an error: a CAS
\* from Stopping to Stopped, which succeeds for a deliberate stop.
WaitReturns(p) ==
    /\ waiter[p] = "wait"
    /\ Exited(p)
    /\ IF child[p] = "exit0" \/ state[p] = "stopping"
       THEN /\ state' = [state EXCEPT ![p] = "stopped"]
            /\ waiter' = [waiter EXCEPT ![p] = "settled"]
       ELSE waiter' = [waiter EXCEPT ![p] = "failing"] /\ UNCHANGED state
    /\ UNCHANGED <<done, child, mgrVars, downVars, health, pc, callVars, ret>>

\* That CAS failed; a stop may have begun since.
WaitFails(p) ==
    /\ waiter[p] = "failing"
    /\ state' = [state EXCEPT ![p] = "failed"]
    /\ totalFailed' = totalFailed + 1
    /\ waiter' = [waiter EXCEPT ![p] = "settled"]
    /\ UNCHANGED <<done, child, registry, tracked, wg, downVars, health, pc,
                   callVars, ret>>

\* pidTracker.Remove(proc.ID, proc.ProjectPath), by key.
Untrack(p) ==
    /\ waiter[p] = "settled"
    /\ tracked' = [tracked EXCEPT ![KeyOf[p]] = NoProc]
    /\ waiter' = [waiter EXCEPT ![p] = "untracked"]
    /\ UNCHANGED <<state, done, child, registry, totalFailed, wg, downVars,
                   health, pc, callVars, ret>>

\* Mutant: done stays open.
CloseDoneForgotten(p) ==
    /\ waiter[p] = "untracked"
    /\ waiter' = [waiter EXCEPT ![p] = "closed"]
    /\ UNCHANGED <<state, done, child, mgrVars, downVars, health, pc, callVars,
                   ret>>

CloseDone(p) ==
    /\ waiter[p] = "untracked"
    /\ done' = [done EXCEPT ![p] = TRUE]
    /\ waiter' = [waiter EXCEPT ![p] = "closed"]
    /\ UNCHANGED <<state, child, mgrVars, downVars, health, pc, callVars, ret>>

WaiterExits(p) ==
    /\ waiter[p] = "closed"
    /\ wg' = wg - 1
    /\ waiter' = [waiter EXCEPT ![p] = "gone"]
    /\ UNCHANGED <<state, done, child, registry, tracked, totalFailed, downVars,
                   health, pc, callVars, ret>>

\* The operating system: a process may exit at any time, and a killed one does.
ChildExits(p) ==
    /\ \/ child[p] = "alive" /\ child' = [child EXCEPT ![p] = "exit0"]
       \/ child[p] = "alive" /\ child' = [child EXCEPT ![p] = "exit1"]
    /\ UNCHANGED <<state, done, waiter, mgrVars, downVars, health, pc, callVars,
                   ret>>

ChildDies(p) ==
    /\ child[p] = "dying"
    /\ child' = [child EXCEPT ![p] = "exit1"]
    /\ UNCHANGED <<state, done, waiter, mgrVars, downVars, health, pc, callVars,
                   ret>>

-----------------------------------------------------------------------------
(* StopProcess and forceKill, run by a caller or by a goroutine it spawned. *)

StopFrame == UNCHANGED <<done, waiter, mgrVars, downVars, health, pc, op, new,
                         held, ctxDone, ret>>

StopRead(c, p) ==
    /\ stop[c][p] = "read"
    /\ StopGoto(c, p, IF state[p] \in Terminal THEN "ok" ELSE "cas")
    /\ UNCHANGED <<state, child>>
    /\ StopFrame

\* CAS Running -> Stopping; if it fails, wait for another stop or give up.
StopCas(c, p) ==
    /\ stop[c][p] = "cas"
    /\ \/ /\ state[p] = "running"
          /\ state' = [state EXCEPT ![p] = "stopping"]
          /\ StopGoto(c, p, "signal")
       \/ /\ state[p] = "stopping"
          /\ StopGoto(c, p, "await")
          /\ UNCHANGED state
       \/ /\ state[p] \notin {"running", "stopping"}
          /\ StopGoto(c, p, "err")
          /\ UNCHANGED state
    /\ UNCHANGED child
    /\ StopFrame

\* A context already done goes straight to forceKill; otherwise SIGTERM, which a
\* child may honour or ignore.
StopSignal(c, p) ==
    /\ stop[c][p] = "signal"
    /\ StopGoto(c, p, IF ctxDone[c] THEN "kill" ELSE "grace")
    /\ UNCHANGED <<state, child>>
    /\ StopFrame

\* Mutant: no escalation after the grace period.
StopGraceForever(c, p) ==
    /\ stop[c][p] = "grace"
    /\ done[p] /\ StopGoto(c, p, "ok")
    /\ UNCHANGED <<state, child>>
    /\ StopFrame

StopGrace(c, p) ==
    /\ stop[c][p] = "grace"
    /\ \/ done[p] /\ StopGoto(c, p, "ok")
       \/ StopGoto(c, p, "kill")   \* gracefulTimeout, or the context is done
    /\ UNCHANGED <<state, child>>
    /\ StopFrame

StopAwait(c, p) ==
    /\ stop[c][p] = "await"
    /\ \/ done[p] /\ StopGoto(c, p, "ok")
       \/ ctxDone[c] /\ StopGoto(c, p, "err")
    /\ UNCHANGED <<state, child>>
    /\ StopFrame

\* forceKill: the CAS loop, SIGKILL and cancel.  It returns nil once done is
\* closed or after 100ms, whichever is first.
ForceKill(c, p) ==
    /\ stop[c][p] = "kill"
    /\ state' = [state EXCEPT ![p] = IF @ \in Terminal THEN @ ELSE "stopping"]
    /\ \E o \in KillOutcomes(p) : child' = [child EXCEPT ![p] = o]
    /\ StopGoto(c, p, "ok")
    /\ StopFrame

-----------------------------------------------------------------------------
(* The calls built on Start and StopProcess. *)

\* StartOrReuse: GetByPath, then the state of what it found.
Lookup(c) ==
    LET e == registry[KeyOf[new[c]]] IN
    /\ pc[c] = "lookup"
    /\ IF e = NoProc
       THEN Goto(c, "ticket") /\ UNCHANGED held
       ELSE Goto(c, "readold") /\ held' = [held EXCEPT ![c] = {e}]
    /\ UNCHANGED <<procVars, mgrVars, downVars, health, op, new, stop, ctxDone>>

ReadOld(c) ==
    /\ pc[c] = "readold"
    /\ \E e \in held[c] :
          \/ state[e] \in {"running", "starting"} /\ Return(c, "ok")
          \/ state[e] = "stopping" /\ Goto(c, "waitold")
          \/ state[e] \in Terminal \cup {"pending"} /\ Goto(c, "remove")
    /\ UNCHANGED <<procVars, mgrVars, downVars, health, callVars>>

WaitOld(c) ==
    /\ pc[c] = "waitold"
    /\ \/ (\A p \in held[c] : done[p]) /\ Goto(c, "remove")
       \/ ctxDone[c] /\ Return(c, "err")
    /\ UNCHANGED <<procVars, mgrVars, downVars, health, callVars>>

\* StartOrReuse and Restart free the key before they start the new object.
RemoveOld(c) ==
    /\ pc[c] = "remove"
    /\ RemoveByPath({KeyOf[new[c]]})
    /\ Goto(c, "ticket")
    /\ UNCHANGED <<procVars, tracked, totalFailed, wg, downVars, health,
                   callVars>>

\* Stop, Restart and a cancelled RunSync get the answer of their StopProcess.
StopReturns(c) ==
    /\ pc[c] = "stopping"
    /\ StopsFinished(c)
    /\ \/ /\ op[c] = "RunSync"
          /\ Goto(c, "runremove")
       \/ /\ op[c] = "Restart" /\ ~StopsFailed(c)
          /\ Goto(c, "remove")
       \/ /\ op[c] \notin {"RunSync", "Restart"} \/ StopsFailed(c)
          /\ op[c] # "RunSync"
          /\ Return(c, IF StopsFailed(c) THEN "err" ELSE "ok")
    /\ UNCHANGED <<procVars, mgrVars, downVars, health, callVars>>

\* RunSync: the process finishes first, or the context does.
AwaitRun(c) ==
    LET p == new[c] IN
    /\ pc[c] = "awaitrun"
    /\ \/ done[p] /\ Goto(c, "runremove") /\ UNCHANGED stop
       \/ ctxDone[c] /\ StopGoto(c, p, "read") /\ Goto(c, "stopping")
    /\ UNCHANGED <<procVars, mgrVars, downVars, health, op, new, held, ctxDone>>

\* The deferred RemoveByPath; a cancelled call returns ctx.Err().
RunRemove(c) ==
    /\ pc[c] = "runremove"
    /\ RemoveByPath({KeyOf[new[c]]})
    /\ Return(c, IF stop[c][new[c]] = "none" THEN "ok" ELSE "err")
    /\ UNCHANGED <<procVars, tracked, totalFailed, wg, downVars, health,
                   callVars>>

\* StopAll and StopByProjectPath stop what is Running among what they collected.
LaunchStops(c) ==
    /\ pc[c] = "launchstops"
    /\ stop' = [stop EXCEPT ![c] =
                   [p \in Proc |-> IF p \in held[c] /\ state[p] = "running"
                                   THEN "read" ELSE @[p]]]
    /\ Goto(c, "waitstops")
    /\ UNCHANGED <<procVars, mgrVars, downVars, health, op, new, held, ctxDone>>

\* forceKill of every Running process of a set, one after the other.
ForceKillAll(ps) ==
    LET hit == {p \in ps : state[p] = "running"} IN
    /\ state' = [p \in Proc |-> IF p \in hit THEN "stopping" ELSE state[p]]
    /\ child' \in {f \in [Proc -> Child] :
                      \A p \in Proc : IF p \in hit THEN f[p] \in KillOutcomes(p)
                                      ELSE f[p] = child[p]}

StopsReturn(c) ==
    /\ pc[c] = "waitstops"
    /\ \/ /\ StopsFinished(c)
          /\ Goto(c, IF op[c] = "Shutdown" THEN "wgwait" ELSE "removeall")
          /\ UNCHANGED <<state, child>>
       \/ /\ ctxDone[c]
          /\ ForceKillAll(IF op[c] = "Shutdown" THEN Registered ELSE held[c])
          /\ Goto(c, IF op[c] = "Shutdown" THEN "wgwaiterr" ELSE "drain")
    /\ UNCHANGED <<done, waiter, mgrVars, downVars, health, callVars>>

\* After the sweep StopAll still waits for the goroutines it spawned.
Drain(c) ==
    /\ pc[c] = "drain"
    /\ StopsFinished(c)
    /\ Goto(c, "removeall")
    /\ UNCHANGED <<procVars, mgrVars, downVars, health, callVars>>

RemoveAll(c) ==
    /\ pc[c] = "removeall"
    /\ RemoveByPath({KeyOf[p] : p \in held[c]})
    /\ Return(c, IF StopsFailed(c) THEN "err" ELSE "ok")
    /\ UNCHANGED <<procVars, tracked, totalFailed, wg, downVars, health,
                   callVars>>

-----------------------------------------------------------------------------
(* Shutdown. *)

\* The body of shutdownOnce sets the flag under startMu and closes
\* shutdownChan; a second caller waits for the body and returns nil.
ShutdownOnce(c) ==
    /\ pc[c] = "once"
    /\ \/ /\ once = "free"
          /\ once' = "busy"
          /\ shuttingDown' = TRUE
          /\ Goto(c, "range")
       \/ /\ once = "done"
          /\ Return(c, "noop")
          /\ UNCHANGED downVars
    /\ UNCHANGED <<procVars, mgrVars, health, callVars>>

\* One goroutine per Running process: StopProcess, or forceKill when the
\* deadline is near.  Starting processes only have their context cancelled:
\* their final check of shuttingDown fails them.
ShutdownRange(c) ==
    /\ pc[c] = "range"
    /\ \E mode \in IF c \in Cancellable THEN {"read", "kill"} ELSE {"read"} :
          stop' = [stop EXCEPT ![c] =
                      [p \in Proc |-> IF p \in Registered /\ state[p] = "running"
                                      THEN mode ELSE @[p]]]
    /\ Goto(c, "waitstops")
    /\ UNCHANGED <<procVars, mgrVars, downVars, health, op, new, held, ctxDone>>

\* Mutant: pm.wg is not waited for.
ShutdownWaitSkipped(c) ==
    /\ pc[c] \in {"wgwait", "wgwaiterr"}
    /\ Return(c, IF pc[c] = "wgwaiterr" \/ StopsFailed(c) THEN "err" ELSE "ok")
    /\ once' = "done"
    /\ UNCHANGED <<procVars, mgrVars, shuttingDown, health, callVars>>

\* waitForProcessManagerGroup: pm.wg reaches zero, or the context is done.
ShutdownWait(c) ==
    /\ pc[c] \in {"wgwait", "wgwaiterr"}
    /\ \/ /\ wg = 0
          /\ Return(c, IF pc[c] = "wgwaiterr" \/ StopsFailed(c) THEN "err"
                       ELSE "ok")
       \/ /\ ctxDone[c]
          /\ Return(c, "err")
    /\ once' = "done"
    /\ UNCHANGED <<procVars, mgrVars, shuttingDown, health, callVars>>

-----------------------------------------------------------------------------
(* healthCheckLoop, the callers' contexts, and the end of a behaviour. *)

HealthFrame == UNCHANGED <<done, child, waiter, registry, tracked, totalFailed,
                           downVars, pc, callVars, ret>>

\* performHealthCheck looks at one object.  A Starting one is left alone: its start
\* time, which checkStartingProcess wants to be 30 s old, is stored immediately
\* before StateRunning, within Spawn.
HealthRead ==
    /\ health.live
    /\ health.proc = NoProc
    /\ \E p \in Registered :
          /\ state[p] \in {"running", "stopping"}
          /\ health' = [live |-> TRUE, proc |-> p, saw |-> state[p]]
    /\ UNCHANGED <<state, wg>>
    /\ HealthFrame

\* checkRunningProcess and checkStoppingProcess: if done is closed, a CAS from
\* the state read before.
HealthVerdict(saw) == IF saw = "running" THEN "failed" ELSE "stopped"

\* Mutant: SetState where the code has a CAS.
HealthActSet ==
    LET p == health.proc IN
    /\ p # NoProc
    /\ state' = IF done[p] THEN [state EXCEPT ![p] = HealthVerdict(health.saw)]
                ELSE state
    /\ health' = [health EXCEPT !.proc = NoProc]
    /\ UNCHANGED wg
    /\ HealthFrame

HealthAct ==
    LET p == health.proc IN
    /\ p # NoProc
    /\ state' = IF done[p] /\ state[p] = health.saw
                THEN [state EXCEPT ![p] = HealthVerdict(health.saw)]
                ELSE state
    /\ health' = [health EXCEPT !.proc = NoProc]
    /\ UNCHANGED wg
    /\ HealthFrame

HealthExits ==
    /\ health.live
    /\ health.proc = NoProc
    /\ shuttingDown
    /\ health' = [health EXCEPT !.live = FALSE]
    /\ wg' = wg - 1
    /\ UNCHANGED state
    /\ HealthFrame

CtxExpires(c) ==
    /\ c \in Cancellable
    /\ pc[c] \notin {"idle", "returned"}
    /\ ~ctxDone[c]
    /\ ctxDone' = [ctxDone EXCEPT ![c] = TRUE]
    /\ UNCHANGED <<procVars, mgrVars, downVars, health, pc, op, new, held, stop,
                   ret>>

\* Every call made has returned and every goroutine has ended.
Terminated ==
    /\ \A c \in Caller : pc[c] \in {"idle", "returned"} /\ StopsFinished(c)
    /\ \A p \in Proc : waiter[p] \in {"none", "gone"}
    /\ UNCHANGED vars

-----------------------------------------------------------------------------
StartStep(c) ==
    \/ TakeTicket(c) \/ CasStarting(c) \/ RegisterCheck(c) \/ RegisterStore(c)
    \/ Spawn(c) \/ SpawnFails(c) \/ Track(c) \/ LaunchWaiter(c)
    \/ FailState(c) \/ FailUnregister(c) \/ FailClose(c) \/ ReleaseTicket(c)

StopStep(c, p) ==
    \/ StopRead(c, p) \/ StopCas(c, p) \/ StopSignal(c, p) \/ StopGrace(c, p)
    \/ StopAwait(c, p) \/ ForceKill(c, p)

CallStep(c) ==
    \/ StartStep(c)
    \/ Lookup(c) \/ ReadOld(c) \/ WaitOld(c) \/ RemoveOld(c)
    \/ StopReturns(c) \/ AwaitRun(c) \/ RunRemove(c)
    \/ LaunchStops(c) \/ StopsReturn(c) \/ Drain(c) \/ RemoveAll(c)
    \/ ShutdownOnce(c) \/ ShutdownRange(c) \/ ShutdownWait(c)

BeginCall(c) ==
    \/ BeginStart(c) \/ BeginStartOrReuse(c) \/ BeginRunSync(c)
    \/ BeginRestart(c) \/ BeginStop(c) \/ BeginStopAll(c) \/ BeginStopByPath(c)
    \/ BeginShutdown(c)

WaiterStep(p) ==
    \/ WaitReturns(p) \/ WaitFails(p) \/ Untrack(p) \/ CloseDone(p)
    \/ WaiterExits(p)

Next ==
    \/ \E c \in Caller : BeginCall(c) \/ CallStep(c) \/ CtxExpires(c)
    \/ \E c \in Caller, p \in Proc : StopStep(c, p)
    \/ \E p \in Proc : WaiterStep(p) \/ ChildExits(p) \/ ChildDies(p)
    \/ HealthRead \/ HealthAct \/ HealthExits
    \/ Terminated

Spec == Init /\ [][Next]_vars

\* Goroutines are scheduled, timers fire, and SIGKILL kills.  Nobody promises to
\* make a call, to cancel a context, or that a child exits by itself.  The health
\* loop selects among its ready channels at random, which is strong fairness for
\* the closed shutdownChan against a ticker that keeps firing.
Fairness ==
    /\ \A c \in Caller : WF_vars(CallStep(c))
    /\ \A c \in Caller, p \in Proc : WF_vars(StopStep(c, p))
    /\ \A p \in Proc : WF_vars(WaiterStep(p)) /\ WF_vars(ChildDies(p))
    /\ WF_vars(HealthAct) /\ SF_vars(HealthExits)

FairSpec == Spec /\ Fairness

-----------------------------------------------------------------------------
(* Properties. *)

TypeOK ==
    /\ registry \in [Key -> Proc \cup {NoProc}]
    /\ state \in [Proc -> State]
    /\ done \in [Proc -> BOOLEAN]
    /\ child \in [Proc -> Child]
    /\ waiter \in [Proc -> Waiter]
    /\ tracked \in [Key -> Proc \cup {NoProc}]
    /\ totalFailed \in Nat
    /\ wg \in Nat
    /\ shuttingDown \in BOOLEAN
    /\ once \in {"free", "busy", "done"}
    /\ health \in [live : BOOLEAN, proc : Proc \cup {NoProc},
                   saw : {"running", "stopping"}]
    /\ pc \in [Caller -> PC]
    /\ op \in [Caller -> Op \cup {"none"}]
    /\ new \in [Caller -> Proc \cup {NoProc}]
    /\ held \in [Caller -> SUBSET Proc]
    /\ stop \in [Caller -> [Proc -> StopPC]]
    /\ ctxDone \in [Caller -> BOOLEAN]
    /\ ret \in [Caller -> {"none", "ok", "err", "noop"}]

\* The tickets of pm.wg: a Start from its Add to its hand-over, a waiter from
\* there to its deferred Done, and the health loop.
Starting == {c \in Caller : pc[c] \in StartPC}
Waiting == {p \in Proc : waiter[p] \notin {"none", "gone"}}

\* The WaitGroup neither loses nor double-counts a ticket as it passes from a
\* Start to the waiter it launches, so it never goes negative (a panic) and a
\* zero counter means that nothing is in flight.
WgAccounting ==
    wg = Cardinality(Starting) + Cardinality(Waiting)
           + (IF health.live THEN 1 ELSE 0)

\* The done channel is closed at most once (a second close panics), whichever
\* of failStart and waitForProcess closes it.
DoneClosedOnce ==
    /\ \A c \in Caller : pc[c] = "closedone" => ~done[new[c]]
    /\ \A p \in Proc : waiter[p] = "untracked" => ~done[p]
    /\ \A c, d \in Caller :
          pc[c] = "closedone" /\ pc[d] = "closedone" /\ c # d => new[c] # new[d]
    /\ \A c \in Caller : pc[c] = "closedone" => waiter[new[c]] = "none"

\* Who is woken by done finds the object in a terminal state and its process
\* gone.
DoneMeansOver == \A p \in Proc : done[p] => state[p] \in Terminal /\
                                           (Exited(p) \/ child[p] = "none")

\* A Shutdown that returns nil has drained the manager, from then on: every
\* process ever spawned has exited and its done channel is closed.
ShutdownDrains ==
    \A c \in Caller : op[c] = "Shutdown" /\ ret[c] = "ok" =>
        \A p \in Proc : child[p] # "none" => Exited(p) /\ done[p]

\* totalFailed counts every object that failed, once, although failStart and
\* waitForProcess both count.
FailedCountExact == totalFailed = Cardinality({p \in Proc : state[p] = "failed"})

\* A terminal state is never left: no late stop, health check or force kill
\* overwrites what waitForProcess or failStart decided.
TerminalIsFinal ==
    [][\A p \in Proc : state[p] \in Terminal => state'[p] = state[p]]_vars

\* A deliberate stop is no failure: a Stopping object settles to Failed only
\* when its process had exited with an error before the stop began.
StopIsNoFailure ==
    [][\A p \in Proc : state[p] = "stopping" /\ state'[p] = "failed"
                          => waiter[p] = "failing"]_vars

\* Every Running object can be found in the registry, by Shutdown among others.
RunningIsRegistered ==
    \A p \in Proc : state[p] = "running" => registry[KeyOf[p]] = p

\* A key has at most one Running object.
OneRunningPerKey ==
    \A p, q \in Proc : state[p] = "running" /\ state[q] = "running"
                          /\ KeyOf[p] = KeyOf[q] => p = q

\* A Running object whose Start has finished is in the PID tracker, so that the
\* next daemon finds the process after a crash.
RunningIsTracked ==
    \A p \in Proc : state[p] = "running" /\ waiter[p] = "wait"
                       => tracked[KeyOf[p]] = p

\* The manager implements the life cycle that ProcessLife promises.
Life == INSTANCE ProcessLife
        WITH over <- done, failures <- totalFailed, down <- shuttingDown
ImplementsLife == Life!LifeSpec

\* What a stop has begun ends: the object reaches a terminal state and done is
\* closed.
StoppingEnds == \A p \in Proc : (state[p] = "stopping") ~> done[p]

\* Shutdown returns, even without a deadline, provided that it can find what is
\* Running.
ShutdownReturns ==
    []RunningIsRegistered =>
        \A c \in Caller : (pc[c] = "once") ~> (pc[c] = "returned")

\* Every call that does not wait for a process to finish by itself returns: what
\* it waits for is being stopped, and the grace timer turns into a SIGKILL.
CallsReturn ==
    \A c \in Caller :
        (op[c] \in Op \ {"RunSync", "Shutdown"}) ~> (pc[c] = "returned")
=============================================================================
