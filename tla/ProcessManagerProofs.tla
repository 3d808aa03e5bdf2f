------------------------ MODULE ProcessManagerProofs ------------------------
(***************************************************************************)
(* Theorems about ProcessManager, for any finite number of objects and      *)
(* callers and any mix of calls.  IInv is the inductive invariant: which    *)
(* caller owns an object from the CAS that claims it to the hand-over to    *)
(* its waiter, and what the owner or the waiter implies about the object.   *)
(***************************************************************************)
EXTENDS ProcessManager, TLAPS, FiniteSetTheorems

\* TypeOK without the counters, whose types follow from CountInv.
TypeInv ==
    /\ registry \in [Key -> Proc \cup {NoProc}]
    /\ state \in [Proc -> State]
    /\ done \in [Proc -> BOOLEAN]
    /\ child \in [Proc -> Child]
    /\ waiter \in [Proc -> Waiter]
    /\ tracked \in [Key -> Proc \cup {NoProc}]
    /\ shuttingDown \in BOOLEAN
    /\ once \in {"free", "busy", "done"}
    /\ health \in [live : BOOLEAN, proc : Proc \cup {NoProc},
                   saw : {"running", "stopping"}]
    /\ pc \in [Caller -> PC]
    /\ op \in [Caller -> Op \cup {"none"}]
    /\ new \in [Caller -> Proc \cup {NoProc}]
    /\ held \in [Caller -> SUBSET Proc]
    /\ stop \in [Caller -> [Proc -> StopPC]]
    /\ ctxDone \in [Caller -> BOOLEAN]
    /\ ret \in [Caller -> {"none", "ok", "err", "noop"}]

\* Where a caller works on the object it starts.
StartsPC == {"lookup", "readold", "waitold", "remove", "ticket", "awaitrun", "runremove"}
                \cup StartPC
ShutsPC == {"once", "range", "wgwait", "wgwaiterr"}

CallInv ==
    \A c \in Caller :
        /\ pc[c] \in StartsPC => new[c] \in Proc
        /\ pc[c] = "stopping" /\ op[c] \in {"RunSync", "Restart"}
              => new[c] \in Proc
        /\ op[c] = "Shutdown" => pc[c] \in ShutsPC \cup {"waitstops", "returned"}
        /\ pc[c] \in ShutsPC => op[c] = "Shutdown"
        /\ ret[c] # "none" => pc[c] = "returned"

\* The owner of an object is past its CAS to starting and still holds it.
BeforeSpawn == {"regcheck", "regstore", "spawn", "fail"}
AfterFail == {"unregister", "closedone"}
AfterSpawn == {"track", "launch"}
Owns(c) == pc[c] \in BeforeSpawn \cup AfterFail \cup AfterSpawn

OwnInv ==
    /\ \A c \in Caller : Owns(c) => waiter[new[c]] = "none" /\ ~done[new[c]]
    /\ \A c \in Caller :
          /\ pc[c] \in BeforeSpawn =>
                state[new[c]] = "starting" /\ child[new[c]] = "none"
          /\ pc[c] \in AfterFail =>
                state[new[c]] = "failed" /\ child[new[c]] = "none"
          /\ pc[c] \in AfterSpawn =>
                state[new[c]] \in {"running", "stopping"} /\ child[new[c]] # "none"
    /\ \A c, d \in Caller : Owns(c) /\ Owns(d) /\ new[c] = new[d] => c = d

ObjInv ==
    \A p \in Proc :
        /\ state[p] \in {"pending", "starting"} =>
              child[p] = "none" /\ waiter[p] = "none" /\ ~done[p]
        /\ state[p] \in {"running", "stopping"} => child[p] # "none" /\ ~done[p]
        /\ waiter[p] \in {"wait", "failing"} => state[p] \in {"running", "stopping"}
        /\ waiter[p] = "failing" => Exited(p)
        /\ waiter[p] \in {"settled", "untracked", "closed", "gone"} =>
              state[p] \in Terminal /\ Exited(p)
        /\ waiter[p] \in {"settled", "untracked"} => ~done[p]
        /\ waiter[p] \in {"closed", "gone"} => done[p]
        /\ waiter[p] = "none" /\ done[p] => child[p] = "none"
        /\ waiter[p] = "none" /\ child[p] # "none" =>
              \E c \in Caller : pc[c] \in AfterSpawn /\ new[c] = p

\* A stop past its CAS, or a forceKill, works on an object that was spawned.
StopInv ==
    \A c \in Caller, p \in Proc :
        stop[c][p] \in {"signal", "grace", "await", "kill"}
            => state[p] \notin {"pending", "starting"}

\* What Shutdown has set stays set.
DownInv ==
    \A c \in Caller :
        /\ pc[c] \in {"range", "wgwait", "wgwaiterr"} => shuttingDown
        /\ op[c] = "Shutdown" /\ pc[c] = "waitstops" => shuttingDown
        /\ op[c] = "Shutdown" /\ ret[c] = "ok" => shuttingDown /\ wg = 0

IInv == TypeInv /\ CallInv /\ OwnInv /\ ObjInv /\ StopInv

CountInv == WgAccounting /\ FailedCountExact

-----------------------------------------------------------------------------
(* Types. *)

\* The manager starts with well-typed state.
LEMMA TypeInit == Init => TypeInv
  <1> SUFFICES ASSUME Init PROVE TypeInv
    OBVIOUS
  <1>1. health \in [live : BOOLEAN, proc : Proc \cup {NoProc},
                    saw : {"running", "stopping"}]
    BY ConstantsAssumption DEF ConstantsAssumption, Init
  <1>2. /\ registry \in [Key -> Proc \cup {NoProc}]
        /\ tracked \in [Key -> Proc \cup {NoProc}]
        /\ new \in [Caller -> Proc \cup {NoProc}]
        /\ held \in [Caller -> SUBSET Proc]
    BY DEF Init
  <1>3. stop \in [Caller -> [Proc -> StopPC]]
    BY DEF Init, StopPC
  <1>4. QED
    BY <1>1, <1>2, <1>3
    DEF Init, TypeInv, State, Terminal, Child, Waiter, PC

\* Every entry of a public call keeps the types.
LEMMA TypeBegin ==
    ASSUME TypeInv, NEW c \in Caller, BeginCall(c)
    PROVE  TypeInv'
  <1> USE DEF TypeInv, Begin, Goto, procVars, mgrVars, downVars
  <1>1. CASE BeginStart(c)
    BY <1>1 DEF BeginStart, Op, PC
  <1>2. CASE BeginStartOrReuse(c)
    BY <1>2 DEF BeginStartOrReuse, Op, PC
  <1>3. CASE BeginRunSync(c)
    BY <1>3 DEF BeginRunSync, Op, PC
  <1>4. CASE BeginRestart(c)
    <2>1. PICK id \in Id : \E old \in Get(id), p \in Proc :
              /\ Begin(c, "Restart", p, {old}, "stopping")
              /\ StopGoto(c, old, "read")
      BY <1>4 DEF BeginRestart
    <2>2. Get(id) \subseteq Proc
      BY DEF Get, Registered
    <2>3. QED
      BY <2>1, <2>2 DEF StopGoto, Op, PC, StopPC
  <1>5. CASE BeginStop(c)
    <2>1. PICK id \in Id : \E p \in Get(id) :
              /\ Begin(c, "Stop", NoProc, {p}, "stopping")
              /\ StopGoto(c, p, "read")
      BY <1>5 DEF BeginStop
    <2>2. Get(id) \subseteq Proc
      BY DEF Get, Registered
    <2>3. QED
      BY <2>1, <2>2 DEF StopGoto, Op, PC, StopPC
  <1>6. CASE BeginStopAll(c)
    BY <1>6 DEF BeginStopAll, Registered, Op, PC
  <1>7. CASE BeginStopByPath(c)
    BY <1>7 DEF BeginStopByPath, Registered, Op, PC
  <1>8. CASE BeginShutdown(c)
    BY <1>8 DEF BeginShutdown, Op, PC
  <1>9. QED
    BY <1>1, <1>2, <1>3, <1>4, <1>5, <1>6, <1>7, <1>8 DEF BeginCall

\* Every step of Start keeps the types.
LEMMA TypeStart ==
    ASSUME TypeInv, NEW c \in Caller, StartStep(c)
    PROVE  TypeInv'
  <1> USE DEF TypeInv, Goto, Return, PC, StartPC, State, Terminal,
              procVars, mgrVars, downVars, callVars
  <1>1. CASE TakeTicket(c)
    BY ZenonT(60), <1>1 DEF TakeTicket
  <1>2. CASE CasStarting(c)
    BY SMTT(30), <1>2 DEF CasStarting
  <1>3. CASE RegisterCheck(c)
    BY SMTT(30), <1>3 DEF RegisterCheck
  <1>4. CASE RegisterStore(c)
    <2>1. CASE registry[KeyOf[new[c]]] = NoProc
      BY ZenonT(60), <1>4, <2>1 DEF RegisterStore
    <2>2. CASE registry[KeyOf[new[c]]] # NoProc
      BY <1>4, <2>2 DEF RegisterStore
    <2>3. QED
      BY <2>1, <2>2
  <1>5. CASE Spawn(c)
    BY <1>5 DEF Spawn, Child
  <1>6. CASE SpawnFails(c)
    BY <1>6 DEF SpawnFails
  <1>7. CASE Track(c)
    BY <1>7 DEF Track
  <1>8. CASE LaunchWaiter(c)
    BY ZenonT(60), <1>8 DEF LaunchWaiter, Waiter
  <1>9. CASE FailState(c)
    BY <1>9 DEF FailState
  <1>10. CASE FailUnregister(c)
    BY <1>10 DEF FailUnregister, RemoveByPath
  <1>11. CASE FailClose(c)
    BY <1>11 DEF FailClose
  <1>12. CASE ReleaseTicket(c)
    BY <1>12 DEF ReleaseTicket
  <1>13. QED
    BY <1>1, <1>2, <1>3, <1>4, <1>5, <1>6, <1>7, <1>8, <1>9, <1>10, <1>11,
       <1>12 DEF StartStep

\* Moving one stop of one caller keeps the type of stop.
LEMMA StopGotoType ==
    ASSUME stop \in [Caller -> [Proc -> StopPC]],
           NEW c \in Caller, NEW p \in Proc, NEW l \in StopPC,
           StopGoto(c, p, l)
    PROVE  stop' \in [Caller -> [Proc -> StopPC]]
  BY DEF StopGoto

\* Every step of StopProcess and forceKill keeps the types.
LEMMA TypeStop ==
    ASSUME TypeInv, NEW c \in Caller, NEW p \in Proc, StopStep(c, p)
    PROVE  TypeInv'
  <1> USE DEF TypeInv, StopFrame, mgrVars, downVars
  <1>0. \A l \in {"ok", "cas", "signal", "await", "err", "kill", "grace"} :
           StopGoto(c, p, l) => stop' \in [Caller -> [Proc -> StopPC]]
    BY StopGotoType DEF StopPC
  <1>1. CASE StopRead(c, p)
    BY <1>0, <1>1 DEF StopRead
  <1>2. CASE StopCas(c, p)
    <2>1. stop' \in [Caller -> [Proc -> StopPC]]
      BY <1>0, <1>2 DEF StopCas
    <2>2. state' \in [Proc -> State]
      BY <1>2 DEF StopCas, State
    <2>3. QED
      BY <1>2, <2>1, <2>2 DEF StopCas
  <1>3. CASE StopSignal(c, p)
    BY <1>0, <1>3 DEF StopSignal
  <1>4. CASE StopGrace(c, p)
    BY <1>0, <1>4 DEF StopGrace
  <1>5. CASE StopAwait(c, p)
    BY <1>0, <1>5 DEF StopAwait
  <1>6. CASE ForceKill(c, p)
    <2>1. KillOutcomes(p) \subseteq Child
      BY DEF KillOutcomes, Child
    <2>2. QED
      BY <1>0, <1>6, <2>1 DEF ForceKill, State
  <1>7. QED
    BY <1>1, <1>2, <1>3, <1>4, <1>5, <1>6 DEF StopStep

\* Every step of the calls built on Start and StopProcess keeps the types.
LEMMA TypeCall ==
    ASSUME TypeInv, CallInv, NEW c \in Caller, CallStep(c)
    PROVE  TypeInv'
  <1> USE DEF TypeInv, Goto, Return, PC, StartPC,
              procVars, mgrVars, downVars, callVars
  <1>1. CASE StartStep(c)
    BY <1>1, TypeStart
  <1>2. CASE Lookup(c)
    <2>1. CASE registry[KeyOf[new[c]]] = NoProc
      BY ZenonT(60), <1>2, <2>1 DEF Lookup
    <2>2. CASE registry[KeyOf[new[c]]] # NoProc
      <3>1. KeyOf[new[c]] \in Key
        BY <1>2, ConstantsAssumption
        DEF ConstantsAssumption, Lookup, CallInv, StartsPC
      <3>2. {registry[KeyOf[new[c]]]} \in SUBSET Proc
        BY <2>2, <3>1
      <3>3. held' \in [Caller -> SUBSET Proc]
        BY <1>2, <2>2, <3>2 DEF Lookup
      <3>4. pc' \in [Caller -> PC] /\ ret' \in [Caller -> {"none", "ok", "err", "noop"}]
        BY ZenonT(60), <1>2, <2>2 DEF Lookup
      <3>5. QED
        BY <1>2, <3>3, <3>4 DEF Lookup
    <2>3. QED
      BY <2>1, <2>2
  <1>3. CASE ReadOld(c) \/ WaitOld(c)
    BY <1>3 DEF ReadOld, WaitOld
  <1>4. CASE RemoveOld(c)
    BY <1>4 DEF RemoveOld, RemoveByPath
  <1>5. CASE StopReturns(c)
    BY ZenonT(60), <1>5 DEF StopReturns
  <1>6. CASE AwaitRun(c)
    <2>1. new[c] \in Proc
      BY <1>6 DEF AwaitRun, CallInv, StartsPC
    <2>2. stop' \in [Caller -> [Proc -> StopPC]]
      BY <1>6, <2>1, StopGotoType DEF AwaitRun, StopPC
    <2>3. QED
      BY ZenonT(60), <1>6, <2>2 DEF AwaitRun
  <1>7. CASE RunRemove(c)
    BY <1>7 DEF RunRemove, RemoveByPath
  <1>8. CASE LaunchStops(c)
    BY <1>8 DEF LaunchStops, StopPC
  <1>9. CASE StopsReturn(c)
    <2>1. state' \in [Proc -> State] /\ child' \in [Proc -> Child]
      BY <1>9 DEF StopsReturn, ForceKillAll, State
    <2>2. pc' \in [Caller -> PC] /\ UNCHANGED ret
      BY ZenonT(60), <1>9 DEF StopsReturn
    <2>3. QED
      BY <1>9, <2>1, <2>2 DEF StopsReturn
  <1>10. CASE Drain(c)
    BY <1>10 DEF Drain
  <1>11. CASE RemoveAll(c)
    BY <1>11 DEF RemoveAll, RemoveByPath
  <1>12. CASE ShutdownOnce(c)
    BY ZenonT(60), <1>12 DEF ShutdownOnce
  <1>13. CASE ShutdownRange(c)
    BY <1>13 DEF ShutdownRange, StopPC
  <1>14. CASE ShutdownWait(c)
    BY ZenonT(60), <1>14 DEF ShutdownWait
  <1>15. QED
    BY <1>1, <1>2, <1>3, <1>4, <1>5, <1>6, <1>7, <1>8, <1>9, <1>10, <1>11,
       <1>12, <1>13, <1>14 DEF CallStep

\* So do the waiters, the operating system and the health loop.
LEMMA TypeRest ==
    ASSUME TypeInv,
           \/ \E c \in Caller : CtxExpires(c)
           \/ \E p \in Proc : WaiterStep(p) \/ ChildExits(p) \/ ChildDies(p)
           \/ HealthRead \/ HealthAct \/ HealthExits
    PROVE  TypeInv'
  <1> USE DEF TypeInv, procVars, mgrVars, downVars, callVars, HealthFrame
  <1>1. CASE \E c \in Caller : CtxExpires(c)
    BY <1>1 DEF CtxExpires
  <1>2. ASSUME NEW p \in Proc, WaiterStep(p) \/ ChildExits(p) \/ ChildDies(p)
        PROVE  TypeInv'
    <2>1. CASE WaitReturns(p)
      BY ZenonT(60), <2>1 DEF WaitReturns, State, Terminal, Waiter
    <2>2. CASE WaitFails(p)
      BY <2>2 DEF WaitFails, State, Terminal, Waiter
    <2>3. CASE Untrack(p)
      BY <2>3 DEF Untrack, Waiter
    <2>4. CASE CloseDone(p)
      BY <2>4 DEF CloseDone, Waiter
    <2>5. CASE WaiterExits(p)
      BY <2>5 DEF WaiterExits, Waiter
    <2>6. CASE ChildExits(p)
      BY <2>6 DEF ChildExits, Child
    <2>7. CASE ChildDies(p)
      BY <2>7 DEF ChildDies, Child
    <2>8. QED
      BY <1>2, <2>1, <2>2, <2>3, <2>4, <2>5, <2>6, <2>7 DEF WaiterStep
  <1>3. CASE HealthRead
    BY <1>3 DEF HealthRead, Registered
  <1>4. CASE HealthAct
    BY <1>4 DEF HealthAct, HealthVerdict, State, Terminal
  <1>5. CASE HealthExits
    BY <1>5 DEF HealthExits
  <1>6. QED
    BY <1>1, <1>2, <1>3, <1>4, <1>5

\* No step takes a variable out of its type.
LEMMA TypeStep == TypeInv /\ CallInv /\ [Next]_vars => TypeInv'
  <1> SUFFICES ASSUME TypeInv, CallInv, [Next]_vars PROVE TypeInv'
    OBVIOUS
  <1>1. CASE UNCHANGED vars
    BY <1>1 DEF TypeInv, vars, procVars, mgrVars, downVars, callVars
  <1>2. CASE Next
    BY <1>1, <1>2, TypeBegin, TypeCall, TypeStop, TypeRest DEF Next, Terminated
  <1>3. QED
    BY <1>1, <1>2

-----------------------------------------------------------------------------
(* The inductive invariant. *)

\* Where a caller is fits the call it makes and the object it starts.
LEMMA CallInvStep == TypeInv /\ CallInv /\ [Next]_vars => CallInv'
  <1> SUFFICES ASSUME TypeInv, CallInv, [Next]_vars PROVE CallInv'
    OBVIOUS
  <1> USE DEF Goto, Return, ShutsPC, StartsPC, StartPC
  <1>1. CASE UNCHANGED <<pc, op, new, ret>>
    BY <1>1 DEF CallInv
  <1>2. ASSUME NEW c \in Caller, BeginCall(c) PROVE CallInv'
    <2> USE DEF CallInv, TypeInv, Begin
    <2>1. CASE BeginStart(c)
      BY <2>1 DEF BeginStart
    <2>2. CASE BeginStartOrReuse(c)
      BY <2>2 DEF BeginStartOrReuse
    <2>3. CASE BeginRunSync(c)
      BY <2>3 DEF BeginRunSync
    <2>4. CASE BeginRestart(c)
      BY <2>4 DEF BeginRestart
    <2>5. CASE BeginStop(c)
      BY <2>5 DEF BeginStop
    <2>6. CASE BeginStopAll(c)
      BY <2>6 DEF BeginStopAll
    <2>7. CASE BeginStopByPath(c)
      BY <2>7 DEF BeginStopByPath
    <2>8. CASE BeginShutdown(c)
      BY <2>8 DEF BeginShutdown
    <2>9. QED
      BY <1>2, <2>1, <2>2, <2>3, <2>4, <2>5, <2>6, <2>7, <2>8 DEF BeginCall
  <1>3. ASSUME NEW c \in Caller, StartStep(c) PROVE CallInv'
    <2> USE DEF CallInv, TypeInv, callVars
    <2>1. CASE TakeTicket(c)
      BY <2>1 DEF TakeTicket
    <2>2. CASE CasStarting(c)
      <3>1. \E l \in {"regcheck", "release"} : pc' = [pc EXCEPT ![c] = l]
        BY <2>2 DEF CasStarting
      <3>2. pc[c] = "cas" /\ UNCHANGED <<op, new, ret>>
        BY <2>2 DEF CasStarting
      <3>3. QED
        BY <3>1, <3>2
    <2>3. CASE RegisterCheck(c)
      BY <2>3 DEF RegisterCheck
    <2>4. CASE RegisterStore(c)
      BY <2>4 DEF RegisterStore
    <2>5. CASE Spawn(c)
      BY <2>5 DEF Spawn
    <2>6. CASE SpawnFails(c)
      BY <2>6 DEF SpawnFails
    <2>7. CASE Track(c)
      BY <2>7 DEF Track
    <2>8. CASE LaunchWaiter(c)
      BY <2>8 DEF LaunchWaiter
    <2>9. CASE FailState(c)
      BY <2>9 DEF FailState
    <2>10. CASE FailUnregister(c)
      BY <2>10 DEF FailUnregister
    <2>11. CASE FailClose(c)
      BY <2>11 DEF FailClose
    <2>12. CASE ReleaseTicket(c)
      BY <2>12 DEF ReleaseTicket
    <2>13. QED
      BY <1>3, <2>1, <2>2, <2>3, <2>4, <2>5, <2>6, <2>7, <2>8, <2>9, <2>10,
         <2>11, <2>12 DEF StartStep
  <1>4. ASSUME NEW c \in Caller, CallStep(c), ~StartStep(c) PROVE CallInv'
    <2> USE <1>4 DEF CallInv, TypeInv, callVars
    <2>1. CASE Lookup(c)
      BY <2>1 DEF Lookup
    <2>2. CASE ReadOld(c) \/ WaitOld(c)
      BY <2>2 DEF ReadOld, WaitOld
    <2>3. CASE RemoveOld(c)
      BY <2>3 DEF RemoveOld
    <2>4. CASE StopReturns(c)
      BY <2>4 DEF StopReturns
    <2>5. CASE AwaitRun(c)
      BY <2>5 DEF AwaitRun
    <2>6. CASE RunRemove(c)
      BY <2>6 DEF RunRemove
    <2>7. CASE LaunchStops(c)
      BY <2>7 DEF LaunchStops
    <2>8. CASE StopsReturn(c)
      BY <2>8 DEF StopsReturn
    <2>9. CASE Drain(c)
      BY <2>9 DEF Drain
    <2>10. CASE RemoveAll(c)
      BY <2>10 DEF RemoveAll
    <2>11. CASE ShutdownOnce(c)
      BY <2>11 DEF ShutdownOnce
    <2>12. CASE ShutdownRange(c)
      BY <2>12 DEF ShutdownRange
    <2>13. CASE ShutdownWait(c)
      BY <2>13 DEF ShutdownWait
    <2>14. QED
      BY <2>1, <2>2, <2>3, <2>4, <2>5, <2>6, <2>7, <2>8, <2>9, <2>10, <2>11,
         <2>12, <2>13 DEF CallStep
  <1>5. QED
    <2>1. ASSUME NEW c \in Caller, CtxExpires(c) \/ \E p \in Proc : StopStep(c, p)
          PROVE  UNCHANGED <<pc, op, new, ret>>
      BY <2>1 DEF CtxExpires, StopStep, StopRead, StopCas, StopSignal, StopGrace,
                  StopAwait, ForceKill, StopFrame
    <2>2. ASSUME NEW p \in Proc, WaiterStep(p) \/ ChildExits(p) \/ ChildDies(p)
          PROVE  UNCHANGED <<pc, op, new, ret>>
      BY <2>2 DEF WaiterStep, WaitReturns, WaitFails, Untrack, CloseDone,
                  WaiterExits, ChildExits, ChildDies, callVars
    <2>3. ASSUME HealthRead \/ HealthAct \/ HealthExits
          PROVE  UNCHANGED <<pc, op, new, ret>>
      BY <2>3 DEF HealthRead, HealthAct, HealthExits, HealthFrame, callVars
    <2>4. ASSUME Terminated \/ UNCHANGED vars
          PROVE  UNCHANGED <<pc, op, new, ret>>
      BY <2>4 DEF Terminated, vars, callVars
    <2>5. QED
      BY <1>1, <1>2, <1>3, <1>4, <2>1, <2>2, <2>3, <2>4 DEF Next

LifeInv == OwnInv /\ ObjInv /\ StopInv

\* A step of a caller that owns no object, before or after, and that changes no
\* object, keeps what is known of the objects.
LEMMA Quiet ==
    ASSUME OwnInv, ObjInv, NEW c \in Caller, UNCHANGED procVars,
           ~Owns(c), ~Owns(c)',
           \A d \in Caller \ {c} : pc'[d] = pc[d] /\ new'[d] = new[d]
    PROVE  OwnInv' /\ ObjInv'
  <1>1. \A d \in Caller : Owns(d)' => Owns(d) /\ d # c /\ pc'[d] = pc[d] /\ new'[d] = new[d]
    BY DEF Owns
  <1>2. OwnInv'
    <2>1. \A d \in Caller : Owns(d)' =>
             waiter'[new'[d]] = "none" /\ ~done'[new'[d]]
      BY <1>1 DEF OwnInv, procVars
    <2>2. \A d \in Caller :
            /\ pc'[d] \in BeforeSpawn =>
                  state'[new'[d]] = "starting" /\ child'[new'[d]] = "none"
            /\ pc'[d] \in AfterFail =>
                  state'[new'[d]] = "failed" /\ child'[new'[d]] = "none"
            /\ pc'[d] \in AfterSpawn =>
                  state'[new'[d]] \in {"running", "stopping"} /\ child'[new'[d]] # "none"
      BY <1>1 DEF OwnInv, procVars, Owns
    <2>3. \A d, e \in Caller : Owns(d)' /\ Owns(e)' /\ new'[d] = new'[e] => d = e
      BY <1>1 DEF OwnInv
    <2>4. QED
      BY <2>1, <2>2, <2>3 DEF OwnInv, Owns
  <1>3. ASSUME NEW p \in Proc, NEW d \in Caller, pc[d] \in AfterSpawn, new[d] = p
        PROVE  pc'[d] \in AfterSpawn /\ new'[d] = p
    BY <1>3 DEF Owns
  <1>4. ObjInv'
    BY <1>3 DEF ObjInv, procVars, Exited
  <1>5. QED
    BY <1>2, <1>4

\* Entering a public call claims nothing: what is known of the objects stays.
LEMMA LifeBegin ==
    ASSUME TypeInv, LifeInv, NEW c \in Caller, BeginCall(c)
    PROVE  LifeInv'
  <1>1. /\ UNCHANGED procVars
        /\ pc[c] = "idle"
        /\ \A d \in Caller \ {c} : pc'[d] = pc[d] /\ new'[d] = new[d]
        /\ pc'[c] \in {"lookup", "ticket", "stopping", "launchstops", "once"}
    BY DEF TypeInv, BeginCall, BeginStart, BeginStartOrReuse, BeginRunSync,
           BeginRestart, BeginStop, BeginStopAll, BeginStopByPath,
           BeginShutdown, Begin, Goto
  <1>2. ~Owns(c) /\ ~Owns(c)'
    BY <1>1 DEF Owns, BeforeSpawn, AfterFail, AfterSpawn
  <1>3. UNCHANGED stop \/ \E p : StopGoto(c, p, "read")
    BY DEF BeginCall, BeginStart, BeginStartOrReuse, BeginRunSync,
           BeginRestart, BeginStop, BeginStopAll, BeginStopByPath, BeginShutdown
  <1>4. \A d \in Caller, q \in Proc : stop'[d][q] \in {stop[d][q], "read"}
    <2>1. ASSUME NEW p, StopGoto(c, p, "read"), NEW d \in Caller, NEW q \in Proc
          PROVE  stop'[d][q] \in {stop[d][q], "read"}
      <3>1. stop' = [stop EXCEPT ![c] = [stop[c] EXCEPT ![p] = "read"]]
        BY <2>1 DEF StopGoto
      <3>2. stop'[d] \in {stop[d], [stop[d] EXCEPT ![p] = "read"]}
        BY <3>1 DEF TypeInv
      <3>3. QED
        BY <3>2 DEF TypeInv
    <2>2. QED
      BY <1>3, <2>1
  <1>5. StopInv'
    BY <1>1, <1>4 DEF StopInv, procVars, LifeInv
  <1>6. QED
    BY <1>1, <1>2, <1>5, Quiet DEF LifeInv

\* The steps of Start that touch an object, up to the hand-over to its waiter.
LEMMA LifeStart ==
    ASSUME TypeInv, CallInv, LifeInv, NEW c \in Caller, StartStep(c)
    PROVE  LifeInv'
  <1> DEFINE p == new[c]
  <1> USE DEF LifeInv, Goto, Return, mgrVars, downVars, callVars, procVars
  <1>01. UNCHANGED <<new, stop>>
    BY DEF StartStep, TakeTicket, CasStarting, RegisterCheck, RegisterStore,
           Spawn, SpawnFails, Track, LaunchWaiter, FailState, FailUnregister,
           FailClose, ReleaseTicket
  <1>02. pc[c] \in StartPC \cup {"ticket"}
    BY DEF StartStep, TakeTicket, CasStarting, RegisterCheck, RegisterStore,
           Spawn, SpawnFails, Track, LaunchWaiter, FailState, FailUnregister,
           FailClose, ReleaseTicket, StartPC
  <1>0. p \in Proc /\ UNCHANGED <<new, stop>>
    BY <1>01, <1>02 DEF CallInv, StartsPC
  <1> USE DEF Owns, BeforeSpawn, AfterFail, AfterSpawn
  <1>1. CASE TakeTicket(c) \/ ReleaseTicket(c)
    <2>1. /\ UNCHANGED procVars
          /\ ~Owns(c) /\ ~Owns(c)'
          /\ \A d \in Caller \ {c} : pc'[d] = pc[d] /\ new'[d] = new[d]
      BY <1>1, <1>0 DEF TakeTicket, ReleaseTicket, TypeInv
    <2>2. StopInv'
      BY <1>0, <2>1 DEF StopInv
    <2>3. QED
      BY <2>1, <2>2, Quiet
  <1>2. CASE CasStarting(c)
    <2>0. pc[c] = "cas" /\ UNCHANGED <<done, child, waiter>>
      BY <1>2 DEF CasStarting
    <2>1. CASE state[p] = "pending"
      <3>1. state' = [state EXCEPT ![p] = "starting"] /\ pc' = [pc EXCEPT ![c] = "regcheck"]
        BY <1>2, <2>1 DEF CasStarting
      <3>2. OwnInv'
        BY <1>0, <2>0, <2>1, <3>1 DEF OwnInv, ObjInv, TypeInv
      <3>3. ObjInv'
        BY <1>0, <2>0, <2>1, <3>1 DEF OwnInv, ObjInv, TypeInv, Exited
      <3>4. StopInv'
        BY <1>0, <2>0, <2>1, <3>1 DEF OwnInv, StopInv, TypeInv
      <3>5. QED
        BY <3>2, <3>3, <3>4
    <2>2. CASE ~(state[p] = "pending")
      <3>1. UNCHANGED state /\ pc' = [pc EXCEPT ![c] = "release"]
        BY <1>2, <2>2 DEF CasStarting
      <3>2. OwnInv'
        BY <1>0, <2>0, <2>2, <3>1 DEF OwnInv, ObjInv, TypeInv
      <3>3. ObjInv'
        BY <1>0, <2>0, <2>2, <3>1 DEF OwnInv, ObjInv, TypeInv, Exited
      <3>4. StopInv'
        BY <1>0, <2>0, <2>2, <3>1 DEF OwnInv, StopInv, TypeInv
      <3>5. QED
        BY <3>2, <3>3, <3>4
    <2>3. QED
      BY <2>1, <2>2
  <1>3. CASE RegisterCheck(c)
    <2>0. pc[c] = "regcheck" /\ UNCHANGED <<done, child, waiter>>
      BY <1>3 DEF RegisterCheck
    <2>1. CASE shuttingDown
      <3>1. state' = [state EXCEPT ![p] = "pending"] /\ pc' = [pc EXCEPT ![c] = "release"]
        BY <1>3, <2>1 DEF RegisterCheck
      <3>2. OwnInv'
        BY <1>0, <2>0, <2>1, <3>1 DEF OwnInv, ObjInv, TypeInv
      <3>3. ObjInv'
        BY <1>0, <2>0, <2>1, <3>1 DEF OwnInv, ObjInv, TypeInv, Exited
      <3>4. StopInv'
        BY <1>0, <2>0, <2>1, <3>1 DEF OwnInv, StopInv, TypeInv
      <3>5. QED
        BY <3>2, <3>3, <3>4
    <2>2. CASE ~(shuttingDown)
      <3>1. UNCHANGED state /\ pc' = [pc EXCEPT ![c] = "regstore"]
        BY <1>3, <2>2 DEF RegisterCheck
      <3>2. OwnInv'
        BY <1>0, <2>0, <2>2, <3>1 DEF OwnInv, ObjInv, TypeInv
      <3>3. ObjInv'
        BY <1>0, <2>0, <2>2, <3>1 DEF OwnInv, ObjInv, TypeInv, Exited
      <3>4. StopInv'
        BY <1>0, <2>0, <2>2, <3>1 DEF OwnInv, StopInv, TypeInv
      <3>5. QED
        BY <3>2, <3>3, <3>4
    <2>3. QED
      BY <2>1, <2>2
  <1>4. CASE RegisterStore(c)
    <2>0. pc[c] = "regstore" /\ UNCHANGED <<done, child, waiter>>
      BY <1>4 DEF RegisterStore
    <2>1. CASE registry[KeyOf[p]] = NoProc
      <3>1. UNCHANGED state /\ pc' = [pc EXCEPT ![c] = "spawn"]
        BY <1>4, <2>1 DEF RegisterStore
      <3>2. OwnInv'
        BY <1>0, <2>0, <2>1, <3>1 DEF OwnInv, ObjInv, TypeInv
      <3>3. ObjInv'
        BY <1>0, <2>0, <2>1, <3>1 DEF OwnInv, ObjInv, TypeInv, Exited
      <3>4. StopInv'
        BY <1>0, <2>0, <2>1, <3>1 DEF OwnInv, StopInv, TypeInv
      <3>5. QED
        BY <3>2, <3>3, <3>4
    <2>2. CASE ~(registry[KeyOf[p]] = NoProc)
      <3>1. state' = [state EXCEPT ![p] = "pending"] /\ pc' = [pc EXCEPT ![c] = "release"]
        BY <1>4, <2>2 DEF RegisterStore
      <3>2. OwnInv'
        BY <1>0, <2>0, <2>2, <3>1 DEF OwnInv, ObjInv, TypeInv
      <3>3. ObjInv'
        BY <1>0, <2>0, <2>2, <3>1 DEF OwnInv, ObjInv, TypeInv, Exited
      <3>4. StopInv'
        BY <1>0, <2>0, <2>2, <3>1 DEF OwnInv, StopInv, TypeInv
      <3>5. QED
        BY <3>2, <3>3, <3>4
    <2>3. QED
      BY <2>1, <2>2
  <1>5. CASE Spawn(c)
    <2>1. OwnInv'
      BY <1>0, <1>5 DEF Spawn, OwnInv, ObjInv, TypeInv, Exited
    <2>2. ObjInv'
      BY <1>0, <1>5 DEF Spawn, OwnInv, ObjInv, TypeInv, Exited
    <2>3. StopInv'
      BY <1>0, <1>5 DEF Spawn, OwnInv, ObjInv, StopInv, TypeInv
    <2>4. QED
      BY <2>1, <2>2, <2>3
  <1>6. CASE SpawnFails(c)
    <2>1. OwnInv'
      BY <1>0, <1>6 DEF SpawnFails, OwnInv, ObjInv, TypeInv, Exited
    <2>2. ObjInv'
      BY <1>0, <1>6 DEF SpawnFails, OwnInv, ObjInv, TypeInv, Exited
    <2>3. StopInv'
      BY <1>0, <1>6 DEF SpawnFails, OwnInv, ObjInv, StopInv, TypeInv
    <2>4. QED
      BY <2>1, <2>2, <2>3
  <1>7. CASE Track(c)
    <2>1. OwnInv'
      BY <1>0, <1>7 DEF Track, OwnInv, ObjInv, TypeInv, Exited
    <2>2. ObjInv'
      BY <1>0, <1>7 DEF Track, OwnInv, ObjInv, TypeInv, Exited
    <2>3. StopInv'
      BY <1>0, <1>7 DEF Track, OwnInv, ObjInv, StopInv, TypeInv
    <2>4. QED
      BY <2>1, <2>2, <2>3
  <1>8. CASE LaunchWaiter(c)
    <2>1. /\ pc[c] = "launch"
          /\ waiter' = [waiter EXCEPT ![p] = "wait"]
          /\ UNCHANGED <<state, done, child>>
          /\ \E l \in {"awaitrun", "returned"} : pc' = [pc EXCEPT ![c] = l]
      BY <1>8 DEF LaunchWaiter
    <2>2. OwnInv'
      BY <1>0, <2>1 DEF OwnInv, TypeInv
    <2>3. ObjInv'
      BY <1>0, <2>1 DEF OwnInv, ObjInv, TypeInv, Exited
    <2>4. StopInv'
      BY <1>0, <2>1 DEF StopInv
    <2>5. QED
      BY <2>2, <2>3, <2>4
  <1>9. CASE FailState(c)
    <2>1. OwnInv'
      BY <1>0, <1>9 DEF FailState, OwnInv, ObjInv, TypeInv, Exited
    <2>2. ObjInv'
      BY <1>0, <1>9 DEF FailState, OwnInv, ObjInv, TypeInv, Exited
    <2>3. StopInv'
      BY <1>0, <1>9 DEF FailState, OwnInv, ObjInv, StopInv, TypeInv
    <2>4. QED
      BY <2>1, <2>2, <2>3
  <1>10. CASE FailUnregister(c)
    <2>1. OwnInv'
      BY <1>0, <1>10 DEF FailUnregister, OwnInv, ObjInv, TypeInv, Exited
    <2>2. ObjInv'
      BY <1>0, <1>10 DEF FailUnregister, OwnInv, ObjInv, TypeInv, Exited
    <2>3. StopInv'
      BY <1>0, <1>10 DEF FailUnregister, OwnInv, ObjInv, StopInv, TypeInv
    <2>4. QED
      BY <2>1, <2>2, <2>3
  <1>11. CASE FailClose(c)
    <2>1. OwnInv'
      BY <1>0, <1>11 DEF FailClose, OwnInv, ObjInv, TypeInv, Exited
    <2>2. ObjInv'
      BY <1>0, <1>11 DEF FailClose, OwnInv, ObjInv, TypeInv, Exited
    <2>3. StopInv'
      BY <1>0, <1>11 DEF FailClose, OwnInv, ObjInv, StopInv, TypeInv
    <2>4. QED
      BY <2>1, <2>2, <2>3
  <1>12. QED
    BY <1>1, <1>2, <1>3, <1>4, <1>5, <1>6, <1>7, <1>8, <1>9, <1>10, <1>11
    DEF StartStep

\* A SIGKILL neither creates a process nor brings one back to life.
LEMMA KillFacts ==
    ASSUME TypeInv, NEW p \in Proc, NEW o \in KillOutcomes(p)
    PROVE  /\ o \in Child
           /\ o = "none" <=> child[p] = "none"
           /\ Exited(p) => o \in {"exit0", "exit1"}
  BY DEF TypeInv, KillOutcomes, Child, Exited

\* The steps of the calls built on Start and StopProcess.
LEMMA LifeCall ==
    ASSUME TypeInv, CallInv, LifeInv, NEW c \in Caller,
           CallStep(c), ~StartStep(c)
    PROVE  LifeInv'
  <1> USE DEF LifeInv
  <1>1. ASSUME UNCHANGED procVars, UNCHANGED <<new, stop>>,
               ~Owns(c), ~Owns(c)',
               \A d \in Caller \ {c} : pc'[d] = pc[d]
        PROVE  LifeInv'
    <2>1. StopInv'
      BY <1>1 DEF StopInv, procVars
    <2>2. QED
      BY <1>1, <2>1, Quiet
  <1> USE DEF Goto, Return, mgrVars, downVars, callVars
  <1> USE DEF Owns, BeforeSpawn, AfterFail, AfterSpawn
  <1>2. CASE Lookup(c)
    BY <1>1, <1>2 DEF Lookup, TypeInv
  <1>3. CASE ReadOld(c) \/ WaitOld(c)
    BY <1>1, <1>3 DEF ReadOld, WaitOld, TypeInv
  <1>4. CASE RemoveOld(c)
    BY <1>1, <1>4 DEF RemoveOld, TypeInv
  <1>5. CASE StopReturns(c)
    BY <1>1, <1>5 DEF StopReturns, TypeInv
  <1>6. CASE RunRemove(c)
    BY <1>1, <1>6 DEF RunRemove, TypeInv
  <1>7. CASE Drain(c)
    BY <1>1, <1>7 DEF Drain, TypeInv
  <1>8. CASE RemoveAll(c)
    BY <1>1, <1>8 DEF RemoveAll, TypeInv
  <1>9. CASE ShutdownOnce(c)
    BY <1>1, <1>9 DEF ShutdownOnce, TypeInv
  <1>10. CASE ShutdownWait(c)
    BY <1>1, <1>10 DEF ShutdownWait, TypeInv
  <1>11. CASE AwaitRun(c)
    <2>1. /\ UNCHANGED <<procVars, new>>
          /\ ~Owns(c) /\ ~Owns(c)'
          /\ \A d \in Caller \ {c} : pc'[d] = pc[d]
      BY <1>11 DEF AwaitRun, TypeInv
    <2>2. new[c] \in Proc
      BY <1>11 DEF AwaitRun, CallInv, StartsPC
    <2>3. UNCHANGED stop \/ stop' = [stop EXCEPT ![c] = [stop[c] EXCEPT ![new[c]] = "read"]]
      BY <1>11 DEF AwaitRun, StopGoto
    <2>4. StopInv'
      BY <2>1, <2>2, <2>3 DEF StopInv, procVars, TypeInv
    <2>5. QED
      BY <2>1, <2>4, Quiet
  <1>12. CASE LaunchStops(c)
    <2>1. /\ UNCHANGED <<procVars, new>>
          /\ ~Owns(c) /\ ~Owns(c)'
          /\ \A d \in Caller \ {c} : pc'[d] = pc[d]
      BY <1>12 DEF LaunchStops, TypeInv
    <2>2. StopInv'
      BY <1>12, <2>1 DEF LaunchStops, StopInv, procVars, TypeInv
    <2>3. QED
      BY <2>1, <2>2, Quiet
  <1>13. CASE ShutdownRange(c)
    <2>1. /\ UNCHANGED <<procVars, new>>
          /\ ~Owns(c) /\ ~Owns(c)'
          /\ \A d \in Caller \ {c} : pc'[d] = pc[d]
      BY <1>13 DEF ShutdownRange, TypeInv
    <2>2. StopInv'
      BY <1>13, <2>1 DEF ShutdownRange, StopInv, procVars, TypeInv
    <2>3. QED
      BY <2>1, <2>2, Quiet
  <1>14. CASE StopsReturn(c)
    <2>1. /\ UNCHANGED <<done, waiter, new, stop>>
          /\ ~Owns(c) /\ ~Owns(c)'
          /\ \A d \in Caller \ {c} : pc'[d] = pc[d]
      BY <1>14 DEF StopsReturn, TypeInv
    <2>2. CASE UNCHANGED <<state, child>>
      BY <1>1, <2>1, <2>2 DEF procVars
    <2>3. CASE \E ps : ForceKillAll(ps)
      <3>1. \A q \in Proc :
              /\ \/ state'[q] = state[q] /\ child'[q] = child[q]
                 \/ state[q] = "running" /\ state'[q] = "stopping"
              /\ child'[q] = "none" <=> child[q] = "none"
              /\ Exited(q) => Exited(q)'
        BY <2>3, KillFacts DEF ForceKillAll, Exited
      <3>2. \A d \in Caller : Owns(d)' => Owns(d) /\ d # c /\ pc'[d] = pc[d] /\ new[d] \in Proc
        BY <2>1 DEF CallInv, StartsPC, StartPC
      <3>3. OwnInv'
        BY <2>1, <3>1, <3>2 DEF OwnInv
      <3>4. ObjInv'
        <4>1. \A d \in Caller : pc[d] \in AfterSpawn =>
                 pc'[d] \in AfterSpawn /\ new'[d] = new[d]
          BY <2>1
        <4>2. ASSUME NEW q \in Proc, state[q] = "running", state'[q] = "stopping"
              PROVE  child[q] # "none" /\ ~done[q]
          BY <4>2 DEF ObjInv
        <4>3. QED
          BY <2>1, <3>1, <4>1, <4>2 DEF ObjInv, Terminal
      <3>5. StopInv'
        BY <2>1, <3>1 DEF StopInv
      <3>6. QED
        BY <3>3, <3>4, <3>5
    <2>4. QED
      BY <1>14, <2>2, <2>3 DEF StopsReturn
  <1>15. QED
    BY <1>2, <1>3, <1>4, <1>5, <1>6, <1>7, <1>8, <1>9, <1>10, <1>11, <1>12,
       <1>13, <1>14 DEF CallStep

\* StopProcess and forceKill only work on an object that was spawned.
LEMMA LifeStop ==
    ASSUME TypeInv, CallInv, LifeInv, NEW c \in Caller, NEW p \in Proc,
           StopStep(c, p)
    PROVE  LifeInv'
  <1> USE DEF LifeInv
  <1>1. UNCHANGED <<done, waiter, pc, new>>
    BY DEF StopStep, StopRead, StopCas, StopSignal, StopGrace, StopAwait,
           ForceKill, StopFrame
  <1>2. \A q \in Proc :
           /\ \/ state'[q] = state[q]
              \/ state[q] = "running" /\ state'[q] = "stopping"
           /\ child'[q] = "none" <=> child[q] = "none"
           /\ Exited(q) => Exited(q)'
    <2>1. CASE UNCHANGED <<state, child>>
      BY <2>1 DEF Exited
    <2>2. CASE StopCas(c, p)
      BY <2>2 DEF StopCas, Exited, TypeInv
    <2>3. CASE ForceKill(c, p)
      <3>1. state[p] \notin {"pending", "starting"}
        BY <2>3 DEF ForceKill, StopInv
      <3>2. \A q \in Proc :
               \/ state'[q] = state[q]
               \/ state[q] = "running" /\ state'[q] = "stopping"
        <4>1. state' = [state EXCEPT ![p] = IF state[p] \in Terminal
                                            THEN state[p] ELSE "stopping"]
          BY <2>3 DEF ForceKill
        <4>2. state \in [Proc -> State]
          BY DEF TypeInv
        <4>3. QED
          BY <3>1, <4>1, <4>2 DEF State, Terminal
      <3>3. PICK o \in KillOutcomes(p) : child' = [child EXCEPT ![p] = o]
        BY <2>3 DEF ForceKill
      <3>4. QED
        BY <3>2, <3>3, KillFacts DEF TypeInv, Exited
    <2>4. QED
      BY <2>1, <2>2, <2>3
      DEF StopStep, StopRead, StopSignal, StopGrace, StopAwait
  <1>3. OwnInv'
    <2>1. \A d \in Caller : Owns(d) => new[d] \in Proc
      BY DEF CallInv, StartsPC, StartPC, Owns, BeforeSpawn, AfterFail, AfterSpawn
    <2>2. QED
      BY <1>1, <1>2, <2>1 DEF OwnInv, Owns
  <1>4. ObjInv'
    BY <1>1, <1>2 DEF ObjInv, Terminal
  <1>5. StopInv'
    <2>1. \A d \in Caller, q \in Proc :
             \/ stop'[d][q] = stop[d][q]
             \/ d = c /\ q = p
      BY DEF StopStep, StopRead, StopCas, StopSignal, StopGrace, StopAwait,
             ForceKill, StopGoto, TypeInv
    <2>2. CASE stop'[c][p] \in {"signal", "grace", "await", "kill"}
      <3>1. state'[p] \notin {"pending", "starting"}
        BY <1>2, <2>2
        DEF StopStep, StopRead, StopCas, StopSignal, StopGrace, StopAwait,
            ForceKill, StopGoto, TypeInv, StopInv
      <3>2. QED
        BY <1>2, <2>1, <3>1 DEF StopInv
    <2>3. QED
      BY <1>2, <2>1, <2>2 DEF StopInv
  <1>6. QED
    BY <1>3, <1>4, <1>5

\* A waiter settles its own object; the operating system and the health loop
\* change no state that anybody else relies on.
LEMMA LifeRest ==
    ASSUME TypeInv, CallInv, LifeInv,
           \/ \E c \in Caller : CtxExpires(c)
           \/ \E p \in Proc : WaiterStep(p) \/ ChildExits(p) \/ ChildDies(p)
           \/ HealthRead \/ HealthAct \/ HealthExits
    PROVE  LifeInv'
  <1> USE DEF LifeInv
  <1>0. \A c \in Caller : Owns(c) => new[c] \in Proc
    BY DEF CallInv, StartsPC, StartPC, Owns, BeforeSpawn, AfterFail, AfterSpawn
  <1>1. ASSUME UNCHANGED <<procVars, pc, new, stop>> PROVE LifeInv'
    BY <1>1 DEF OwnInv, ObjInv, StopInv, Owns, Exited, procVars
  <1>2. ASSUME NEW p \in Proc, WaiterStep(p) \/ ChildExits(p) \/ ChildDies(p)
        PROVE  LifeInv'
    <2>1. UNCHANGED <<pc, new, stop>>
      BY <1>2 DEF WaiterStep, WaitReturns, WaitFails, Untrack, CloseDone,
                  WaiterExits, ChildExits, ChildDies, callVars
    <2>2. CASE ChildExits(p) \/ ChildDies(p)
      <3>1. /\ UNCHANGED <<state, done, waiter>>
            /\ \A q \in Proc : /\ child'[q] = "none" <=> child[q] = "none"
                               /\ Exited(q) => Exited(q)'
        BY <2>2 DEF ChildExits, ChildDies, TypeInv, Exited
      <3>2. OwnInv'
        BY <1>0, <2>1, <3>1 DEF OwnInv, Owns
      <3>3. ObjInv' /\ StopInv'
        BY <2>1, <3>1 DEF ObjInv, StopInv
      <3>4. QED
        BY <3>2, <3>3
    <2>3. CASE WaiterStep(p)
      <3>1. /\ waiter[p] \notin {"none", "gone"}
            /\ UNCHANGED child
            /\ \A q \in Proc \ {p} : /\ state'[q] = state[q]
                                     /\ done'[q] = done[q]
                                     /\ waiter'[q] = waiter[q]
        BY <2>3 DEF WaiterStep, WaitReturns, WaitFails, Untrack, CloseDone,
                    WaiterExits, TypeInv
      <3>2. \A c \in Caller : Owns(c) => new[c] # p
        BY <3>1 DEF OwnInv
      <3>3. OwnInv'
        BY <1>0, <2>1, <3>1, <3>2
        DEF OwnInv, Owns, BeforeSpawn, AfterFail, AfterSpawn
      <3>4. \/ /\ waiter[p] = "wait" /\ Exited(p)
               /\ waiter'[p] = "settled" /\ state'[p] = "stopped"
               /\ done'[p] = done[p]
            \/ /\ waiter[p] = "wait" /\ Exited(p)
               /\ waiter'[p] = "failing" /\ state'[p] = state[p]
               /\ done'[p] = done[p]
            \/ /\ waiter[p] = "failing" /\ waiter'[p] = "settled"
               /\ state'[p] = "failed" /\ done'[p] = done[p]
            \/ /\ waiter[p] = "settled" /\ waiter'[p] = "untracked"
               /\ state'[p] = state[p] /\ done'[p] = done[p]
            \/ /\ waiter[p] = "untracked" /\ waiter'[p] = "closed"
               /\ state'[p] = state[p] /\ done'[p] = TRUE
            \/ /\ waiter[p] = "closed" /\ waiter'[p] = "gone"
               /\ state'[p] = state[p] /\ done'[p] = done[p]
        BY <2>3 DEF WaiterStep, WaitReturns, WaitFails, Untrack, CloseDone,
                    WaiterExits, TypeInv
      <3>5. ObjInv'
        BY <2>1, <3>1, <3>4 DEF ObjInv, Exited, Terminal
      <3>6. StopInv'
        BY <2>1, <3>1, <3>4 DEF StopInv
      <3>7. QED
        BY <3>3, <3>5, <3>6
    <2>4. QED
      BY <1>2, <2>2, <2>3
  <1>3. CASE HealthAct
    <2>1. UNCHANGED state
      BY <1>3 DEF HealthAct, TypeInv, ObjInv
    <2>2. QED
      BY <1>1, <1>3, <2>1 DEF HealthAct, HealthFrame, procVars, callVars
  <1>4. QED
    BY <1>1, <1>2, <1>3
    DEF CtxExpires, HealthRead, HealthExits, HealthFrame, procVars, callVars

\* Initially no object is owned, spawned or being stopped.
LEMMA IInvInit == Init => IInv
  BY TypeInit DEF Init, IInv, CallInv, OwnInv, ObjInv, StopInv, Owns,
                  BeforeSpawn, AfterFail, AfterSpawn, StartsPC, ShutsPC,
                  StartPC, Exited, Terminal

\* Every step, of a caller, a waiter, the system or the health loop, keeps IInv.
LEMMA IInvStep == IInv /\ [Next]_vars => IInv'
  <1> SUFFICES ASSUME IInv, [Next]_vars PROVE IInv'
    OBVIOUS
  <1>1. TypeInv' /\ CallInv'
    BY TypeStep, CallInvStep DEF IInv
  <1>2. CASE Terminated \/ UNCHANGED vars
    BY <1>1, <1>2
    DEF IInv, Terminated, vars, procVars, callVars, OwnInv, ObjInv, StopInv,
        Owns, Exited
  <1>3. LifeInv'
    BY <1>2, LifeBegin, LifeStart, LifeCall, LifeStop, LifeRest
    DEF Next, IInv, LifeInv
  <1>4. QED
    BY <1>1, <1>3 DEF IInv, LifeInv

\* From the CAS that claims it to the hand-over to its waiter an object has one
\* owner, and its state, child and done channel agree with who has it.
THEOREM Inductive == Spec => []IInv
  BY IInvInit, IInvStep, PTL DEF Spec

-----------------------------------------------------------------------------
(* What the invariant gives. *)

\* The done channel of an object is closed at most once: failStart closes it
\* only while it owns the object, waitForProcess only after the hand-over.
THEOREM ClosedOnce == Spec => []DoneClosedOnce
  <1>1. IInv => DoneClosedOnce
    BY DEF IInv, OwnInv, ObjInv, DoneClosedOnce, Owns, BeforeSpawn, AfterFail,
           AfterSpawn
  <1>2. QED
    BY <1>1, Inductive, PTL

\* Whoever is woken by done (a second StopProcess, StartOrReuse, RunSync, the
\* health check) reads a terminal state and its process has exited.
THEOREM WokenAfterTheEnd == Spec => []DoneMeansOver
  <1>1. IInv => DoneMeansOver
    <2>1. ASSUME IInv, NEW p \in Proc, done[p]
          PROVE  state[p] \in Terminal /\ (Exited(p) \/ child[p] = "none")
      <3>1. state[p] \in State /\ waiter[p] \in Waiter
        BY <2>1 DEF IInv, TypeInv
      <3>2. state[p] \in Terminal
        BY <2>1, <3>1 DEF IInv, ObjInv, State
      <3>3. Exited(p) \/ child[p] = "none"
        BY <2>1, <3>1 DEF IInv, ObjInv, Waiter
      <3>4. QED
        BY <3>2, <3>3
    <2>2. QED
      BY <2>1 DEF DoneMeansOver
  <1>2. QED
    BY <1>1, Inductive, PTL

\* How one step may change the state of an object, whoever takes it.
Moves(p) ==
    \/ state'[p] = state[p]
    \/ state[p] = "pending" /\ state'[p] = "starting"
    \/ state[p] = "starting" /\ state'[p] \in {"pending", "running", "failed"}
    \/ state[p] = "running" /\ state'[p] = "stopping"
    \/ /\ state[p] \in {"running", "stopping"}
       /\ \/ waiter[p] = "wait" /\ state'[p] = "stopped"
          \/ waiter[p] = "failing" /\ state'[p] = "failed"

\* What one step may do to the state of an object.
LEMMA StateStep ==
    ASSUME IInv, [Next]_vars, NEW p \in Proc
    PROVE  Moves(p)
  <1> USE DEF IInv
  <1>1. CASE UNCHANGED <<state, child>>
    BY <1>1 DEF Moves
  <1>2. ASSUME NEW c \in Caller, StartStep(c) PROVE Moves(p)
    <2> USE DEF OwnInv, Owns, BeforeSpawn, AfterFail, AfterSpawn, TypeInv
    <2>1. CASE CasStarting(c)
      BY <1>1, <2>1 DEF CasStarting, Moves
    <2>2. CASE RegisterCheck(c)
      BY <1>1, <2>2 DEF RegisterCheck, Moves
    <2>3. CASE RegisterStore(c)
      <3>1. UNCHANGED child
        BY <2>3 DEF RegisterStore
      <3>2. state[new[c]] = "starting"
        BY <2>3 DEF RegisterStore
      <3>3. UNCHANGED state \/ state' = [state EXCEPT ![new[c]] = "pending"]
        BY <2>3 DEF RegisterStore
      <3>4. QED
        BY <3>1, <3>2, <3>3 DEF Moves
    <2>4. CASE Spawn(c)
      BY <2>4 DEF Spawn, Moves
    <2>5. CASE FailState(c)
      BY <2>5 DEF FailState, Moves
    <2>6. QED
      BY <1>1, <1>2, <2>1, <2>2, <2>3, <2>4, <2>5
      DEF StartStep, TakeTicket, SpawnFails, Track, LaunchWaiter,
          FailUnregister, FailClose, ReleaseTicket, procVars
  <1>3. ASSUME NEW c \in Caller, StopsReturn(c) PROVE Moves(p)
    <2>1. CASE \E ps : ForceKillAll(ps)
      BY <2>1, KillFacts DEF ForceKillAll, Moves
    <2>2. QED
      BY <1>1, <1>3, <2>1 DEF StopsReturn
  <1>4. ASSUME NEW c \in Caller, NEW q \in Proc, StopStep(c, q)
        PROVE  Moves(p)
    <2>1. CASE StopCas(c, q)
      BY <2>1 DEF StopCas, Moves, TypeInv
    <2>2. CASE ForceKill(c, q)
      <3>1. state[q] \in {"running", "stopping"} \cup Terminal
        BY <2>2 DEF ForceKill, StopInv, TypeInv, State
      <3>2. state' = [state EXCEPT ![q] = IF state[q] \in Terminal
                                          THEN state[q] ELSE "stopping"]
        BY <2>2 DEF ForceKill
      <3>3. QED
        BY <3>1, <3>2 DEF Moves, TypeInv
    <2>3. QED
      BY <1>1, <1>4, <2>1, <2>2
      DEF StopStep, StopRead, StopSignal, StopGrace, StopAwait
  <1>5. ASSUME NEW q \in Proc, WaiterStep(q) \/ ChildExits(q) \/ ChildDies(q)
        PROVE  Moves(p)
    <2>1. CASE WaitReturns(q)
      BY <1>1, <2>1 DEF WaitReturns, ObjInv, Moves, TypeInv
    <2>2. CASE WaitFails(q)
      BY <2>2 DEF WaitFails, ObjInv, Moves, TypeInv
    <2>3. CASE ChildExits(q) \/ ChildDies(q)
      BY <2>3 DEF ChildExits, ChildDies, Moves, TypeInv
    <2>4. QED
      BY <1>1, <1>5, <2>1, <2>2, <2>3
      DEF WaiterStep, Untrack, CloseDone, WaiterExits
  <1>6. CASE HealthAct
    BY <1>1, <1>6 DEF HealthAct, HealthFrame, TypeInv, ObjInv
  <1>7. ASSUME NEW c \in Caller, BeginCall(c) \/ CtxExpires(c)
        PROVE  UNCHANGED <<state, child>>
    BY <1>7 DEF BeginCall, BeginStart, BeginStartOrReuse, BeginRunSync,
                BeginRestart, BeginStop, BeginStopAll, BeginStopByPath,
                BeginShutdown, Begin, CtxExpires, procVars
  <1>8. ASSUME NEW c \in Caller, CallStep(c), ~StartStep(c), ~StopsReturn(c)
        PROVE  UNCHANGED <<state, child>>
    BY <1>8 DEF CallStep, Lookup, ReadOld, WaitOld, RemoveOld, StopReturns, AwaitRun,
                RunRemove, LaunchStops, Drain, RemoveAll, ShutdownOnce,
                ShutdownRange, ShutdownWait, procVars
  <1>9. ASSUME HealthRead \/ HealthExits \/ Terminated \/ UNCHANGED vars
        PROVE  UNCHANGED <<state, child>>
    BY <1>9 DEF HealthRead, HealthExits, HealthFrame, Terminated, vars, procVars
  <1>10. QED
    BY <1>1, <1>2, <1>3, <1>4, <1>5, <1>6, <1>7, <1>8, <1>9 DEF Next, CallStep

\* No late stop, health check or force kill overwrites a terminal state.
THEOREM FinalForGood == Spec => TerminalIsFinal
  <1>1. IInv /\ [Next]_vars =>
           [\A p \in Proc : state[p] \in Terminal => state'[p] = state[p]]_vars
    BY StateStep DEF Moves, Terminal
  <1>2. QED
    BY <1>1, Inductive, PTL DEF Spec, TerminalIsFinal

\* An object that a stop has marked Stopping settles to Failed only when its
\* process had failed before.
THEOREM StopsAreNotFailures == Spec => StopIsNoFailure
  <1>1. IInv /\ [Next]_vars =>
           [\A p \in Proc : state[p] = "stopping" /\ state'[p] = "failed"
                                => waiter[p] = "failing"]_vars
    BY StateStep DEF Moves
  <1>2. QED
    BY <1>1, Inductive, PTL DEF Spec, StopIsNoFailure

-----------------------------------------------------------------------------
(* Counting. *)

\* totalFailed rises with the set of Failed objects, one at a time.
FailMoves ==
    \/ /\ UNCHANGED totalFailed
       /\ \A p \in Proc : state'[p] = "failed" <=> state[p] = "failed"
    \/ /\ totalFailed' = totalFailed + 1
       /\ \E q \in Proc : state[q] # "failed" /\ state' = [state EXCEPT ![q] = "failed"]

\* The failure counter moves exactly when an object becomes Failed.
LEMMA FailStep == IInv /\ [Next]_vars => FailMoves
  <1> SUFFICES ASSUME IInv, [Next]_vars PROVE FailMoves
    OBVIOUS
  <1> USE DEF IInv
  <1>1. CASE UNCHANGED <<state, totalFailed>>
    BY <1>1 DEF FailMoves
  <1>2. ASSUME NEW c \in Caller, StartStep(c) PROVE FailMoves
    <2> USE DEF OwnInv, Owns, BeforeSpawn, AfterFail, AfterSpawn, TypeInv, mgrVars
    <2>1. CASE CasStarting(c)
      BY <1>1, <2>1 DEF CasStarting, FailMoves
    <2>2. CASE RegisterCheck(c)
      BY <1>1, <2>2 DEF RegisterCheck, FailMoves
    <2>3. CASE RegisterStore(c)
      <3>1. UNCHANGED totalFailed
        BY <2>3 DEF RegisterStore
      <3>2. state[new[c]] = "starting"
        BY <2>3 DEF RegisterStore
      <3>3. UNCHANGED state \/ state' = [state EXCEPT ![new[c]] = "pending"]
        BY <2>3 DEF RegisterStore
      <3>4. QED
        BY <3>1, <3>2, <3>3 DEF FailMoves
    <2>4. CASE Spawn(c)
      BY <2>4 DEF Spawn, FailMoves
    <2>5. CASE FailState(c)
      <3>1. state[new[c]] = "starting" /\ new[c] \in Proc
        BY <2>5 DEF FailState, CallInv, StartsPC, StartPC
      <3>2. QED
        BY <2>5, <3>1 DEF FailState, FailMoves
    <2>6. QED
      BY <1>1, <1>2, <2>1, <2>2, <2>3, <2>4, <2>5
      DEF StartStep, TakeTicket, SpawnFails, Track, LaunchWaiter,
          FailUnregister, FailClose, ReleaseTicket, procVars
  <1>3. ASSUME NEW c \in Caller, StopsReturn(c) PROVE FailMoves
    <2>1. CASE \E ps : ForceKillAll(ps)
      BY <1>3, <2>1 DEF StopsReturn, ForceKillAll, FailMoves, mgrVars
    <2>2. QED
      BY <1>1, <1>3, <2>1 DEF StopsReturn, mgrVars
  <1>4. ASSUME NEW c \in Caller, NEW q \in Proc, StopStep(c, q)
        PROVE  FailMoves
    <2>1. CASE StopCas(c, q)
      BY <2>1 DEF StopCas, StopFrame, FailMoves, TypeInv, mgrVars
    <2>2. CASE ForceKill(c, q)
      <3>1. state' = [state EXCEPT ![q] = IF state[q] \in Terminal
                                          THEN state[q] ELSE "stopping"]
        BY <2>2 DEF ForceKill
      <3>2. UNCHANGED totalFailed
        BY <2>2 DEF ForceKill, StopFrame, mgrVars
      <3>3. QED
        BY <3>1, <3>2 DEF FailMoves, TypeInv, Terminal
    <2>3. QED
      BY <1>1, <1>4, <2>1, <2>2
      DEF StopStep, StopRead, StopSignal, StopGrace, StopAwait, StopFrame, mgrVars
  <1>5. ASSUME NEW q \in Proc, WaiterStep(q) \/ ChildExits(q) \/ ChildDies(q)
        PROVE  FailMoves
    <2>1. CASE WaitReturns(q)
      BY <1>1, <2>1 DEF WaitReturns, ObjInv, FailMoves, TypeInv, mgrVars
    <2>2. CASE WaitFails(q)
      BY <2>2 DEF WaitFails, ObjInv, FailMoves, TypeInv
    <2>3. QED
      BY <1>1, <1>5, <2>1, <2>2
      DEF WaiterStep, Untrack, CloseDone, WaiterExits, ChildExits, ChildDies, mgrVars
  <1>6. CASE HealthAct
    BY <1>1, <1>6 DEF HealthAct, HealthFrame, TypeInv, ObjInv
  <1>7. ASSUME NEW c \in Caller, BeginCall(c) \/ CtxExpires(c)
        PROVE  UNCHANGED <<state, totalFailed>>
    BY <1>7 DEF BeginCall, BeginStart, BeginStartOrReuse, BeginRunSync,
                BeginRestart, BeginStop, BeginStopAll, BeginStopByPath,
                BeginShutdown, Begin, CtxExpires, procVars, mgrVars
  <1>8. ASSUME NEW c \in Caller, CallStep(c), ~StartStep(c), ~StopsReturn(c)
        PROVE  UNCHANGED <<state, totalFailed>>
    BY <1>8 DEF CallStep, Lookup, ReadOld, WaitOld, RemoveOld, StopReturns, AwaitRun,
                RunRemove, LaunchStops, Drain, RemoveAll, ShutdownOnce,
                ShutdownRange, ShutdownWait, procVars, mgrVars
  <1>9. ASSUME HealthRead \/ HealthExits \/ Terminated \/ UNCHANGED vars
        PROVE  UNCHANGED <<state, totalFailed>>
    BY <1>9 DEF HealthRead, HealthExits, HealthFrame, Terminated, vars, procVars,
                mgrVars
  <1>10. QED
    BY <1>1, <1>2, <1>3, <1>4, <1>5, <1>6, <1>7, <1>8, <1>9 DEF Next, CallStep

\* totalFailed is the number of Failed objects, whichever of failStart and
\* waitForProcess counted each.
THEOREM FailuresCounted == Spec => []FailedCountExact
  <1>1. Init => FailedCountExact
    BY ZenonT(60), FS_EmptySet DEF Init, FailedCountExact
  <1>2. IInv /\ FailedCountExact /\ [Next]_vars => FailedCountExact'
    <2> SUFFICES ASSUME IInv, FailedCountExact, FailMoves PROVE FailedCountExact'
      BY FailStep
    <2> DEFINE F == {p \in Proc : state[p] = "failed"}
    <2>1. IsFiniteSet(F)
      BY ConstantsAssumption, FS_Subset DEF ConstantsAssumption
    <2>2. Cardinality(F) \in Nat
      BY <2>1, FS_CardinalityType
    <2>3. ASSUME NEW q \in Proc, state[q] # "failed",
                 state' = [state EXCEPT ![q] = "failed"],
                 totalFailed' = totalFailed + 1
          PROVE  FailedCountExact'
      <3>1. F' = F \cup {q} /\ q \notin F
        BY <2>3 DEF IInv, TypeInv
      <3>2. Cardinality(F') = Cardinality(F) + 1
        BY <2>1, <3>1, FS_AddElement
      <3>3. QED
        BY <2>3, <3>2 DEF FailedCountExact
    <2>4. QED
      <3>1. CASE /\ UNCHANGED totalFailed
                /\ \A p \in Proc : state'[p] = "failed" <=> state[p] = "failed"
        <4>1. F' = F
          BY <3>1
        <4>2. QED
          BY <3>1, <4>1 DEF FailedCountExact
      <3>2. QED
        BY <2>3, <3>1 DEF FailMoves
  <1>3. QED
    BY <1>1, <1>2, Inductive, PTL DEF Spec

\* How one step may move the tickets of pm.wg.
SameStarting == Starting' = Starting
SameWaiting == Waiting' = Waiting
Tickets ==
    \/ UNCHANGED <<wg, health.live>> /\ SameStarting /\ SameWaiting
    \/ /\ wg' = wg + 1 /\ ~shuttingDown
       /\ \E c \in Caller \ Starting : Starting' = Starting \cup {c}
       /\ SameWaiting /\ UNCHANGED health.live
    \/ /\ wg' = wg - 1
       /\ \E c \in Starting : Starting' = Starting \ {c}
       /\ SameWaiting /\ UNCHANGED health.live
    \/ /\ UNCHANGED wg
       /\ \E c \in Starting : Starting' = Starting \ {c}
       /\ \E p \in Proc \ Waiting : Waiting' = Waiting \cup {p}
       /\ UNCHANGED health.live
    \/ /\ wg' = wg - 1
       /\ \E p \in Waiting : Waiting' = Waiting \ {p}
       /\ SameStarting /\ UNCHANGED health.live
    \/ /\ wg' = wg - 1
       /\ health.live /\ ~health'.live
       /\ SameStarting /\ SameWaiting

\* Each step takes a ticket of pm.wg, gives one back, or hands one over.
LEMMA TicketStep == IInv /\ [Next]_vars => Tickets
  <1> SUFFICES ASSUME IInv, [Next]_vars PROVE Tickets
    OBVIOUS
  <1> USE DEF IInv, Goto, Return, SameStarting, SameWaiting
  <1>1. ASSUME UNCHANGED <<wg, health, waiter>>, SameStarting PROVE Tickets
    BY <1>1 DEF Tickets, Waiting
  <1>2. ASSUME NEW c \in Caller, UNCHANGED <<wg, health, waiter>>,
               pc[c] \notin StartPC, pc'[c] \notin StartPC,
               \A d \in Caller \ {c} : pc'[d] = pc[d]
        PROVE  Tickets
    BY <1>1, <1>2 DEF Starting
  <1>3. ASSUME NEW c \in Caller, BeginCall(c) PROVE Tickets
    <2>1. /\ UNCHANGED <<wg, health, waiter>> /\ pc[c] = "idle"
          /\ \E l \in {"lookup", "ticket", "stopping", "launchstops", "once"} :
                pc' = [pc EXCEPT ![c] = l]
      BY <1>3
      DEF BeginCall, BeginStart, BeginStartOrReuse, BeginRunSync, BeginRestart,
          BeginStop, BeginStopAll, BeginStopByPath, BeginShutdown, Begin,
          procVars, mgrVars
    <2>2. QED
      BY <1>2, <2>1 DEF StartPC, TypeInv
  <1>4. ASSUME NEW c \in Caller, StartStep(c) PROVE Tickets
    <2> USE DEF mgrVars
    <2>1. CASE TakeTicket(c)
      <3>1. CASE shuttingDown
        BY ZenonT(60), <1>2, <2>1, <3>1 DEF TakeTicket, StartPC, TypeInv, procVars
      <3>2. CASE ~shuttingDown
        <4>1. /\ pc[c] = "ticket" /\ pc' = [pc EXCEPT ![c] = "cas"]
              /\ wg' = wg + 1 /\ UNCHANGED <<waiter, health>>
          BY <2>1, <3>2 DEF TakeTicket, procVars
        <4>2. Starting' = Starting \cup {c} /\ c \notin Starting
          BY <4>1 DEF Starting, StartPC, TypeInv
        <4>3. SameWaiting
          BY <4>1 DEF Waiting
        <4>4. QED
          BY <3>2, <4>1, <4>2, <4>3 DEF Tickets
      <3>3. QED
        BY <3>1, <3>2
    <2>2. CASE ReleaseTicket(c)
      <3>1. /\ pc[c] = "release" /\ pc' = [pc EXCEPT ![c] = "returned"]
            /\ wg' = wg - 1 /\ UNCHANGED <<waiter, health>>
        BY <2>2 DEF ReleaseTicket, procVars
      <3>2. Starting' = Starting \ {c} /\ c \in Starting
        BY <3>1 DEF Starting, StartPC, TypeInv
      <3>3. SameWaiting
        BY <3>1 DEF Waiting
      <3>4. QED
        BY <3>1, <3>2, <3>3 DEF Tickets
    <2>3. CASE LaunchWaiter(c)
      <3>1. /\ pc[c] = "launch" /\ waiter' = [waiter EXCEPT ![new[c]] = "wait"]
            /\ \E l \in {"awaitrun", "returned"} : pc' = [pc EXCEPT ![c] = l]
            /\ UNCHANGED <<wg, health>>
        BY <2>3 DEF LaunchWaiter
      <3>2. new[c] \in Proc /\ waiter[new[c]] = "none"
        BY <3>1 DEF CallInv, StartsPC, StartPC, OwnInv, Owns, AfterSpawn
      <3>3. Starting' = Starting \ {c} /\ c \in Starting
        BY <3>1 DEF Starting, StartPC, TypeInv
      <3>4. Waiting' = Waiting \cup {new[c]} /\ new[c] \notin Waiting
        BY <3>1, <3>2 DEF Waiting, TypeInv
      <3>5. QED
        BY <3>1, <3>2, <3>3, <3>4 DEF Tickets
    <2>4. ASSUME pc[c] \in StartPC, NEW l \in StartPC, pc' = [pc EXCEPT ![c] = l]
          PROVE  SameStarting
      BY <2>4 DEF Starting, TypeInv
    <2>5. CASE CasStarting(c)
      <3>1. /\ pc[c] = "cas" /\ UNCHANGED <<wg, health, waiter>>
            /\ \E l \in {"regcheck", "release"} : pc' = [pc EXCEPT ![c] = l]
        BY <2>5 DEF CasStarting
      <3>2. QED
        BY <1>1, <2>4, <3>1 DEF StartPC
    <2>6. CASE RegisterCheck(c)
      <3>1. /\ pc[c] = "regcheck" /\ UNCHANGED <<wg, health, waiter>>
            /\ \E l \in {"regstore", "release"} : pc' = [pc EXCEPT ![c] = l]
        BY <2>6 DEF RegisterCheck
      <3>2. QED
        BY <1>1, <2>4, <3>1 DEF StartPC
    <2>7. CASE RegisterStore(c)
      <3>1. /\ pc[c] = "regstore" /\ UNCHANGED <<wg, health, waiter>>
            /\ \E l \in {"spawn", "release"} : pc' = [pc EXCEPT ![c] = l]
        BY <2>7 DEF RegisterStore
      <3>2. QED
        BY <1>1, <2>4, <3>1 DEF StartPC
    <2>8. CASE Spawn(c) \/ SpawnFails(c) \/ Track(c) \/ FailState(c)
               \/ FailUnregister(c) \/ FailClose(c)
      <3>1. pc[c] \in StartPC /\ UNCHANGED <<wg, health, waiter>>
        BY <2>8 DEF Spawn, SpawnFails, Track, FailState, FailUnregister,
                    FailClose, StartPC, procVars
      <3>2. \E l \in {"track", "fail", "launch", "unregister", "closedone",
                      "release"} : pc' = [pc EXCEPT ![c] = l]
        BY <2>8 DEF Spawn, SpawnFails, Track, FailState, FailUnregister, FailClose
      <3>3. QED
        BY <1>1, <2>4, <3>1, <3>2 DEF StartPC
    <2>9. QED
      BY <1>4, <2>1, <2>2, <2>3, <2>5, <2>6, <2>7, <2>8 DEF StartStep
  <1>5. ASSUME NEW c \in Caller, CallStep(c), ~StartStep(c) PROVE Tickets
    <2>1. UNCHANGED <<wg, health, waiter>>
      BY <1>5 DEF CallStep, Lookup, ReadOld, WaitOld, RemoveOld, StopReturns, AwaitRun,
                  RunRemove, LaunchStops, StopsReturn, Drain, RemoveAll,
                  ShutdownOnce, ShutdownRange, ShutdownWait, procVars, mgrVars
    <2>2. \E l \in {"ticket", "remove", "readold", "waitold", "runremove", "stopping",
                    "waitstops", "wgwait", "wgwaiterr", "drain", "removeall",
                    "range", "returned"} : pc' = [pc EXCEPT ![c] = l]
      BY <1>5 DEF CallStep, Lookup, ReadOld, WaitOld, RemoveOld, StopReturns, AwaitRun,
                  RunRemove, LaunchStops, StopsReturn, Drain, RemoveAll,
                  ShutdownOnce, ShutdownRange, ShutdownWait
    <2>3. pc[c] \in {"lookup", "readold", "waitold", "remove", "stopping", "awaitrun",
                     "runremove", "launchstops", "waitstops", "drain",
                     "removeall", "once", "range", "wgwait", "wgwaiterr"}
      BY <1>5 DEF CallStep, Lookup, ReadOld, WaitOld, RemoveOld, StopReturns, AwaitRun,
                  RunRemove, LaunchStops, StopsReturn, Drain, RemoveAll,
                  ShutdownOnce, ShutdownRange, ShutdownWait
    <2>4. QED
      BY ZenonT(60), <1>2, <2>1, <2>2, <2>3 DEF StartPC, TypeInv
  <1>6. ASSUME NEW c \in Caller, CtxExpires(c) \/ \E p \in Proc : StopStep(c, p)
        PROVE  Tickets
    <2>1. UNCHANGED <<wg, health, waiter, pc>>
      BY <1>6 DEF CtxExpires, StopStep, StopRead, StopCas, StopSignal, StopGrace,
                  StopAwait, ForceKill, StopFrame, procVars, mgrVars
    <2>2. QED
      BY <1>1, <2>1 DEF Starting
  <1>7. ASSUME NEW p \in Proc, WaiterStep(p) \/ ChildExits(p) \/ ChildDies(p)
        PROVE  Tickets
    <2>1. UNCHANGED <<health, pc>> /\ SameStarting
      BY <1>7 DEF WaiterStep, WaitReturns, WaitFails, Untrack, CloseDone,
                  WaiterExits, ChildExits, ChildDies, Starting
    <2>2. CASE WaiterExits(p)
      <3>1. wg' = wg - 1 /\ p \in Waiting /\ Waiting' = Waiting \ {p}
        BY <2>2 DEF WaiterExits, Waiting, TypeInv
      <3>2. QED
        BY <2>1, <3>1 DEF Tickets
    <2>3. CASE ~WaiterExits(p)
      <3>1. UNCHANGED wg
        BY <1>7, <2>3 DEF WaiterStep, WaitReturns, WaitFails, Untrack, CloseDone,
                          ChildExits, ChildDies, mgrVars
      <3>2. SameWaiting
        BY <1>7, <2>3 DEF WaiterStep, WaitReturns, WaitFails, Untrack, CloseDone,
                          ChildExits, ChildDies, Waiting, TypeInv
      <3>3. QED
        BY <2>1, <3>1, <3>2 DEF Tickets
    <2>4. QED
      BY <2>2, <2>3
  <1>8. ASSUME HealthRead \/ HealthAct \/ HealthExits PROVE Tickets
    <2>1. SameStarting /\ SameWaiting
      BY <1>8 DEF HealthRead, HealthAct, HealthExits, HealthFrame, Starting, Waiting
    <2>2. CASE HealthRead \/ HealthAct
      <3>1. UNCHANGED <<wg, health.live>>
        <4>1. health.live \in BOOLEAN
          BY DEF TypeInv
        <4>2. CASE HealthRead
          BY <4>1, <4>2 DEF HealthRead
        <4>3. CASE HealthAct
          BY <4>3 DEF HealthAct, TypeInv
        <4>4. QED
          BY <2>2, <4>2, <4>3
      <3>2. QED
        BY <2>1, <3>1 DEF Tickets
    <2>3. CASE HealthExits
      BY <2>1, <2>3 DEF HealthExits, Tickets, TypeInv
    <2>4. QED
      BY <1>8, <2>2, <2>3
  <1>9. ASSUME Terminated \/ UNCHANGED vars PROVE Tickets
    BY <1>1, <1>9 DEF Terminated, vars, procVars, mgrVars, Starting
  <1>10. QED
    BY <1>3, <1>4, <1>5, <1>6, <1>7, <1>8, <1>9 DEF Next

\* Counting those tickets, the WaitGroup stays equal to what is in flight.
LEMMA WgStep == WgAccounting /\ Tickets => WgAccounting'
  <1> SUFFICES ASSUME WgAccounting, Tickets PROVE WgAccounting'
    OBVIOUS
  <1> DEFINE alive == IF health.live THEN 1 ELSE 0
  <1>1. IsFiniteSet(Starting) /\ IsFiniteSet(Waiting)
    BY ConstantsAssumption, FS_Subset DEF ConstantsAssumption, Starting, Waiting
  <1>2. Cardinality(Starting) \in Nat /\ Cardinality(Waiting) \in Nat
    BY <1>1, FS_CardinalityType
  <1>3. wg = Cardinality(Starting) + Cardinality(Waiting) + alive
    BY DEF WgAccounting
  <1>4. SUFFICES wg' = Cardinality(Starting') + Cardinality(Waiting') + alive'
    BY DEF WgAccounting
  <1>5. \A c : /\ c \notin Starting =>
                     Cardinality(Starting \cup {c}) = Cardinality(Starting) + 1
               /\ c \in Starting =>
                     Cardinality(Starting \ {c}) = Cardinality(Starting) - 1
    BY <1>1, FS_AddElement, FS_RemoveElement
  <1>6. \A p : /\ p \notin Waiting =>
                     Cardinality(Waiting \cup {p}) = Cardinality(Waiting) + 1
               /\ p \in Waiting =>
                     Cardinality(Waiting \ {p}) = Cardinality(Waiting) - 1
    BY <1>1, FS_AddElement, FS_RemoveElement
  <1> HIDE DEF alive
  <1>7. UNCHANGED health.live => alive' = alive
    BY DEF alive
  <1>8. health.live /\ ~health'.live => alive = 1 /\ alive' = 0
    BY DEF alive
  <1>9. alive \in {0, 1}
    BY DEF alive
  <1> USE <1>2, <1>3, <1>9 DEF SameStarting, SameWaiting
  <1>10. CASE UNCHANGED <<wg, health.live>> /\ SameStarting /\ SameWaiting
    BY <1>7, <1>10
  <1>11. CASE /\ wg' = wg + 1 /\ SameWaiting /\ UNCHANGED health.live
              /\ \E c \in Caller \ Starting : Starting' = Starting \cup {c}
    BY <1>5, <1>7, <1>11
  <1>12. CASE /\ wg' = wg - 1 /\ SameWaiting /\ UNCHANGED health.live
              /\ \E c \in Starting : Starting' = Starting \ {c}
    BY <1>5, <1>7, <1>12
  <1>13. CASE /\ UNCHANGED <<wg, health.live>>
              /\ \E c \in Starting : Starting' = Starting \ {c}
              /\ \E p \in Proc \ Waiting : Waiting' = Waiting \cup {p}
    BY <1>5, <1>6, <1>7, <1>13
  <1>14. CASE /\ wg' = wg - 1 /\ SameStarting /\ UNCHANGED health.live
              /\ \E p \in Waiting : Waiting' = Waiting \ {p}
    BY <1>6, <1>7, <1>14
  <1>15. CASE /\ wg' = wg - 1 /\ SameStarting /\ SameWaiting
              /\ health.live /\ ~health'.live
    BY <1>8, <1>15
  <1>16. QED
    BY <1>10, <1>11, <1>12, <1>13, <1>14, <1>15 DEF Tickets

\* No ticket of pm.wg is lost or given back twice, as it passes from a Start to
\* the waiter of the process it spawned.
THEOREM TicketsBalance == Spec => []WgAccounting
  <1>1. Init => WgAccounting
    <2> SUFFICES ASSUME Init PROVE WgAccounting
      OBVIOUS
    <2>1. Starting = {} /\ Waiting = {}
      BY DEF Init, Starting, Waiting, StartPC
    <2>2. wg = IF health.live THEN 1 ELSE 0
      BY DEF Init
    <2>3. QED
      BY <2>1, <2>2, FS_EmptySet DEF WgAccounting
  <1>2. IInv /\ WgAccounting /\ [Next]_vars => WgAccounting'
    BY TicketStep, WgStep
  <1>3. QED
    BY <1>1, <1>2, Inductive, PTL DEF Spec

\* Every variable keeps its type; the counters are natural numbers because they
\* are cardinalities.
THEOREM Typed == Spec => []TypeOK
  <1>1. IInv /\ WgAccounting /\ FailedCountExact => TypeOK
    <2> SUFFICES ASSUME IInv, WgAccounting, FailedCountExact PROVE TypeOK
      OBVIOUS
    <2>1. IsFiniteSet(Starting) /\ IsFiniteSet(Waiting)
      BY ConstantsAssumption, FS_Subset DEF ConstantsAssumption, Starting, Waiting
    <2>2. wg \in Nat
      BY <2>1, FS_CardinalityType DEF WgAccounting
    <2>3. IsFiniteSet({p \in Proc : state[p] = "failed"})
      BY ConstantsAssumption, FS_Subset DEF ConstantsAssumption
    <2>4. totalFailed \in Nat
      BY <2>3, FS_CardinalityType DEF FailedCountExact
    <2>5. QED
      BY <2>2, <2>4 DEF IInv, TypeInv, TypeOK
  <1>2. QED
    BY <1>1, Inductive, TicketsBalance, FailuresCounted, PTL

-----------------------------------------------------------------------------
(* Shutdown. *)

\* Once the flag is set no ticket is taken, so that a zero counter stays zero.
LEMMA ZeroStays ==
    ASSUME WgAccounting', Tickets, shuttingDown, wg = 0
    PROVE  wg' = 0
  <1>1. IsFiniteSet(Starting') /\ IsFiniteSet(Waiting')
    BY ConstantsAssumption, FS_Subset DEF ConstantsAssumption, Starting, Waiting
  <1>2. Cardinality(Starting') \in Nat /\ Cardinality(Waiting') \in Nat
    BY <1>1, FS_CardinalityType
  <1>3. wg' \in Nat
    BY <1>2 DEF WgAccounting
  <1>4. wg' = wg \/ wg' = wg - 1
    BY DEF Tickets
  <1>5. QED
    BY <1>3, <1>4

\* Once Shutdown has set its flag and seen a zero WaitGroup, both last.
LEMMA DownInvStep ==
    IInv /\ WgAccounting /\ DownInv /\ [Next]_vars => DownInv'
  <1> SUFFICES ASSUME IInv, WgAccounting, DownInv, [Next]_vars PROVE DownInv'
    OBVIOUS
  <1> USE DEF IInv
  <1>1. shuttingDown /\ wg = 0 => wg' = 0
    BY TicketStep, WgStep, ZeroStays
  <1>2. ASSUME NEW c \in Caller, ShutdownOnce(c) \/ ShutdownRange(c)
                                    \/ ShutdownWait(c) \/ StopsReturn(c)
        PROVE  DownInv'
    <2> USE DEF DownInv, CallInv, TypeInv, ShutsPC, Goto, Return, callVars, mgrVars
    <2>1. CASE ShutdownOnce(c)
      BY <1>1, <2>1 DEF ShutdownOnce, downVars
    <2>2. CASE ShutdownRange(c)
      BY <1>1, <2>2 DEF ShutdownRange, downVars
    <2>3. CASE ShutdownWait(c)
      BY <1>1, <2>3 DEF ShutdownWait
    <2>4. CASE StopsReturn(c)
      BY <1>1, <2>4 DEF StopsReturn, downVars
    <2>5. QED
      BY <1>2, <2>1, <2>2, <2>3, <2>4
  <1>3. ASSUME UNCHANGED shuttingDown,
               \A c \in Caller :
                  \/ pc'[c] = pc[c] /\ op'[c] = op[c] /\ ret'[c] = ret[c]
                  \/ op'[c] = "Shutdown" => pc'[c] = "once" /\ ret'[c] = "none"
        PROVE  DownInv'
    <2>1. CallInv'
      BY CallInvStep
    <2>2. QED
      BY <1>1, <1>3, <2>1 DEF DownInv, CallInv, ShutsPC
  <1>4. ASSUME NEW c \in Caller, BeginCall(c) PROVE DownInv'
    <2>1. /\ UNCHANGED <<shuttingDown, ret>> /\ pc[c] = "idle"
          /\ \A d \in Caller \ {c} : pc'[d] = pc[d] /\ op'[d] = op[d]
          /\ op'[c] = "Shutdown" => pc'[c] = "once"
      BY <1>4
      DEF BeginCall, BeginStart, BeginStartOrReuse, BeginRunSync, BeginRestart,
          BeginStop, BeginStopAll, BeginStopByPath, BeginShutdown, Begin, Goto,
          downVars, TypeInv
    <2>2. ret[c] = "none"
      BY <2>1 DEF CallInv
    <2>3. QED
      BY <1>3, <2>1, <2>2
  <1>5. ASSUME NEW c \in Caller, StartStep(c) PROVE DownInv'
    <2>1. /\ UNCHANGED <<shuttingDown, op>>
          /\ \A d \in Caller \ {c} : pc'[d] = pc[d] /\ ret'[d] = ret[d]
      BY <1>5
      DEF StartStep, TakeTicket, CasStarting, RegisterCheck, RegisterStore,
          Spawn, SpawnFails, Track, LaunchWaiter, FailState, FailUnregister,
          FailClose, ReleaseTicket, Goto, Return, downVars, callVars, TypeInv
    <2>2. pc[c] \in StartPC \cup {"ticket"}
      BY <1>5
      DEF StartStep, TakeTicket, CasStarting, RegisterCheck, RegisterStore,
          Spawn, SpawnFails, Track, LaunchWaiter, FailState, FailUnregister,
          FailClose, ReleaseTicket, StartPC
    <2>3. op[c] # "Shutdown"
      BY <2>2 DEF CallInv, ShutsPC, StartPC
    <2>4. QED
      BY <1>3, <2>1, <2>3
  <1>6. ASSUME NEW c \in Caller, CallStep(c), ~StartStep(c),
               ~ShutdownOnce(c), ~ShutdownRange(c), ~ShutdownWait(c),
               ~StopsReturn(c)
        PROVE  DownInv'
    <2>1. /\ UNCHANGED <<shuttingDown, op>>
          /\ \A d \in Caller \ {c} : pc'[d] = pc[d] /\ ret'[d] = ret[d]
      BY <1>6
      DEF CallStep, Lookup, ReadOld, WaitOld, RemoveOld, StopReturns, AwaitRun, RunRemove,
          LaunchStops, Drain, RemoveAll, Goto, Return, downVars, callVars, TypeInv
    <2>2. pc[c] \in {"lookup", "readold", "waitold", "remove", "stopping", "awaitrun",
                     "runremove", "launchstops", "drain", "removeall"}
      BY <1>6
      DEF CallStep, Lookup, ReadOld, WaitOld, RemoveOld, StopReturns, AwaitRun, RunRemove,
          LaunchStops, Drain, RemoveAll
    <2>3. \A d \in {c} : op[d] # "Shutdown"
      BY <2>2 DEF CallInv, ShutsPC
    <2>4. QED
      BY <1>3, <2>1, <2>3
  <1>7. ASSUME UNCHANGED <<shuttingDown, pc, op, ret>> PROVE DownInv'
    BY <1>3, <1>7
  <1>8. ASSUME NEW c \in Caller, CtxExpires(c) \/ \E p \in Proc : StopStep(c, p)
        PROVE  UNCHANGED <<shuttingDown, pc, op, ret>>
    BY <1>8 DEF CtxExpires, StopStep, StopRead, StopCas, StopSignal, StopGrace,
                StopAwait, ForceKill, StopFrame, downVars
  <1>9. ASSUME NEW p \in Proc, WaiterStep(p) \/ ChildExits(p) \/ ChildDies(p)
        PROVE  UNCHANGED <<shuttingDown, pc, op, ret>>
    BY <1>9 DEF WaiterStep, WaitReturns, WaitFails, Untrack, CloseDone,
                WaiterExits, ChildExits, ChildDies, downVars, callVars
  <1>10. ASSUME HealthRead \/ HealthAct \/ HealthExits \/ Terminated
                  \/ UNCHANGED vars
         PROVE  UNCHANGED <<shuttingDown, pc, op, ret>>
    BY <1>10 DEF HealthRead, HealthAct, HealthExits, HealthFrame, Terminated,
                 vars, downVars, callVars
  <1>11. QED
    BY <1>2, <1>4, <1>5, <1>6, <1>7, <1>8, <1>9, <1>10 DEF Next, CallStep

\* What Shutdown has set stays set, in every reachable state.
LEMMA DownInvAlways == Spec => []DownInv
  <1>1. Init => DownInv
    BY DEF Init, DownInv
  <1>2. QED
    BY <1>1, DownInvStep, Inductive, TicketsBalance, PTL DEF Spec

\* A Shutdown that returns nil leaves nothing behind, ever: each process that
\* was spawned has exited and done is closed.
THEOREM ShutdownLeavesNothing == Spec => []ShutdownDrains
  <1>1. IInv /\ WgAccounting /\ DownInv => ShutdownDrains
    <2> SUFFICES ASSUME IInv, WgAccounting, DownInv,
                        NEW c \in Caller, op[c] = "Shutdown", ret[c] = "ok",
                        NEW p \in Proc, child[p] # "none"
                 PROVE  Exited(p) /\ done[p]
      BY DEF ShutdownDrains
    <2>1. wg = 0
      BY DEF DownInv
    <2>2. IsFiniteSet(Starting) /\ IsFiniteSet(Waiting)
      BY ConstantsAssumption, FS_Subset DEF ConstantsAssumption, Starting, Waiting
    <2>3. Cardinality(Starting) \in Nat /\ Cardinality(Waiting) \in Nat
      BY <2>2, FS_CardinalityType
    <2>4. Cardinality(Starting) = 0 /\ Cardinality(Waiting) = 0
      BY <2>1, <2>3 DEF WgAccounting
    <2>5. Starting = {} /\ Waiting = {}
      BY <2>2, <2>4, FS_EmptySet
    <2>6. waiter[p] # "none"
      BY <2>5 DEF IInv, ObjInv, Starting, AfterSpawn, StartPC
    <2>7. waiter[p] = "gone"
      BY <2>5, <2>6 DEF Waiting
    <2>8. QED
      BY <2>7 DEF IInv, ObjInv
  <1>2. QED
    BY <1>1, Inductive, TicketsBalance, DownInvAlways, PTL

-----------------------------------------------------------------------------
(***************************************************************************)
(* The registry and the PID tracker, where calls are restricted.           *)
(***************************************************************************)
\* A caller makes one of the calls it may make, and is in the code of that call.
OpInv ==
    \A c \in Caller :
        /\ op[c] \in Ops[c] \cup {"none"}
        /\ pc[c] \in {"lookup", "readold", "waitold"} => op[c] = "StartOrReuse"
        /\ pc[c] = "remove" => op[c] \in {"StartOrReuse", "Restart"}
        /\ pc[c] \in {"awaitrun", "runremove"} => op[c] = "RunSync"
        /\ pc[c] \in {"launchstops", "drain", "removeall"} => op[c] \in {"StopAll", "StopByPath"}
        /\ pc[c] = "waitstops" => op[c] \in {"StopAll", "StopByPath", "Shutdown"}

\* Which call a caller makes settles where it may be.
LEMMA OpStep == TypeInv /\ CallInv /\ OpInv /\ [Next]_vars => OpInv'
  <1> SUFFICES ASSUME TypeInv, CallInv, OpInv, [Next]_vars PROVE OpInv'
    OBVIOUS
  <1>1. ASSUME UNCHANGED <<pc, op>> PROVE OpInv'
    BY <1>1 DEF OpInv
  <1>2. ASSUME NEW c \in Caller, BeginCall(c) PROVE OpInv'
    BY <1>2
    DEF OpInv, BeginCall, BeginStart, BeginStartOrReuse, BeginRunSync, BeginRestart,
        BeginStop, BeginStopAll, BeginStopByPath, BeginShutdown, Begin, Goto, TypeInv
  <1>3. ASSUME NEW c \in Caller, StartStep(c) PROVE OpInv'
    <2>1. /\ UNCHANGED op /\ \A d \in Caller \ {c} : pc'[d] = pc[d]
          /\ pc'[c] \in StartPC \cup {"returned"} \/ (pc'[c] = "awaitrun" /\ op[c] = "RunSync")
      BY <1>3
      DEF StartStep, TakeTicket, CasStarting, RegisterCheck, RegisterStore,
          Spawn, SpawnFails, Track, LaunchWaiter, FailState, FailUnregister,
          FailClose, ReleaseTicket, Goto, Return, callVars, TypeInv, StartPC
    <2>2. QED
      BY <2>1 DEF OpInv, StartPC
  <1>4. ASSUME NEW c \in Caller, CallStep(c), ~StartStep(c) PROVE OpInv'
    <2> USE DEF OpInv, Goto, Return, callVars, TypeInv
    <2>1. CASE Lookup(c)
      BY <2>1 DEF Lookup
    <2>2. CASE ReadOld(c) \/ WaitOld(c)
      BY <2>2 DEF ReadOld, WaitOld
    <2>3. CASE RemoveOld(c) \/ RunRemove(c) \/ RemoveAll(c) \/ Drain(c)
      BY <2>3 DEF RemoveOld, RunRemove, RemoveAll, Drain
    <2>4. CASE StopReturns(c)
      BY <2>4 DEF StopReturns
    <2>5. CASE AwaitRun(c)
      BY <2>5 DEF AwaitRun
    <2>6. CASE LaunchStops(c)
      BY <2>6 DEF LaunchStops
    <2>7. CASE StopsReturn(c)
      BY <2>7 DEF StopsReturn
    <2>8. CASE ShutdownOnce(c)
      BY <2>8 DEF ShutdownOnce
    <2>9. CASE ShutdownWait(c)
      BY <2>9 DEF ShutdownWait
    <2>10. CASE ShutdownRange(c)
      BY <2>10 DEF ShutdownRange, CallInv, ShutsPC
    <2>11. QED
      BY <1>4, <2>1, <2>2, <2>3, <2>4, <2>5, <2>6, <2>7, <2>8, <2>9, <2>10 DEF CallStep
  <1>5. ASSUME NEW c \in Caller, CtxExpires(c) \/ \E p \in Proc : StopStep(c, p)
        PROVE  UNCHANGED <<pc, op>>
    BY <1>5 DEF CtxExpires, StopStep, StopRead, StopCas, StopSignal, StopGrace,
                StopAwait, ForceKill, StopFrame
  <1>6. ASSUME NEW p \in Proc, WaiterStep(p) \/ ChildExits(p) \/ ChildDies(p)
        PROVE  UNCHANGED <<pc, op>>
    BY <1>6 DEF WaiterStep, WaitReturns, WaitFails, Untrack, CloseDone,
                WaiterExits, ChildExits, ChildDies, callVars
  <1>7. ASSUME HealthRead \/ HealthAct \/ HealthExits \/ Terminated \/ UNCHANGED vars
        PROVE  UNCHANGED <<pc, op>>
    BY <1>7 DEF HealthRead, HealthAct, HealthExits, HealthFrame, Terminated, vars, callVars
  <1>8. QED
    BY <1>1, <1>2, <1>3, <1>4, <1>5, <1>6, <1>7 DEF Next

\* A step other than Spawn makes no object Running, and a waiter that is
\* launched stays launched.
LEMMA OnlySpawn ==
    ASSUME IInv, [Next]_vars, \A c \in Caller : ~Spawn(c), NEW p \in Proc
    PROVE  /\ state'[p] = "running" => state[p] = "running"
           /\ child'[p] # "none" => child[p] # "none"
  <1> USE DEF IInv, TypeInv
  <1>1. CASE UNCHANGED <<state, child>>
    BY <1>1
  <1>2. ASSUME NEW c \in Caller, StartStep(c)
        PROVE  /\ state'[p] = "running" => state[p] = "running"
               /\ UNCHANGED child
    BY <1>2
    DEF StartStep, TakeTicket, CasStarting, RegisterCheck, RegisterStore,
        SpawnFails, Track, LaunchWaiter, FailState, FailUnregister,
        FailClose, ReleaseTicket, procVars
  <1>3. ASSUME NEW c \in Caller, CallStep(c), ~StartStep(c)
        PROVE  /\ state'[p] = "running" => state[p] = "running"
               /\ child'[p] # "none" => child[p] # "none"
    <2>1. CASE \E ps : ForceKillAll(ps)
      BY <2>1, KillFacts DEF ForceKillAll
    <2>2. QED
      BY <1>3, <2>1
      DEF CallStep, Lookup, ReadOld, WaitOld, RemoveOld, StopReturns, AwaitRun,
          RunRemove, LaunchStops, StopsReturn, Drain, RemoveAll, ShutdownOnce,
          ShutdownRange, ShutdownWait, procVars
  <1>4. ASSUME NEW c \in Caller, NEW q \in Proc, StopStep(c, q)
        PROVE  /\ state'[p] = "running" => state[p] = "running"
               /\ child'[p] # "none" => child[p] # "none"
    <2>1. CASE ForceKill(c, q)
      BY <2>1, KillFacts DEF ForceKill, Terminal
    <2>2. QED
      BY <1>4, <2>1 DEF StopStep, StopRead, StopCas, StopSignal, StopGrace, StopAwait
  <1>5. ASSUME NEW q \in Proc, WaiterStep(q)
        PROVE  /\ state'[p] = "running" => state[p] = "running"
               /\ UNCHANGED child
    BY <1>5 DEF WaiterStep, WaitReturns, WaitFails, Untrack, CloseDone, WaiterExits
  <1>6. ASSUME NEW q \in Proc, ChildExits(q) \/ ChildDies(q)
        PROVE  UNCHANGED state /\ (child'[p] # "none" => child[p] # "none")
    BY <1>6 DEF ChildExits, ChildDies
  <1>7. CASE HealthAct
    BY <1>7 DEF HealthAct, HealthFrame, HealthVerdict
  <1>8. ASSUME NEW c \in Caller, BeginCall(c) \/ CtxExpires(c)
        PROVE  UNCHANGED <<state, child>>
    BY <1>8 DEF BeginCall, BeginStart, BeginStartOrReuse, BeginRunSync,
                BeginRestart, BeginStop, BeginStopAll, BeginStopByPath,
                BeginShutdown, Begin, CtxExpires, procVars
  <1>9. ASSUME HealthRead \/ HealthExits \/ Terminated \/ UNCHANGED vars
        PROVE  UNCHANGED <<state, child>>
    BY <1>9 DEF HealthRead, HealthExits, HealthFrame, Terminated, vars, procVars
  <1>10. QED
    BY <1>1, <1>2, <1>3, <1>4, <1>5, <1>6, <1>7, <1>8, <1>9 DEF Next

\* A waiter that has been launched does not become unlaunched.
LEMMA WaiterLasts ==
    ASSUME TypeInv, [Next]_vars, NEW p \in Proc
    PROVE  waiter'[p] = "none" => waiter[p] = "none"
  <1> USE DEF TypeInv
  <1>1. ASSUME NEW c \in Caller, StartStep(c) \/ BeginCall(c) \/ CtxExpires(c)
        PROVE  waiter'[p] = "none" => waiter[p] = "none"
    BY <1>1
    DEF StartStep, TakeTicket, CasStarting, RegisterCheck, RegisterStore, Spawn,
        SpawnFails, Track, LaunchWaiter, FailState, FailUnregister,
        FailClose, ReleaseTicket, procVars, BeginCall, BeginStart, BeginStartOrReuse,
        BeginRunSync, BeginRestart, BeginStop, BeginStopAll, BeginStopByPath,
        BeginShutdown, Begin, CtxExpires
  <1>2. ASSUME NEW c \in Caller, CallStep(c), ~StartStep(c)
        PROVE  UNCHANGED waiter
    BY <1>2
    DEF CallStep, Lookup, ReadOld, WaitOld, RemoveOld, StopReturns, AwaitRun,
        RunRemove, LaunchStops, StopsReturn, Drain, RemoveAll, ShutdownOnce,
        ShutdownRange, ShutdownWait, procVars
  <1>3. ASSUME NEW c \in Caller, NEW q \in Proc, StopStep(c, q)
        PROVE  UNCHANGED waiter
    BY <1>3 DEF StopStep, StopRead, StopCas, StopSignal, StopGrace, StopAwait, ForceKill,
                StopFrame
  <1>4. ASSUME NEW q \in Proc, WaiterStep(q) \/ ChildExits(q) \/ ChildDies(q)
        PROVE  waiter'[p] = "none" => waiter[p] = "none"
    BY <1>4 DEF WaiterStep, WaitReturns, WaitFails, Untrack, CloseDone, WaiterExits,
                ChildExits, ChildDies
  <1>5. ASSUME HealthRead \/ HealthAct \/ HealthExits \/ Terminated \/ UNCHANGED vars
        PROVE  UNCHANGED waiter
    BY <1>5 DEF HealthRead, HealthAct, HealthExits, HealthFrame, Terminated, vars, procVars
  <1>6. QED
    BY <1>1, <1>2, <1>3, <1>4, <1>5 DEF Next

\* A RunSync that has started its process and has not yet freed the key.
Syncs(c) == pc[c] \in {"awaitrun", "runremove"} \/ (pc[c] = "stopping" /\ op[c] = "RunSync")

\* A caller that counts on its object being what its key holds.
HoldsKey(c) == pc[c] \in {"spawn", "fail", "unregister"} \cup AfterSpawn \/ Syncs(c)

\* What a key holds: the object that runs, and the one that is being started.
\* A RunSync that frees its key has seen its process end or has stopped it.
KeyInv ==
    /\ \A p \in Proc : state[p] = "running" => registry[KeyOf[p]] = p
    /\ \A c \in Caller : HoldsKey(c) => registry[KeyOf[new[c]]] = new[c]
    /\ \A c \in Caller : Syncs(c) => waiter[new[c]] # "none"
    /\ \A c, d \in Caller : Syncs(c) /\ Syncs(d) /\ new[c] = new[d] => c = d
    /\ \A c \in Caller : pc[c] = "runremove" => state[new[c]] # "running"
    /\ \A c \in Caller : pc[c] = "stopping" /\ op[c] = "RunSync" =>
          stop[c][new[c]] \in {"read", "cas"} \/ state[new[c]] # "running"

\* Calls that free no key but that of an object of their own.
KeepsKeys == \A c \in Caller : Ops[c] \subseteq {"Start", "RunSync", "Stop", "Shutdown"}

\* A step that leaves the registry, spawns nothing, and in which no caller
\* comes to hold a key.
LEMMA KeyQuiet ==
    ASSUME IInv, KeyInv, [Next]_vars, UNCHANGED registry, \A c \in Caller : ~Spawn(c),
           \A c \in Caller : HoldsKey(c)' =>
              /\ HoldsKey(c) /\ new'[c] = new[c] /\ (Syncs(c)' => Syncs(c))
              /\ pc'[c] = "runremove" => pc[c] = "runremove" \/ state'[new[c]] # "running"
              /\ pc'[c] = "stopping" /\ op'[c] = "RunSync" =>
                    \/ stop'[c][new[c]] \in {"read", "cas"} \/ state'[new[c]] # "running"
                    \/ pc[c] = "stopping" /\ op[c] = "RunSync"
                       /\ stop'[c][new[c]] = stop[c][new[c]]
    PROVE  KeyInv'
  <1>1. \A p \in Proc : state'[p] = "running" => state[p] = "running"
    BY OnlySpawn
  <1>2. \A p \in Proc : waiter'[p] = "none" => waiter[p] = "none"
    BY WaiterLasts DEF IInv
  <1>3. \A c \in Caller : Syncs(c) => new[c] \in Proc
    BY DEF Syncs, IInv, CallInv, StartsPC
  <1>4. \A c \in Caller : Syncs(c)' => HoldsKey(c)'
    BY DEF HoldsKey
  <1>5. \A c \in Caller : pc'[c] = "runremove" \/ (pc'[c] = "stopping" /\ op'[c] = "RunSync")
           => Syncs(c)'
    BY DEF Syncs
  <1>6. \A p \in Proc : state'[p] = "running" => registry'[KeyOf[p]] = p
    BY <1>1 DEF KeyInv
  <1>7. \A c \in Caller : HoldsKey(c)' => registry'[KeyOf[new'[c]]] = new'[c]
    BY DEF KeyInv
  <1>8. \A c \in Caller : Syncs(c)' => Syncs(c) /\ new'[c] = new[c] /\ new[c] \in Proc
    BY <1>3, <1>4
  <1>9. /\ \A c \in Caller : Syncs(c)' => waiter'[new'[c]] # "none"
        /\ \A c, d \in Caller : Syncs(c)' /\ Syncs(d)' /\ new'[c] = new'[d] => c = d
    BY <1>2, <1>8 DEF KeyInv
  <1>10. \A c \in Caller : pc'[c] = "runremove" => state'[new'[c]] # "running"
    BY <1>1, <1>4, <1>5, <1>8 DEF KeyInv
  <1>11. \A c \in Caller : pc'[c] = "stopping" /\ op'[c] = "RunSync" =>
            stop'[c][new'[c]] \in {"read", "cas"} \/ state'[new'[c]] # "running"
    BY <1>1, <1>4, <1>5, <1>8 DEF KeyInv
  <1>12. QED
    BY <1>6, <1>7, <1>9, <1>10, <1>11 DEF KeyInv

\* No step breaks it, under any calls but those that free the key of another's
\* object.
LEMMA KeyStep ==
    ASSUME KeepsKeys, IInv, OpInv, KeyInv, [Next]_vars
    PROVE  KeyInv'
  <1>0. /\ TypeInv /\ CallInv /\ OwnInv /\ ObjInv /\ StopInv
        /\ \A c \in Caller : HoldsKey(c) => new[c] \in Proc
        /\ \A p \in Proc : KeyOf[p] \in Key
    BY ConstantsAssumption
    DEF IInv, HoldsKey, Syncs, CallInv, StartsPC, StartPC, AfterSpawn, ConstantsAssumption
  <1>1. ASSUME UNCHANGED <<registry, pc, op, new, stop>>
        PROVE  KeyInv'
    <2>1. \A c \in Caller : ~Spawn(c)
      BY <1>1, <1>0 DEF Spawn, Goto, TypeInv
    <2>2. QED
      BY <1>1, <2>1, KeyQuiet DEF HoldsKey, Syncs
  <1>2. ASSUME NEW c \in Caller, BeginCall(c)
        PROVE  KeyInv'
    <2>1. /\ UNCHANGED <<registry, state, child>> /\ pc[c] = "idle"
          /\ \A d \in Caller \ {c} : /\ pc'[d] = pc[d] /\ op'[d] = op[d] /\ new'[d] = new[d]
                                     /\ stop'[d] = stop[d]
          /\ pc'[c] \in {"ticket", "lookup", "stopping", "launchstops", "once"}
          /\ pc'[c] = "stopping" => op'[c] \in {"Stop", "Restart"}
      BY <1>2, <1>0
      DEF BeginCall, BeginStart, BeginStartOrReuse, BeginRunSync, BeginRestart,
          BeginStop, BeginStopAll, BeginStopByPath, BeginShutdown, Begin, Goto,
          mgrVars, procVars, StopGoto, TypeInv
    <2>2. \A d \in Caller : ~Spawn(d)
      <3>1. \A d \in Caller \ {c} : ~Spawn(d)
        BY <2>1, <1>0 DEF Spawn, Goto, TypeInv
      <3>2. ~Spawn(c)
        BY <2>1 DEF Spawn
      <3>3. QED
        BY <3>1, <3>2
    <2>3. ~HoldsKey(c)'
      BY <2>1 DEF HoldsKey, Syncs, AfterSpawn
    <2>4. \A d \in Caller : HoldsKey(d)' => d # c /\ HoldsKey(d) /\ (Syncs(d)' => Syncs(d))
      BY <2>1, <2>3 DEF HoldsKey, Syncs
    <2>5. QED
      BY <2>1, <2>2, <2>4, KeyQuiet
  <1>3. ASSUME NEW c \in Caller, StartStep(c)
        PROVE  KeyInv'
    <2>1. CASE TakeTicket(c) \/ CasStarting(c) \/ RegisterCheck(c) \/ SpawnFails(c)
                  \/ FailState(c) \/ FailClose(c) \/ ReleaseTicket(c) \/ Track(c)
                  \/ (RegisterStore(c) /\ registry[KeyOf[new[c]]] # NoProc)
      <3>1. /\ UNCHANGED <<registry, op, new, stop>> /\ \A d \in Caller \ {c} : pc'[d] = pc[d]
            /\ \/ pc[c] = "spawn" /\ pc'[c] = "fail"
               \/ pc[c] = "fail" /\ pc'[c] = "unregister"
               \/ pc[c] = "track" /\ pc'[c] = "launch"
               \/ pc'[c] \in {"returned", "cas", "release", "regcheck", "regstore"}
        BY <2>1, <1>0
        DEF TakeTicket, CasStarting, RegisterCheck, RegisterStore, SpawnFails, Track,
            FailState, FailClose, ReleaseTicket, Goto, Return, callVars, mgrVars, TypeInv
      <3>2. \A d \in Caller : ~Spawn(d)
        <4>1. \A d \in Caller \ {c} : ~Spawn(d)
          BY <3>1, <1>0 DEF Spawn, Goto, TypeInv
        <4>2. ~Spawn(c)
          BY <3>1, <1>0 DEF Spawn, Goto, TypeInv
        <4>3. QED
          BY <4>1, <4>2
      <3>3. \A d \in Caller : HoldsKey(d)' => /\ HoldsKey(d) /\ (Syncs(d)' => Syncs(d))
                                              /\ pc'[d] = "runremove" => pc[d] = "runremove"
                                              /\ pc'[d] = "stopping" => pc[d] = "stopping"
        BY <3>1 DEF HoldsKey, Syncs, AfterSpawn
      <3>4. QED
        BY <3>1, <3>2, <3>3, KeyQuiet
    <2>2. CASE RegisterStore(c) /\ registry[KeyOf[new[c]]] = NoProc
      <3>1. /\ registry' = [registry EXCEPT ![KeyOf[new[c]]] = new[c]]
            /\ pc' = [pc EXCEPT ![c] = "spawn"] /\ pc[c] = "regstore"
            /\ UNCHANGED <<state, waiter, op, new, stop>>
        BY <2>2 DEF RegisterStore, Goto, callVars
      <3>2. new[c] \in Proc /\ NoProc \notin Proc
        BY <3>1, <1>0, ConstantsAssumption DEF CallInv, StartsPC, StartPC, ConstantsAssumption
      <3>3. \A p \in Proc : registry[KeyOf[p]] = p => registry'[KeyOf[p]] = p
        BY <2>2, <3>1, <3>2, <1>0 DEF TypeInv
      <3>4. registry'[KeyOf[new[c]]] = new[c]
        BY <3>1, <3>2, <1>0 DEF TypeInv
      <3>5. /\ \A d \in Caller \ {c} : pc'[d] = pc[d]
            /\ pc'[c] = "spawn"
        BY <3>1, <1>0 DEF TypeInv
      <3>6. \A d \in Caller : Syncs(d)' <=> Syncs(d)
        BY <3>1, <3>5 DEF Syncs
      <3>7. \A d \in Caller : HoldsKey(d)' => d = c \/ HoldsKey(d)
        BY <3>1, <3>5, <3>6 DEF HoldsKey
      <3>8. \A d \in Caller : HoldsKey(d)' => registry'[KeyOf[new[d]]] = new[d]
        BY <3>3, <3>4, <3>7, <1>0 DEF KeyInv
      <3>9. QED
        BY <3>1, <3>3, <3>5, <3>6, <3>8 DEF KeyInv
    <2>3. CASE Spawn(c)
      <3>1. /\ state' = [state EXCEPT ![new[c]] = "running"]
            /\ pc' = [pc EXCEPT ![c] = "track"] /\ pc[c] = "spawn"
            /\ UNCHANGED <<registry, waiter, op, new, stop>>
        BY <2>3 DEF Spawn, Goto, callVars, mgrVars
      <3>2. new[c] \in Proc /\ waiter[new[c]] = "none" /\ registry[KeyOf[new[c]]] = new[c]
        BY <3>1, <1>0 DEF OwnInv, Owns, BeforeSpawn, HoldsKey, KeyInv
      <3>3. /\ \A d \in Caller \ {c} : pc'[d] = pc[d]
            /\ pc'[c] = "track"
        BY <3>1, <1>0 DEF TypeInv
      <3>4. \A d \in Caller : Syncs(d)' <=> Syncs(d)
        BY <3>1, <3>3 DEF Syncs
      <3>5. \A d \in Caller : HoldsKey(d)' => HoldsKey(d)
        BY <3>1, <3>3, <3>4 DEF HoldsKey
      <3>6. \A p \in Proc : state'[p] = "running" => registry'[KeyOf[p]] = p
        BY <3>1, <3>2, <1>0 DEF KeyInv, TypeInv
      <3>7. \A d \in Caller : Syncs(d) => new[d] # new[c] /\ new[d] \in Proc
        BY <3>2, <1>0 DEF KeyInv, HoldsKey
      <3>8. \A d \in Caller : Syncs(d) => state'[new[d]] = state[new[d]]
        BY <3>1, <3>7, <1>0 DEF TypeInv
      <3>9. /\ \A d \in Caller : pc'[d] = "runremove" => state'[new[d]] # "running"
            /\ \A d \in Caller : pc'[d] = "stopping" /\ op[d] = "RunSync" =>
                  stop[d][new[d]] \in {"read", "cas"} \/ state'[new[d]] # "running"
        BY <3>3, <3>8 DEF KeyInv, Syncs
      <3>10. QED
        BY <3>1, <3>4, <3>5, <3>6, <3>9 DEF KeyInv
    <2>4. CASE LaunchWaiter(c)
      <3>1. /\ waiter' = [waiter EXCEPT ![new[c]] = "wait"] /\ pc[c] = "launch"
            /\ \A d \in Caller \ {c} : pc'[d] = pc[d]
            /\ pc'[c] \in {"awaitrun", "returned"}
            /\ UNCHANGED <<registry, state, op, new, stop>>
        BY <2>4, <1>0 DEF LaunchWaiter, Goto, Return, callVars, mgrVars, TypeInv
      <3>2. new[c] \in Proc /\ waiter[new[c]] = "none" /\ HoldsKey(c)
        BY <3>1, <1>0 DEF OwnInv, Owns, AfterSpawn, HoldsKey
      <3>3. \A d \in Caller : Syncs(d)' => d = c \/ Syncs(d)
        BY <3>1 DEF Syncs
      <3>4. \A d \in Caller : HoldsKey(d)' => HoldsKey(d)
        BY <3>1, <3>2, <3>3 DEF HoldsKey
      <3>5. \A d \in Caller : Syncs(d) => new[d] # new[c]
        BY <3>2 DEF KeyInv
      <3>6. \A d \in Caller : Syncs(d)' => waiter'[new[d]] # "none"
        BY <3>1, <3>2, <3>3, <3>5, <1>0 DEF KeyInv, TypeInv
      <3>7. \A d, e \in Caller : Syncs(d)' /\ Syncs(e)' /\ new[d] = new[e] => d = e
        BY <3>3, <3>5 DEF KeyInv
      <3>8. /\ \A d \in Caller : pc'[d] = "runremove" => pc[d] = "runremove"
            /\ \A d \in Caller : pc'[d] = "stopping" => pc[d] = "stopping"
        BY <3>1
      <3>9. QED
        BY <3>1, <3>4, <3>6, <3>7, <3>8 DEF KeyInv
    <2>5. CASE FailUnregister(c)
      <3>1. /\ registry' = [k \in Key |-> IF k = KeyOf[new[c]] THEN NoProc ELSE registry[k]]
            /\ pc' = [pc EXCEPT ![c] = "closedone"] /\ pc[c] = "unregister"
            /\ UNCHANGED <<state, waiter, op, new, stop>>
        BY <2>5 DEF FailUnregister, RemoveByPath, Goto, callVars, procVars
      <3>2. /\ new[c] \in Proc /\ waiter[new[c]] = "none" /\ state[new[c]] = "failed"
            /\ registry[KeyOf[new[c]]] = new[c]
        BY <3>1, <1>0 DEF OwnInv, Owns, AfterFail, HoldsKey, KeyInv
      <3>3. /\ \A d \in Caller \ {c} : pc'[d] = pc[d]
            /\ pc'[c] = "closedone"
        BY <3>1, <1>0 DEF TypeInv
      <3>4. \A d \in Caller : Syncs(d)' <=> Syncs(d)
        BY <3>1, <3>3 DEF Syncs
      <3>5. \A d \in Caller : HoldsKey(d)' => d # c /\ HoldsKey(d)
        BY <3>1, <3>3, <3>4 DEF HoldsKey, AfterSpawn, Syncs
      <3>6. \A p \in Proc : registry[KeyOf[p]] = p /\ p # new[c] => registry'[KeyOf[p]] = p
        BY <3>1, <3>2, <1>0
      <3>7. \A d \in Caller : HoldsKey(d) /\ d # c => new[d] # new[c]
        BY <3>1, <3>2, <1>0
        DEF OwnInv, Owns, AfterFail, BeforeSpawn, AfterSpawn, HoldsKey, KeyInv
      <3>8. \A p \in Proc : state[p] = "running" => registry'[KeyOf[p]] = p
        BY <3>2, <3>6 DEF KeyInv
      <3>9. \A d \in Caller : HoldsKey(d)' => registry'[KeyOf[new[d]]] = new[d]
        BY <3>5, <3>6, <3>7, <1>0 DEF KeyInv
      <3>10. QED
        BY <3>1, <3>3, <3>4, <3>8, <3>9 DEF KeyInv
    <2>6. QED
      BY <1>3, <2>1, <2>2, <2>3, <2>4, <2>5 DEF StartStep
  <1>4. ASSUME NEW c \in Caller, CallStep(c), ~StartStep(c)
        PROVE  KeyInv'
    <2>o. op[c] \in {"none", "Start", "RunSync", "Stop", "Shutdown"}
      BY DEF OpInv, KeepsKeys
    <2>p. pc[c] \notin {"lookup", "readold", "waitold", "remove", "launchstops", "drain",
                        "removeall"}
      BY <2>o DEF OpInv
    <2>1. CASE StopReturns(c) \/ AwaitRun(c) \/ StopsReturn(c) \/ ShutdownOnce(c)
                  \/ ShutdownRange(c) \/ ShutdownWait(c)
      <3>1. UNCHANGED <<registry, op, new>> /\ \A d \in Caller \ {c} : pc'[d] = pc[d]
        BY <2>1, <1>0
        DEF StopReturns, AwaitRun, StopsReturn, ShutdownOnce, ShutdownRange, ShutdownWait,
            Goto, Return, callVars, mgrVars, TypeInv
      <3>2. \A d \in Caller : ~Spawn(d)
        <4>1. UNCHANGED child \/ pc[c] = "waitstops"
          BY <2>1
          DEF StopReturns, AwaitRun, StopsReturn, ShutdownOnce, ShutdownRange, ShutdownWait,
              procVars
        <4>2. pc[c] # "spawn"
          BY <2>1
          DEF StopReturns, AwaitRun, StopsReturn, ShutdownOnce, ShutdownRange, ShutdownWait
        <4>3. \A d \in Caller \ {c} : ~Spawn(d)
          BY <3>1, <1>0 DEF Spawn, Goto, TypeInv
        <4>4. QED
          BY <4>2, <4>3 DEF Spawn
      <3>3. \A d \in Caller \ {c} : stop'[d] = stop[d]
        BY <2>1, <1>0
        DEF StopReturns, AwaitRun, StopsReturn, ShutdownOnce, ShutdownRange, ShutdownWait,
            StopGoto, callVars, TypeInv
      <3>4. \A d \in Caller \ {c} : /\ HoldsKey(d)' => HoldsKey(d)
                                    /\ Syncs(d)' => Syncs(d)
        BY <3>1 DEF HoldsKey, Syncs
      <3>5. HoldsKey(c)' =>
              /\ HoldsKey(c) /\ (Syncs(c)' => Syncs(c))
              /\ pc'[c] = "runremove" => state'[new[c]] # "running"
              /\ pc'[c] = "stopping" => stop'[c][new[c]] = "read"
        <4>1. CASE StopReturns(c)
          <5>1. /\ pc[c] = "stopping" /\ UNCHANGED <<state, stop>>
                /\ \/ op[c] = "RunSync" /\ pc'[c] = "runremove"
                   \/ op[c] # "RunSync" /\ pc'[c] \in {"remove", "returned"}
            BY <4>1, <1>0 DEF StopReturns, Goto, Return, procVars, callVars, TypeInv
          <5>2. op[c] = "RunSync" => HoldsKey(c) /\ Syncs(c)
            BY <5>1 DEF HoldsKey, Syncs
          <5>3. op[c] = "RunSync" => stop[c][new[c]] \in {"none", "ok", "err"}
            BY <4>1, <5>2, <1>0 DEF StopReturns, StopsFinished
          <5>4. QED
            BY <5>1, <5>2, <5>3, <3>1 DEF HoldsKey, Syncs, AfterSpawn, KeyInv
        <4>2. CASE AwaitRun(c)
          <5>1. /\ pc[c] = "awaitrun" /\ UNCHANGED state /\ op[c] = "RunSync"
                /\ HoldsKey(c) /\ Syncs(c) /\ new[c] \in Proc
            BY <4>2, <1>0 DEF AwaitRun, HoldsKey, Syncs, procVars, OpInv
          <5>2. \/ pc'[c] = "runremove" /\ done[new[c]]
                \/ pc'[c] = "stopping" /\ stop'[c][new[c]] = "read"
            BY <4>2, <5>1, <1>0 DEF AwaitRun, Goto, StopGoto, TypeInv
          <5>3. done[new[c]] => state[new[c]] # "running"
            BY <5>1, <1>0 DEF ObjInv
          <5>4. QED
            BY <5>1, <5>2, <5>3
        <4>3. CASE StopsReturn(c) \/ ShutdownOnce(c) \/ ShutdownRange(c) \/ ShutdownWait(c)
          <5>1. pc'[c] \in {"wgwait", "wgwaiterr", "drain", "range", "removeall", "returned",
                            "waitstops"}
            BY <4>3, <1>0
            DEF StopsReturn, ShutdownOnce, ShutdownRange, ShutdownWait, Goto, Return, TypeInv
          <5>2. QED
            BY <5>1 DEF HoldsKey, Syncs, AfterSpawn
        <4>4. QED
          BY <2>1, <4>1, <4>2, <4>3
      <3>6. ASSUME NEW d \in Caller, HoldsKey(d)'
            PROVE  /\ HoldsKey(d) /\ new'[d] = new[d] /\ (Syncs(d)' => Syncs(d))
                   /\ pc'[d] = "runremove" => pc[d] = "runremove" \/ state'[new[d]] # "running"
                   /\ pc'[d] = "stopping" /\ op'[d] = "RunSync" =>
                         \/ stop'[d][new[d]] \in {"read", "cas"} \/ state'[new[d]] # "running"
                         \/ pc[d] = "stopping" /\ op[d] = "RunSync"
                            /\ stop'[d][new[d]] = stop[d][new[d]]
        <4>1. CASE d = c
          BY <3>1, <3>5, <3>6, <4>1
        <4>2. CASE d # c
          BY <3>1, <3>3, <3>6, <4>2 DEF HoldsKey, Syncs
        <4>3. QED
          BY <4>1, <4>2
      <3>7. QED
        BY <3>1, <3>2, <3>6, KeyQuiet
    <2>2. CASE RunRemove(c)
      <3>1. /\ registry' = [k \in Key |-> IF k = KeyOf[new[c]] THEN NoProc ELSE registry[k]]
            /\ pc' = [pc EXCEPT ![c] = "returned"] /\ pc[c] = "runremove"
            /\ UNCHANGED <<state, waiter, op, new, stop>>
        BY <2>2 DEF RunRemove, RemoveByPath, Return, callVars, procVars
      <3>2. Syncs(c) /\ HoldsKey(c)
        BY <3>1 DEF Syncs, HoldsKey
      <3>3. /\ new[c] \in Proc /\ waiter[new[c]] # "none" /\ state[new[c]] # "running"
            /\ registry[KeyOf[new[c]]] = new[c]
        BY <3>1, <3>2, <1>0 DEF KeyInv
      <3>4. /\ \A d \in Caller \ {c} : pc'[d] = pc[d]
            /\ pc'[c] = "returned"
        BY <3>1, <1>0 DEF TypeInv
      <3>5. \A d \in Caller : Syncs(d)' => d # c /\ Syncs(d)
        BY <3>1, <3>4 DEF Syncs
      <3>6. \A d \in Caller : HoldsKey(d)' => d # c /\ HoldsKey(d)
        BY <3>1, <3>4, <3>5 DEF HoldsKey, AfterSpawn
      <3>7. \A p \in Proc : registry[KeyOf[p]] = p /\ p # new[c] => registry'[KeyOf[p]] = p
        BY <3>1, <3>3, <1>0
      <3>8. \A d \in Caller : HoldsKey(d) /\ d # c => new[d] # new[c]
        BY <3>2, <3>3, <1>0
        DEF OwnInv, Owns, AfterFail, BeforeSpawn, AfterSpawn, HoldsKey, KeyInv
      <3>9. \A p \in Proc : state[p] = "running" => registry'[KeyOf[p]] = p
        BY <3>3, <3>7 DEF KeyInv
      <3>10. \A d \in Caller : HoldsKey(d)' => registry'[KeyOf[new[d]]] = new[d]
        BY <3>6, <3>7, <3>8, <1>0 DEF KeyInv
      <3>11. QED
        BY <3>1, <3>4, <3>5, <3>9, <3>10 DEF KeyInv
    <2>3. QED
      BY <1>4, <2>p, <2>1, <2>2
      DEF CallStep, Lookup, ReadOld, WaitOld, RemoveOld, LaunchStops, Drain, RemoveAll
  <1>5. ASSUME NEW c \in Caller, NEW p \in Proc, StopStep(c, p)
        PROVE  KeyInv'
    <2>1. /\ UNCHANGED <<registry, pc, op, new>>
          /\ \A d \in Caller \ {c} : stop'[d] = stop[d]
          /\ \A q \in Proc \ {p} : stop'[c][q] = stop[c][q]
      BY <1>5, <1>0
      DEF StopStep, StopRead, StopCas, StopSignal, StopGrace, StopAwait, ForceKill, StopFrame,
          StopGoto, mgrVars, TypeInv
    <2>2. \A d \in Caller : ~Spawn(d)
      BY <2>1, <1>0 DEF Spawn, Goto, TypeInv
    <2>3. ASSUME pc[c] = "stopping", op[c] = "RunSync", new[c] = p
          PROVE  stop'[c][p] \in {"read", "cas"} \/ state'[p] # "running"
      <3>1. waiter[p] # "none" /\ state[p] \notin {"pending", "starting"}
        BY <2>3, <1>0 DEF KeyInv, Syncs, ObjInv
      <3>2. stop[c][p] \notin {"read", "cas"} => state[p] # "running"
        BY <2>3 DEF KeyInv
      <3>3. CASE StopRead(c, p)
        BY <3>1, <3>2, <3>3, <1>0 DEF StopRead, StopGoto, TypeInv, State, Terminal
      <3>4. CASE StopCas(c, p)
        BY <3>1, <3>4, <1>0 DEF StopCas, TypeInv
      <3>5. CASE ~StopRead(c, p) /\ ~StopCas(c, p)
        <4>1. stop[c][p] \notin {"read", "cas"}
          BY <1>5, <3>5 DEF StopStep, StopSignal, StopGrace, StopAwait, ForceKill
        <4>2. QED
          BY <2>2, <3>2, <4>1, OnlySpawn
      <3>6. QED
        BY <3>3, <3>4, <3>5
    <2>4. \A d \in Caller : pc[d] = "stopping" /\ op[d] = "RunSync" /\ HoldsKey(d) =>
             \/ stop'[d][new[d]] \in {"read", "cas"} \/ state'[new[d]] # "running"
             \/ stop'[d][new[d]] = stop[d][new[d]]
      BY <2>1, <2>3, <1>0
    <2>5. QED
      BY <2>1, <2>2, <2>4, KeyQuiet DEF HoldsKey, Syncs
  <1>6. ASSUME NEW c \in Caller, CtxExpires(c)
        PROVE  UNCHANGED <<registry, pc, op, new, stop>>
    BY <1>6 DEF CtxExpires, mgrVars
  <1>7. ASSUME NEW p \in Proc, WaiterStep(p) \/ ChildExits(p) \/ ChildDies(p)
        PROVE  UNCHANGED <<registry, pc, op, new, stop>>
    BY <1>7 DEF WaiterStep, WaitReturns, WaitFails, Untrack, CloseDone,
                WaiterExits, ChildExits, ChildDies, callVars, mgrVars
  <1>8. ASSUME HealthRead \/ HealthAct \/ HealthExits \/ Terminated \/ UNCHANGED vars
        PROVE  UNCHANGED <<registry, pc, op, new, stop>>
    BY <1>8 DEF HealthRead, HealthAct, HealthExits, HealthFrame, Terminated, vars, callVars,
                mgrVars
  <1>9. QED
    BY <1>1, <1>2, <1>3, <1>4, <1>5, <1>6, <1>7, <1>8 DEF Next

\* Where calls free no key but that of an object of their own, an object that
\* runs can be found in the registry, by Shutdown among others: a Start claims
\* its key before it spawns, and nobody takes the key away while it runs.
THEOREM RunningRegistered ==
    ASSUME KeepsKeys
    PROVE  Spec => []RunningIsRegistered
  <1>1. Init => OpInv /\ KeyInv
    BY DEF Init, OpInv, KeyInv, HoldsKey, Syncs, AfterSpawn
  <1>2. IInv /\ OpInv /\ KeyInv /\ [Next]_vars => OpInv' /\ KeyInv'
    BY OpStep, KeyStep DEF IInv
  <1>3. KeyInv => RunningIsRegistered
    BY DEF KeyInv, RunningIsRegistered
  <1>4. QED
    BY <1>1, <1>2, <1>3, Inductive, PTL DEF Spec

\* Calls that free no key.
PlainCalls == \A c \in Caller : Ops[c] \subseteq {"Start", "Stop", "Shutdown"}

\* Whose entry the PID tracker has: that of the object whose Start has added it,
\* until its waiter removes it; and every object ever spawned keeps its key.
TrackInv ==
    /\ \A p \in Proc : child[p] # "none" => registry[KeyOf[p]] = p
    /\ \A c \in Caller : pc[c] = "launch" => tracked[KeyOf[new[c]]] = new[c]
    /\ \A p \in Proc : waiter[p] \in {"wait", "failing", "settled"} => tracked[KeyOf[p]] = p

\* No step breaks it, if no call frees a key.
LEMMA TrackStep ==
    ASSUME PlainCalls, IInv, OpInv, KeyInv, TrackInv, [Next]_vars
    PROVE  TrackInv'
  <1>0. /\ TypeInv /\ CallInv /\ OwnInv /\ ObjInv
        /\ \A p \in Proc : KeyOf[p] \in Key
        /\ \A c \in Caller : pc[c] \in StartPC => new[c] \in Proc
    BY ConstantsAssumption DEF IInv, CallInv, StartsPC, ConstantsAssumption
  <1>h. \A p \in Proc : waiter[p] \in {"wait", "failing", "settled"} => child[p] # "none"
    BY <1>0 DEF ObjInv, Exited
  <1>o. \A c \in Caller : /\ op[c] \in {"none", "Start", "Stop", "Shutdown"}
                          /\ pc[c] \notin {"lookup", "readold", "waitold", "remove", "awaitrun",
                                          "runremove", "launchstops", "drain", "removeall"}
    BY DEF OpInv, PlainCalls
\* A step that leaves registry, tracker and waiters, and spawns nothing.
  <1>1. ASSUME UNCHANGED <<registry, tracked, waiter>>, \A c \in Caller : ~Spawn(c),
               \A c \in Caller : pc'[c] = "launch" => pc[c] = "launch" /\ new'[c] = new[c]
        PROVE  TrackInv'
    <2>1. \A p \in Proc : child'[p] # "none" => child[p] # "none"
      BY <1>1, OnlySpawn
    <2>2. QED
      BY <1>1, <2>1 DEF TrackInv
  <1>2. ASSUME UNCHANGED <<pc, new>>
        PROVE  \A c \in Caller : ~Spawn(c)
    BY <1>2, <1>0 DEF Spawn, Goto, TypeInv
  <1>3. ASSUME NEW c \in Caller, BeginCall(c)
        PROVE  TrackInv'
    <2>1. /\ UNCHANGED <<registry, tracked, waiter>> /\ pc[c] = "idle"
          /\ \A d \in Caller \ {c} : pc'[d] = pc[d] /\ new'[d] = new[d]
          /\ pc'[c] \in {"ticket", "lookup", "stopping", "launchstops", "once"}
      BY <1>3, <1>0
      DEF BeginCall, BeginStart, BeginStartOrReuse, BeginRunSync, BeginRestart,
          BeginStop, BeginStopAll, BeginStopByPath, BeginShutdown, Begin, Goto,
          mgrVars, procVars, TypeInv
    <2>2. \A d \in Caller \ {c} : ~Spawn(d)
      BY <2>1, <1>0 DEF Spawn, Goto, TypeInv
    <2>3. ~Spawn(c)
      BY <2>1 DEF Spawn
    <2>4. QED
      BY <1>1, <2>1, <2>2, <2>3
  <1>4. ASSUME NEW c \in Caller, StartStep(c)
        PROVE  TrackInv'
    <2>0. /\ UNCHANGED new /\ \A d \in Caller \ {c} : pc'[d] = pc[d]
      BY <1>4, <1>0
      DEF StartStep, TakeTicket, CasStarting, RegisterCheck, RegisterStore, Spawn,
          SpawnFails, Track, LaunchWaiter, FailState, FailUnregister, FailClose,
          ReleaseTicket, Goto, Return, callVars, TypeInv
    <2>s. \A d \in Caller \ {c} : ~Spawn(d)
      BY <2>0, <1>0 DEF Spawn, Goto, TypeInv
    <2>1. CASE TakeTicket(c) \/ CasStarting(c) \/ RegisterCheck(c) \/ SpawnFails(c)
                  \/ FailState(c) \/ FailClose(c) \/ ReleaseTicket(c)
                  \/ (RegisterStore(c) /\ registry[KeyOf[new[c]]] # NoProc)
      <3>1. /\ UNCHANGED <<registry, tracked, waiter>>
            /\ pc'[c] \in {"cas", "release", "regcheck", "regstore", "fail", "unregister",
                          "returned"}
        BY <2>1, <1>0
        DEF TakeTicket, CasStarting, RegisterCheck, RegisterStore, SpawnFails, FailState,
            FailClose, ReleaseTicket, Goto, Return, procVars, mgrVars, TypeInv
      <3>2. ~Spawn(c)
        BY <3>1, <1>0 DEF Spawn, Goto, TypeInv
      <3>3. QED
        BY <1>1, <2>0, <2>s, <3>1, <3>2
    <2>2. CASE RegisterStore(c) /\ registry[KeyOf[new[c]]] = NoProc
      <3>1. /\ registry' = [registry EXCEPT ![KeyOf[new[c]]] = new[c]]
            /\ pc' = [pc EXCEPT ![c] = "spawn"] /\ pc[c] = "regstore"
            /\ UNCHANGED <<child, waiter, tracked>>
        BY <2>2 DEF RegisterStore, Goto
      <3>2. NoProc \notin Proc
        BY ConstantsAssumption DEF ConstantsAssumption
      <3>3. \A p \in Proc : registry[KeyOf[p]] = p => registry'[KeyOf[p]] = p
        BY <2>2, <3>1, <3>2, <1>0 DEF TypeInv
      <3>4. \A d \in Caller : pc'[d] = "launch" => pc[d] = "launch"
        BY <3>1, <1>0 DEF TypeInv
      <3>5. QED
        BY <2>0, <3>1, <3>3, <3>4 DEF TrackInv
    <2>3. CASE Spawn(c)
      <3>1. /\ child' = [child EXCEPT ![new[c]] = "alive"]
            /\ pc' = [pc EXCEPT ![c] = "track"] /\ pc[c] = "spawn"
            /\ UNCHANGED <<registry, waiter, tracked>>
        BY <2>3 DEF Spawn, Goto, mgrVars
      <3>2. registry[KeyOf[new[c]]] = new[c]
        BY <3>1 DEF KeyInv, HoldsKey
      <3>3. \A p \in Proc : child'[p] # "none" => p = new[c] \/ child[p] # "none"
        BY <3>1, <1>0 DEF TypeInv
      <3>4. \A d \in Caller : pc'[d] = "launch" => pc[d] = "launch"
        BY <3>1, <1>0 DEF TypeInv
      <3>5. QED
        BY <2>0, <3>1, <3>2, <3>3, <3>4 DEF TrackInv
    <2>4. CASE Track(c)
      <3>1. /\ tracked' = [tracked EXCEPT ![KeyOf[new[c]]] = new[c]]
            /\ pc' = [pc EXCEPT ![c] = "launch"] /\ pc[c] = "track"
            /\ UNCHANGED <<registry, child, waiter>>
        BY <2>4 DEF Track, Goto, procVars
      <3>2. /\ registry[KeyOf[new[c]]] = new[c] /\ new[c] \in Proc
            /\ waiter[new[c]] = "none"
        BY <3>1, <1>0 DEF KeyInv, HoldsKey, AfterSpawn, OwnInv, Owns, StartPC
      <3>3. \A p \in Proc : waiter[p] \in {"wait", "failing", "settled"} =>
               KeyOf[p] # KeyOf[new[c]]
        BY <3>2, <1>h DEF TrackInv
      <3>4. \A d \in Caller : pc'[d] = "launch" => d = c \/ pc[d] = "launch"
        BY <3>1, <1>0 DEF TypeInv
      <3>5. \A d \in Caller : pc[d] = "launch" => KeyOf[new[d]] # KeyOf[new[c]]
        BY <3>1, <3>2, <1>0 DEF KeyInv, HoldsKey, AfterSpawn, OwnInv, Owns
      <3>6. \A d \in Caller : pc[d] = "launch" => tracked'[KeyOf[new[d]]] = new[d]
        BY <3>1, <3>5, <1>0 DEF TrackInv, TypeInv, StartPC
      <3>7. tracked'[KeyOf[new[c]]] = new[c]
        BY <3>1, <3>2, <1>0 DEF TypeInv
      <3>8. \A p \in Proc : waiter[p] \in {"wait", "failing", "settled"} =>
               tracked'[KeyOf[p]] = p
        BY <3>1, <3>3, <1>0 DEF TrackInv, TypeInv
      <3>9. QED
        BY <2>0, <3>1, <3>4, <3>6, <3>7, <3>8 DEF TrackInv
    <2>5. CASE LaunchWaiter(c)
      <3>1. /\ waiter' = [waiter EXCEPT ![new[c]] = "wait"] /\ pc[c] = "launch"
            /\ UNCHANGED <<registry, child, tracked>> /\ pc'[c] # "launch"
        BY <2>5, <1>0 DEF LaunchWaiter, mgrVars, Goto, Return, TypeInv
      <3>2. \A p \in Proc : waiter'[p] \in {"wait", "failing", "settled"} =>
               p = new[c] \/ waiter[p] \in {"wait", "failing", "settled"}
        BY <3>1, <1>0 DEF TypeInv
      <3>3. \A d \in Caller : pc'[d] = "launch" => pc[d] = "launch"
        BY <2>0, <3>1
      <3>4. QED
        BY <2>0, <3>1, <3>2, <3>3 DEF TrackInv
    <2>6. CASE FailUnregister(c)
      <3>1. /\ registry' = [k \in Key |-> IF k = KeyOf[new[c]] THEN NoProc ELSE registry[k]]
            /\ pc' = [pc EXCEPT ![c] = "closedone"] /\ pc[c] = "unregister"
            /\ UNCHANGED <<child, waiter, tracked>>
        BY <2>6 DEF FailUnregister, RemoveByPath, Goto, procVars
      <3>2. registry[KeyOf[new[c]]] = new[c] /\ child[new[c]] = "none"
        BY <3>1, <1>0 DEF OwnInv, AfterFail, HoldsKey, KeyInv
      <3>3. \A p \in Proc : child[p] # "none" => registry'[KeyOf[p]] = p
        BY <3>1, <3>2, <1>0 DEF TrackInv
      <3>4. \A d \in Caller : pc'[d] = "launch" => pc[d] = "launch"
        BY <3>1, <1>0 DEF TypeInv
      <3>5. QED
        BY <2>0, <3>1, <3>3, <3>4 DEF TrackInv
    <2>7. QED
      BY <1>4, <2>1, <2>2, <2>3, <2>4, <2>5, <2>6 DEF StartStep
  <1>5. ASSUME NEW c \in Caller, CallStep(c), ~StartStep(c)
        PROVE  TrackInv'
    <2>1. StopReturns(c) \/ StopsReturn(c) \/ ShutdownOnce(c) \/ ShutdownRange(c)
             \/ ShutdownWait(c)
      BY <1>5, <1>o
      DEF CallStep, Lookup, ReadOld, WaitOld, RemoveOld, AwaitRun, RunRemove, LaunchStops,
          Drain, RemoveAll
    <2>2. /\ UNCHANGED <<registry, tracked, waiter, new>> /\ \A d \in Caller \ {c} : pc'[d] = pc[d]
          /\ pc'[c] \in {"runremove", "remove", "returned", "wgwait", "wgwaiterr", "drain",
                        "removeall", "range", "waitstops"}
      BY <2>1, <1>0
      DEF StopReturns, StopsReturn, ShutdownOnce, ShutdownRange, ShutdownWait, Goto, Return,
          callVars, mgrVars, procVars, TypeInv
    <2>3. \A d \in Caller : ~Spawn(d)
      <3>1. \A d \in Caller \ {c} : ~Spawn(d)
        BY <2>2, <1>0 DEF Spawn, Goto, TypeInv
      <3>2. ~Spawn(c)
        BY <2>2, <1>0 DEF Spawn, Goto, TypeInv
      <3>3. QED
        BY <3>1, <3>2
    <2>4. QED
      BY <1>1, <2>2, <2>3
  <1>6. ASSUME NEW c \in Caller, CtxExpires(c) \/ \E p \in Proc : StopStep(c, p)
        PROVE  UNCHANGED <<registry, tracked, waiter, pc, new>>
    BY <1>6 DEF CtxExpires, StopStep, StopRead, StopCas, StopSignal, StopGrace,
                StopAwait, ForceKill, StopFrame, mgrVars, procVars
  <1>7. ASSUME NEW p \in Proc, WaiterStep(p)
        PROVE  TrackInv'
    <2>0. UNCHANGED <<registry, child, pc, new>>
      BY <1>7 DEF WaiterStep, WaitReturns, WaitFails, Untrack, CloseDone, WaiterExits,
                  callVars, mgrVars
    <2>1. CASE Untrack(p)
      <3>1. /\ tracked' = [tracked EXCEPT ![KeyOf[p]] = NoProc] /\ waiter[p] = "settled"
            /\ waiter' = [waiter EXCEPT ![p] = "untracked"]
        BY <2>1 DEF Untrack
      <3>2. registry[KeyOf[p]] = p
        BY <3>1, <1>h DEF TrackInv
      <3>3. \A q \in Proc : waiter'[q] \in {"wait", "failing", "settled"} =>
               q # p /\ waiter[q] \in {"wait", "failing", "settled"}
        BY <3>1, <1>0 DEF TypeInv
      <3>4. \A q \in Proc : waiter'[q] \in {"wait", "failing", "settled"} =>
               KeyOf[q] # KeyOf[p]
        BY <3>2, <3>3, <1>h DEF TrackInv
      <3>5. \A q \in Proc : waiter'[q] \in {"wait", "failing", "settled"} =>
               tracked'[KeyOf[q]] = q
        BY <3>1, <3>3, <3>4, <1>0 DEF TrackInv, TypeInv
      <3>6. \A c \in Caller : pc[c] = "launch" => KeyOf[new[c]] # KeyOf[p]
        BY <3>1, <3>2, <1>0 DEF KeyInv, HoldsKey, AfterSpawn, OwnInv, Owns
      <3>7. \A c \in Caller : pc[c] = "launch" => tracked'[KeyOf[new[c]]] = new[c]
        BY <3>1, <3>6, <1>0 DEF TrackInv, TypeInv, StartPC
      <3>8. QED
        BY <2>0, <3>5, <3>7 DEF TrackInv
    <2>2. CASE ~Untrack(p)
      <3>1. UNCHANGED tracked
        BY <1>7, <2>2 DEF WaiterStep, WaitReturns, WaitFails, CloseDone, WaiterExits, mgrVars
      <3>2. \A q \in Proc : waiter'[q] \in {"wait", "failing", "settled"} =>
               waiter[q] \in {"wait", "failing", "settled"}
        BY <1>7, <2>2, <1>0
        DEF WaiterStep, WaitReturns, WaitFails, CloseDone, WaiterExits, TypeInv
      <3>3. QED
        BY <2>0, <3>1, <3>2 DEF TrackInv
    <2>3. QED
      BY <2>1, <2>2
  <1>8. ASSUME NEW p \in Proc, ChildExits(p) \/ ChildDies(p)
        PROVE  UNCHANGED <<registry, tracked, waiter, pc, new>>
    BY <1>8 DEF ChildExits, ChildDies, callVars, mgrVars
  <1>9. ASSUME HealthRead \/ HealthAct \/ HealthExits \/ Terminated \/ UNCHANGED vars
        PROVE  UNCHANGED <<registry, tracked, waiter, pc, new>>
    BY <1>9 DEF HealthRead, HealthAct, HealthExits, HealthFrame, Terminated, vars, callVars,
                mgrVars, procVars
  <1>10. QED
    BY <1>1, <1>2, <1>3, <1>4, <1>5, <1>6, <1>7, <1>8, <1>9 DEF Next

\* Where calls free no key, an object that runs and whose Start has finished is
\* in the PID tracker: no waiter of a predecessor removes its entry.
THEOREM RunningTracked ==
    ASSUME PlainCalls
    PROVE  Spec => []RunningIsTracked
  <1>0. KeepsKeys
    BY DEF PlainCalls, KeepsKeys
  <1>1. Init => OpInv /\ KeyInv /\ TrackInv
    BY DEF Init, OpInv, KeyInv, HoldsKey, Syncs, AfterSpawn, TrackInv
  <1>2. IInv /\ OpInv /\ KeyInv /\ TrackInv /\ [Next]_vars => OpInv' /\ KeyInv' /\ TrackInv'
    BY <1>0, OpStep, KeyStep, TrackStep DEF IInv
  <1>3. TrackInv => RunningIsTracked
    BY DEF TrackInv, RunningIsTracked
  <1>4. QED
    BY <1>1, <1>2, <1>3, Inductive, PTL DEF Spec

-----------------------------------------------------------------------------
(***************************************************************************)
(* ProcessManager implements ProcessLife: each of its steps is a step of   *)
(* the abstract life cycle of one object, of several that are force-killed *)
(* together, or leaves that life cycle alone.                              *)
(***************************************************************************)
LifeStutters == UNCHANGED <<state, done, totalFailed, shuttingDown>>

\* A Start claims, gives back, runs or fails its object, or announces a failure.
LEMMA StartRefines ==
    ASSUME IInv, NEW c \in Caller, StartStep(c)
    PROVE  LifeStutters \/ Life!LifeNext
  <1> DEFINE p == new[c]
  <1> USE DEF IInv, OwnInv, Owns, BeforeSpawn, AfterFail, AfterSpawn,
              mgrVars, downVars, Life!Move
  <1>0. pc[c] \in StartPC => p \in Proc
    BY DEF CallInv, StartsPC
  <1> USE <1>0 DEF StartPC
  <1>1. CASE CasStarting(c)
    <2>1. LifeStutters \/ Life!Claim(p)
      BY <1>1 DEF CasStarting, LifeStutters, Life!Claim
    <2>2. QED
      BY <1>1, <2>1 DEF CasStarting, Life!LifeNext
  <1>2. CASE RegisterCheck(c) \/ RegisterStore(c)
    <2>1. LifeStutters \/ Life!GiveBack(p)
      BY <1>2 DEF RegisterCheck, RegisterStore, LifeStutters, Life!GiveBack
    <2>2. QED
      BY <1>2, <2>1 DEF RegisterCheck, RegisterStore, Life!LifeNext
  <1>3. CASE Spawn(c)
    <2>1. Life!Run(p)
      BY <1>3 DEF Spawn, Life!Run
    <2>2. QED
      BY <1>3, <2>1 DEF Spawn, Life!LifeNext
  <1>4. CASE FailState(c)
    <2>1. Life!FailToStart(p)
      BY <1>4 DEF FailState, Life!FailToStart
    <2>2. QED
      BY <1>4, <2>1 DEF FailState, Life!LifeNext
  <1>5. CASE FailClose(c)
    <2>1. Life!Announce(p)
      BY <1>5 DEF FailClose, Life!Announce, Life!Final
    <2>2. QED
      BY <1>5, <2>1 DEF FailClose, Life!LifeNext
  <1>6. CASE TakeTicket(c) \/ SpawnFails(c) \/ Track(c) \/ LaunchWaiter(c)
               \/ FailUnregister(c) \/ ReleaseTicket(c)
    BY <1>6 DEF TakeTicket, SpawnFails, Track, LaunchWaiter, FailUnregister,
                ReleaseTicket, LifeStutters, procVars
  <1>7. QED
    BY <1>1, <1>2, <1>3, <1>4, <1>5, <1>6 DEF StartStep

\* Stops only mark what is Running, singly or in the sweep at a deadline.
LEMMA StopRefines ==
    ASSUME IInv, NEW c \in Caller,
           StopsReturn(c) \/ \E p \in Proc : StopStep(c, p)
    PROVE  LifeStutters \/ Life!LifeNext
  <1> USE DEF IInv, mgrVars, downVars
  <1>0. ASSUME NEW ps \in SUBSET Proc, Life!MarkStopping(ps)
        PROVE  Life!LifeNext
    BY <1>0 DEF Life!LifeNext
  <1>1. CASE StopsReturn(c)
    <2>1. CASE UNCHANGED state
      BY <1>1, <2>1 DEF StopsReturn, LifeStutters
    <2>2. ASSUME NEW ps, ForceKillAll(ps), ps \subseteq Proc
          PROVE  Life!LifeNext
      <3>1. Life!MarkStopping({p \in ps : state[p] = "running"})
        BY <1>1, <2>2 DEF StopsReturn, ForceKillAll, Life!MarkStopping
      <3>2. QED
        BY <1>0, <2>2, <3>1
    <2>3. Registered \subseteq Proc /\ held[c] \subseteq Proc
      BY DEF Registered, TypeInv
    <2>4. QED
      BY <1>1, <2>1, <2>2, <2>3 DEF StopsReturn
  <1>2. ASSUME NEW p \in Proc, StopStep(c, p)
        PROVE  LifeStutters \/ Life!LifeNext
    <2>1. UNCHANGED <<done, totalFailed, shuttingDown>>
      BY <1>2 DEF StopStep, StopRead, StopCas, StopSignal, StopGrace, StopAwait,
                  ForceKill, StopFrame
    <2>2. \/ UNCHANGED state
          \/ state[p] = "running" /\ state' = [state EXCEPT ![p] = "stopping"]
      <3>1. CASE ForceKill(c, p)
        <4>1. state[p] \in {"running", "stopping"} \cup Terminal
          BY <3>1 DEF ForceKill, StopInv, TypeInv, State
        <4>2. state' = [state EXCEPT ![p] = IF state[p] \in Terminal
                                            THEN state[p] ELSE "stopping"]
          BY <3>1 DEF ForceKill
        <4>3. QED
          BY ZenonT(60), <4>1, <4>2 DEF TypeInv
      <3>2. CASE StopCas(c, p)
        BY <3>2 DEF StopCas
      <3>3. QED
        BY <1>2, <3>1, <3>2
        DEF StopStep, StopRead, StopSignal, StopGrace, StopAwait
    <2>3. CASE /\ state[p] = "running"
               /\ state' = [state EXCEPT ![p] = "stopping"]
      <3>1. Life!MarkStopping({p})
        BY <2>1, <2>3 DEF Life!MarkStopping, TypeInv
      <3>2. QED
        BY <1>0, <3>1
    <2>4. QED
      BY <2>1, <2>2, <2>3 DEF LifeStutters
  <1>3. QED
    BY <1>1, <1>2

\* A waiter ends its object, or counts it as failed, and then announces it.
LEMMA WaiterRefines ==
    ASSUME IInv, NEW p \in Proc, WaiterStep(p)
    PROVE  LifeStutters \/ Life!LifeNext
  <1> USE DEF IInv, ObjInv, mgrVars, downVars, Life!Move
  <1>1. CASE WaitReturns(p)
    <2>1. LifeStutters \/ Life!End(p)
      BY <1>1 DEF WaitReturns, LifeStutters, Life!End
    <2>2. QED
      BY <2>1 DEF Life!LifeNext
  <1>2. CASE WaitFails(p)
    <2>1. Life!Crash(p)
      BY <1>2 DEF WaitFails, Life!Crash
    <2>2. QED
      BY <2>1 DEF Life!LifeNext
  <1>3. CASE CloseDone(p)
    <2>1. Life!Announce(p)
      BY <1>3 DEF CloseDone, Life!Announce, Life!Final, Terminal
    <2>2. QED
      BY <2>1 DEF Life!LifeNext
  <1>4. CASE Untrack(p) \/ WaiterExits(p)
    BY <1>4 DEF Untrack, WaiterExits, LifeStutters
  <1>5. QED
    BY <1>1, <1>2, <1>3, <1>4 DEF WaiterStep

\* Every other step leaves the life cycle alone, but for the shutdown flag.
LEMMA RestRefines ==
    ASSUME IInv, [Next]_vars,
           \A c \in Caller : ~StartStep(c) /\ ~StopsReturn(c),
           \A c \in Caller, p \in Proc : ~StopStep(c, p),
           \A p \in Proc : ~WaiterStep(p)
    PROVE  LifeStutters \/ Life!LifeNext
  <1>1. ASSUME NEW c \in Caller, BeginCall(c) \/ CtxExpires(c)
        PROVE  LifeStutters
    BY <1>1 DEF BeginCall, BeginStart, BeginStartOrReuse, BeginRunSync,
                BeginRestart, BeginStop, BeginStopAll, BeginStopByPath,
                BeginShutdown, Begin, CtxExpires, procVars, mgrVars, downVars,
                LifeStutters
  <1>2. ASSUME NEW c \in Caller, CallStep(c), ~ShutdownOnce(c)
        PROVE  LifeStutters
    BY <1>2 DEF CallStep, Lookup, ReadOld, WaitOld, RemoveOld, StopReturns,
                AwaitRun, RunRemove, LaunchStops, Drain, RemoveAll,
                ShutdownRange, ShutdownWait, procVars, mgrVars, downVars,
                LifeStutters
  <1>3. ASSUME NEW c \in Caller, ShutdownOnce(c)
        PROVE  LifeStutters \/ Life!LifeNext
    <2>1. UNCHANGED <<state, done, totalFailed>>
      BY <1>3 DEF ShutdownOnce, procVars, mgrVars
    <2>2. UNCHANGED shuttingDown \/ shuttingDown' = TRUE
      BY <1>3 DEF ShutdownOnce, downVars
    <2>3. shuttingDown \in BOOLEAN
      BY DEF IInv, TypeInv
    <2>4. CASE shuttingDown' = shuttingDown
      BY <2>1, <2>4 DEF LifeStutters
    <2>5. CASE ~shuttingDown /\ shuttingDown' = TRUE
      BY <2>1, <2>5 DEF Life!GoDown, Life!LifeNext
    <2>6. QED
      BY <2>2, <2>3, <2>4, <2>5
  <1>4. ASSUME NEW p \in Proc, ChildExits(p) \/ ChildDies(p)
        PROVE  LifeStutters
    BY <1>4 DEF ChildExits, ChildDies, mgrVars, downVars, LifeStutters
  <1>5. CASE HealthRead \/ HealthAct \/ HealthExits
    <2>1. UNCHANGED state
      BY <1>5 DEF HealthRead, HealthAct, HealthExits, IInv, TypeInv, ObjInv
    <2>2. QED
      BY <1>5, <2>1 DEF HealthRead, HealthAct, HealthExits, HealthFrame,
                        downVars, LifeStutters
  <1>6. CASE Terminated \/ UNCHANGED vars
    BY <1>6 DEF Terminated, vars, procVars, mgrVars, downVars, LifeStutters
  <1>7. QED
    BY <1>1, <1>2, <1>3, <1>4, <1>5, <1>6 DEF Next

\* Whoever takes the steps, an object lives as ProcessLife says: it never leaves
\* a final state, done is closed once and only then, failures are counted one by
\* one, and nothing starts to run after the shutdown flag.
THEOREM LifeIsImplemented == Spec => ImplementsLife
  <1>1. Init => Life!LifeInit
    BY DEF Init, Life!LifeInit
  <1>2. IInv /\ [Next]_vars => [Life!LifeNext]_(Life!lifeVars)
    <2> SUFFICES ASSUME IInv, [Next]_vars
                 PROVE  LifeStutters \/ Life!LifeNext
      BY DEF LifeStutters, Life!lifeVars
    <2>1. QED
      BY StartRefines, StopRefines, WaiterRefines, RestRefines
  <1>3. QED
    BY <1>1, <1>2, Inductive, PTL DEF Spec, ImplementsLife, Life!LifeSpec
=============================================================================
