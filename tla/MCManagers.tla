------------------------------ MODULE MCManagers ------------------------------
(***************************************************************************)
(* The process manager and the scheduler, which share no state, checked    *)
(* side by side with their liveness.  The initial state settles which of   *)
(* the two runs; the other stays as it is, and nobody has called it yet,   *)
(* so that none of its fair actions is enabled.                            *)
(***************************************************************************)
EXTENDS Scheduler, TLC

CONSTANTS Caller, Proc, Web, A, NoProc, c1, c2, c3

VARIABLES part,
          registry, state, done, child, waiter, tracked, totalFailed, tickets,
          shuttingDown, once, health, mpc, op, new, held, stop, expired, ret

managerVars == <<registry, state, done, child, waiter, tracked, totalFailed, tickets,
                 shuttingDown, once, health, mpc, op, new, held, stop, expired, ret>>

\* A start that may find its predecessor being stopped, under one key; no
\* context is ever cancelled.
LiveOps == c1 :> {"StartOrReuse", "Stop"}
        @@ c2 :> {"Start"}
        @@ c3 :> {"Stop", "Shutdown"}

Manager == INSTANCE ProcessManager WITH
    Id <- {Web}, Path <- {A}, KeyOf <- [p \in Proc |-> <<Web, A>>],
    Ops <- LiveOps, Cancellable <- {}, HealthOn <- FALSE,
    pc <- mpc, wg <- tickets, ctxDone <- expired

MCInit == part \in {"manager", "scheduler"} /\ Init /\ Manager!Init

MCNext ==
    /\ UNCHANGED part
    /\ \/ part = "scheduler" /\ Next /\ UNCHANGED managerVars
       \/ part = "manager" /\ Manager!Next /\ UNCHANGED vars

Managing == part = "manager"
Scheduling == part = "scheduler"

\* Fairness of the manager and Fairness of the scheduler, each where that part
\* runs; there is no health loop here.
ManagerFairness ==
    /\ \A c \in Caller : WF_managerVars(Managing /\ Manager!CallStep(c))
    /\ \A c \in Caller, p \in Proc : WF_managerVars(Managing /\ Manager!StopStep(c, p))
    /\ \A p \in Proc : /\ WF_managerVars(Managing /\ Manager!WaiterStep(p))
                       /\ WF_managerVars(Managing /\ Manager!ChildDies(p))

SchedulerFairness ==
    /\ \A a \in Agent : WF_vars(Scheduling /\ AgentStep(a))
    /\ \A c \in Canceller : WF_vars(Scheduling /\ CancelMark(c))
    /\ \A w \in Worker : WF_vars(Scheduling /\ WorkerStep(w))
    /\ \A i \in Id : WF_vars(Scheduling /\ \E w \in Worker : Dispatch(w, i))
    /\ WF_vars(Scheduling /\ RunExits) /\ WF_vars(Scheduling /\ StartPublish)
    /\ WF_vars(Scheduling /\ StartRun) /\ WF_vars(Scheduling /\ StopEnd)

MCSpec == /\ MCInit /\ [][MCNext]_<<part, vars, managerVars>>
          /\ ManagerFairness /\ SchedulerFairness
-----------------------------------------------------------------------------
\* What a stop of the process manager has begun ends (StopProcess, forceKill,
\* waitForProcess).
StoppingEnds == Manager!StoppingEnds

\* Shutdown returns, even without a deadline, provided that it can find what is
\* Running (Shutdown).
ShutdownReturns == Manager!ShutdownReturns

\* Every call of the process manager that does not wait for a process to finish
\* by itself returns (Start, StartOrReuse, Restart, Stop, StopAll,
\* StopByProjectPath).
CallsReturn == Manager!CallsReturn
=============================================================================
