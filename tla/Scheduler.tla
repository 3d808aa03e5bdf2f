------------------------------ MODULE Scheduler ------------------------------
(***************************************************************************)
(* The task scheduler of package scheduler with its StateManager: tasks are *)
(* scheduled, persisted, delivered by goroutines that a tick loop spawns,   *)
(* retried, cancelled, and restored when the scheduler or its process is    *)
(* started again.                                                          *)
(*                                                                         *)
(* One action is one critical section of task.mu, of the StateManager's mu  *)
(* or of the scheduler's mu, one operation of the sync.Map, or the callback *)
(* DeliverFunc.  A crash loses everything but the state file, which is      *)
(* replaced atomically (a temporary file, fsync, rename).                   *)
(*                                                                         *)
(* There is one project, named by StateScanPaths.  Disk writes succeed.  A   *)
(* pending task may be due at any time: delays and backoff are not modelled.*)
(* Start and Stop are called by one goroutine, and nothing is scheduled     *)
(* before the first Start.  Validation and the totals are left out.         *)
(***************************************************************************)
EXTENDS Integers, FiniteSets

CONSTANTS
    Sender,         \* goroutines that schedule one task each; also its payload
    Canceller,      \* goroutines that cancel one task each
    Worker,         \* delivery goroutines that may be in flight at once
    MaxRetries,     \* config.MaxRetries
    MaxStarts,      \* bound: how often one process starts its scheduler
    NoTask          \* nil

Client == Sender \cup Canceller
Agent == Client \cup Worker

\* Each sender takes one ID from nextTaskID, in one process or another.
Id == 1 .. Cardinality(Sender)

\* A *Task is named by the Start that precedes its creation, and its ID.
Obj == (0 .. MaxStarts) \X Id

ASSUME SchedulerAssumption ==
    /\ IsFiniteSet(Sender) /\ IsFiniteSet(Worker)
    /\ Sender \cap Canceller = {} /\ Client \cap Worker = {}
    /\ MaxRetries \in Nat \ {0}
    /\ MaxStarts \in Nat

VARIABLES
    file,     \* the state file: id -> [job, attempts]; every entry is pending
    tasks,    \* s.tasks: id -> object
    task,     \* the fields of each object created in this process
    nextId,   \* s.nextTaskID
    epoch,    \* how often this process has started the scheduler
    ctl,      \* where the goroutine is that starts and stops the scheduler
    loaded,   \* what its Start has read from the file
    ctxDone,  \* s.ctx is cancelled
    runs,     \* the tick loop is running
    wg,       \* the counter of s.wg
    pc,       \* where each client and delivery goroutine is
    obj,      \* the object it works on
    snap,     \* the snapshot it is about to save
    over      \* history: the jobs delivered, failed or cancelled

agentVars == <<pc, obj, snap>>
ctlVars == <<epoch, ctl, loaded, ctxDone, runs>>
vars == <<file, tasks, task, nextId, ctlVars, wg, agentVars, over>>

Entry == [job : Sender, attempts : 0 .. MaxRetries]
Status == {"pending", "delivered", "failed", "cancelled"}
TaskRec == [job : Sender, attempts : 0 .. MaxRetries, status : Status,
            delivering : BOOLEAN]

\* nil is neither an object nor an entry.
ASSUME NoTaskAssumption == NoTask \notin Obj /\ NoTask \notin Entry /\ NoTask \notin TaskRec

PC == {"idle", "persist", "save", "mark", "delete", "erase", "calling", "ok",
       "err", "returned", "refused", "dead"}

NoTasks == [i \in Id |-> NoTask]

Init ==
    /\ file = NoTasks
    /\ tasks = NoTasks
    /\ task = [o \in Obj |-> NoTask]
    /\ nextId = 0
    /\ epoch = 0
    /\ ctl = "down"
    /\ loaded = NoTasks
    /\ ctxDone = FALSE
    /\ runs = FALSE
    /\ wg = 0
    /\ pc = [a \in Agent |-> "idle"]
    /\ obj = [a \in Agent |-> NoTask]
    /\ snap = [a \in Agent |-> NoTask]
    /\ over = {}

-----------------------------------------------------------------------------
(* Helpers. *)

IdOf(o) == o[2]

Goto(a, l) == pc' = [pc EXCEPT ![a] = l] /\ UNCHANGED <<obj, snap, wg>>

\* A client returns; a delivery goroutine ends with its deferred wg.Done.
Finish(a) ==
    /\ pc' = [pc EXCEPT ![a] = IF a \in Worker THEN "idle" ELSE "returned"]
    /\ obj' = IF a \in Canceller THEN obj ELSE [obj EXCEPT ![a] = NoTask]
    /\ snap' = [snap EXCEPT ![a] = NoTask]
    /\ wg' = IF a \in Worker THEN wg - 1 ELSE wg

\* The highest ID in the file; parseTaskIDNum accepts every "task-<n>".
HighestId(f) ==
    CHOOSE n \in Id \cup {0} :
        /\ n = 0 \/ f[n] # NoTask
        /\ \A m \in Id : f[m] # NoTask => m <= n

-----------------------------------------------------------------------------
(* Schedule and Cancel. *)

\* A fresh ID, and the task is visible to the tick loop before it is persisted.
Schedule(s) ==
    LET o == <<epoch, nextId + 1>> IN
    /\ pc[s] = "idle"
    /\ epoch > 0
    /\ nextId + 1 \in Id
    /\ nextId' = nextId + 1
    /\ task' = [task EXCEPT ![o] = [job |-> s, attempts |-> 0,
                                    status |-> "pending", delivering |-> FALSE]]
    /\ tasks' = [tasks EXCEPT ![nextId + 1] = o]
    /\ obj' = [obj EXCEPT ![s] = o]
    /\ pc' = [pc EXCEPT ![s] = "persist"]
    /\ UNCHANGED <<file, ctlVars, wg, snap, over>>

\* persistTask: a snapshot under task.mu, unless the task is over ...
Persist(a) ==
    LET t == task[obj[a]] IN
    /\ pc[a] = "persist"
    /\ IF t.status = "pending"
       THEN /\ snap' = [snap EXCEPT ![a] = [job |-> t.job,
                                            attempts |-> t.attempts]]
            /\ pc' = [pc EXCEPT ![a] = "save"]
            /\ UNCHANGED <<obj, wg>>
       ELSE Finish(a)
    /\ UNCHANGED <<file, tasks, task, nextId, ctlVars, over>>

\* ... which SaveTask writes after the lock is released.
SaveTask(a) ==
    /\ pc[a] = "save"
    /\ file' = [file EXCEPT ![IdOf(obj[a])] = snap[a]]
    /\ Finish(a)
    /\ UNCHANGED <<tasks, task, nextId, ctlVars, over>>

\* Cancel finds the object in the map, and looks at its status under its lock.
CancelLookup(c) ==
    /\ pc[c] = "idle"
    /\ \E i \in Id :
          /\ tasks[i] # NoTask
          /\ obj' = [obj EXCEPT ![c] = tasks[i]]
    /\ pc' = [pc EXCEPT ![c] = "mark"]
    /\ UNCHANGED <<file, tasks, task, nextId, ctlVars, wg, snap, over>>

CancelMark(c) ==
    LET o == obj[c] IN
    /\ pc[c] = "mark"
    /\ IF task[o].status = "pending"
       THEN /\ task' = [task EXCEPT ![o].status = "cancelled"]
            /\ over' = over \cup {task[o].job}
            /\ Goto(c, "delete")
       ELSE Goto(c, "refused") /\ UNCHANGED <<task, over>>
    /\ UNCHANGED <<file, tasks, nextId, ctlVars>>

\* removeTaskFromStorage: out of the map, then out of the file, by ID.
DeleteTask(a) ==
    /\ pc[a] = "delete"
    /\ tasks' = [tasks EXCEPT ![IdOf(obj[a])] = NoTask]
    /\ Goto(a, "erase")
    /\ UNCHANGED <<file, task, nextId, ctlVars, over>>

RemoveTask(a) ==
    /\ pc[a] = "erase"
    /\ file' = [file EXCEPT ![IdOf(obj[a])] = NoTask]
    /\ Finish(a)
    /\ UNCHANGED <<tasks, task, nextId, ctlVars, over>>

-----------------------------------------------------------------------------
(* The tick loop and the deliveries. *)

\* Mutant: no delivering mark, so that a slow delivery is dispatched again.
DispatchUnmarked(w, i) ==
    LET o == tasks[i] IN
    /\ runs
    /\ pc[w] = "idle"
    /\ o # NoTask
    /\ task[o].status = "pending"
    /\ wg' = wg + 1
    /\ obj' = [obj EXCEPT ![w] = o]
    /\ pc' = [pc EXCEPT ![w] = "calling"]
    /\ UNCHANGED <<file, task, tasks, nextId, ctlVars, snap, over>>

\* checkDueTasks: one task of the range, marked under its lock, and the delivery
\* goroutine with its ticket of s.wg.
Dispatch(w, i) ==
    LET o == tasks[i] IN
    /\ runs
    /\ pc[w] = "idle"
    /\ o # NoTask
    /\ task[o].status = "pending"
    /\ ~task[o].delivering
    /\ task' = [task EXCEPT ![o].delivering = TRUE]
    /\ wg' = wg + 1
    /\ obj' = [obj EXCEPT ![w] = o]
    /\ pc' = [pc EXCEPT ![w] = "calling"]
    /\ UNCHANGED <<file, tasks, nextId, ctlVars, snap, over>>

\* DeliverFunc returns nil, or an error (by the timeout of its context at last).
DeliverOk(w) ==
    /\ pc[w] = "calling"
    /\ over' = over \cup {task[obj[w]].job}
    /\ Goto(w, "ok")
    /\ UNCHANGED <<file, tasks, task, nextId, ctlVars>>

DeliverErr(w) ==
    /\ pc[w] = "calling"
    /\ Goto(w, "err")
    /\ UNCHANGED <<file, tasks, task, nextId, ctlVars, over>>

\* Mutant: one attempt too many.
OutcomeOffByOne(w) ==
    LET t == task[obj[w]]
        n == t.attempts + 1
    IN  CASE t.status = "cancelled" -> [t EXCEPT !.delivering = FALSE]
          [] t.status # "cancelled" /\ pc[w] = "ok" ->
                [t EXCEPT !.delivering = FALSE, !.status = "delivered"]
          [] t.status # "cancelled" /\ pc[w] = "err" /\ ctxDone ->
                [t EXCEPT !.delivering = FALSE]
          [] OTHER ->
                [t EXCEPT !.delivering = FALSE, !.attempts = n,
                          !.status = IF n > MaxRetries THEN "failed" ELSE @]

\* Mutant: the mark of a delivery that failed stays.
OutcomeStuck(w) ==
    LET t == task[obj[w]] IN
    IF t.status # "cancelled" /\ pc[w] = "ok"
    THEN [t EXCEPT !.delivering = FALSE, !.status = "delivered"]
    ELSE t

\* What the attempt makes of the task, decided under its lock: a cancellation
\* stands, a failure that the shutdown caused does not count as an attempt.
Outcome(w) ==
    LET t == task[obj[w]]
        n == t.attempts + 1
    IN  CASE t.status = "cancelled" -> [t EXCEPT !.delivering = FALSE]
          [] t.status # "cancelled" /\ pc[w] = "ok" ->
                [t EXCEPT !.delivering = FALSE, !.status = "delivered"]
          [] t.status # "cancelled" /\ pc[w] = "err" /\ ctxDone ->
                [t EXCEPT !.delivering = FALSE]
          [] OTHER ->
                [t EXCEPT !.delivering = FALSE, !.attempts = n,
                          !.status = IF n >= MaxRetries THEN "failed" ELSE @]

\* Mutant: the cancellation is not looked at.
SettleBlind(w) ==
    LET o == obj[w] IN
    /\ pc[w] \in {"ok", "err"}
    /\ task' = [task EXCEPT ![o].delivering = FALSE,
                            ![o].status = IF pc[w] = "ok" THEN "delivered"
                                          ELSE "failed"]
    /\ over' = over \cup {task[o].job}
    /\ Goto(w, "delete")
    /\ UNCHANGED <<file, tasks, nextId, ctlVars>>

\* The end of deliverTask; totals are left out.
Settle(w) ==
    LET o == obj[w] IN
    /\ pc[w] \in {"ok", "err"}
    /\ task' = [task EXCEPT ![o] = Outcome(w)]
    /\ IF task'[o].status = "failed" THEN over' = over \cup {task[o].job}
                                     ELSE UNCHANGED over
    /\ CASE task'[o].status = "cancelled" -> Finish(w)
         [] task'[o].status \in {"delivered", "failed"} -> Goto(w, "delete")
         [] task'[o].status = "pending" -> Goto(w, "persist")
    /\ UNCHANGED <<file, tasks, nextId, ctlVars>>

\* run: the loop sees s.ctx.Done and gives its ticket back.
RunExits ==
    /\ runs
    /\ ctxDone
    /\ runs' = FALSE
    /\ wg' = wg - 1
    /\ UNCHANGED <<file, tasks, task, nextId, epoch, ctl, loaded, ctxDone,
                   agentVars, over>>

-----------------------------------------------------------------------------
(* Start, Stop, and the end of the process. *)

\* LoadAllTasks reads the file under the StateManager's lock.
StartLoad ==
    /\ ctl = "down"
    /\ epoch < MaxStarts
    /\ ctxDone' = FALSE
    /\ loaded' = file
    /\ ctl' = "publish"
    /\ UNCHANGED <<file, tasks, task, nextId, epoch, runs, wg, agentVars, over>>

\* Every task read becomes a new object, which replaces what the map holds.
StartPublish ==
    LET new(i) == <<epoch + 1, i>> IN
    /\ ctl = "publish"
    /\ tasks' = [i \in Id |-> IF loaded[i] # NoTask THEN new(i) ELSE tasks[i]]
    /\ task' = [o \in Obj |->
                   IF o[1] = epoch + 1 /\ loaded[IdOf(o)] # NoTask
                   THEN [job |-> loaded[IdOf(o)].job,
                         attempts |-> loaded[IdOf(o)].attempts,
                         status |-> "pending", delivering |-> FALSE]
                   ELSE task[o]]
    /\ ctl' = "bump"
    /\ UNCHANGED <<file, nextId, epoch, loaded, ctxDone, runs, wg, agentVars,
                   over>>

\* Mutant: new IDs start where this process left off.
StartRunUnbumped ==
    /\ ctl = "bump"
    /\ epoch' = epoch + 1
    /\ runs' = TRUE
    /\ wg' = wg + 1
    /\ loaded' = NoTasks
    /\ ctl' = "up"
    /\ UNCHANGED <<file, tasks, task, nextId, ctxDone, agentVars, over>>

\* nextTaskID is raised above every ID that was read; then the loop starts.
StartRun ==
    LET high == HighestId(loaded) IN
    /\ ctl = "bump"
    /\ nextId' = IF high > nextId THEN high ELSE nextId
    /\ epoch' = epoch + 1
    /\ runs' = TRUE
    /\ wg' = wg + 1
    /\ loaded' = NoTasks
    /\ ctl' = "up"
    /\ UNCHANGED <<file, tasks, task, ctxDone, agentVars, over>>

\* Stop cancels s.ctx and waits.  (That the context Start was given ends, before
\* Stop is called, is the same step.)
StopBegin ==
    /\ ctl = "up"
    /\ ctxDone' = TRUE
    /\ ctl' = "stopping"
    /\ UNCHANGED <<file, tasks, task, nextId, epoch, loaded, runs, wg, agentVars,
                   over>>

\* Mutant: Stop does not wait for the deliveries, only for the loop.
StopEndEarly ==
    /\ ctl = "stopping"
    /\ ~runs
    /\ ctl' = "down"
    /\ UNCHANGED <<file, tasks, task, nextId, epoch, loaded, ctxDone, runs, wg,
                   agentVars, over>>

\* s.wg.Wait has returned.
StopEnd ==
    /\ ctl = "stopping"
    /\ wg = 0
    /\ ctl' = "down"
    /\ UNCHANGED <<file, tasks, task, nextId, epoch, loaded, ctxDone, runs, wg,
                   agentVars, over>>

\* The process dies and another one takes over; clients in a call die with it.
Crash ==
    /\ tasks' = NoTasks
    /\ task' = [o \in Obj |-> NoTask]
    /\ nextId' = 0
    /\ epoch' = 0
    /\ ctl' = "down"
    /\ loaded' = NoTasks
    /\ ctxDone' = FALSE
    /\ runs' = FALSE
    /\ wg' = 0
    /\ pc' = [a \in Agent |-> IF a \in Worker THEN "idle"
                              ELSE IF pc[a] \in {"idle", "returned", "refused"}
                                   THEN pc[a] ELSE "dead"]
    /\ obj' = [a \in Agent |-> NoTask]
    /\ snap' = [a \in Agent |-> NoTask]
    /\ UNCHANGED <<file, over>>

-----------------------------------------------------------------------------
AgentStep(a) == Persist(a) \/ SaveTask(a) \/ DeleteTask(a) \/ RemoveTask(a)

WorkerStep(w) == DeliverOk(w) \/ DeliverErr(w) \/ Settle(w)

CtlStep == StartLoad \/ StartPublish \/ StartRun \/ StopBegin \/ StopEnd

Next ==
    \/ \E s \in Sender : Schedule(s)
    \/ \E c \in Canceller : CancelLookup(c) \/ CancelMark(c)
    \/ \E a \in Agent : AgentStep(a)
    \/ \E w \in Worker : WorkerStep(w) \/ \E i \in Id : Dispatch(w, i)
    \/ RunExits \/ CtlStep \/ Crash

Spec == Init /\ [][Next]_vars

\* Goroutines run, the ticker ticks, and DeliverFunc returns by its timeout.
\* Nobody promises to call Start, or that a process lives.
Fairness ==
    /\ \A a \in Agent : WF_vars(AgentStep(a))
    /\ \A c \in Canceller : WF_vars(CancelMark(c))
    /\ \A w \in Worker : WF_vars(WorkerStep(w))
    /\ \A i \in Id : WF_vars(\E w \in Worker : Dispatch(w, i))
    /\ WF_vars(RunExits) /\ WF_vars(StartPublish) /\ WF_vars(StartRun)
    /\ WF_vars(StopEnd)

FairSpec == Spec /\ Fairness

-----------------------------------------------------------------------------
(* Properties. *)

TypeOK ==
    /\ file \in [Id -> Entry \cup {NoTask}]
    /\ tasks \in [Id -> Obj \cup {NoTask}]
    /\ task \in [Obj -> TaskRec \cup {NoTask}]
    /\ nextId \in Id \cup {0}
    /\ epoch \in 0 .. MaxStarts
    /\ ctl \in {"down", "publish", "bump", "up", "stopping"}
    /\ loaded \in [Id -> Entry \cup {NoTask}]
    /\ ctxDone \in BOOLEAN
    /\ runs \in BOOLEAN
    /\ wg \in Nat
    /\ pc \in [Agent -> PC]
    /\ obj \in [Agent -> Obj \cup {NoTask}]
    /\ snap \in [Agent -> Entry \cup {NoTask}]
    /\ over \subseteq Sender

InFlight(w) == pc[w] \in {"calling", "ok", "err"}

\* At most one delivery of a job is in flight, over ticks, retries and a restart
\* that turns the persisted job into a second object.
NoConcurrentDelivery ==
    \A v, w \in Worker :
        InFlight(v) /\ InFlight(w) /\ v # w => task[obj[v]].job # task[obj[w]].job

\* When Stop has returned, and until the next Start has begun to run, no delivery
\* goroutine is left that could still write a task or the file.
StopDrains == ctl \in {"down", "publish", "bump"} =>
                 \A w \in Worker : pc[w] = "idle"

\* A job whose Schedule returned, and which is neither delivered, failed nor
\* cancelled, is in the state file: no crash loses it, whatever the retries,
\* restarts and new IDs since.
NothingLost ==
    \A s \in Sender : pc[s] = "returned" /\ s \notin over =>
        \E i \in Id : file[i] # NoTask /\ file[i].job = s

\* A task that was delivered, failed or cancelled stays so as long as its process
\* lives: a delivery in flight does not overwrite a cancellation.
StatusIsFinal ==
    [][\A o \in Obj : task[o] # NoTask /\ task[o].status # "pending"
                         /\ task'[o] # NoTask
                         => task'[o].status = task[o].status]_vars

\* A job whose Schedule returned is delivered, failed or cancelled in the end,
\* across crashes and restarts, once a scheduler stays up.
TasksResolve ==
    <>[](ctl = "up" /\ ~ctxDone) =>
        \A s \in Sender : (pc[s] = "returned") ~> (s \in over)

\* The scheduler implements the queue that JobQueue promises: a job is given when
\* Schedule has made its task and accepted when it has returned; it is stored when
\* an entry of the file is its own.
Given == {s \in Sender : pc[s] # "idle"}
Accepted == {s \in Sender : pc[s] = "returned"}
Stored == {file[i].job : i \in {k \in Id : file[k] # NoTask}}
Deliveries == {<<w, task[obj[w]].job>> : w \in {v \in Worker : InFlight(v)}}

Queue == INSTANCE JobQueue
         WITH Job <- Sender, Slot <- Worker, given <- Given, accepted <- Accepted,
              stored <- Stored, flight <- Deliveries
ImplementsQueue == Queue!QueueSpec

\* When Cancel has returned nil, storage no longer holds the task: a restart does
\* not bring it back.
CancelledIsForgotten ==
    \A c \in Canceller :
        pc[c] = "returned" /\ obj[c] # NoTask => file[IdOf(obj[c])] = NoTask
=============================================================================
