--------------------------- MODULE SchedulerProofs ---------------------------
(***************************************************************************)
(* Theorems about Scheduler, for any numbers of jobs, cancellations,        *)
(* delivery goroutines, retries, starts and crashes.  IInv is the inductive *)
(* invariant; its centre is NameInv: whatever stands under one ID, in the   *)
(* file, in the objects and in what a start has read, is one and the same   *)
(* job, and a job stands under one ID.                                      *)
(***************************************************************************)
EXTENDS Scheduler, TLAPS, FiniteSetTheorems, WellFoundedInduction

\* TypeOK without the counter, whose type follows from WgInv; an entry that
\* may still be tried has attempts left.
Pending == [job : Sender, attempts : 0 .. MaxRetries - 1]

TypeInv ==
    /\ file \in [Id -> Pending \cup {NoTask}]
    /\ tasks \in [Id -> Obj \cup {NoTask}]
    /\ task \in [Obj -> TaskRec \cup {NoTask}]
    /\ nextId \in Id \cup {0}
    /\ epoch \in 0 .. MaxStarts
    /\ ctl \in {"down", "publish", "bump", "up", "stopping"}
    /\ loaded \in [Id -> Pending \cup {NoTask}]
    /\ ctxDone \in BOOLEAN
    /\ runs \in BOOLEAN
    /\ pc \in [Agent -> PC]
    /\ obj \in [Agent -> Obj \cup {NoTask}]
    /\ snap \in [Agent -> Pending \cup {NoTask}]
    /\ over \subseteq Sender
    /\ \A o \in Obj : task[o] # NoTask /\ task[o].status = "pending"
                         => task[o].attempts < MaxRetries

SenderPC == {"idle", "persist", "save", "returned", "dead"}
CancellerPC == {"idle", "mark", "delete", "erase", "returned", "refused", "dead"}
WorkerPC == {"idle", "calling", "ok", "err", "persist", "save", "delete", "erase"}
Active(a) == pc[a] \notin {"idle", "returned", "refused", "dead"}

\* Where a goroutine can be, and what it knows of the object it works on.
Works(a) ==
    /\ a \in Sender => pc[a] \in SenderPC
    /\ a \in Canceller => pc[a] \in CancellerPC
    /\ a \in Worker => pc[a] \in WorkerPC
    /\ Active(a) => obj[a] \in Obj /\ task[obj[a]] # NoTask
    /\ pc[a] = "save" => snap[a] # NoTask /\ snap[a].job = task[obj[a]].job
    /\ a \in Sender /\ Active(a) => task[obj[a]].job = a
    /\ pc[a] \in {"delete", "erase"} => task[obj[a]].status # "pending"

AgentInv == \A a \in Agent : Works(a)

\* Where Start and Stop are, and what can be there meanwhile.
CtlInv ==
    /\ runs => ctl \in {"up", "stopping"}
    /\ ctl \in {"down", "publish", "bump"} => \A w \in Worker : pc[w] = "idle"
    /\ ctl \in {"publish", "bump"} => epoch < MaxStarts
    /\ ctl \in {"up", "stopping"} => epoch > 0
    /\ ctl \notin {"publish", "bump"} => loaded = NoTasks
    /\ epoch = 0 => nextId = 0 /\ \A s \in Sender : ~Active(s)

\* No object is younger than the last start; the map holds known objects.
ObjInv ==
    /\ \A o \in Obj : task[o] # NoTask =>
          o[1] <= epoch \/ (ctl = "bump" /\ o[1] = epoch + 1)
    /\ \A i \in Id : tasks[i] # NoTask =>
          tasks[i][2] = i /\ task[tasks[i]] # NoTask

\* ID i stands for job s: in an object, in the file, or in what Start has read.
Stands(i, s) ==
    \/ \E o \in Obj : o[2] = i /\ task[o] # NoTask /\ task[o].job = s
    \/ file[i] # NoTask /\ file[i].job = s
    \/ loaded[i] # NoTask /\ loaded[i].job = s

NameInv ==
    /\ \A i, j \in Id, s, t \in Sender : Stands(i, s) /\ Stands(j, t) => (i = j <=> s = t)
    /\ \A i \in Id, s \in Sender : Stands(i, s) => pc[s] # "idle"
    /\ \A i \in Id, s \in Sender : Stands(i, s) /\ epoch > 0 => i <= nextId
    /\ \A i \in Id, s \in Sender :
          Stands(i, s) /\ epoch = 0 /\ ctl \in {"publish", "bump"} => loaded[i] # NoTask
    /\ epoch = 0 /\ ctl = "down" => \A o \in Obj : task[o] = NoTask

\* What a delivery in flight knows of its task.
Flight(w) ==
    /\ task[obj[w]].delivering
    /\ task[obj[w]].status \in {"pending", "cancelled"}
    /\ tasks[IdOf(obj[w])] \in {obj[w], NoTask}
    /\ pc[w] = "ok" => task[obj[w]].job \in over

FlightInv ==
    /\ \A w \in Worker : InFlight(w) => Flight(w)
    /\ \A v, w \in Worker :
          InFlight(v) /\ InFlight(w) /\ IdOf(obj[v]) = IdOf(obj[w]) => v = w

\* A task that is not pending any more is over.
OverInv ==
    \A o \in Obj : task[o] # NoTask /\ task[o].status # "pending" => task[o].job \in over

IInv == TypeInv /\ AgentInv /\ CtlInv /\ ObjInv /\ NameInv /\ FlightInv /\ OverInv

\* The counter of s.wg is the number of delivery goroutines and of tick loops.
WgInv == wg = Cardinality({w \in Worker : pc[w] # "idle"}) + (IF runs THEN 1 ELSE 0)

-----------------------------------------------------------------------------
(* Facts about the constants and the helpers. *)

\* IDs are positive numbers.
LEMMA IdFacts == Cardinality(Sender) \in Nat /\ \A i \in Id : i \in Nat /\ i > 0
<1>1. Cardinality(Sender) \in Nat
  BY SchedulerAssumption, FS_CardinalityType
<1> QED  BY <1>1 DEF Id

\* An object is its start and its ID.
LEMMA ObjFacts ==
  /\ \A o \in Obj : o[1] \in 0 .. MaxStarts /\ o[2] \in Id /\ o = <<o[1], o[2]>>
  /\ \A n \in 0 .. MaxStarts, i \in Id :
        <<n, i>> \in Obj /\ <<n, i>>[1] = n /\ <<n, i>>[2] = i
BY DEF Obj

\* The three kinds of goroutines are distinct.
LEMMA AgentFacts ==
  /\ \A s \in Sender : s \in Agent /\ s \notin Canceller /\ s \notin Worker
  /\ \A c \in Canceller : c \in Agent /\ c \notin Sender /\ c \notin Worker
  /\ \A w \in Worker : w \in Agent /\ w \notin Sender /\ w \notin Canceller
  /\ \A a \in Agent : a \in Sender \/ a \in Canceller \/ a \in Worker
BY SchedulerAssumption DEF Agent, Client

\* An entry or a task is never nil, nor is a new task.
LEMMA NilFacts ==
  /\ NoTask \notin Obj /\ NoTask \notin TaskRec /\ NoTask \notin Pending
  /\ \A s \in Sender :
        [job |-> s, attempts |-> 0, status |-> "pending", delivering |-> FALSE] # NoTask
<1>1. MaxRetries \in Nat /\ MaxRetries > 0
  BY SchedulerAssumption
<1>2. \A e \in Pending : e \in Entry
  BY <1>1 DEF Pending, Entry
<1>3. \A s \in Sender :
        [job |-> s, attempts |-> 0, status |-> "pending", delivering |-> FALSE] \in TaskRec
  BY <1>1 DEF TaskRec, Status
<1> QED  BY <1>2, <1>3, NoTaskAssumption

\* There is a highest ID, and every ID in use is at most that: the CHOOSE of
\* HighestId has something to choose.
LEMMA HighestIdFacts ==
  ASSUME NEW f
  PROVE  /\ HighestId(f) \in Id \cup {0}
         /\ \A m \in Id : f[m] # NoTask => m <= HighestId(f)
<1> DEFINE Above == {n \in Nat : \A m \in Id : f[m] # NoTask => m <= n}
<1>1. Cardinality(Sender) \in Above
  BY IdFacts DEF Id
<1>2. PICK n \in Above : \A k \in Above : ~(<<k, n>> \in OpToRel(<, Nat))
  BY <1>1, NatLessThanWellFounded, WFMin, Zenon
<1>3. \A k \in Above : ~(k < n)
  BY <1>2 DEF OpToRel
<1>4. n = 0 \/ (n \in Id /\ f[n] # NoTask)
  <2>1. SUFFICES ASSUME n # 0, ~(n \in Id /\ f[n] # NoTask) PROVE FALSE
    OBVIOUS
  <2>2. n - 1 \in Above
    BY <2>1, IdFacts
  <2> QED  BY <2>2, <1>3
<1>5. \E x \in Id \cup {0} : /\ x = 0 \/ f[x] # NoTask
                           /\ \A m \in Id : f[m] # NoTask => m <= x
  BY <1>4
<1> QED  BY <1>5, Zenon DEF HighestId

\* What an attempt makes of its task: still the same job; a cancelled task stays
\* cancelled, and a task that stays pending has attempts left.
LEMMA OutcomeFacts ==
  ASSUME NEW w, pc[w] \in {"ok", "err"}, task[obj[w]] \in TaskRec,
         task[obj[w]].status \in {"pending", "cancelled"},
         task[obj[w]].status = "pending" => task[obj[w]].attempts < MaxRetries
  PROVE  /\ Outcome(w) \in TaskRec
         /\ Outcome(w).job = task[obj[w]].job
         /\ task[obj[w]].status = "cancelled" => Outcome(w).status = "cancelled"
         /\ Outcome(w).status = "cancelled" => task[obj[w]].status = "cancelled"
         /\ Outcome(w).status = "pending" => Outcome(w).attempts < MaxRetries
         /\ Outcome(w).status = "delivered" => pc[w] = "ok"
         /\ Outcome(w).status \in Status
<1> DEFINE t == task[obj[w]]
           n == t.attempts + 1
<1>1. /\ t \in TaskRec /\ t.attempts \in 0 .. MaxRetries /\ MaxRetries \in Nat \ {0}
      /\ t.status \in {"pending", "cancelled"}
      /\ t.status = "pending" => t.attempts < MaxRetries
  BY SchedulerAssumption DEF TaskRec
<1>2. CASE t.status = "cancelled" \/ (t.status # "cancelled" /\ pc[w] = "err" /\ ctxDone)
  <2>1. Outcome(w) = [t EXCEPT !.delivering = FALSE]
    BY <1>2 DEF Outcome
  <2> QED  BY <1>1, <1>2, <2>1 DEF TaskRec
<1>3. CASE t.status # "cancelled" /\ pc[w] = "ok"
  <2>1. Outcome(w) = [t EXCEPT !.delivering = FALSE, !.status = "delivered"]
    BY <1>3 DEF Outcome
  <2> QED  BY <1>1, <1>3, <2>1 DEF TaskRec, Status
<1>4. CASE t.status # "cancelled" /\ pc[w] = "err" /\ ~ctxDone
  <2>1. Outcome(w) = [t EXCEPT !.delivering = FALSE, !.attempts = n,
                               !.status = IF n >= MaxRetries THEN "failed" ELSE @]
    BY <1>4 DEF Outcome
  <2>2. n \in 0 .. MaxRetries
    BY <1>1, <1>4
  <2>3. CASE n >= MaxRetries
    <3>1. Outcome(w) = [t EXCEPT !.delivering = FALSE, !.attempts = n, !.status = "failed"]
      BY <2>1, <2>3
    <3> HIDE DEF n
    <3> QED  BY <1>1, <1>4, <2>2, <3>1 DEF TaskRec, Status
  <2>4. CASE n < MaxRetries
    <3>1. Outcome(w) = [t EXCEPT !.delivering = FALSE, !.attempts = n, !.status = t.status]
      <4>1. ~(n >= MaxRetries)
        BY <1>1, <2>2, <2>4
      <4> HIDE DEF t, n
      <4> QED  BY <2>1, <4>1, Zenon
    <3> HIDE DEF n
    <3> QED  BY <1>1, <1>4, <2>2, <2>4, <3>1 DEF TaskRec, Status
  <2> QED  BY <1>1, <2>2, <2>3, <2>4
<1>5. Outcome(w) \in TaskRec => Outcome(w).status \in Status
  BY DEF TaskRec
<1> QED  BY <1>1, <1>2, <1>3, <1>4, <1>5

\* What Settle does to the task of its delivery, and where it goes from there.
LEMMA SettleFacts ==
  ASSUME IInv, NEW w \in Worker, Settle(w)
  PROVE  LET o == obj[w] IN
         /\ o \in Obj /\ task[o] \in TaskRec /\ task[o].status \in {"pending", "cancelled"}
         /\ task' = [task EXCEPT ![o] = Outcome(w)] /\ task'[o] = Outcome(w)
         /\ Outcome(w) \in TaskRec /\ Outcome(w).job = task[o].job
         /\ \/ Outcome(w).status = "cancelled" /\ Finish(w)
            \/ Outcome(w).status \in {"delivered", "failed"} /\ Goto(w, "delete")
            \/ Outcome(w).status = "pending" /\ Goto(w, "persist")
<1>1. obj[w] \in Obj /\ task[obj[w]] \in TaskRec /\ pc[w] \in {"ok", "err"}
  BY AgentFacts DEF IInv, TypeInv, AgentInv, Works, Active, Settle
<1>2. task[obj[w]].status \in {"pending", "cancelled"}
  BY <1>1 DEF IInv, FlightInv, Flight, InFlight
<1>3. task[obj[w]].status = "pending" => task[obj[w]].attempts < MaxRetries
  BY <1>1, NilFacts DEF IInv, TypeInv
<1>4. task' = [task EXCEPT ![obj[w]] = Outcome(w)] /\ task'[obj[w]] = Outcome(w)
  BY <1>1 DEF Settle, IInv, TypeInv
<1>5. Outcome(w) \in TaskRec /\ Outcome(w).job = task[obj[w]].job /\ Outcome(w).status \in Status
  BY <1>1, <1>2, <1>3, OutcomeFacts
<1> QED  BY <1>1, <1>2, <1>4, <1>5 DEF Settle, Status

-----------------------------------------------------------------------------
(* IInv is inductive, one conjunct at a time. *)

\* The values the variables hold.
LEMMA TypeStep == IInv /\ [Next]_vars => TypeInv'
<1> SUFFICES ASSUME IInv, [Next]_vars PROVE TypeInv'
  OBVIOUS
<1> USE SchedulerAssumption, NoTaskAssumption, ObjFacts DEF IInv, TypeInv
<1>1. ASSUME NEW s \in Sender, Schedule(s) PROVE TypeInv'
  BY <1>1, AgentFacts DEF Schedule, ctlVars, CtlInv, PC, TaskRec, Status
<1>2. ASSUME NEW c \in Canceller, CancelLookup(c) PROVE TypeInv'
  BY <1>2, AgentFacts DEF CancelLookup, ctlVars, PC
<1>3. ASSUME NEW c \in Canceller, CancelMark(c) PROVE TypeInv'
  <2>1. obj[c] \in Obj /\ task[obj[c]] \in TaskRec
    BY <1>3, AgentFacts DEF CancelMark, AgentInv, Active, Works
  <2>2. task' \in [Obj -> TaskRec \cup {NoTask}]
    BY <1>3, <2>1 DEF CancelMark, TaskRec, Status
  <2>3. (\A o \in Obj : task[o] # NoTask /\ task[o].status = "pending"
                           => task[o].attempts < MaxRetries)'
    BY <1>3, <2>1 DEF CancelMark, TaskRec
  <2>4. over' \subseteq Sender
    BY <1>3, <2>1 DEF CancelMark, TaskRec
  <2> QED  BY <1>3, <2>2, <2>3, <2>4 DEF CancelMark, Goto, ctlVars, PC
<1>4. ASSUME NEW a \in Agent, Persist(a) PROVE TypeInv'
  <2>1. obj[a] \in Obj /\ task[obj[a]] \in TaskRec
    BY <1>4 DEF Persist, AgentInv, Active, Works
  <2>2. /\ pc' \in [Agent -> PC] /\ obj' \in [Agent -> Obj \cup {NoTask}]
    BY <1>4 DEF Persist, Finish, PC
  <2>3. snap' \in [Agent -> Pending \cup {NoTask}]
    BY <1>4, <2>1 DEF Persist, Finish, TaskRec, Pending
  <2> QED  BY <1>4, <2>2, <2>3 DEF Persist, ctlVars
<1>5. ASSUME NEW a \in Agent, SaveTask(a) PROVE TypeInv'
  BY <1>5 DEF SaveTask, Finish, ctlVars, PC
<1>6. ASSUME NEW a \in Agent, DeleteTask(a) PROVE TypeInv'
  BY <1>6 DEF DeleteTask, Goto, ctlVars, PC
<1>7. ASSUME NEW a \in Agent, RemoveTask(a) PROVE TypeInv'
  BY <1>7 DEF RemoveTask, Finish, ctlVars, PC
<1>8. ASSUME NEW w \in Worker, DeliverOk(w) \/ DeliverErr(w) PROVE TypeInv'
  BY <1>8, AgentFacts DEF DeliverOk, DeliverErr, Goto, ctlVars, PC, AgentInv, Active, Works, TaskRec
<1>9. ASSUME NEW w \in Worker, Settle(w) PROVE TypeInv'
  <2>1. obj[w] \in Obj /\ task[obj[w]] \in TaskRec
    BY <1>9, AgentFacts DEF Settle, AgentInv, Active, Works
  <2>2. /\ Outcome(w) \in TaskRec
        /\ Outcome(w).status = "pending" => Outcome(w).attempts < MaxRetries
    BY SMTT(30), <1>9, <2>1, OutcomeFacts DEF Settle, FlightInv, Flight, InFlight
  <2>3. task' = [task EXCEPT ![obj[w]] = Outcome(w)]
    BY <1>9 DEF Settle
  <2>4. task' \in [Obj -> TaskRec \cup {NoTask}]
    BY <2>1, <2>2, <2>3
  <2>5. (\A o \in Obj : task[o] # NoTask /\ task[o].status = "pending"
                           => task[o].attempts < MaxRetries)'
    BY <2>1, <2>2, <2>3
  <2>6. over' \subseteq Sender
    BY <1>9, <2>1 DEF Settle, TaskRec
  <2>7. task'[obj[w]] = Outcome(w)
    BY <2>1, <2>3
  <2>8. Finish(w) \/ Goto(w, "delete") \/ Goto(w, "persist")
    BY <1>9, <2>2, <2>7 DEF Settle, TaskRec, Status
  <2>9. /\ pc' \in [Agent -> PC] /\ obj' \in [Agent -> Obj \cup {NoTask}]
        /\ snap' \in [Agent -> Pending \cup {NoTask}]
    BY SMTT(30), <2>8 DEF Finish, Goto, PC
  <2> QED  BY <1>9, <2>4, <2>5, <2>6, <2>9 DEF Settle, ctlVars
<1>10. ASSUME NEW w \in Worker, NEW i \in Id, Dispatch(w, i) PROVE TypeInv'
  <2>1. tasks[i] \in Obj /\ task[tasks[i]] \in TaskRec
    BY <1>10 DEF Dispatch, ObjInv
  <2>2. task' \in [Obj -> TaskRec \cup {NoTask}]
    BY <1>10, <2>1 DEF Dispatch, TaskRec
  <2>3. (\A o \in Obj : task[o] # NoTask /\ task[o].status = "pending"
                           => task[o].attempts < MaxRetries)'
    BY <1>10, <2>1 DEF Dispatch, TaskRec
  <2> QED  BY <1>10, <2>1, <2>2, <2>3 DEF Dispatch, ctlVars, PC
<1>11. ASSUME RunExits \/ StartLoad \/ StopBegin \/ StopEnd PROVE TypeInv'
  BY <1>11 DEF RunExits, StartLoad, StopBegin, StopEnd, agentVars
<1>12. ASSUME StartPublish PROVE TypeInv'
  <2> DEFINE new(o) == [job |-> loaded[IdOf(o)].job, attempts |-> loaded[IdOf(o)].attempts,
                        status |-> "pending", delivering |-> FALSE]
  <2>1. epoch + 1 \in 0 .. MaxStarts
    BY <1>12 DEF StartPublish, CtlInv
  <2>2. tasks' \in [Id -> Obj \cup {NoTask}]
    BY <1>12, <2>1 DEF StartPublish
  <2>3. \A o \in Obj : loaded[IdOf(o)] # NoTask =>
                         new(o) \in TaskRec /\ new(o).attempts < MaxRetries
    BY DEF IdOf, TaskRec, Status, Pending
  <2>4. /\ task' = [o \in Obj |-> task'[o]]
        /\ \A o \in Obj : task'[o] = task[o] \/ (loaded[IdOf(o)] # NoTask /\ task'[o] = new(o))
    BY <1>12 DEF StartPublish
  <2> HIDE DEF new
  <2>5. task' \in [Obj -> TaskRec \cup {NoTask}]
    BY <2>3, <2>4
  <2>6. (\A o \in Obj : task[o] # NoTask /\ task[o].status = "pending"
                           => task[o].attempts < MaxRetries)'
    BY <2>3, <2>4
  <2> QED  BY <1>12, <2>2, <2>5, <2>6 DEF StartPublish, agentVars
<1>13. ASSUME StartRun PROVE TypeInv'
  BY <1>13, HighestIdFacts DEF StartRun, agentVars, CtlInv, NoTasks
<1>14. ASSUME Crash PROVE TypeInv'
  <2>1. task' = [o \in Obj |-> NoTask]
    BY <1>14 DEF Crash
  <2>2. \A a \in Agent : pc'[a] \in PC
    BY <1>14 DEF Crash, PC
  <2>3. pc' = [a \in Agent |-> pc'[a]]
    BY <1>14, Zenon DEF Crash
  <2>4. pc' \in [Agent -> PC]
    BY <2>2, <2>3
  <2>5. /\ obj' \in [Agent -> Obj \cup {NoTask}] /\ snap' \in [Agent -> Pending \cup {NoTask}]
        /\ tasks' \in [Id -> Obj \cup {NoTask}] /\ loaded' \in [Id -> Pending \cup {NoTask}]
    BY <1>14 DEF Crash, NoTasks
  <2>6. /\ task' \in [Obj -> TaskRec \cup {NoTask}]
        /\ \A o \in Obj : task'[o] = NoTask
    BY <2>1
  <2>7. /\ nextId' = 0 /\ epoch' = 0 /\ ctl' = "down" /\ ctxDone' = FALSE /\ runs' = FALSE
        /\ UNCHANGED <<file, over>>
    BY <1>14 DEF Crash
  <2>8. 0 \in 0 .. MaxStarts
    OBVIOUS
  <2> QED  BY <2>4, <2>5, <2>6, <2>7, <2>8
<1>15. CASE UNCHANGED vars
  BY <1>15 DEF vars, ctlVars, agentVars
<1> QED
  BY <1>1, <1>2, <1>3, <1>4, <1>5, <1>6, <1>7, <1>8, <1>9, <1>10, <1>11, <1>12,
     <1>13, <1>14, <1>15 DEF Next, AgentStep, WorkerStep, CtlStep

\* An ID handed out by Schedule names nothing yet, and neither do the objects
\* that a start is about to make: no object is ever overwritten.
LEMMA Fresh ==
  ASSUME IInv
  PROVE  /\ epoch > 0 /\ nextId + 1 \in Id =>
              /\ <<epoch, nextId + 1>> \in Obj
              /\ \A s \in Sender : ~Stands(nextId + 1, s)
              /\ task[<<epoch, nextId + 1>>] = NoTask
         /\ ctl = "publish" => \A o \in Obj : o[1] = epoch + 1 => task[o] = NoTask
<1> USE DEF IInv
<1>1. \A s \in Sender : epoch > 0 /\ nextId + 1 \in Id => ~Stands(nextId + 1, s)
  BY IdFacts DEF NameInv, TypeInv
<1>2. \A i \in Id : epoch \in 0 .. MaxStarts /\ <<epoch, i>> \in Obj /\ <<epoch, i>>[2] = i
  BY ObjFacts DEF TypeInv
<1>3. \A o \in Obj : task[o] # NoTask => task[o].job \in Sender /\ Stands(o[2], task[o].job)
  BY DEF TypeInv, TaskRec, Stands
<1>4. ctl = "publish" => \A o \in Obj : o[1] = epoch + 1 => task[o] = NoTask
  BY ObjFacts DEF ObjInv, TypeInv
<1> QED  BY <1>1, <1>2, <1>3, <1>4

\* As long as its process lives, an object stays, belongs to the same job, and
\* keeps a status that is not pending.
LEMMA Lasts ==
  ASSUME IInv, [Next]_vars, NEW o \in Obj, task[o] # NoTask
  PROVE  \/ Crash
         \/ /\ task'[o] # NoTask
            /\ task'[o].job = task[o].job
            /\ task[o].status # "pending" => task'[o].status = task[o].status
<1> USE NoTaskAssumption DEF IInv
<1>0. task \in [Obj -> TaskRec \cup {NoTask}] /\ task[o] \in TaskRec
  BY DEF TypeInv
<1>1. ASSUME NEW s \in Sender, Schedule(s) PROVE task'[o] = task[o]
  BY <1>0, <1>1, Fresh DEF Schedule
<1>2. ASSUME NEW c \in Canceller, CancelMark(c), task'[o] # task[o]
      PROVE  task'[o] = [task[o] EXCEPT !.status = "cancelled"] /\ task[o].status = "pending"
  BY <1>0, <1>2 DEF CancelMark
<1>3. ASSUME NEW w \in Worker, NEW i \in Id, Dispatch(w, i), task'[o] # task[o]
      PROVE  task'[o] = [task[o] EXCEPT !.delivering = TRUE]
  BY <1>0, <1>3 DEF Dispatch
<1>4. ASSUME NEW w \in Worker, Settle(w), task'[o] # task[o]
      PROVE  /\ task'[o] \in TaskRec /\ task'[o].job = task[o].job
             /\ task[o].status # "pending" => task'[o].status = task[o].status
  <2>1. obj[w] = o /\ task'[o] = Outcome(w)
    BY <1>0, <1>4 DEF Settle
  <2>2. task[o].status \in {"pending", "cancelled"} /\ pc[w] \in {"ok", "err"}
    BY <1>4, <2>1 DEF Settle, FlightInv, Flight, InFlight
  <2> QED  BY <1>0, <2>1, <2>2, OutcomeFacts DEF TypeInv
<1>5. ASSUME StartPublish PROVE task'[o] = task[o]
  BY <1>0, <1>5, Fresh, ObjFacts DEF StartPublish
<1>6. CASE task'[o] = task[o]
  BY <1>6
<1>7. CASE task'[o] # task[o] /\ Next
  <2>1. CASE \E c \in Canceller : CancelMark(c)
    BY <1>0, <1>2, <1>7, <2>1 DEF TaskRec, Status
  <2>2. CASE \E w \in Worker, i \in Id : Dispatch(w, i)
    BY <1>0, <1>3, <1>7, <2>2 DEF TaskRec
  <2>3. CASE \E w \in Worker : Settle(w)
    BY <1>4, <1>7, <2>3
  <2>4. CASE UNCHANGED task
    BY <1>7, <2>4
  <2> QED
    BY <1>1, <1>5, <1>7, <2>1, <2>2, <2>3, <2>4
    DEF Next, AgentStep, WorkerStep, CtlStep, CancelLookup, Persist, SaveTask, DeleteTask,
        RemoveTask, DeliverOk, DeliverErr, RunExits, StartLoad, StartRun, StopBegin, StopEnd
<1> QED  BY <1>6, <1>7 DEF vars

\* What is true of an object someone works on stays true of it: where a goroutine
\* is, on which object, and for a removal that the task is over.
LEMMA AgentInvStep == IInv /\ [Next]_vars => AgentInv'
<1> SUFFICES ASSUME IInv, [Next]_vars PROVE AgentInv'
  OBVIOUS
<1>3. \A a \in Agent : Works(a)
  BY DEF IInv, AgentInv
<1>4. ASSUME NEW a \in Agent, pc'[a] = pc[a], obj'[a] = obj[a], snap'[a] = snap[a], ~Crash
      PROVE  Works(a)'
  BY <1>3, <1>4, Lasts DEF Active, Works
<1>5. ASSUME NEW a \in Agent, ~Crash, Works(a)',
             \A b \in Agent : b # a => pc'[b] = pc[b] /\ obj'[b] = obj[b] /\ snap'[b] = snap[b]
      PROVE  AgentInv'
  BY <1>4, <1>5 DEF AgentInv
<1>6. /\ pc \in [Agent -> PC] /\ obj \in [Agent -> Obj \cup {NoTask}]
      /\ snap \in [Agent -> Pending \cup {NoTask}] /\ task \in [Obj -> TaskRec \cup {NoTask}]
  BY DEF IInv, TypeInv
<1>7. NoTask \notin Obj /\ NoTask \notin TaskRec /\ NoTask \notin Pending
  BY NilFacts
<1>8. ASSUME NEW s \in Sender, Schedule(s), ~Crash PROVE AgentInv'
  <2>1. <<epoch, nextId + 1>> \in Obj
    BY <1>8, Fresh DEF Schedule
  <2>2. /\ pc'[s] = "persist" /\ obj'[s] = <<epoch, nextId + 1>>
        /\ task'[obj'[s]] = [job |-> s, attempts |-> 0, status |-> "pending", delivering |-> FALSE]
    BY <1>6, <1>8, <2>1, AgentFacts DEF Schedule
  <2>3. task'[obj'[s]] # NoTask /\ task'[obj'[s]].job = s
    BY <2>2, NilFacts
  <2>4. Works(s)'
    BY <2>1, <2>2, <2>3, AgentFacts DEF Works, SenderPC
  <2> QED  BY <1>5, <1>6, <1>8, <2>4, AgentFacts DEF Schedule
<1>9. ASSUME NEW c \in Canceller, CancelLookup(c), ~Crash PROVE AgentInv'
  <2>1. obj'[c] \in Obj /\ task[obj'[c]] # NoTask
    BY <1>6, <1>7, <1>9, AgentFacts DEF CancelLookup, IInv, ObjInv, TypeInv
  <2>2. Works(c)'
    BY <1>6, <1>7, <1>9, <2>1, AgentFacts DEF Works, CancelLookup, Active, CancellerPC
  <2> QED  BY <1>5, <1>6, <1>9, <2>2, AgentFacts DEF CancelLookup
<1>10. ASSUME NEW c \in Canceller, CancelMark(c), ~Crash PROVE AgentInv'
  <2>1. Active(c) /\ Works(c)
    BY <1>3, <1>10, AgentFacts DEF CancelMark, Active
  <2>2. pc'[c] = "delete" => task'[obj[c]].status = "cancelled"
    <3>1. task[obj[c]] \in TaskRec /\ obj[c] \in Obj
      BY <1>6, <2>1 DEF Works
    <3>2. pc'[c] = "delete" => task' = [task EXCEPT ![obj[c]].status = "cancelled"]
      BY <1>6, <1>10, AgentFacts DEF CancelMark, Goto
    <3> QED  BY <1>6, <3>1, <3>2 DEF TaskRec
  <2>3. Works(c)'
    BY <1>6, <1>7, <1>10, <2>1, <2>2, Lasts, AgentFacts
    DEF Works, CancelMark, Goto, Active, CancellerPC
  <2> QED  BY <1>5, <1>6, <1>10, <2>3, AgentFacts DEF CancelMark, Goto
<1>11. ASSUME NEW a \in Agent, Persist(a), ~Crash PROVE AgentInv'
  <2>1. Active(a) /\ Works(a) /\ task' = task
    BY <1>3, <1>11 DEF Persist, Active
  <2>2. obj[a] \in Obj /\ task[obj[a]] \in TaskRec
    BY <1>6, <2>1 DEF Works
  <2>3. \/ /\ pc'[a] = "save" /\ obj'[a] = obj[a] /\ task[obj[a]].status = "pending"
           /\ snap'[a] = [job |-> task[obj[a]].job, attempts |-> task[obj[a]].attempts]
        \/ pc'[a] = (IF a \in Worker THEN "idle" ELSE "returned")
    BY <1>6, <1>11 DEF Persist, Finish
  <2>4. pc'[a] = "save" => snap'[a] \in Pending /\ snap'[a].job = task[obj[a]].job
    <3>1. MaxRetries \in Nat
      BY SchedulerAssumption
    <3>2. task[obj[a]].status = "pending" => task[obj[a]].attempts \in 0 .. MaxRetries - 1
      BY <2>2, <3>1, NilFacts DEF TaskRec, IInv, TypeInv
    <3> QED  BY <2>2, <2>3, <3>2 DEF TaskRec, Pending
  <2>5. Works(a)'
    BY <1>7, <1>11, <2>1, <2>3, <2>4, AgentFacts
    DEF Persist, Works, Active, SenderPC, CancellerPC, WorkerPC
  <2> QED  BY <1>5, <1>6, <1>11, <2>5 DEF Persist, Finish
<1>12. ASSUME NEW a \in Agent, SaveTask(a) \/ RemoveTask(a), ~Crash PROVE AgentInv'
  <2>1. pc'[a] = (IF a \in Worker THEN "idle" ELSE "returned")
    BY <1>6, <1>12 DEF SaveTask, RemoveTask, Finish
  <2>2. Works(a)'
    BY <2>1, AgentFacts DEF Works, Active, SenderPC, CancellerPC, WorkerPC
  <2> QED  BY <1>5, <1>6, <1>12, <2>2 DEF SaveTask, RemoveTask, Finish
<1>13. ASSUME NEW a \in Agent, DeleteTask(a), ~Crash PROVE AgentInv'
  <2>1. Active(a) /\ Works(a) /\ task' = task /\ obj' = obj /\ pc[a] = "delete"
    BY <1>3, <1>13 DEF DeleteTask, Active, Goto
  <2>2. pc'[a] = "erase"
    BY <1>6, <1>13 DEF DeleteTask, Goto
  <2>3. Works(a)'
    BY <2>1, <2>2, AgentFacts DEF Works, Active, SenderPC, CancellerPC, WorkerPC
  <2> QED  BY <1>5, <1>6, <1>13, <2>3 DEF DeleteTask, Goto
<1>14. ASSUME NEW w \in Worker, DeliverOk(w) \/ DeliverErr(w), ~Crash PROVE AgentInv'
  <2>1. Active(w) /\ Works(w) /\ task' = task /\ obj' = obj
    BY <1>3, <1>14, AgentFacts DEF DeliverOk, DeliverErr, Active, Goto
  <2>2. pc'[w] \in {"ok", "err"}
    BY <1>6, <1>14, AgentFacts DEF DeliverOk, DeliverErr, Goto
  <2>3. Works(w)'
    BY <2>1, <2>2, AgentFacts DEF Works, Active, WorkerPC
  <2> QED  BY <1>5, <1>6, <1>14, <2>3, AgentFacts DEF DeliverOk, DeliverErr, Goto
<1>15. ASSUME NEW w \in Worker, Settle(w), ~Crash PROVE AgentInv'
  <2>1. Active(w) /\ Works(w)
    BY <1>3, <1>15, AgentFacts DEF Settle, Active
  <2>2. obj[w] \in Obj /\ task'[obj[w]] = Outcome(w)
    BY <1>6, <1>15, <2>1 DEF Settle, Works
  <2>3. \/ Finish(w)
        \/ Goto(w, "delete") /\ task'[obj[w]].status # "pending"
        \/ Goto(w, "persist")
    <3>1. Outcome(w).status \in Status
      BY <1>6, <1>15, <2>1, <2>2, NilFacts, OutcomeFacts
      DEF Settle, Works, IInv, TypeInv, FlightInv, Flight, InFlight
    <3> QED  BY <1>15, <2>2, <3>1 DEF Settle, Status
  <2>4. Works(w)'
    BY <1>6, <1>15, <2>1, <2>2, <2>3, Lasts, AgentFacts
    DEF Works, Active, WorkerPC, Finish, Goto
  <2> QED  BY <1>5, <1>6, <1>15, <2>3, <2>4, AgentFacts DEF Finish, Goto
<1>16. ASSUME NEW w \in Worker, NEW i \in Id, Dispatch(w, i), ~Crash PROVE AgentInv'
  <2>1. tasks[i] \in Obj /\ task[tasks[i]] # NoTask
    BY <1>7, <1>16 DEF Dispatch, IInv, ObjInv, TypeInv
  <2>2. pc'[w] = "calling" /\ obj'[w] = tasks[i]
    BY <1>6, <1>16, AgentFacts DEF Dispatch
  <2>3. Works(w)'
    BY <2>1, <2>2, <1>16, Lasts, AgentFacts DEF Works, WorkerPC
  <2> QED  BY <1>5, <1>6, <1>16, <2>3, AgentFacts DEF Dispatch
<1>17. ASSUME UNCHANGED agentVars, ~Crash PROVE AgentInv'
  BY <1>4, <1>17 DEF AgentInv, agentVars
<1>18. ASSUME Crash PROVE AgentInv'
  <2>1. \A a \in Agent : pc'[a] = (IF a \in Worker THEN "idle"
                                  ELSE IF pc[a] \in {"idle", "returned", "refused"}
                                       THEN pc[a] ELSE "dead")
    BY <1>18 DEF Crash
  <2>2. ASSUME NEW a \in Agent PROVE Works(a)'
    BY <1>3, <2>1, AgentFacts DEF Works, Active, SenderPC, CancellerPC, WorkerPC
  <2> QED  BY <2>2 DEF AgentInv
<1> QED
  BY <1>8, <1>9, <1>10, <1>11, <1>12, <1>13, <1>14, <1>15, <1>16, <1>17, <1>18
  DEF Next, AgentStep, WorkerStep, CtlStep, RunExits, StartLoad, StartPublish, StartRun,
      StopBegin, StopEnd, vars

\* Where objects come from: Schedule makes one with a new ID, a start makes one for
\* each entry it has read, and every other object was there before.
LEMMA Born ==
  ASSUME IInv, [Next]_vars, NEW o \in Obj, task'[o] # NoTask
  PROVE  \/ task[o] # NoTask /\ task'[o].job = task[o].job
         \/ \E s \in Sender :
               /\ Schedule(s) /\ o = <<epoch, nextId + 1>>
               /\ task'[o].job = s /\ task'[o].status = "pending"
         \/ /\ StartPublish /\ o[1] = epoch + 1 /\ loaded[o[2]] # NoTask
            /\ task'[o].job = loaded[o[2]].job /\ task'[o].status = "pending"
<1>0. task \in [Obj -> TaskRec \cup {NoTask}]
  BY DEF IInv, TypeInv
<1>1. CASE task[o] # NoTask
  <2>1. ~Crash
    BY DEF Crash
  <2> QED  BY <1>1, <2>1, Lasts
<1>2. CASE task[o] = NoTask
  <2>1. ASSUME NEW s \in Sender, Schedule(s)
        PROVE  o = <<epoch, nextId + 1>> /\ task'[o].job = s /\ task'[o].status = "pending"
    BY <1>0, <1>2, <2>1 DEF Schedule
  <2>2. ASSUME NEW c \in Canceller, CancelMark(c) PROVE FALSE
    <3>1. obj[c] \in Obj /\ task[obj[c]] # NoTask
      BY <2>2, AgentFacts DEF IInv, AgentInv, Works, Active, CancelMark
    <3> QED  BY <1>0, <1>2, <2>2, <3>1 DEF CancelMark
  <2>3. ASSUME NEW w \in Worker, NEW i \in Id, Dispatch(w, i) PROVE FALSE
    BY <1>0, <1>2, <2>3 DEF Dispatch, IInv, ObjInv
  <2>4. ASSUME NEW w \in Worker, Settle(w) PROVE FALSE
    <3>1. obj[w] \in Obj /\ task[obj[w]] # NoTask
      BY <2>4, AgentFacts DEF IInv, AgentInv, Works, Active, Settle
    <3> QED  BY <1>0, <1>2, <2>4, <3>1 DEF Settle
  <2>5. ASSUME StartPublish
        PROVE  /\ o[1] = epoch + 1 /\ loaded[o[2]] # NoTask
               /\ task'[o].job = loaded[o[2]].job /\ task'[o].status = "pending"
    BY <1>0, <1>2, <2>5 DEF StartPublish, IdOf
  <2>6. ~UNCHANGED task /\ ~Crash
    BY <1>2 DEF Crash
  <2> QED
    BY <2>1, <2>2, <2>3, <2>4, <2>5, <2>6
    DEF Next, AgentStep, WorkerStep, CtlStep, CancelLookup, Persist, SaveTask, DeleteTask,
        RemoveTask, DeliverOk, DeliverErr, RunExits, StartLoad, StartRun, StopBegin, StopEnd,
        vars
<1> QED  BY <1>1, <1>2

\* Who writes the state file, and what: only the entry of a task in use.
LEMMA FileWrites ==
  ASSUME IInv, [Next]_vars, NEW i \in Id, file'[i] # file[i]
  PROVE  \/ \E a \in Agent : RemoveTask(a) /\ IdOf(obj[a]) = i
         \/ \E a \in Agent : /\ SaveTask(a) /\ IdOf(obj[a]) = i
                             /\ file'[i] = snap[a]
<1>0. file \in [Id -> Pending \cup {NoTask}]
  BY DEF IInv, TypeInv
<1>1. ASSUME NEW a \in Agent, SaveTask(a) PROVE IdOf(obj[a]) = i /\ file'[i] = snap[a]
  BY <1>0, <1>1 DEF SaveTask
<1>2. ASSUME NEW a \in Agent, RemoveTask(a) PROVE IdOf(obj[a]) = i
  BY <1>0, <1>2 DEF RemoveTask
<1>3. ~UNCHANGED file
  OBVIOUS
<1> QED
  BY <1>1, <1>2, <1>3
  DEF Next, AgentStep, WorkerStep, CtlStep, Schedule, CancelLookup, CancelMark, Persist,
      DeleteTask, DeliverOk, DeliverErr, Settle, Dispatch, RunExits, StartLoad, StartPublish,
      StartRun, StopBegin, StopEnd, Crash, vars

\* A step lets no ID stand for another job: it only drops what stood, but for
\* Schedule, which adds its job under a new ID.
LEMMA StandsStep ==
  ASSUME IInv, [Next]_vars, NEW i \in Id, NEW s \in Sender, Stands(i, s)'
  PROVE  Stands(i, s) \/ (Schedule(s) /\ i = nextId + 1)
<1>1. ASSUME NEW o \in Obj, o[2] = i, task'[o] # NoTask, task'[o].job = s
      PROVE  Stands(i, s) \/ (Schedule(s) /\ i = nextId + 1)
  <2>1. CASE \E r \in Sender : /\ Schedule(r) /\ o = <<epoch, nextId + 1>>
                               /\ task'[o].job = r
    BY <1>1, <2>1
  <2>2. CASE \/ task[o] # NoTask /\ task'[o].job = task[o].job
             \/ loaded[o[2]] # NoTask /\ task'[o].job = loaded[o[2]].job
    BY <1>1, <2>2 DEF Stands
  <2> QED  BY <1>1, <2>1, <2>2, Born
<1>2. CASE file'[i] # NoTask /\ file'[i].job = s
  <2>1. CASE file'[i] = file[i]
    BY <1>2, <2>1 DEF Stands
  <2>2. CASE file'[i] # file[i]
    <3>1. PICK a \in Agent : SaveTask(a) /\ IdOf(obj[a]) = i /\ file'[i] = snap[a]
      BY <1>2, <2>2, FileWrites DEF RemoveTask, IInv, TypeInv
    <3>2. /\ obj[a] \in Obj /\ task[obj[a]] # NoTask /\ task[obj[a]].job = s
      BY <1>2, <3>1 DEF SaveTask, IInv, AgentInv, Works, Active
    <3> QED  BY <3>1, <3>2 DEF Stands, IdOf
  <2> QED  BY <2>1, <2>2
<1>3. CASE loaded'[i] # NoTask /\ loaded'[i].job = s
  <2>1. loaded' = loaded \/ loaded' = file \/ loaded' = NoTasks
    BY DEF Next, AgentStep, WorkerStep, CtlStep, Schedule, CancelLookup, CancelMark, Persist,
      SaveTask, DeleteTask, RemoveTask, DeliverOk, DeliverErr, Settle, Dispatch, RunExits,
      StartLoad, StartPublish, StartRun, StopBegin, StopEnd, Crash, vars, ctlVars
  <2> QED  BY <1>3, <2>1 DEF Stands, NoTasks
<1> QED  BY <1>1, <1>2, <1>3 DEF Stands

\* Who moves the starts, the IDs and the loop: Schedule, the goroutine that starts
\* and stops, the loop's end and a crash; and a job is scheduled once.
LEMMA Moves ==
  ASSUME IInv, [Next]_vars
  PROVE  /\ \/ UNCHANGED <<epoch, ctl, loaded, nextId>>
            \/ \E s \in Sender : Schedule(s)
            \/ CtlStep \/ Crash
         /\ \A s \in Sender : pc'[s] = "idle" => pc[s] = "idle"
<1>1. \/ UNCHANGED <<epoch, ctl, loaded, nextId>>
      \/ \E s \in Sender : Schedule(s)
      \/ CtlStep \/ Crash
  BY DEF Next, AgentStep, WorkerStep, CancelLookup, CancelMark, Persist, SaveTask, DeleteTask,
         RemoveTask, DeliverOk, DeliverErr, Settle, Dispatch, RunExits, vars, ctlVars
<1>2. ASSUME NEW s \in Sender, pc'[s] = "idle" PROVE pc[s] = "idle"
  <2>0. pc \in [Agent -> PC] /\ s \in Agent /\ s \notin Worker /\ s \notin Canceller
    BY AgentFacts DEF IInv, TypeInv
  <2> USE <1>2, <2>0, AgentFacts
  <2>1. CASE UNCHANGED pc
    BY <2>1
  <2>2. ASSUME NEW a \in Agent, AgentStep(a) PROVE pc[s] = "idle"
    BY <2>2 DEF AgentStep, Persist, SaveTask, DeleteTask, RemoveTask, Finish, Goto
  <2>3. ASSUME NEW w \in Worker, WorkerStep(w) PROVE pc[s] = "idle"
    <3>1. \E l \in {"ok", "err", "idle", "delete", "persist"} : pc' = [pc EXCEPT ![w] = l]
      <4>1. CASE DeliverOk(w) \/ DeliverErr(w)
        BY <4>1 DEF DeliverOk, DeliverErr, Goto
      <4>2. CASE Settle(w)
        BY <4>2, SettleFacts DEF Finish, Goto
      <4> QED  BY <2>3, <4>1, <4>2 DEF WorkerStep
    <3> QED  BY <3>1
  <2>4. ASSUME NEW w \in Worker, NEW i \in Id, Dispatch(w, i) PROVE pc[s] = "idle"
    BY <2>4 DEF Dispatch
  <2>5. ASSUME NEW c \in Canceller, CancelLookup(c) \/ CancelMark(c) PROVE pc[s] = "idle"
    BY <2>5 DEF CancelLookup, CancelMark, Goto
  <2>6. ASSUME NEW r \in Sender, Schedule(r) PROVE pc[s] = "idle"
    BY <2>6 DEF Schedule
  <2>7. CASE Crash
    BY <2>7 DEF Crash
  <2> QED
    BY <2>1, <2>2, <2>3, <2>4, <2>5, <2>6, <2>7
    DEF Next, CtlStep, RunExits, StartLoad, StartPublish, StartRun, StopBegin, StopEnd, vars,
        agentVars
<1> QED  BY <1>1, <1>2

\* The map and the starts: no object is younger than the last start, and what the
\* map holds is an object with that ID.
LEMMA ObjInvStep == IInv /\ [Next]_vars => ObjInv'
<1> SUFFICES ASSUME IInv, [Next]_vars PROVE ObjInv'
  OBVIOUS
<1>0. /\ epoch \in 0 .. MaxStarts /\ nextId \in Id \cup {0} /\ TypeInv /\ CtlInv
      /\ tasks \in [Id -> Obj \cup {NoTask}] /\ task \in [Obj -> TaskRec \cup {NoTask}]
  BY DEF IInv, TypeInv
<1>1. ASSUME NEW o \in Obj, task'[o] # NoTask
      PROVE  o[1] <= epoch' \/ (ctl' = "bump" /\ o[1] = epoch' + 1)
  <2>1. CASE Crash
    BY <1>1, <2>1 DEF Crash
  <2>2. CASE ~Crash
    <3>1. o[1] <= epoch \/ (ctl = "bump" /\ o[1] = epoch + 1) \/ (StartPublish /\ o[1] = epoch + 1)
      BY <1>0, <1>1, Born, ObjFacts DEF IInv, ObjInv
    <3>2. o[1] \in 0 .. MaxStarts
      BY ObjFacts
    <3>3. CASE UNCHANGED <<epoch, ctl>>
      BY <3>1, <3>3 DEF StartPublish
    <3>4. CASE CtlStep
      BY <1>0, <3>1, <3>2, <3>4
      DEF CtlStep, StartLoad, StartPublish, StartRun, StopBegin, StopEnd
    <3> QED  BY <2>2, <3>3, <3>4, Moves DEF Schedule, ctlVars
  <2> QED  BY <2>1, <2>2
<1>2. ASSUME NEW i \in Id, tasks'[i] # NoTask PROVE tasks'[i][2] = i /\ task'[tasks'[i]] # NoTask
  <2>0. ~Crash
    BY <1>2 DEF Crash, NoTasks
  <2>1. tasks[i] # NoTask => tasks[i][2] = i /\ task'[tasks[i]] # NoTask
    BY <1>0, <2>0, Lasts DEF IInv, ObjInv
  <2>2. ASSUME NEW s \in Sender, Schedule(s)
        PROVE  tasks'[i][2] = i /\ task'[tasks'[i]] # NoTask
    <3>1. CASE i = nextId + 1
      <4>1. tasks'[i] = <<epoch, nextId + 1>> /\ tasks'[i] \in Obj
        BY <1>0, <2>2, <3>1, ObjFacts DEF Schedule
      <4>2. task'[tasks'[i]] = [job |-> s, attempts |-> 0, status |-> "pending", delivering |-> FALSE]
        BY <1>0, <2>2, <4>1 DEF Schedule
      <4> QED  BY <3>1, <4>1, <4>2, NilFacts
    <3>2. CASE i # nextId + 1
      BY <1>0, <1>2, <2>1, <2>2, <3>2 DEF Schedule
    <3> QED  BY <3>1, <3>2
  <2>3. ASSUME StartPublish PROVE tasks'[i][2] = i /\ task'[tasks'[i]] # NoTask
    <3>1. CASE loaded[i] # NoTask
      <4>0. epoch + 1 \in 0 .. MaxStarts
        BY <1>0, <2>3, SchedulerAssumption DEF StartPublish, CtlInv
      <4>1. /\ tasks'[i] = <<epoch + 1, i>> /\ tasks'[i] \in Obj
            /\ tasks'[i][1] = epoch + 1 /\ tasks'[i][2] = i
        BY <2>3, <3>1, <4>0, ObjFacts DEF StartPublish
      <4>2. task'[tasks'[i]] = [job |-> loaded[i].job, attempts |-> loaded[i].attempts,
                                status |-> "pending", delivering |-> FALSE]
        BY <2>3, <3>1, <4>1 DEF StartPublish, IdOf
      <4>3. task'[tasks'[i]] \in TaskRec
        BY <1>0, <3>1, <4>2, SchedulerAssumption DEF TypeInv, Pending, TaskRec, Status
      <4> QED  BY <4>1, <4>3, NilFacts
    <3>2. CASE loaded[i] = NoTask
      BY <1>2, <2>1, <2>3, <3>2 DEF StartPublish
    <3> QED  BY <3>1, <3>2
  <2>4. ASSUME NEW a \in Agent, DeleteTask(a) PROVE tasks'[i] = tasks[i]
    BY <1>0, <1>2, <2>4 DEF DeleteTask
  <2>5. CASE tasks'[i] = tasks[i]
    BY <1>2, <2>1, <2>5
  <2> QED
    BY <2>0, <2>2, <2>3, <2>4, <2>5
    DEF Next, AgentStep, WorkerStep, CtlStep, CancelLookup, CancelMark, Persist, SaveTask,
        RemoveTask, DeliverOk, DeliverErr, Settle, Dispatch, RunExits, StartLoad, StartRun,
        StopBegin, StopEnd, vars
<1> QED  BY <1>1, <1>2 DEF ObjInv

\* One ID, one job: across new IDs, deliveries, restarts and crashes.
LEMMA NameInvStep == IInv /\ [Next]_vars => NameInv'
<1> SUFFICES ASSUME IInv, [Next]_vars PROVE NameInv'
  OBVIOUS
<1>0. /\ TypeInv /\ CtlInv /\ ObjInv /\ NameInv
      /\ nextId \in Nat /\ epoch \in Nat /\ nextId \in Id \cup {0}
      /\ \A i \in Id : i \in Nat /\ i > 0
      /\ file \in [Id -> Pending \cup {NoTask}]
      /\ pc \in [Agent -> PC]
  BY IdFacts DEF IInv, TypeInv
<1>1. ASSUME NEW s \in Sender, Schedule(s)
      PROVE  /\ pc[s] = "idle" /\ pc'[s] = "persist" /\ epoch > 0 /\ epoch' = epoch
             /\ nextId + 1 \in Id /\ nextId' = nextId + 1 /\ ctl' = ctl
             /\ \A t \in Sender : ~Stands(nextId + 1, t)
             /\ \A t \in Sender : t # s => pc'[t] = pc[t]
  BY <1>0, <1>1, Fresh, AgentFacts DEF Schedule, ctlVars
<1>2. ASSUME NEW i \in Id, NEW j \in Id, NEW s \in Sender, NEW t \in Sender,
             Stands(i, s)', Stands(j, t)'
      PROVE  i = j <=> s = t
  <2>1. CASE Stands(i, s) /\ Stands(j, t)
    BY <1>0, <2>1 DEF NameInv
  <2>2. ASSUME NEW x \in Sender, NEW y \in Sender, NEW k \in Id, Stands(k, x), Schedule(y)
        PROVE  x # y /\ k # nextId + 1
    BY <1>0, <1>1, <2>2 DEF NameInv
  <2>3. ASSUME Schedule(s), Schedule(t) PROVE s = t
    <3>1. pc[s] = "idle" /\ pc'[s] = "persist" /\ (t # s => pc'[s] = pc[s])
      BY <1>1, <2>3
    <3> QED  BY <3>1
  <2> QED  BY <1>2, <2>1, <2>2, <2>3, StandsStep
<1>3. ASSUME NEW i \in Id, NEW s \in Sender, Stands(i, s)' PROVE pc'[s] # "idle"
  BY <1>0, <1>1, <1>3, StandsStep, Moves DEF NameInv
<1>4. ASSUME NEW i \in Id, NEW s \in Sender, Stands(i, s)', epoch' > 0 PROVE i <= nextId'
  <2>1. CASE Schedule(s) /\ i = nextId + 1
    BY <1>1, <2>1
  <2>2. CASE Stands(i, s) /\ StartRun
    <3>0. HighestId(loaded) \in Id \cup {0} /\ \A m \in Id : loaded[m] # NoTask => m <= HighestId(loaded)
      BY HighestIdFacts
    <3>1. HighestId(loaded) \in Nat /\ (loaded[i] # NoTask => i <= HighestId(loaded))
      BY <3>0, IdFacts
    <3>2. nextId' = (IF HighestId(loaded) > nextId THEN HighestId(loaded) ELSE nextId)
      BY <2>2 DEF StartRun
    <3>3. i <= nextId \/ loaded[i] # NoTask
      BY <1>0, <2>2 DEF NameInv, StartRun
    <3> QED  BY <1>0, <3>1, <3>2, <3>3
  <2>3. CASE Stands(i, s) /\ ~StartRun
    <3>1. epoch' = epoch /\ (nextId' = nextId \/ nextId' = nextId + 1)
      <4>1. ~Crash
        BY <1>4 DEF Crash
      <4>2. CASE CtlStep
        BY <2>3, <4>2 DEF CtlStep, StartLoad, StartPublish, StopBegin, StopEnd
      <4> QED  BY <1>1, <4>1, <4>2, Moves
    <3> QED  BY <1>0, <1>4, <2>3, <3>1 DEF NameInv
  <2> QED  BY <1>4, <2>1, <2>2, <2>3, StandsStep
<1>5. ASSUME NEW i \in Id, NEW s \in Sender,
             Stands(i, s)', epoch' = 0, ctl' \in {"publish", "bump"}
      PROVE  loaded'[i] # NoTask
  <2>1. CASE StartLoad
    <3>1. epoch = 0 /\ ctl = "down" /\ task' = task /\ file' = file /\ loaded' = file
      BY <1>5, <2>1 DEF StartLoad
    <3> QED  BY <1>0, <1>5, <3>1 DEF NameInv, Stands
  <2>2. CASE ~StartLoad
    <3>1. ~Crash /\ ~(\E r \in Sender : Schedule(r))
      BY <1>1, <1>5 DEF Crash
    <3>2. epoch = 0 /\ ctl \in {"publish", "bump"} /\ loaded' = loaded
      <4>1. CASE CtlStep
        BY <1>0, <1>5, <2>2, <4>1 DEF CtlStep, StartPublish, StartRun, StopBegin, StopEnd
      <4> QED  BY <1>5, <3>1, <4>1, Moves
    <3>3. Stands(i, s)
      BY <1>5, <3>1, StandsStep
    <3> QED  BY <1>0, <3>2, <3>3 DEF NameInv
  <2> QED  BY <2>1, <2>2
<1>6. ASSUME epoch' = 0, ctl' = "down", NEW o \in Obj PROVE task'[o] = NoTask
  <2>1. CASE Crash
    BY <2>1 DEF Crash
  <2>2. CASE ~Crash
    <3>1. epoch = 0 /\ ctl = "down"
      <4>1. CASE CtlStep
        BY <1>0, <1>6, <4>1
        DEF CtlStep, StartLoad, StartPublish, StartRun, StopBegin, StopEnd, CtlInv
      <4> QED  BY <1>1, <1>6, <2>2, <4>1, Moves
    <3>2. task[o] = NoTask
      BY <1>0, <3>1 DEF NameInv
    <3> QED  BY <1>0, <3>1, <3>2, Born DEF Schedule, StartPublish
  <2> QED  BY <2>1, <2>2
<1> QED  BY <1>2, <1>3, <1>4, <1>5, <1>6 DEF NameInv

\* What is over stays over.
LEMMA OverGrows == [Next]_vars => over \subseteq over'
BY DEF Next, AgentStep, WorkerStep, CtlStep, Schedule, CancelLookup, CancelMark, Persist,
       SaveTask, DeleteTask, RemoveTask, DeliverOk, DeliverErr, Settle, Dispatch, RunExits,
       StartLoad, StartPublish, StartRun, StopBegin, StopEnd, Crash, vars

\* A task that is not pending is over, whoever settled it.
LEMMA OverInvStep == IInv /\ [Next]_vars => OverInv'
<1> SUFFICES ASSUME IInv, [Next]_vars, NEW o \in Obj, task'[o] # NoTask, task'[o].status # "pending"
             PROVE  task'[o].job \in over'
  BY DEF OverInv
<1>0. task \in [Obj -> TaskRec \cup {NoTask}]
  BY DEF IInv, TypeInv
<1>1. task[o] # NoTask /\ task'[o].job = task[o].job /\ task[o] \in TaskRec
  BY <1>0, Born
<1>2. over \subseteq over'
  BY OverGrows
<1>3. CASE task[o].status # "pending"
  BY <1>1, <1>2, <1>3 DEF IInv, OverInv
<1>4. CASE task[o].status = "pending"
  <2>1. ASSUME NEW c \in Canceller, CancelMark(c) PROVE task'[o].job \in over'
    <3>1. obj[c] = o
      BY <1>0, <1>1, <1>4, <2>1 DEF CancelMark
    <3> QED  BY <1>1, <1>4, <2>1, <3>1 DEF CancelMark
  <2>2. ASSUME NEW w \in Worker, Settle(w) PROVE task'[o].job \in over'
    <3>1. obj[w] = o
      BY <1>0, <1>1, <1>4, <2>2 DEF Settle
    <3>2. CASE task'[o].status = "failed"
      BY <1>1, <2>2, <3>1, <3>2 DEF Settle
    <3>3. CASE task'[o].status # "failed"
      <4>0. pc[w] \in {"ok", "err"} /\ (task[o].status = "pending" => task[o].attempts < MaxRetries)
        BY <1>1, <2>2 DEF Settle, IInv, TypeInv
      <4>1. pc[w] = "ok"
        <5>1. Outcome(w).status \in {"delivered", "cancelled"} /\ task[o].status = "pending"
          BY <1>4, <2>2, <3>1, <3>3, SettleFacts
        <5> QED  BY <1>1, <3>1, <4>0, <5>1, OutcomeFacts
      <4> QED  BY <1>1, <1>2, <3>1, <4>1 DEF IInv, FlightInv, Flight, InFlight
    <3> QED  BY <3>2, <3>3
  <2>3. ASSUME NEW w \in Worker, NEW i \in Id, Dispatch(w, i) PROVE FALSE
    BY <1>0, <1>1, <1>4, <2>3 DEF Dispatch, TaskRec
  <2>4. ASSUME NEW s \in Sender, Schedule(s) PROVE FALSE
    BY <1>0, <1>1, <1>4, <2>4, Fresh DEF Schedule
  <2>5. ASSUME StartPublish PROVE FALSE
    BY <1>0, <1>1, <1>4, <2>5, Fresh DEF StartPublish
  <2>6. ~UNCHANGED task /\ ~Crash
    BY <1>4 DEF Crash
  <2> QED
    BY <2>1, <2>2, <2>3, <2>4, <2>5, <2>6
    DEF Next, AgentStep, WorkerStep, CtlStep, CancelLookup, Persist, SaveTask, DeleteTask,
        RemoveTask, DeliverOk, DeliverErr, RunExits, StartLoad, StartRun, StopBegin, StopEnd,
        vars
<1> QED  BY <1>3, <1>4

\* How a worker comes to be in a delivery: it was dispatched, or it still is.
LEMMA InFlightStep ==
  ASSUME IInv, [Next]_vars, NEW w \in Worker, InFlight(w)'
  PROVE  /\ ~Crash /\ ~Settle(w)
         /\ \/ \E i \in Id : Dispatch(w, i)
            \/ /\ InFlight(w) /\ obj'[w] = obj[w]
               /\ pc'[w] = "ok" => pc[w] = "ok" \/ DeliverOk(w)
<1>0. pc \in [Agent -> PC] /\ obj \in [Agent -> Obj \cup {NoTask}] /\ w \in Agent
      /\ w \notin Sender /\ w \notin Canceller
  BY AgentFacts DEF IInv, TypeInv
<1>1. ~Crash
  BY <1>0 DEF Crash, InFlight
<1>2. ~Settle(w)
  <2> SUFFICES ASSUME Settle(w) PROVE FALSE
    OBVIOUS
  <2>1. pc'[w] \in {"idle", "delete", "persist"}
    BY <1>0, SettleFacts DEF Finish, Goto
  <2> QED  BY <2>1 DEF InFlight
<1>3. ASSUME NEW a \in Agent, AgentStep(a) PROVE a # w /\ pc'[w] = pc[w] /\ obj'[w] = obj[w]
  BY <1>0, <1>3 DEF AgentStep, Persist, SaveTask, DeleteTask, RemoveTask, Finish, Goto, InFlight
<1>4. ASSUME NEW v \in Worker, WorkerStep(v), v # w
      PROVE  pc'[w] = pc[w] /\ obj'[w] = obj[w]
  <2>1. CASE DeliverOk(v) \/ DeliverErr(v)
    BY <1>0, <1>4, <2>1 DEF DeliverOk, DeliverErr, Goto
  <2>2. CASE Settle(v)
    BY <1>0, <1>4, <2>2, SettleFacts DEF Finish, Goto
  <2> QED  BY <1>4, <2>1, <2>2 DEF WorkerStep
<1>5. CASE DeliverOk(w) \/ DeliverErr(w)
  BY <1>0, <1>1, <1>2, <1>5 DEF DeliverOk, DeliverErr, Goto, InFlight
<1>6. ASSUME NEW v \in Worker, NEW i \in Id, Dispatch(v, i), v # w
      PROVE  pc'[w] = pc[w] /\ obj'[w] = obj[w]
  BY <1>0, <1>6 DEF Dispatch
<1>7. ASSUME NEW c \in Canceller, CancelLookup(c) \/ CancelMark(c)
      PROVE  pc'[w] = pc[w] /\ obj'[w] = obj[w]
  BY <1>0, <1>7 DEF CancelLookup, CancelMark, Goto
<1>8. ASSUME NEW s \in Sender, Schedule(s) PROVE pc'[w] = pc[w] /\ obj'[w] = obj[w]
  BY <1>0, <1>8 DEF Schedule
<1>9. CASE RunExits \/ CtlStep \/ UNCHANGED vars
  BY <1>0, <1>1, <1>2, <1>9
  DEF RunExits, CtlStep, StartLoad, StartPublish, StartRun, StopBegin, StopEnd, vars, agentVars,
      InFlight
<1>10. CASE pc'[w] = pc[w] /\ obj'[w] = obj[w]
  BY <1>1, <1>2, <1>10 DEF InFlight
<1> QED
  BY <1>1, <1>2, <1>3, <1>4, <1>5, <1>6, <1>7, <1>8, <1>9, <1>10 DEF Next, WorkerStep

\* What a delivery in flight knows: its task is marked, is pending or was cancelled
\* meanwhile, and nobody else delivers under its ID.
LEMMA FlightInvStep == IInv /\ [Next]_vars => FlightInv'
<1> SUFFICES ASSUME IInv, [Next]_vars PROVE FlightInv'
  OBVIOUS
<1>0. /\ tasks \in [Id -> Obj \cup {NoTask}] /\ task \in [Obj -> TaskRec \cup {NoTask}]
      /\ pc \in [Agent -> PC] /\ obj \in [Agent -> Obj \cup {NoTask}]
  BY DEF IInv, TypeInv
<1>1. ASSUME NEW w \in Worker, InFlight(w)
      PROVE  /\ w \in Agent /\ obj[w] \in Obj /\ task[obj[w]] \in TaskRec /\ Flight(w)
             /\ IdOf(obj[w]) \in Id /\ ctl \notin {"down", "publish", "bump"}
  BY <1>0, <1>1, AgentFacts, ObjFacts
  DEF IInv, AgentInv, Works, Active, FlightInv, InFlight, IdOf, CtlInv
<1>2. ASSUME NEW w \in Worker, NEW i \in Id, Dispatch(w, i)
      PROVE  /\ tasks[i] \in Obj /\ IdOf(tasks[i]) = i /\ w \in Agent
             /\ pc[w] = "idle" /\ pc'[w] = "calling" /\ obj'[w] = tasks[i] /\ tasks' = tasks
             /\ \A v \in Worker : v # w => pc'[v] = pc[v] /\ obj'[v] = obj[v]
             /\ \A v \in Worker : InFlight(v) => IdOf(obj[v]) # i
  <2>1. /\ tasks[i] \in Obj /\ IdOf(tasks[i]) = i /\ w \in Agent
        /\ pc[w] = "idle" /\ pc'[w] = "calling" /\ obj'[w] = tasks[i] /\ tasks' = tasks
        /\ \A v \in Worker : v # w => pc'[v] = pc[v] /\ obj'[v] = obj[v]
    BY <1>0, <1>2, AgentFacts DEF Dispatch, IInv, ObjInv, IdOf
  <2>2. ASSUME NEW v \in Worker, InFlight(v), IdOf(obj[v]) = i PROVE FALSE
    BY <1>1, <1>2, <2>2 DEF Dispatch, Flight
  <2> QED  BY <2>1, <2>2
<1>3. ASSUME NEW v \in Worker, NEW w \in Worker, InFlight(v)', InFlight(w)',
             (IdOf(obj[v]) = IdOf(obj[w]))'
      PROVE  v = w
  <2>1. ASSUME NEW x \in Worker, NEW y \in Worker, NEW i \in Id, Dispatch(x, i), InFlight(y)',
               IdOf(obj'[y]) = IdOf(obj'[x])
        PROVE  x = y
    BY <1>2, <2>1 DEF InFlight
  <2>2. CASE InFlight(v) /\ InFlight(w) /\ obj'[v] = obj[v] /\ obj'[w] = obj[w]
    BY <1>3, <2>2 DEF IInv, FlightInv
  <2> QED  BY <1>3, <2>1, <2>2, InFlightStep
<1>4. ASSUME NEW w \in Worker, InFlight(w)' PROVE Flight(w)'
  <2>1. ASSUME NEW i \in Id, Dispatch(w, i) PROVE Flight(w)'
    <3>1. task[tasks[i]] \in TaskRec /\ task[tasks[i]].status = "pending"
      BY <1>0, <1>2, <2>1 DEF Dispatch, IInv, ObjInv
    <3>2. task'[tasks[i]] = [task[tasks[i]] EXCEPT !.delivering = TRUE]
      BY <1>0, <1>2, <2>1 DEF Dispatch
    <3>3. task'[tasks[i]].delivering /\ task'[tasks[i]].status = "pending"
      BY <3>1, <3>2 DEF TaskRec
    <3> QED  BY <1>2, <2>1, <3>3 DEF Flight
  <2>2. CASE InFlight(w) /\ obj'[w] = obj[w] /\ (pc'[w] = "ok" => pc[w] = "ok" \/ DeliverOk(w))
    <3> DEFINE o == obj[w]
    <3>0. o \in Obj /\ task[o] \in TaskRec /\ IdOf(o) \in Id /\ Flight(w) /\ ~Crash
      BY <1>1, <1>4, <2>2, InFlightStep
    <3>1. task'[o].job = task[o].job /\ task[o].job \in Sender
      BY <3>0, Lasts, NilFacts DEF TaskRec
    <3>2. task'[o].delivering /\ task'[o].status \in {"pending", "cancelled"}
      <4>1. ASSUME NEW s \in Sender, Schedule(s) PROVE task'[o] = task[o]
        BY <1>0, <3>0, <4>1, Fresh, NilFacts DEF Schedule
      <4>2. ASSUME NEW c \in Canceller, CancelMark(c), task'[o] # task[o]
            PROVE  task'[o] = [task[o] EXCEPT !.status = "cancelled"]
        BY <1>0, <3>0, <4>2 DEF CancelMark
      <4>3. ASSUME NEW v \in Worker, NEW i \in Id, Dispatch(v, i), task'[o] # task[o]
            PROVE  task'[o] = [task[o] EXCEPT !.delivering = TRUE]
        BY <1>0, <3>0, <4>3 DEF Dispatch
      <4>4. ASSUME NEW v \in Worker, Settle(v) PROVE task'[o] = task[o]
        <5>1. v # w /\ InFlight(v)
          BY <1>4, <4>4, InFlightStep DEF Settle, InFlight
        <5>2. obj[v] # o
          BY <2>2, <5>1 DEF IInv, FlightInv
        <5> QED  BY <1>0, <3>0, <4>4, <5>2 DEF Settle
      <4>5. ~StartPublish
        BY <1>1, <2>2 DEF StartPublish
      <4>6. CASE task'[o] = task[o]
        BY <3>0, <4>6 DEF Flight
      <4>7. CASE \E c \in Canceller : CancelMark(c)
        BY <3>0, <4>2, <4>6, <4>7 DEF Flight, TaskRec, Status
      <4>8. CASE \E v \in Worker, i \in Id : Dispatch(v, i)
        BY <3>0, <4>3, <4>6, <4>8 DEF Flight, TaskRec, Status
      <4> QED
        BY <3>0, <4>1, <4>4, <4>5, <4>6, <4>7, <4>8
        DEF Next, AgentStep, WorkerStep, CtlStep, CancelLookup, Persist, SaveTask, DeleteTask,
            RemoveTask, DeliverOk, DeliverErr, RunExits, StartLoad, StartRun, StopBegin,
            StopEnd, vars
    <3>3. tasks'[IdOf(o)] \in {o, NoTask}
      <4>1. ASSUME NEW s \in Sender, Schedule(s) PROVE tasks'[IdOf(o)] = tasks[IdOf(o)]
        <5>1. Stands(IdOf(o), task[o].job)
          BY <3>0, NilFacts DEF Stands, IdOf
        <5>2. IdOf(o) # nextId + 1
          BY <3>1, <4>1, <5>1, Fresh DEF Schedule
        <5> QED  BY <1>0, <3>0, <4>1, <5>2 DEF Schedule
      <4>2. ASSUME NEW a \in Agent, DeleteTask(a)
            PROVE  tasks'[IdOf(o)] \in {tasks[IdOf(o)], NoTask}
        BY <1>0, <3>0, <4>2 DEF DeleteTask
      <4>3. ~StartPublish
        BY <1>1, <2>2 DEF StartPublish
      <4>4. CASE tasks'[IdOf(o)] \in {tasks[IdOf(o)], NoTask}
        BY <3>0, <4>4 DEF Flight
      <4> QED
        BY <3>0, <4>1, <4>2, <4>3, <4>4
        DEF Next, AgentStep, WorkerStep, CtlStep, CancelLookup, CancelMark, Persist, SaveTask,
            RemoveTask, DeliverOk, DeliverErr, Settle, Dispatch, RunExits, StartLoad, StartRun,
            StopBegin, StopEnd, vars
    <3>4. pc'[w] = "ok" => task'[o].job \in over'
      <4>1. CASE pc[w] = "ok"
        BY <3>0, <3>1, <4>1, OverGrows DEF Flight
      <4>2. CASE DeliverOk(w)
        BY <3>1, <4>2 DEF DeliverOk
      <4> QED  BY <2>2, <4>1, <4>2
    <3> QED  BY <2>2, <3>2, <3>3, <3>4 DEF Flight
  <2> QED  BY <1>4, <2>1, <2>2, InFlightStep
<1> QED  BY <1>3, <1>4 DEF FlightInv

-----------------------------------------------------------------------------
(* The counter of s.wg. *)

Busy == {w \in Worker : pc[w] # "idle"}

\* s.wg counts the delivery goroutines and the loop, through every way a goroutine
\* ends: so that Wait returns only when all of them are gone.
LEMMA WgInvStep == IInv /\ WgInv /\ [Next]_vars => WgInv'
<1> SUFFICES ASSUME IInv, WgInv, [Next]_vars PROVE WgInv'
  OBVIOUS
<1>0. /\ pc \in [Agent -> PC] /\ runs \in BOOLEAN
      /\ IsFiniteSet(Busy) /\ Cardinality(Busy) \in Nat
  <2>1. IsFiniteSet(Worker) /\ Busy \in SUBSET Worker
    BY SchedulerAssumption DEF Busy
  <2>2. IsFiniteSet(Busy)
    BY <2>1, FS_Subset
  <2> QED  BY <2>2, FS_CardinalityType DEF IInv, TypeInv
<1>1. /\ WgInv <=> wg = Cardinality(Busy) + (IF runs THEN 1 ELSE 0)
      /\ WgInv' <=> wg' = Cardinality(Busy') + (IF runs' THEN 1 ELSE 0)
  BY DEF WgInv, Busy
<1>2. ASSUME NEW w \in Worker, pc[w] # "idle", pc' = [pc EXCEPT ![w] = "idle"], wg' = wg - 1,
             runs' = runs
      PROVE  WgInv'
  <2>1. Busy' = Busy \ {w} /\ w \in Busy
    BY <1>0, <1>2, AgentFacts DEF Busy
  <2>2. Cardinality(Busy') = Cardinality(Busy) - 1
    BY <1>0, <2>1, FS_RemoveElement
  <2> QED  BY <1>0, <1>1, <1>2, <2>2
<1>3. ASSUME Busy' = Busy, wg' = wg, runs' = runs PROVE WgInv'
  BY <1>1, <1>3
<1>4. ASSUME NEW a \in Agent, Finish(a), pc[a] # "idle", runs' = runs PROVE WgInv'
  <2>1. CASE a \in Worker
    BY <1>2, <1>4, <2>1 DEF Finish
  <2>2. CASE a \notin Worker
    <3>1. Busy' = Busy
      BY <1>0, <1>4, <2>2, AgentFacts DEF Finish, Busy
    <3> QED  BY <1>3, <1>4, <2>2, <3>1 DEF Finish
  <2> QED  BY <2>1, <2>2
<1>5. ASSUME NEW a \in Agent, NEW l, pc' = [pc EXCEPT ![a] = l], wg' = wg, runs' = runs,
             a \in Worker => pc[a] # "idle" /\ l # "idle"
      PROVE  WgInv'
  <2>1. Busy' = Busy
    BY <1>0, <1>5, AgentFacts DEF Busy
  <2> QED  BY <1>3, <1>5, <2>1
<1>6. ASSUME NEW a \in Agent, AgentStep(a) PROVE WgInv'
  <2>1. \/ Finish(a) /\ pc[a] # "idle" /\ runs' = runs
        \/ /\ pc[a] # "idle" /\ wg' = wg /\ runs' = runs
           /\ \E l \in {"save", "erase"} : pc' = [pc EXCEPT ![a] = l]
    BY <1>6 DEF AgentStep, Persist, SaveTask, DeleteTask, RemoveTask, Goto, ctlVars
  <2> QED  BY <1>4, <1>5, <2>1
<1>7. ASSUME NEW w \in Worker, WorkerStep(w) PROVE WgInv'
  <2>1. CASE DeliverOk(w) \/ DeliverErr(w)
    <3>1. /\ pc[w] # "idle" /\ wg' = wg /\ runs' = runs
          /\ \E l \in {"ok", "err"} : pc' = [pc EXCEPT ![w] = l]
      BY <2>1 DEF DeliverOk, DeliverErr, Goto, ctlVars
    <3> QED  BY <1>5, <3>1, AgentFacts
  <2>2. CASE Settle(w)
    <3>1. pc[w] # "idle" /\ runs' = runs
      BY <2>2 DEF Settle, ctlVars
    <3>2. Finish(w) \/ (wg' = wg /\ \E l \in {"delete", "persist"} : pc' = [pc EXCEPT ![w] = l])
      BY <2>2, SettleFacts DEF Goto
    <3> QED  BY <1>4, <1>5, <3>1, <3>2, AgentFacts
  <2> QED  BY <1>7, <2>1, <2>2 DEF WorkerStep
<1>8. ASSUME NEW w \in Worker, NEW i \in Id, Dispatch(w, i) PROVE WgInv'
  <2>1. Busy' = Busy \cup {w} /\ w \notin Busy
    BY <1>0, <1>8, AgentFacts DEF Busy, Dispatch
  <2>2. Cardinality(Busy') = Cardinality(Busy) + 1
    BY <1>0, <2>1, FS_AddElement
  <2> QED  BY <1>0, <1>1, <1>8, <2>2 DEF Dispatch, ctlVars
<1>9. ASSUME NEW c \in Canceller, CancelLookup(c) \/ CancelMark(c) PROVE WgInv'
  <2>1. /\ wg' = wg /\ runs' = runs
        /\ \E l \in {"mark", "delete", "refused"} : pc' = [pc EXCEPT ![c] = l]
    BY <1>9 DEF CancelLookup, CancelMark, Goto, ctlVars
  <2> QED  BY <1>5, <2>1, AgentFacts
<1>10. ASSUME NEW s \in Sender, Schedule(s) PROVE WgInv'
  <2>1. wg' = wg /\ runs' = runs /\ pc' = [pc EXCEPT ![s] = "persist"]
    BY <1>10 DEF Schedule, ctlVars
  <2> QED  BY <1>5, <2>1, AgentFacts
<1>11. CASE RunExits
  <2>1. Busy' = Busy /\ runs /\ ~runs' /\ wg' = wg - 1
    BY <1>11 DEF RunExits, Busy, agentVars
  <2> QED  BY <1>0, <1>1, <2>1
<1>12. CASE StartRun
  <2>1. Busy' = Busy /\ ~runs /\ runs' /\ wg' = wg + 1
    BY <1>0, <1>12 DEF StartRun, Busy, agentVars, IInv, CtlInv
  <2> QED  BY <1>0, <1>1, <2>1
<1>13. CASE StartLoad \/ StartPublish \/ StopBegin \/ StopEnd \/ UNCHANGED vars
  <2>1. Busy' = Busy /\ wg' = wg /\ runs' = runs
    BY <1>13 DEF StartLoad, StartPublish, StopBegin, StopEnd, vars, agentVars, ctlVars, Busy
  <2> QED  BY <1>3, <2>1
<1>14. CASE Crash
  <2>1. Busy' = {} /\ ~runs' /\ wg' = 0
    BY <1>14, AgentFacts DEF Crash, Busy
  <2> QED  BY <1>1, <2>1, FS_EmptySet
<1> QED
  BY <1>6, <1>7, <1>8, <1>9, <1>10, <1>11, <1>12, <1>13, <1>14 DEF Next, CtlStep

\* A goroutine moves by its own steps, or dies with its process.
LEMMA Own ==
  ASSUME IInv, [Next]_vars, NEW x \in Agent, pc'[x] # pc[x]
  PROVE  \/ Crash \/ AgentStep(x)
         \/ x \in Sender /\ Schedule(x)
         \/ x \in Canceller /\ (CancelLookup(x) \/ CancelMark(x))
         \/ x \in Worker /\ (WorkerStep(x) \/ \E i \in Id : Dispatch(x, i))
<1>0. pc \in [Agent -> PC]
  BY DEF IInv, TypeInv
<1>1. ASSUME NEW a \in Agent, NEW l, pc' = [pc EXCEPT ![a] = l] PROVE x = a
  BY <1>0, <1>1
<1>2. ASSUME NEW a \in Agent, AgentStep(a) PROVE x = a
  <2>1. \E l : pc' = [pc EXCEPT ![a] = l]
    BY <1>2 DEF AgentStep, Persist, SaveTask, DeleteTask, RemoveTask, Finish, Goto
  <2> QED  BY <1>1, <2>1
<1>3. ASSUME NEW w \in Worker, WorkerStep(w) PROVE x = w
  <2>1. CASE DeliverOk(w) \/ DeliverErr(w)
    BY <1>1, <2>1, AgentFacts DEF DeliverOk, DeliverErr, Goto
  <2>2. CASE Settle(w)
    BY <1>1, <2>2, AgentFacts, SettleFacts DEF Finish, Goto
  <2> QED  BY <1>3, <2>1, <2>2 DEF WorkerStep
<1>4. ASSUME NEW w \in Worker, NEW i \in Id, Dispatch(w, i) PROVE x = w
  BY <1>1, <1>4, AgentFacts DEF Dispatch
<1>5. ASSUME NEW c \in Canceller, CancelLookup(c) \/ CancelMark(c) PROVE x = c
  BY <1>1, <1>5, AgentFacts DEF CancelLookup, CancelMark, Goto
<1>6. ASSUME NEW s \in Sender, Schedule(s) PROVE x = s
  BY <1>1, <1>6, AgentFacts DEF Schedule
<1>7. ~UNCHANGED pc
  OBVIOUS
<1> QED
  BY <1>2, <1>3, <1>4, <1>5, <1>6, <1>7
  DEF Next, CtlStep, RunExits, StartLoad, StartPublish, StartRun, StopBegin, StopEnd, vars,
      agentVars

\* Where the start, the loop and the deliveries can be at the same time; that Stop has
\* nothing left to wait for is what the counter shows.
LEMMA CtlInvStep == IInv /\ WgInv /\ [Next]_vars => CtlInv'
<1> SUFFICES ASSUME IInv, WgInv, [Next]_vars PROVE CtlInv'
  OBVIOUS
<1>0. TypeInv /\ CtlInv /\ NameInv /\ epoch \in 0 .. MaxStarts /\ pc \in [Agent -> PC] /\ MaxStarts \in Nat
  BY SchedulerAssumption DEF IInv, TypeInv
<1>1. ASSUME NEW w \in Worker, pc'[w] # "idle", pc[w] = "idle"
      PROVE  runs /\ UNCHANGED ctlVars
  <2>1. ~Crash /\ ~AgentStep(w) /\ ~WorkerStep(w)
    BY <1>1, AgentFacts DEF Crash, AgentStep, Persist, SaveTask, DeleteTask, RemoveTask,
       WorkerStep, DeliverOk, DeliverErr, Settle
  <2> QED  BY <1>1, <2>1, Own, AgentFacts DEF Dispatch
<1>2. ASSUME NEW s \in Sender, Active(s)', ~Active(s) PROVE Schedule(s)
  <2>1. ~Crash /\ ~AgentStep(s)
    BY <1>2, AgentFacts DEF Active, Crash, AgentStep, Persist, SaveTask, DeleteTask, RemoveTask
  <2> QED  BY <1>2, <2>1, Own, AgentFacts DEF Active
<1>3. ASSUME StopEnd PROVE ~runs /\ \A w \in Worker : pc[w] = "idle"
  <2>1. IsFiniteSet(Busy) /\ Cardinality(Busy) \in Nat
    <3>1. IsFiniteSet(Worker) /\ Busy \in SUBSET Worker
      BY SchedulerAssumption DEF Busy
    <3> QED  BY <3>1, FS_Subset, FS_CardinalityType
  <2>2. ~runs /\ Cardinality(Busy) = 0
    BY <1>3, <2>1 DEF WgInv, Busy, StopEnd, IInv, TypeInv
  <2>3. Busy = {}
    BY <2>1, <2>2, FS_EmptySet
  <2> QED  BY <2>2, <2>3 DEF Busy
<1>4. CASE Crash
  BY <1>4, AgentFacts DEF Crash, CtlInv, Active
<1>5. CASE \E s \in Sender : Schedule(s)
  BY <1>0, <1>1, <1>5 DEF Schedule, ctlVars, CtlInv
<1>6. CASE UNCHANGED <<epoch, ctl, loaded, nextId>> /\ ~Crash /\ ~\E s \in Sender : Schedule(s)
  <2>1. runs' => runs
    BY <1>6 DEF Next, AgentStep, WorkerStep, CtlStep, CancelLookup, CancelMark, Persist, SaveTask,
       DeleteTask, RemoveTask, DeliverOk, DeliverErr, Settle, Dispatch, RunExits, StartLoad,
       StartPublish, StartRun, StopBegin, StopEnd, vars, ctlVars
  <2>2. ctl \in {"down", "publish", "bump"} => \A w \in Worker : pc'[w] = "idle"
    BY <1>0, <1>1 DEF CtlInv
  <2> QED  BY <1>0, <1>2, <1>6, <2>1, <2>2 DEF CtlInv
<1>7. CASE CtlStep
  <2> USE <1>0 DEF CtlInv, agentVars, Active
  <2>1. CASE StartLoad
    BY <2>1 DEF StartLoad
  <2>2. CASE StartPublish
    BY <2>2 DEF StartPublish
  <2>3. CASE StartRun
    BY <2>3 DEF StartRun
  <2>4. CASE StopBegin
    BY <2>4 DEF StopBegin
  <2>5. CASE StopEnd
    BY <1>3, <2>5 DEF StopEnd
  <2> QED  BY <1>7, <2>1, <2>2, <2>3, <2>4, <2>5 DEF CtlStep
<1> QED  BY <1>4, <1>5, <1>6, <1>7, Moves

-----------------------------------------------------------------------------
(* The theorems. *)

\* The scheduler starts in the invariant.
LEMMA InitInv == Init => IInv /\ WgInv
<1> SUFFICES ASSUME Init PROVE IInv /\ WgInv
  OBVIOUS
<1> USE DEF Init, NoTasks
<1>1. TypeInv
  <2>1. 0 \in 0 .. MaxStarts
    BY SchedulerAssumption
  <2>2. \A o \in Obj : task[o] = NoTask
    OBVIOUS
  <2> QED  BY <2>1, <2>2 DEF TypeInv, PC
<1>2. AgentInv
  BY AgentFacts DEF AgentInv, Works, Active, SenderPC, CancellerPC, WorkerPC
<1>3. CtlInv /\ ObjInv /\ NameInv /\ FlightInv /\ OverInv
  BY AgentFacts
  DEF CtlInv, ObjInv, NameInv, FlightInv, OverInv, Stands, InFlight, Active
<1>4. WgInv
  <2>1. {w \in Worker : pc[w] # "idle"} = {}
    BY AgentFacts
  <2> QED  BY <2>1, FS_EmptySet DEF WgInv
<1> QED  BY <1>1, <1>2, <1>3, <1>4 DEF IInv

\* The inductive invariant, and the counter of s.wg: what Stop waits for is exactly
\* the delivery goroutines and the loop.
THEOREM Inductive == Spec => [](IInv /\ WgInv)
<1>1. IInv /\ WgInv /\ [Next]_vars => (IInv /\ WgInv)'
  <2> SUFFICES ASSUME IInv, WgInv, [Next]_vars PROVE (IInv /\ WgInv)'
    OBVIOUS
  <2> QED
    BY TypeStep, AgentInvStep, CtlInvStep, ObjInvStep, NameInvStep, FlightInvStep,
       OverInvStep, WgInvStep
    DEF IInv
<1> QED  BY InitInv, <1>1, PTL DEF Spec

\* Every variable keeps its type; the counter of s.wg is never negative.
THEOREM Typed == Spec => []TypeOK
<1>1. IInv /\ WgInv => TypeOK
  <2> SUFFICES ASSUME IInv, WgInv PROVE TypeOK
    OBVIOUS
  <2>1. wg \in Nat
    <3>1. IsFiniteSet(Worker) /\ {w \in Worker : pc[w] # "idle"} \in SUBSET Worker
      BY SchedulerAssumption
    <3>2. Cardinality({w \in Worker : pc[w] # "idle"}) \in Nat
      BY <3>1, FS_Subset, FS_CardinalityType
    <3> QED  BY <3>2 DEF WgInv
  <2>2. \A e \in Pending : e \in Entry
    BY SchedulerAssumption DEF Pending, Entry
  <2>3. /\ file \in [Id -> Entry \cup {NoTask}] /\ loaded \in [Id -> Entry \cup {NoTask}]
        /\ snap \in [Agent -> Entry \cup {NoTask}]
    BY <2>2 DEF IInv, TypeInv
  <2> QED  BY <2>1, <2>3 DEF TypeOK, IInv, TypeInv
<1> QED  BY <1>1, Inductive, PTL

\* When Stop has returned, and until the next Start runs, no delivery goroutine is
\* left that could still write a task or the file.
THEOREM DrainsAtStop == Spec => []StopDrains
<1>1. IInv => StopDrains
  BY DEF IInv, CtlInv, StopDrains
<1> QED  BY <1>1, Inductive, PTL

\* At most one delivery of a job is in flight, over ticks, retries, and restarts that
\* make a second object of a persisted job.
THEOREM DeliversAlone == Spec => []NoConcurrentDelivery
<1>1. IInv => NoConcurrentDelivery
  <2> SUFFICES ASSUME IInv, NEW v \in Worker, NEW w \in Worker, InFlight(v), InFlight(w),
                      task[obj[v]].job = task[obj[w]].job
               PROVE  v = w
    BY DEF NoConcurrentDelivery
  <2>1. ASSUME NEW x \in Worker, InFlight(x)
        PROVE  /\ IdOf(obj[x]) \in Id /\ task[obj[x]].job \in Sender
               /\ Stands(IdOf(obj[x]), task[obj[x]].job)
    <3>1. obj[x] \in Obj /\ task[obj[x]] # NoTask
      BY <2>1, AgentFacts DEF IInv, AgentInv, Works, Active, InFlight
    <3> QED  BY <3>1, ObjFacts DEF IInv, TypeInv, TaskRec, Stands, IdOf
  <2>2. IdOf(obj[v]) = IdOf(obj[w])
    BY <2>1 DEF IInv, NameInv
  <2> QED  BY <2>2 DEF IInv, FlightInv
<1> QED  BY <1>1, Inductive, PTL

\* A job whose Schedule returned and which is not over is in the state file, through
\* retries, restarts, crashes and new IDs.
THEOREM LosesNothing == Spec => []NothingLost
<1>1. Init => NothingLost
  BY AgentFacts DEF Init, NothingLost
<1>2. IInv /\ NothingLost /\ [Next]_vars => NothingLost'
  <2> SUFFICES ASSUME IInv, NothingLost, [Next]_vars,
                      NEW s \in Sender, pc'[s] = "returned", s \notin over'
               PROVE  \E i \in Id : file'[i] # NoTask /\ file'[i].job = s
    BY DEF NothingLost
  <2>0. s \notin over
    BY OverGrows
  <2>1. ASSUME NEW a \in Agent, Active(a)
        PROVE  /\ obj[a] \in Obj /\ IdOf(obj[a]) \in Id /\ task[obj[a]] # NoTask
               /\ task[obj[a]].job \in Sender /\ Works(a)
               /\ Stands(IdOf(obj[a]), task[obj[a]].job)
    <3>1. obj[a] \in Obj /\ task[obj[a]] # NoTask /\ Works(a)
      BY <2>1 DEF IInv, AgentInv, Works
    <3> QED  BY <3>1, ObjFacts DEF IInv, TypeInv, TaskRec, Stands, IdOf
  <2>2. CASE pc[s] = "returned"
    <3>1. PICK i \in Id : file[i] # NoTask /\ file[i].job = s
      BY <2>0, <2>2 DEF NothingLost
    <3>2. Stands(i, s)
      BY <3>1 DEF Stands
    <3>3. ASSUME NEW a \in Agent, SaveTask(a), IdOf(obj[a]) = i
          PROVE  snap[a] # NoTask /\ snap[a].job = s
      <4>1. Active(a) /\ pc[a] = "save"
        BY <3>3 DEF SaveTask, Active
      <4> QED  BY <2>1, <3>2, <3>3, <4>1 DEF IInv, NameInv, Works
    <3>4. ASSUME NEW a \in Agent, RemoveTask(a), IdOf(obj[a]) = i PROVE FALSE
      <4>1. Active(a) /\ pc[a] = "erase"
        BY <3>4 DEF RemoveTask, Active
      <4>2. task[obj[a]].job = s /\ task[obj[a]].status # "pending"
        BY <2>1, <3>2, <3>4, <4>1 DEF IInv, NameInv, Works
      <4> QED  BY <2>0, <2>1, <4>1, <4>2 DEF IInv, OverInv
    <3>5. file'[i] # NoTask /\ file'[i].job = s
      BY <3>1, <3>3, <3>4, FileWrites
    <3> QED  BY <3>5
  <2>3. CASE pc[s] # "returned"
    <3>1. AgentStep(s) /\ Active(s)
      <4>1. ~Crash /\ ~Schedule(s)
        BY <2>3, AgentFacts DEF Crash, Schedule, IInv, TypeInv
      <4>2. AgentStep(s)
        BY <2>3, <4>1, Own, AgentFacts
      <4> QED  BY <4>2 DEF AgentStep, Persist, SaveTask, DeleteTask, RemoveTask, Active
    <3>2. Works(s) /\ task[obj[s]].job = s /\ pc[s] \in SenderPC
      BY <2>1, <3>1, AgentFacts DEF Works
    <3>3. CASE Persist(s)
      <4>1. task[obj[s]].status # "pending"
        BY <3>3, AgentFacts DEF Persist, IInv, TypeInv
      <4> QED  BY <2>0, <2>1, <3>1, <3>2, <4>1, AgentFacts DEF IInv, OverInv
    <3>4. CASE SaveTask(s)
      <4>1. snap[s] # NoTask /\ snap[s].job = s
        BY <3>2, <3>4 DEF SaveTask, Works
      <4>2. IdOf(obj[s]) \in Id /\ file'[IdOf(obj[s])] = snap[s]
        BY <2>1, <3>1, <3>4, AgentFacts DEF SaveTask, IInv, TypeInv
      <4> QED  BY <4>1, <4>2
    <3> QED  BY <3>1, <3>2, <3>3, <3>4 DEF AgentStep, DeleteTask, RemoveTask, SenderPC
  <2> QED  BY <2>2, <2>3
<1> QED  BY <1>1, <1>2, Inductive, PTL DEF Spec

\* A task that was delivered, failed or cancelled stays so as long as its process
\* lives: a delivery in flight does not overwrite a cancellation.
THEOREM StatusStands == Spec => StatusIsFinal
<1>1. IInv /\ [Next]_vars =>
        [\A o \in Obj : task[o] # NoTask /\ task[o].status # "pending" /\ task'[o] # NoTask
                          => task'[o].status = task[o].status]_vars
  <2> SUFFICES ASSUME IInv, [Next]_vars, NEW o \in Obj, task[o] # NoTask,
                      task[o].status # "pending", task'[o] # NoTask
               PROVE  task'[o].status = task[o].status
    OBVIOUS
  <2>1. ~Crash
    BY DEF Crash
  <2> QED  BY <2>1, Lasts
<1> QED  BY <1>1, Inductive, PTL DEF Spec, StatusIsFinal

-----------------------------------------------------------------------------
(***************************************************************************)
(* Scheduler implements JobQueue: each of its steps is a step of the queue, *)
(* or leaves the queue alone.                                               *)
(***************************************************************************)
QueueStutters == UNCHANGED <<Given, Accepted, Stored, over, Deliveries>>

\* A goroutine at work has an object whose job stands under its ID.
LEMMA HasJob ==
  ASSUME IInv, NEW a \in Agent, Active(a)
  PROVE  /\ obj[a] \in Obj /\ IdOf(obj[a]) \in Id /\ task[obj[a]] # NoTask
         /\ task[obj[a]] \in TaskRec /\ task[obj[a]].job \in Given
         /\ Stands(IdOf(obj[a]), task[obj[a]].job)
<1>1. obj[a] \in Obj /\ task[obj[a]] # NoTask
  BY DEF IInv, AgentInv, Works
<1>2. /\ IdOf(obj[a]) \in Id /\ task[obj[a]] \in TaskRec
      /\ task[obj[a]].job \in Sender /\ Stands(IdOf(obj[a]), task[obj[a]].job)
  BY <1>1, ObjFacts DEF IInv, TypeInv, TaskRec, Stands, IdOf
<1> QED  BY <1>1, <1>2 DEF IInv, NameInv, Given

\* Jobs are given and accepted where their senders are; nobody else moves them.
LEMMA SendersStand ==
  ASSUME \A s \in Sender : pc'[s] = pc[s]
  PROVE  Given' = Given /\ Accepted' = Accepted
BY DEF Given, Accepted

\* Jobs are stored where the file has entries.
LEMMA FileStands ==
  ASSUME UNCHANGED file
  PROVE  Stored' = Stored
BY DEF Stored

\* Who is in flight, and with which job, as a membership.
LEMMA InDeliveries ==
  /\ \A d : d \in Deliveries <=> \E w \in Worker : InFlight(w) /\ d = <<w, task[obj[w]].job>>
  /\ \A d : d \in Deliveries' <=> \E w \in Worker : InFlight(w)' /\ d = <<w, task'[obj'[w]].job>>
BY DEF Deliveries

\* The deliveries stand unless one begins or ends: what is in flight keeps its
\* object and its job.
LEMMA DeliveriesStand ==
  ASSUME IInv, [Next]_vars, \A w \in Worker : InFlight(w)' <=> InFlight(w)
  PROVE  Deliveries' = Deliveries
<1>1. ASSUME NEW w \in Worker, InFlight(w)
      PROVE  InFlight(w)' /\ task'[obj'[w]].job = task[obj[w]].job
  <2>1. InFlight(w)'
    BY <1>1
  <2>2. ~Crash /\ obj'[w] = obj[w]
    <3>1. \A i \in Id : ~Dispatch(w, i)
      BY <1>1 DEF Dispatch, InFlight
    <3> QED  BY <2>1, <3>1, InFlightStep
  <2>3. obj[w] \in Obj /\ task[obj[w]] # NoTask
    BY <1>1, AgentFacts, HasJob DEF Active, InFlight
  <2> QED  BY <2>1, <2>2, <2>3, Lasts
<1>2. \A d : d \in Deliveries' <=> d \in Deliveries
  BY <1>1, InDeliveries
<1> QED  BY <1>2

\* What one goroutine's step does to the places of the others.
LEMMA OthersStand ==
  ASSUME IInv, NEW a \in Agent, NEW l, pc' = [pc EXCEPT ![a] = l]
  PROVE  /\ a \notin Sender => \A s \in Sender : pc'[s] = pc[s]
         /\ a \notin Worker => \A w \in Worker : InFlight(w)' <=> InFlight(w)
         /\ \A b \in Agent : b # a => pc'[b] = pc[b]
         /\ pc'[a] = l
<1>1. pc \in [Agent -> PC] /\ \A b \in Agent : b # a => pc'[b] = pc[b]
  BY DEF IInv, TypeInv
<1>2. pc'[a] = l
  BY <1>1
<1> QED  BY <1>1, <1>2, AgentFacts DEF InFlight

\* Schedule hands a job in.
LEMMA ScheduleGives ==
  ASSUME IInv, NEW s \in Sender, Schedule(s)
  PROVE  Queue!Give(s)
<1>1. [Next]_vars
  BY DEF Next
<1>2. pc[s] = "idle" /\ pc' = [pc EXCEPT ![s] = "persist"] /\ s \in Agent /\ s \notin Worker
  BY AgentFacts DEF Schedule
<1>3. pc'[s] = "persist" /\ \A r \in Sender : r # s => pc'[r] = pc[r]
  BY <1>2, OthersStand, AgentFacts
<1>4. Given' = Given \cup {s} /\ s \notin Given /\ Accepted' = Accepted
  BY <1>2, <1>3 DEF Given, Accepted
<1>5. Stored' = Stored /\ over' = over
  BY FileStands DEF Schedule
<1>6. Deliveries' = Deliveries
  BY <1>1, <1>2, OthersStand, DeliveriesStand
<1> QED  BY <1>4, <1>5, <1>6 DEF Queue!Give

\* Schedule returns without an entry only when its job is over by then.
LEMMA PersistRefines ==
  ASSUME IInv, NEW a \in Agent, Persist(a)
  PROVE  QueueStutters \/ \E s \in Sender : Queue!Accept(s)
<1>1. [Next]_vars /\ over' = over /\ Stored' = Stored
  <2>1. [Next]_vars
    BY DEF Next, AgentStep
  <2> QED  BY <2>1, FileStands DEF Persist
<1>2. Active(a) /\ pc[a] = "persist" /\ ~InFlight(a)
  BY DEF Persist, Active, InFlight
<1>3. \/ task[obj[a]].status = "pending" /\ pc' = [pc EXCEPT ![a] = "save"]
      \/ /\ task[obj[a]].status # "pending"
         /\ pc' = [pc EXCEPT ![a] = IF a \in Worker THEN "idle" ELSE "returned"]
  BY DEF Persist, Finish
<1>4. Deliveries' = Deliveries
  <2>1. /\ \A b \in Agent : b # a => pc'[b] = pc[b]
        /\ pc'[a] \in {"save", "idle", "returned"}
    BY <1>3, OthersStand
  <2>2. \A w \in Worker : InFlight(w)' <=> InFlight(w)
    BY <1>2, <2>1, AgentFacts DEF InFlight
  <2> QED  BY <1>1, <2>2, DeliveriesStand
<1>5. CASE a \notin Sender
  BY <1>1, <1>3, <1>4, <1>5, OthersStand, SendersStand DEF QueueStutters
<1>6. CASE a \in Sender /\ task[obj[a]].status = "pending"
  <2>1. pc'[a] = "save" /\ \A r \in Sender : r # a => pc'[r] = pc[r]
    BY <1>3, <1>6, OthersStand, AgentFacts
  <2>2. Given' = Given /\ Accepted' = Accepted
    BY <1>2, <2>1 DEF Given, Accepted
  <2> QED  BY <1>1, <1>4, <2>2 DEF QueueStutters
<1>7. CASE a \in Sender /\ task[obj[a]].status # "pending"
  <2>1. pc'[a] = "returned" /\ \A r \in Sender : r # a => pc'[r] = pc[r]
    BY <1>3, <1>7, OthersStand, AgentFacts
  <2>2. Given' = Given /\ a \in Given \ Accepted /\ Accepted' = Accepted \cup {a}
    BY <1>2, <1>7, <2>1 DEF Given, Accepted
  <2>3. task[obj[a]].job = a
    BY <1>2, <1>7 DEF IInv, AgentInv, Works
  <2>4. a \in over
    BY <1>2, <1>7, <2>3, HasJob DEF IInv, OverInv
  <2> QED  BY <1>1, <1>4, <1>7, <2>2, <2>4 DEF Queue!Accept
<1> QED  BY <1>5, <1>6, <1>7

\* SaveTask stores the job of its goroutine, whose Schedule it ends; what stood
\* under the ID was that job.
LEMMA SaveRefines ==
  ASSUME IInv, NEW a \in Agent, SaveTask(a)
  PROVE  \E s \in Sender : Queue!Accept(s) \/ Queue!Store(s)
<1> DEFINE i == IdOf(obj[a])
           j == task[obj[a]].job
<1>1. [Next]_vars /\ over' = over
  BY DEF Next, AgentStep, SaveTask
<1>2. pc[a] = "save" /\ Active(a) /\ ~InFlight(a)
      /\ pc' = [pc EXCEPT ![a] = IF a \in Worker THEN "idle" ELSE "returned"]
  BY DEF SaveTask, Finish, Active, InFlight
<1>3. i \in Id /\ j \in Given /\ Stands(i, j) /\ j \in Sender
  BY <1>2, HasJob DEF Given
<1>4. snap[a] # NoTask /\ snap[a].job = j
  BY <1>2 DEF IInv, AgentInv, Works
<1>5. file' = [file EXCEPT ![i] = snap[a]] /\ file \in [Id -> Pending \cup {NoTask}]
  BY DEF SaveTask, IInv, TypeInv
<1> HIDE DEF i, j
<1>6. Stored' = Stored \cup {j}
  <2>1. \A x : x \in Stored <=> \E k \in Id : file[k] # NoTask /\ x = file[k].job
    BY DEF Stored
  <2>2. \A x : x \in Stored' <=> \E k \in Id : file'[k] # NoTask /\ x = file'[k].job
    BY DEF Stored
  <2>3. file[i] # NoTask => file[i].job = j
    <3> SUFFICES ASSUME file[i] # NoTask PROVE file[i].job = j
      OBVIOUS
    <3>1. file[i].job \in Sender /\ Stands(i, file[i].job)
      BY <1>3, <1>5 DEF Pending, Stands
    <3> QED  BY <1>3, <3>1 DEF IInv, NameInv
  <2>4. file'[i] = snap[a] /\ \A k \in Id : k # i => file'[k] = file[k]
    BY <1>3, <1>5
  <2>5. \A x : x \in Stored' <=> x \in Stored \cup {j}
    BY <1>3, <1>4, <2>1, <2>2, <2>3, <2>4
  <2> QED  BY <2>5
<1>7. Deliveries' = Deliveries
  <2>1. /\ \A b \in Agent : b # a => pc'[b] = pc[b]
        /\ pc'[a] \in {"idle", "returned"}
    BY <1>2, OthersStand
  <2>2. \A w \in Worker : InFlight(w)' <=> InFlight(w)
    BY <1>2, <2>1, AgentFacts DEF InFlight
  <2> QED  BY <1>1, <2>2, DeliveriesStand
<1>8. CASE a \notin Sender
  <2>1. Given' = Given /\ Accepted' = Accepted
    BY <1>2, <1>8, OthersStand, SendersStand
  <2> QED  BY <1>1, <1>3, <1>6, <1>7, <2>1 DEF Queue!Store
<1>9. CASE a \in Sender
  <2>1. pc'[a] = "returned" /\ \A r \in Sender : r # a => pc'[r] = pc[r]
    BY <1>2, <1>9, OthersStand, AgentFacts
  <2>2. Given' = Given /\ a \in Given \ Accepted /\ Accepted' = Accepted \cup {a}
    BY <1>2, <1>9, <2>1 DEF Given, Accepted
  <2>3. j = a
    BY <1>2, <1>9 DEF IInv, AgentInv, Works, j
  <2> QED  BY <1>1, <1>6, <1>7, <1>9, <2>2, <2>3 DEF Queue!Accept
<1> QED  BY <1>8, <1>9

\* DeleteTask touches only the map.
LEMMA DeleteRefines ==
  ASSUME IInv, NEW a \in Agent, DeleteTask(a)
  PROVE  QueueStutters
<1>1. [Next]_vars /\ over' = over /\ Stored' = Stored
  <2>1. [Next]_vars
    BY DEF Next, AgentStep
  <2> QED  BY <2>1, FileStands DEF DeleteTask
<1>2. pc[a] = "delete" /\ pc' = [pc EXCEPT ![a] = "erase"] /\ a \notin Sender
  BY DEF DeleteTask, Goto, IInv, AgentInv, Works, SenderPC
<1>3. /\ \A b \in Agent : b # a => pc'[b] = pc[b]
      /\ pc'[a] = "erase"
  BY <1>2, OthersStand
<1>4. \A w \in Worker : InFlight(w)' <=> InFlight(w)
  BY <1>2, <1>3, AgentFacts DEF InFlight
<1> QED  BY <1>1, <1>2, <1>4, OthersStand, SendersStand, DeliveriesStand DEF QueueStutters

\* RemoveTask forgets a job that is over.
LEMMA RemoveRefines ==
  ASSUME IInv, NEW a \in Agent, RemoveTask(a)
  PROVE  \E s \in Sender : Queue!Forget(s)
<1> DEFINE i == IdOf(obj[a])
           j == task[obj[a]].job
<1>1. [Next]_vars /\ over' = over
  BY DEF Next, AgentStep, RemoveTask
<1>2. pc[a] = "erase" /\ Active(a) /\ ~InFlight(a) /\ a \notin Sender
      /\ pc' = [pc EXCEPT ![a] = IF a \in Worker THEN "idle" ELSE "returned"]
  BY DEF RemoveTask, Finish, Active, InFlight, IInv, AgentInv, Works, SenderPC
<1>3. i \in Id /\ j \in Given /\ Stands(i, j) /\ j \in Sender
  BY <1>2, HasJob DEF Given
<1>4. j \in over
  BY <1>2, HasJob DEF IInv, AgentInv, Works, OverInv
<1>5. file' = [file EXCEPT ![i] = NoTask] /\ file \in [Id -> Pending \cup {NoTask}]
  BY DEF RemoveTask, IInv, TypeInv
<1> HIDE DEF i, j
<1>6. Stored' = Stored \ {j}
  <2>1. \A x : x \in Stored <=> \E k \in Id : file[k] # NoTask /\ x = file[k].job
    BY DEF Stored
  <2>2. \A x : x \in Stored' <=> \E k \in Id : file'[k] # NoTask /\ x = file'[k].job
    BY DEF Stored
  <2>3. \A k \in Id : file[k] # NoTask => (file[k].job = j <=> k = i)
    <3> SUFFICES ASSUME NEW k \in Id, file[k] # NoTask PROVE file[k].job = j <=> k = i
      OBVIOUS
    <3>1. file[k].job \in Sender /\ Stands(k, file[k].job)
      BY <1>5 DEF Pending, Stands
    <3> QED  BY <1>3, <3>1 DEF IInv, NameInv
  <2>4. file'[i] = NoTask /\ \A k \in Id : k # i => file'[k] = file[k]
    BY <1>3, <1>5
  <2>5. \A x : x \in Stored' <=> x \in Stored \ {j}
    BY <1>3, <2>1, <2>2, <2>3, <2>4
  <2> QED  BY <2>5
<1>7. Deliveries' = Deliveries
  <2>1. /\ \A b \in Agent : b # a => pc'[b] = pc[b]
        /\ pc'[a] \in {"idle", "returned"}
    BY <1>2, OthersStand
  <2>2. \A w \in Worker : InFlight(w)' <=> InFlight(w)
    BY <1>2, <2>1, AgentFacts DEF InFlight
  <2> QED  BY <1>1, <2>2, DeliveriesStand
<1>8. Given' = Given /\ Accepted' = Accepted
  BY <1>2, OthersStand, SendersStand
<1> QED  BY <1>1, <1>3, <1>4, <1>6, <1>7, <1>8 DEF Queue!Forget

\* A dispatch begins a delivery of a job that nobody delivers: it would be under
\* the same ID, in the object that the map holds, and that object is not marked.
LEMMA DispatchBegins ==
  ASSUME IInv, NEW w \in Worker, NEW i \in Id, Dispatch(w, i)
  PROVE  \E s \in Sender : Queue!Begin(w, s)
<1> DEFINE o == tasks[i]
           j == task[o].job
<1>1. [Next]_vars /\ over' = over /\ Stored' = Stored
  <2>1. [Next]_vars
    BY DEF Next
  <2> QED  BY <2>1, FileStands DEF Dispatch
<1>2. /\ o \in Obj /\ IdOf(o) = i /\ task[o] \in TaskRec /\ ~task[o].delivering
      /\ pc[w] = "idle" /\ w \in Agent /\ w \notin Sender
  BY AgentFacts DEF Dispatch, IInv, TypeInv, ObjInv, IdOf
<1>3. j \in Sender /\ Stands(i, j) /\ j \in Given
  <2>1. j \in Sender /\ Stands(i, j)
    BY <1>2 DEF TaskRec, Stands, IdOf, IInv, TypeInv, Dispatch, ObjInv
  <2> QED  BY <2>1 DEF IInv, NameInv, Given
<1>4. /\ pc' = [pc EXCEPT ![w] = "calling"] /\ obj' = [obj EXCEPT ![w] = o]
      /\ task' = [task EXCEPT ![o].delivering = TRUE]
  BY DEF Dispatch
<1>5. /\ pc'[w] = "calling" /\ obj'[w] = o /\ task'[o].job = j
      /\ \A b \in Agent : b # w => pc'[b] = pc[b] /\ obj'[b] = obj[b]
  BY <1>2, <1>4 DEF IInv, TypeInv, TaskRec
<1>6. Given' = Given /\ Accepted' = Accepted
  BY <1>2, <1>4, OthersStand, SendersStand
<1> HIDE DEF o, j
<1>7. ASSUME NEW v \in Worker, InFlight(v)
      PROVE  /\ v # w /\ task[obj[v]].job # j
             /\ InFlight(v)' /\ task'[obj'[v]].job = task[obj[v]].job
  <2>1. v # w /\ v \in Agent /\ Active(v)
    BY <1>2, <1>7, AgentFacts DEF InFlight, Active
  <2>2. InFlight(v)' /\ obj'[v] = obj[v]
    BY <1>5, <1>7, <2>1 DEF InFlight
  <2>3. ~Crash
    BY <2>1, <2>2, AgentFacts DEF Crash, InFlight
  <2>4. task'[obj'[v]].job = task[obj[v]].job
    BY <1>1, <2>1, <2>2, <2>3, HasJob, Lasts
  <2>5. task[obj[v]].job # j
    <3> SUFFICES ASSUME task[obj[v]].job = j PROVE FALSE
      OBVIOUS
    <3>1. IdOf(obj[v]) = i
      BY <1>3, <2>1, HasJob DEF IInv, NameInv
    <3>2. task[obj[v]].delivering /\ tasks[i] \in {obj[v], NoTask}
      BY <1>7, <3>1 DEF IInv, FlightInv, Flight
    <3> QED  BY <1>2, <3>2, NilFacts DEF o
  <2> QED  BY <2>1, <2>2, <2>4, <2>5
<1>8. \A v \in Worker : InFlight(v)' => v = w \/ InFlight(v)
  BY <1>5, AgentFacts DEF InFlight
<1>9. \A d \in Deliveries : d[1] # w /\ d[2] # j
  BY <1>7, InDeliveries
<1>10. Deliveries' = Deliveries \cup {<<w, j>>}
  <2>1. InFlight(w)' /\ task'[obj'[w]].job = j
    BY <1>5 DEF InFlight
  <2>2. \A d : d \in Deliveries' <=> d \in Deliveries \/ d = <<w, j>>
    BY <1>7, <1>8, <2>1, InDeliveries
  <2> QED  BY <2>2
<1> QED  BY <1>1, <1>3, <1>6, <1>9, <1>10 DEF Queue!Begin

\* DeliverFunc returns: the job is over when it returns nil.
LEMMA DeliverRefines ==
  ASSUME IInv, NEW w \in Worker, DeliverOk(w) \/ DeliverErr(w)
  PROVE  QueueStutters \/ \E s \in Sender : Queue!Resolve(s)
<1>1. [Next]_vars /\ Stored' = Stored
  <2>1. [Next]_vars
    BY DEF Next, WorkerStep
  <2> QED  BY <2>1, FileStands DEF DeliverOk, DeliverErr
<1>2. pc[w] = "calling" /\ InFlight(w) /\ w \in Agent /\ w \notin Sender /\ Active(w)
  BY AgentFacts DEF DeliverOk, DeliverErr, InFlight, Active
<1>3. \E l \in {"ok", "err"} : pc' = [pc EXCEPT ![w] = l]
  BY DEF DeliverOk, DeliverErr, Goto
<1>4. Given' = Given /\ Accepted' = Accepted
  BY <1>2, <1>3, OthersStand, SendersStand
<1>5. Deliveries' = Deliveries
  <2>1. pc'[w] \in {"ok", "err"} /\ \A b \in Agent : b # w => pc'[b] = pc[b]
    BY <1>2, <1>3, OthersStand
  <2>2. \A v \in Worker : InFlight(v)' <=> InFlight(v)
    BY <1>2, <2>1, AgentFacts DEF InFlight
  <2> QED  BY <1>1, <2>2, DeliveriesStand
<1>6. CASE DeliverErr(w)
  BY <1>1, <1>4, <1>5, <1>6 DEF DeliverErr, QueueStutters
<1>7. CASE DeliverOk(w)
  <2>1. task[obj[w]].job \in Given /\ over' = over \cup {task[obj[w]].job}
    BY <1>2, <1>7, HasJob DEF DeliverOk
  <2> QED  BY <1>1, <1>4, <1>5, <2>1 DEF Queue!Resolve, Given
<1> QED  BY <1>6, <1>7

\* The end of deliverTask ends the delivery, and with the last failure the job.
LEMMA SettleEnds ==
  ASSUME IInv, NEW w \in Worker, Settle(w)
  PROVE  \E s \in Sender : Queue!End(w, s)
<1> DEFINE j == task[obj[w]].job
<1>1. [Next]_vars /\ Stored' = Stored
  <2>1. [Next]_vars
    BY DEF Next, WorkerStep
  <2> QED  BY <2>1, FileStands DEF Settle
<1>2. InFlight(w) /\ w \in Agent /\ w \notin Sender /\ Active(w)
  BY AgentFacts DEF Settle, InFlight, Active
<1>3. j \in Given /\ j \in Sender /\ over' \in {over, over \cup {j}}
  BY <1>2, HasJob DEF Settle, Given
<1>4. \E l \in {"idle", "delete", "persist"} : pc' = [pc EXCEPT ![w] = l]
  BY SettleFacts DEF Finish, Goto
<1>5. Given' = Given /\ Accepted' = Accepted
  BY <1>2, <1>4, OthersStand, SendersStand
<1> HIDE DEF j
<1>6. ~InFlight(w)' /\ \A v \in Worker : v # w => (InFlight(v)' <=> InFlight(v))
  <2>1. pc'[w] \in {"idle", "delete", "persist"} /\ \A b \in Agent : b # w => pc'[b] = pc[b]
    BY <1>2, <1>4, OthersStand
  <2> QED  BY <2>1, AgentFacts DEF InFlight
<1>7. ASSUME NEW v \in Worker, InFlight(v)'
      PROVE  v # w /\ InFlight(v) /\ task'[obj'[v]].job = task[obj[v]].job
  <2>1. v # w /\ InFlight(v)
    BY <1>6, <1>7
  <2>2. ~Crash /\ obj'[v] = obj[v]
    <3>1. \A i \in Id : ~Dispatch(v, i)
      BY <2>1 DEF Dispatch, InFlight
    <3> QED  BY <1>1, <1>7, <3>1, InFlightStep
  <2>3. obj[v] \in Obj /\ task[obj[v]] # NoTask
    BY <2>1, AgentFacts, HasJob DEF Active, InFlight
  <2> QED  BY <1>1, <2>1, <2>2, <2>3, Lasts
<1>8. Deliveries' = Deliveries \ {<<w, j>>} /\ <<w, j>> \in Deliveries
  <2>1. \A v \in Worker : v # w /\ InFlight(v) => InFlight(v)'
    BY <1>6
  <2>2. \A d : d \in Deliveries' <=> d \in Deliveries /\ d # <<w, j>>
    <3>1. ASSUME NEW d, d \in Deliveries' PROVE d \in Deliveries /\ d # <<w, j>>
      BY <1>7, <3>1, InDeliveries
    <3>2. ASSUME NEW d, d \in Deliveries, d # <<w, j>> PROVE d \in Deliveries'
      <4>1. PICK v \in Worker : InFlight(v) /\ d = <<v, task[obj[v]].job>>
        BY <3>2, InDeliveries
      <4>2. v # w
        BY <3>2, <4>1 DEF j
      <4> QED  BY <1>7, <2>1, <4>1, <4>2, InDeliveries
    <3> QED  BY <3>1, <3>2
  <2>3. <<w, j>> \in Deliveries
    BY <1>2, InDeliveries DEF j
  <2> QED  BY <2>2, <2>3
<1> QED  BY <1>1, <1>3, <1>5, <1>8 DEF Queue!End

\* A cancellation makes its job over, or finds it so.
LEMMA CancelRefines ==
  ASSUME IInv, NEW c \in Canceller, CancelLookup(c) \/ CancelMark(c)
  PROVE  QueueStutters \/ \E s \in Sender : Queue!Resolve(s)
<1>1. [Next]_vars /\ Stored' = Stored
  <2>1. [Next]_vars
    BY DEF Next
  <2> QED  BY <2>1, FileStands DEF CancelLookup, CancelMark
<1>2. c \in Agent /\ c \notin Sender /\ c \notin Worker
  BY AgentFacts
<1>3. \E l \in {"mark", "delete", "refused"} : pc' = [pc EXCEPT ![c] = l]
  BY DEF CancelLookup, CancelMark, Goto
<1>4. Given' = Given /\ Accepted' = Accepted /\ Deliveries' = Deliveries
  BY <1>1, <1>2, <1>3, OthersStand, SendersStand, DeliveriesStand
<1>5. CASE UNCHANGED over
  BY <1>1, <1>4, <1>5 DEF QueueStutters
<1>6. CASE CancelMark(c) /\ over' = over \cup {task[obj[c]].job}
  <2>1. task[obj[c]].job \in Given
    BY <1>2, <1>6, HasJob DEF CancelMark, Active
  <2> QED  BY <1>1, <1>4, <1>6, <2>1 DEF Queue!Resolve, Given
<1> QED  BY <1>5, <1>6 DEF CancelLookup, CancelMark

\* Starts, stops and the loop leave the queue alone; a crash ends the deliveries.
LEMMA RestRefines ==
  ASSUME IInv, RunExits \/ CtlStep \/ Crash \/ UNCHANGED vars
  PROVE  QueueStutters \/ Queue!Crash
<1>1. [Next]_vars /\ Stored' = Stored /\ over' = over
  <2>1. [Next]_vars
    BY DEF Next
  <2>2. UNCHANGED <<file, over>>
    BY DEF RunExits, CtlStep, StartLoad, StartPublish, StartRun, StopBegin, StopEnd, Crash, vars
  <2> QED  BY <2>1, <2>2, FileStands
<1>2. CASE ~Crash
  <2>1. UNCHANGED pc
    BY <1>2 DEF RunExits, CtlStep, StartLoad, StartPublish, StartRun, StopBegin, StopEnd, vars,
                agentVars
  <2>2. \A w \in Worker : InFlight(w)' <=> InFlight(w)
    BY <2>1 DEF InFlight
  <2> QED  BY <1>1, <2>1, <2>2, SendersStand, DeliveriesStand DEF QueueStutters
<1>3. CASE Crash
  <2>1. /\ \A w \in Worker : pc'[w] = "idle"
        /\ \A s \in Sender : /\ pc'[s] = "idle" <=> pc[s] = "idle"
                             /\ pc'[s] = "returned" <=> pc[s] = "returned"
    BY <1>3, AgentFacts DEF Crash
  <2>2. Given' = Given /\ Accepted' = Accepted
    BY <2>1 DEF Given, Accepted
  <2>3. Deliveries' = {}
    <3>1. \A d : d \notin Deliveries'
      BY <2>1, InDeliveries DEF InFlight
    <3> QED  BY <3>1
  <2> QED  BY <1>1, <2>2, <2>3 DEF Queue!Crash
<1> QED  BY <1>2, <1>3

\* Whatever goroutines, retries, restarts and crashes there are, the scheduler is
\* the queue that JobQueue promises.
THEOREM QueueIsImplemented == Spec => ImplementsQueue
<1>1. Init => Queue!QueueInit
  <2> SUFFICES ASSUME Init PROVE Queue!QueueInit
    OBVIOUS
  <2>1. Given = {} /\ Accepted = {} /\ Stored = {} /\ over = {}
    BY AgentFacts DEF Init, NoTasks, Given, Accepted, Stored
  <2>2. Deliveries = {}
    BY AgentFacts, InDeliveries DEF Init, InFlight
  <2> QED  BY <2>1, <2>2 DEF Queue!QueueInit
<1>2. IInv /\ [Next]_vars => [Queue!QueueNext]_(Queue!queueVars)
  <2> SUFFICES ASSUME IInv, [Next]_vars PROVE QueueStutters \/ Queue!QueueNext
    BY DEF QueueStutters, Queue!queueVars
  <2>1. CASE \E s \in Sender : Schedule(s)
    BY <2>1, ScheduleGives DEF Queue!QueueNext
  <2>2. CASE \E c \in Canceller : CancelLookup(c) \/ CancelMark(c)
    BY <2>2, CancelRefines DEF Queue!QueueNext
  <2>3. CASE \E a \in Agent : AgentStep(a)
    BY <2>3, PersistRefines, SaveRefines, DeleteRefines, RemoveRefines
       DEF AgentStep, Queue!QueueNext
  <2>4. CASE \E w \in Worker : WorkerStep(w) \/ \E i \in Id : Dispatch(w, i)
    BY <2>4, DeliverRefines, SettleEnds, DispatchBegins DEF WorkerStep, Queue!QueueNext
  <2>5. CASE RunExits \/ CtlStep \/ Crash \/ UNCHANGED vars
    BY <2>5, RestRefines DEF Queue!QueueNext
  <2> QED  BY <2>1, <2>2, <2>3, <2>4, <2>5 DEF Next
<1> QED  BY <1>1, <1>2, Inductive, PTL DEF Spec, ImplementsQueue, Queue!QueueSpec

\* What JobQueue promises follows from its steps alone.
LEMMA QueueKeepsStep ==
  ASSUME Queue!QueueKeeps, [Queue!QueueNext]_(Queue!queueVars)
  PROVE  Queue!QueueKeeps'
<1> USE DEF Queue!QueueKeeps
<1>1. ASSUME NEW s \in Sender,
             Queue!Give(s) \/ Queue!Accept(s) \/ Queue!Store(s) \/ Queue!Forget(s)
               \/ Queue!Resolve(s)
      PROVE  Queue!QueueKeeps'
  <2>1. Deliveries' = Deliveries
    BY <1>1 DEF Queue!Give, Queue!Accept, Queue!Store, Queue!Forget, Queue!Resolve
  <2>2. Accepted' \subseteq Stored' \cup over'
    BY <1>1 DEF Queue!Give, Queue!Accept, Queue!Store, Queue!Forget, Queue!Resolve
  <2> QED  BY <2>1, <2>2
<1>2. ASSUME NEW w \in Worker, NEW s \in Sender, Queue!Begin(w, s)
      PROVE  Queue!QueueKeeps'
  <2>1. \A d \in Deliveries' : d \in Deliveries \/ d = <<w, s>>
    BY <1>2 DEF Queue!Begin
  <2>2. \A d \in Deliveries : d[2] # s
    BY <1>2 DEF Queue!Begin
  <2>3. <<w, s>>[2] = s
    OBVIOUS
  <2>4. \A d, e \in Deliveries' : d[2] = e[2] => d = e
    BY <2>1, <2>2, <2>3
  <2>5. UNCHANGED <<Accepted, Stored, over>>
    BY <1>2 DEF Queue!Begin
  <2> QED  BY <2>4, <2>5
<1>3. ASSUME NEW w \in Worker, NEW s \in Sender, Queue!End(w, s)
      PROVE  Queue!QueueKeeps'
  BY <1>3 DEF Queue!End
<1>4. CASE Queue!Crash \/ UNCHANGED Queue!queueVars
  BY <1>4 DEF Queue!Crash, Queue!queueVars
<1> QED  BY <1>1, <1>2, <1>3, <1>4 DEF Queue!QueueNext

\* So whoever hands the scheduler a job can rely on it: once accepted, the job is
\* found in storage until it is over, and is delivered by one at a time.
THEOREM QueueIsReliable == Spec => []Queue!QueueKeeps
<1>1. Queue!QueueInit => Queue!QueueKeeps
  BY DEF Queue!QueueInit, Queue!QueueKeeps
<1> QED
  BY <1>1, QueueKeepsStep, QueueIsImplemented, PTL DEF ImplementsQueue, Queue!QueueSpec
=============================================================================
