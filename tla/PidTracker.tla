------------------------------ MODULE PidTracker ------------------------------
(***************************************************************************)
(* The file in which the daemon keeps the PIDs of its processes            *)
(* (src/process/pidtracker.go), across crashes of the daemon and reuse of  *)
(* PIDs by the kernel; with the parts of a process's life that read and    *)
(* write it (src/process/lifecycle.go).                                    *)
(*                                                                         *)
(* A process is named by its birth, a number that is never used again: it  *)
(* stands for the start time and owner that processIdentity reads from     *)
(* /proc.  The tracker's mutex makes each of its operations one step on    *)
(* the file, which is replaced by a rename; only CleanupOrphans, which     *)
(* kills between its load and its save, is divided.                        *)
(***************************************************************************)
EXTENDS Naturals, FiniteSets

CONSTANTS PIDs,        \* process IDs
          Keys,        \* process ID and project path in the hub
          None,
          MaxBirths,   \* processes that are ever started
          MaxCrashes   \* crashes of the daemon

Births == 1..MaxBirths

VARIABLES births,   \* processes started so far
          state,    \* per process: unborn, alive, zombie or gone
          pid, kind,       \* its PID; daemon, root, child or foreign
          parent, group,   \* its living parent, 0 for init; its group's leader
          file,     \* the tracking file: the daemon's PID and the entries
          daemon,   \* the daemon's process, 0 for none
          dpc, todo,       \* its next step, entries CleanupOrphans has left
          kpc, root, snap, \* per key: step of its process, process, snapshot
          crashes,
          older,    \* history: processes tracked by daemons that have died
          skipped   \* history: a daemon found its own PID in the file

osVars == <<births, state, pid, kind, parent, group>>
daemonVars == <<daemon, dpc, todo>>
keyVars == <<kpc, root, snap>>
historyVars == <<crashes, older, skipped>>
vars == <<osVars, file, daemonVars, keyVars, historyVars>>

Init ==
    /\ births = 0
    /\ state = [n \in Births |-> "unborn"] /\ pid = [n \in Births |-> None]
    /\ kind = [n \in Births |-> "none"]
    /\ parent = [n \in Births |-> 0] /\ group = [n \in Births |-> 0]
    /\ file = [daemon |-> None, procs |-> {}]
    /\ daemon = 0 /\ dpc = "off" /\ todo = {}
    /\ kpc = [k \in Keys |-> "none"] /\ root = [k \in Keys |-> 0]
    /\ snap = [k \in Keys |-> {}]
    /\ crashes = 0 /\ older = {} /\ skipped = FALSE

(***************************************************************************)
(* The kernel.                                                             *)
(***************************************************************************)
Alive == {n \in Births : state[n] = "alive"}

\* A PID is taken while it names a process, reaped or not, or a group.
Taken(p) == \E n \in Births :
    pid[n] = p /\ (state[n] \in {"alive", "zombie"} \/ \E m \in Alive : group[m] = n)

\* The processes that p names: one or none.  kill(p, 0) succeeds on a zombie.
Named(p) == {n \in Births : pid[n] = p /\ state[n] \in {"alive", "zombie"}}

\* The next process: of kind k, with a free PID, below q, in the group of g,
\* or in one of its own if g is 0.
Born(k, q, g) ==
    /\ births < MaxBirths
    /\ births' = births + 1
    /\ LET n == births + 1 IN
         /\ \E p \in PIDs : ~Taken(p) /\ pid' = [pid EXCEPT ![n] = p]
         /\ state' = [state EXCEPT ![n] = "alive"]
         /\ kind' = [kind EXCEPT ![n] = k]
         /\ parent' = [parent EXCEPT ![n] = q]
         /\ group' = [group EXCEPT ![n] = IF g = 0 THEN n ELSE g]

\* A process the daemon has to wait for.
Awaited(n) == \E k \in Keys : root[k] = n /\ kpc[k] \in {"spawned", "tracked"}

\* The processes in S end; init, or their parent, reaps those that the daemon
\* does not wait for, and takes over their children.
Ended(S) ==
    /\ state' = [n \in Births |-> IF n \notin S \cap Alive THEN state[n]
                                  ELSE IF Awaited(n) THEN "zombie" ELSE "gone"]
    /\ parent' = [n \in Births |-> IF parent[n] \in S \cap Alive THEN 0 ELSE parent[n]]
    /\ UNCHANGED <<births, pid, kind, group>>

Children(n) == {m \in Alive : parent[m] = n}

Exits(n) ==
    /\ n \in Alive /\ kind[n] # "daemon"
    /\ Ended({n})
    /\ UNCHANGED <<file, daemonVars, keyVars, historyVars>>

\* A process of the hub starts another, in its group or in a new session.
Forks(n) ==
    /\ n \in Alive /\ kind[n] = "root"
    /\ \E g \in {0, n} : Born("child", n, g)
    /\ UNCHANGED <<file, daemonVars, keyVars, historyVars>>

\* A program that has nothing to do with the hub.
ForeignStarts ==
    /\ \E q \in {0} \cup {n \in Alive : kind[n] = "foreign"} : Born("foreign", q, 0)
    /\ UNCHANGED <<file, daemonVars, keyVars, historyVars>>

(***************************************************************************)
(* The daemon: start, CleanupOrphans, crash.                               *)
(***************************************************************************)
DaemonStarts ==
    /\ daemon = 0
    /\ Born("daemon", 0, 0)
    /\ daemon' = births + 1 /\ dpc' = "load"
    /\ UNCHANGED <<file, todo, keyVars, historyVars>>

\* Mutant: the list is cleared before the orphans are killed.
CleanupLoadsAndClears ==
    /\ dpc = "load"
    /\ IF file.daemon = pid[daemon]
       THEN dpc' = "up" /\ skipped' = TRUE /\ UNCHANGED <<todo, file>>
       ELSE /\ dpc' = "kill" /\ todo' = file.procs
            /\ file' = [daemon |-> pid[daemon], procs |-> {}]
            /\ UNCHANGED skipped
    /\ UNCHANGED <<osVars, daemon, keyVars, crashes, older>>

\* saveLocked: the entries P replace those of the file, by a rename.
Saves(P) == file' = [file EXCEPT !.procs = P]

\* A daemon that finds its own PID takes the file for its own.
CleanupLoads ==
    /\ dpc = "load"
    /\ IF file.daemon = pid[daemon]
       THEN dpc' = "up" /\ skipped' = TRUE /\ UNCHANGED todo
       ELSE dpc' = "kill" /\ todo' = file.procs /\ UNCHANGED skipped
    /\ UNCHANGED <<osVars, file, daemon, keyVars, crashes, older>>

\* Mutant: a PID that names some process is taken for the one recorded.
IdentityIgnored(e) == Named(e.pid) # {}

\* identityMatches, and descendantIdentityMatches: an identity of 0 is none.
IdentityMatches(e) == e.birth \in Named(e.pid)
Verified(kids) == {d.birth : d \in {x \in kids : x.birth # 0 /\ x.birth \in Named(x.pid)}}

\* kill(-p): the group with the ID p, whoever is in it.
GroupOf(p) == {m \in Alive : pid[group[m]] = p}

\* One entry: its descendants and its group die if its process is still there.
CleanupKills(e) ==
    /\ dpc = "kill" /\ e \in todo
    /\ todo' = todo \ {e}
    /\ IF IdentityMatches(e)
       THEN Ended(Verified(e.kids) \cup GroupOf(e.pid) \cup Named(e.pid))
       ELSE UNCHANGED osVars
    /\ UNCHANGED <<file, daemon, dpc, keyVars, historyVars>>

CleanupSaves ==
    /\ dpc = "kill" /\ todo = {}
    /\ file' = [daemon |-> pid[daemon], procs |-> {}]
    /\ dpc' = "up"
    /\ UNCHANGED <<osVars, daemon, todo, keyVars, historyVars>>

\* The daemon dies between any two steps; its processes live on.
Crash ==
    /\ daemon # 0 /\ crashes < MaxCrashes
    /\ crashes' = crashes + 1
    /\ older' = older \cup {root[k] : k \in {j \in Keys : kpc[j] = "tracked"}}
    /\ daemon' = 0 /\ dpc' = "off" /\ todo' = {}
    /\ kpc' = [k \in Keys |-> "none"] /\ root' = [k \in Keys |-> 0]
    /\ snap' = [k \in Keys |-> {}]
    /\ state' = [n \in Births |-> IF n = daemon \/ state[n] = "zombie" THEN "gone" ELSE state[n]]
    /\ parent' = [n \in Births |-> IF parent[n] = daemon THEN 0 ELSE parent[n]]
    /\ UNCHANGED <<births, pid, kind, group, file, skipped>>

(***************************************************************************)
(* A process of the hub: startProcess, StopProcess, waitForProcess.        *)
(***************************************************************************)
Step(k, s) == kpc' = [kpc EXCEPT ![k] = s]

Spawn(k) ==
    /\ dpc = "up" /\ kpc[k] = "none"
    /\ Born("root", daemon, 0)
    /\ root' = [root EXCEPT ![k] = births + 1] /\ Step(k, "spawned")
    /\ UNCHANGED <<file, daemonVars, snap, historyVars>>

\* Mutant: Add appends without looking for an entry of the same key.
OthersAndOwn(k) == file.procs

Others(k) == {e \in file.procs : e.key # k}

\* Add replaces the entry of the same ID and path.
Add(k) ==
    /\ kpc[k] = "spawned"
    /\ Saves(Others(k) \cup {[key |-> k, pid |-> pid[root[k]], birth |-> root[k], kids |-> {}]})
    /\ Step(k, "tracked")
    /\ UNCHANGED <<osVars, daemonVars, root, snap, historyVars>>

\* What a walk of /proc finds below the process with the PID p, whoever it is.
Descendants(p) == UNION {Children(n) : n \in Named(p)}

\* snapshotDescendants of a process that is not known to have ended, which it
\* may have all the same: the identities stay in memory, UpdateDescendants
\* gets the PIDs only.
Snapshot(k) ==
    /\ kpc[k] \in {"tracked", "reaped"}
    /\ LET D == Descendants(pid[root[k]]) IN
         /\ snap' = [snap EXCEPT ![k] = {[pid |-> pid[m], birth |-> m] : m \in D}]
         /\ Saves({IF e.pid = pid[root[k]]
                   THEN [e EXCEPT !.kids = {[pid |-> pid[m], birth |-> 0] : m \in D}]
                   ELSE e : e \in file.procs})
    /\ UNCHANGED <<osVars, daemonVars, kpc, root, historyVars>>

\* StopProcess and forceKill signal by number: the process, if it leads a group
\* its group, what a walk finds below it, the descendants of the snapshot and of
\* the scans.  Whoever has the number now is hit, and the group it leads; only
\* the scans' descendants are compared first.
Numbers(k) ==
    LET p == pid[root[k]]
        K == UNION {e.kids : e \in {x \in file.procs : x.pid = p}}
    IN {p} \cup {pid[m] : m \in Descendants(p) \cup Verified(K)} \cup {d.pid : d \in snap[k]}

Signalled(k) == UNION {Named(p) \cup GroupOf(p) : p \in {q \in Numbers(k) : Named(q) # {}}}

\* A stop that began while the process ran, before the waiter has settled it.
\* Whoever survives a SIGTERM, and exits later or not at all, has Exits for it.
StopSignals(k) ==
    /\ kpc[k] # "none"
    /\ Ended(Signalled(k))
    /\ UNCHANGED <<file, daemonVars, keyVars, historyVars>>

\* scanDescendants: of every entry whose PID names a process.
Scan ==
    /\ dpc = "up"
    /\ Saves({IF Named(e.pid) = {} THEN e
              ELSE [e EXCEPT !.kids = {[pid |-> pid[m], birth |-> m] : m \in Descendants(e.pid)}]
                : e \in file.procs})
    /\ UNCHANGED <<osVars, daemonVars, keyVars, historyVars>>

\* cmd.Wait reaps the process: its PID is free.
Reap(k) ==
    /\ kpc[k] = "tracked" /\ state[root[k]] = "zombie"
    /\ state' = [state EXCEPT ![root[k]] = "gone"]
    /\ Step(k, "reaped")
    /\ UNCHANGED <<births, pid, kind, parent, group, file, daemonVars, root, snap,
                   historyVars>>

\* The group and the descendants known from the snapshot and the scans are
\* killed unless the exit was clean.
Sweep(k) ==
    /\ kpc[k] = "reaped"
    /\ LET p == pid[root[k]]
           G == IF Named(p) = {} THEN GroupOf(p) ELSE {}
           K == UNION {e.kids : e \in {x \in file.procs : x.pid = p}}
       IN \/ Ended(G \cup Verified(snap[k] \cup K))
          \/ UNCHANGED osVars
    /\ Step(k, "swept")
    /\ UNCHANGED <<file, daemonVars, root, snap, historyVars>>

Remove(k) ==
    /\ kpc[k] = "swept"
    /\ Saves(Others(k))
    /\ Step(k, "none")
    /\ root' = [root EXCEPT ![k] = 0] /\ snap' = [snap EXCEPT ![k] = {}]
    /\ UNCHANGED <<osVars, daemonVars, historyVars>>

Next ==
    \/ \E n \in Births : Exits(n) \/ Forks(n)
    \/ ForeignStarts \/ DaemonStarts \/ CleanupLoads \/ CleanupSaves \/ Crash \/ Scan
    \/ \E e \in todo : CleanupKills(e)
    \/ \E k \in Keys : \/ Spawn(k) \/ Add(k) \/ Snapshot(k) \/ StopSignals(k)
                      \/ Reap(k) \/ Sweep(k) \/ Remove(k)

Spec == Init /\ [][Next]_vars
-----------------------------------------------------------------------------
TypeOK ==
    /\ births \in 0..MaxBirths /\ daemon \in 0..MaxBirths /\ crashes \in 0..MaxCrashes
    /\ pid \in [Births -> PIDs \cup {None}] /\ parent \in [Births -> 0..MaxBirths]
    /\ file.daemon \in PIDs \cup {None}
    /\ \A e \in file.procs : e.key \in Keys /\ e.pid \in PIDs /\ e.birth \in Births
    /\ \A e, f \in file.procs : e.key = f.key => e = f
    /\ root \in [Keys -> 0..MaxBirths]

\* A program outside the hub that a scan or a snapshot has found below a PID
\* which had changed hands between cmd.Wait and Remove.
FoundBelowStranger(n) ==
    \/ \E e \in file.procs : \E d \in e.kids : d.birth = n
    \/ \E k \in Keys : \E d \in snap[k] : d.birth = n

\* Whatever the PIDs in the file and the group IDs it has kept name by now,
\* CleanupOrphans kills no program outside the hub, and the cleanup after an
\* exit only one that it was misled about as above (identityMatches,
\* cleanupReapedProcessGroup).  Of the signals of a stop, which go by number,
\* nothing is said.
OthersSurvive ==
    [][\A n \in Births : kind[n] = "foreign" /\ state[n] = "alive" /\ state'[n] = "gone"
         => todo' = todo /\ (kpc' = kpc \/ FoundBelowStranger(n))]_vars

\* The same without the exception, as lifecycle_unix.go:135 has it: after
\* cmd.Wait only what was found below the process itself is killed.  It fails:
\* a scan may walk the tree of whoever has the number by then.
PostWaitKillsOwnOnly ==
    [][\A n \in Births : kind[n] = "foreign" /\ state[n] = "alive" /\ state'[n] = "gone"
         => todo' = todo /\ kpc' = kpc]_vars

\* Once CleanupOrphans is through, no process that an earlier daemon had
\* recorded runs, also when earlier cleanups were cut short by a crash; unless
\* a daemon has come up with the PID of its predecessor.
OrphansGone == dpc = "up" /\ ~skipped => older \cap Alive = {}
=============================================================================
