------------------------------ MODULE HubSocket ------------------------------
(***************************************************************************)
(* How clients find, start and lose the hub: the socket manager of the     *)
(* daemon (src/socket/socket_unix.go) and the auto-starting client         *)
(* (src/client/autostart.go).  Both sides work on four shared things, and  *)
(* no lock covers them: the socket file, the PID file, the startup lock    *)
(* file and the table of processes.                                        *)
(*                                                                         *)
(* A daemon is one process that runs cmd/hub; each binds at most once, so  *)
(* the socket file is named by the daemon that bound it.  PIDs are handed  *)
(* out by the kernel and used again: by a later daemon, or by a process    *)
(* that has nothing to do with the hub.  A step of the model is one system *)
(* call that touches a shared thing; reading the PID's command line,       *)
(* dialling and sending SIGTERM are one step, because the PID in question  *)
(* was read before.                                                        *)
(***************************************************************************)
EXTENDS Naturals, FiniteSets

CONSTANTS Clients, Daemons, PIDs, None,
          MaxCrashes,  \* daemons that die with their files in place
          MaxStops,    \* daemons stopped by a user's signal
          MaxForeign,  \* processes outside the hub that get a free PID
          MaxAgain     \* further calls of Connect

ASSUME NoneIsFresh == None \notin Clients \cup Daemons \cup PIDs

\* A new lock file is an inode that no client has open: there always is one.
ASSUME ClientsAssumption == IsFiniteSet(Clients)

VARIABLES path,      \* the daemon whose socket is bound at the path, or None
          pidFile,   \* the PID in the PID file, or None
          listening, \* daemons whose listener is open
          pid,       \* the PID of each living daemon, None for the others
          foreign,   \* PIDs of processes that are no daemons
          dpc, dseen,           \* per daemon: next step, PID it has read
          cpc, cseen, fd,       \* per client: next step, PID read, open inode
          lockPath,  \* the inode the startup lock file names, 0 if none
          locked,    \* clients that hold the flock of their inode
          faults,    \* crashes, stops, foreign processes, further calls
          settled,   \* history: hubs that came up with nothing else going on
          alone      \* history: daemons that have met no other so far, and
                     \* were not given the very PID that the file names

filesVars == <<path, pidFile, listening>>
procVars == <<pid, foreign, dpc, dseen>>
clientVars == <<cpc, cseen, fd, lockPath, locked>>
vars == <<filesVars, procVars, clientVars, faults, settled, alone>>

\* One more than can be open at once.
Inodes == 1..Cardinality(Clients) + 1

\* A dial succeeds: the path is bound and its owner still listens.
Answering == path \in listening

\* kill(p, 0) succeeds.
Running(p) == p \in foreign \/ \E d \in Daemons : pid[d] = p

DaemonWith(p) == {d \in Daemons : pid[d] = p}

Init ==
    /\ path = None /\ pidFile = None /\ listening = {}
    /\ pid = [d \in Daemons |-> None] /\ foreign = {}
    /\ dpc = [d \in Daemons |-> "off"] /\ dseen = [d \in Daemons |-> None]
    /\ cpc = [c \in Clients |-> "idle"] /\ cseen = [c \in Clients |-> None]
    /\ fd = [c \in Clients |-> 0] /\ lockPath = 0
    /\ locked = {}
    /\ settled = {} /\ alone = {}
    /\ faults = [crash |-> 0, stop |-> 0, foreign |-> 0, again |-> 0]

(***************************************************************************)
(* Processes.                                                              *)
(***************************************************************************)
\* The processes of the daemons in D are gone; their files stay.
Exit(D) ==
    /\ pid' = [d \in Daemons |-> IF d \in D THEN None ELSE pid[d]]
    /\ listening' = listening \ D

\* SIGTERM.  cmd/hub asks for the signal once Start has returned: a daemon
\* that is still starting dies of it, one that serves begins to stop, and one
\* that a signal has stopped already takes no notice.  One that stopped on a
\* SHUTDOWN command, or because Accept failed, still waits for its signal: its
\* second Stop returns at once and the process exits, wherever the first is.
Terminating == {"term", "drain", "rmPid"}

DiesOfTerm(p) == {d \in DaemonWith(p) : dpc[d] \notin {"up"} \cup Terminating}

AfterTerm(p) == [d \in Daemons |->
                   CASE d \in DiesOfTerm(p) -> "gone"
                     [] d \in DaemonWith(p) /\ dpc[d] = "up" -> "term"
                     [] OTHER -> dpc[d]]

\* SIGKILL, or a crash.
AfterKill(p) == [d \in Daemons |-> IF pid[d] = p THEN "gone" ELSE dpc[d]]

\* A daemon crashes, or is killed by somebody else.
Crash(d) ==
    /\ pid[d] # None /\ faults.crash < MaxCrashes
    /\ Exit({d})
    /\ dpc' = AfterKill(pid[d])
    /\ faults' = [faults EXCEPT !.crash = @ + 1]
    /\ UNCHANGED <<path, pidFile, foreign, dseen, clientVars>>

\* Somebody polls p, waiting for it to exit.
Polled(p) == \/ \E d \in Daemons : dpc[d] = "await" /\ dseen[d] = p
             \/ \E c \in Clients : cpc[c] = "reap" /\ cseen[c] = p

\* The kernel gives a free PID to a program that is not a hub.  It goes
\* through all numbers before it uses one again: not within one poll.
ForeignStart(p) ==
    /\ ~Running(p) /\ ~Polled(p) /\ faults.foreign < MaxForeign
    /\ foreign' = foreign \cup {p}
    /\ faults' = [faults EXCEPT !.foreign = @ + 1]
    /\ UNCHANGED <<filesVars, pid, dpc, dseen, clientVars>>

\* A user's SIGINT or SIGTERM to a hub that serves, or a SHUTDOWN command.
UserStop(d) ==
    /\ dpc[d] = "up" /\ faults.stop < MaxStops
    /\ \E s \in {"term", "shut"} : dpc' = [dpc EXCEPT ![d] = s]
    /\ faults' = [faults EXCEPT !.stop = @ + 1]
    /\ UNCHANGED <<filesVars, pid, foreign, dseen, clientVars>>

(***************************************************************************)
(* The daemon: Manager.Listen, then Hub.Stop and Manager.Close.            *)
(***************************************************************************)
\* The daemon d goes on to the step s; no process starts or ends.
Goes(d, s) ==
    /\ dpc' = [dpc EXCEPT ![d] = s]
    /\ UNCHANGED <<pid, foreign, dseen, clientVars, faults>>

\* Listen failed: main logs the error and exits.
Fails(d) ==
    /\ Exit({d})
    /\ dpc' = [dpc EXCEPT ![d] = "failed"]
    /\ UNCHANGED <<foreign, dseen, clientVars, faults>>

ReadPIDFile(d) ==
    /\ dpc[d] = "start"
    /\ dseen' = [dseen EXCEPT ![d] = pidFile]
    /\ dpc' = [dpc EXCEPT ![d] = IF pidFile = None THEN "stat" ELSE "probe"]
    /\ UNCHANGED <<filesVars, pid, foreign, clientVars, faults>>

\* Mutant: a daemon that fails unlinks files which are not its own.
ProbeUnowned(d) ==
    /\ dpc[d] = "probe" /\ Running(dseen[d]) /\ Answering
    /\ Fails(d)
    /\ path' = None /\ pidFile' = None

\* checkExisting with the PID it has read.  A hub that answers is left alone;
\* a daemon that does not answer is told to go; any other PID is stale.
Probe(d) ==
    /\ dpc[d] = "probe"
    /\ LET p == dseen[d] IN
       \/ /\ Running(p) /\ Answering
          /\ Fails(d)
       \/ /\ DaemonWith(p) = {} /\ ~(Running(p) /\ Answering)
          /\ Goes(d, "unlinkPid") /\ UNCHANGED listening
       \/ /\ DaemonWith(p) # {} /\ ~Answering
          /\ Exit(DiesOfTerm(p))
          /\ dpc' = IF d \in DiesOfTerm(p) THEN AfterTerm(p)
                                           ELSE [AfterTerm(p) EXCEPT ![d] = "await"]
          /\ UNCHANGED <<foreign, dseen, clientVars, faults>>
    /\ UNCHANGED <<path, pidFile>>

\* waitForExit returned, or it ran out of patience and the PID gets SIGKILL.
Await(d) ==
    /\ dpc[d] = "await"
    /\ LET p == dseen[d] IN
       \/ ~Running(p) /\ Goes(d, "unlinkPid") /\ UNCHANGED listening
       \/ /\ Running(p)
          /\ Exit(DaemonWith(p))
          /\ foreign' = foreign \ {p}
          /\ dpc' = [AfterKill(p) EXCEPT ![d] = "unlinkPid"]
          /\ UNCHANGED <<dseen, clientVars, faults>>
    /\ UNCHANGED <<path, pidFile>>

UnlinkPID(d) ==
    /\ dpc[d] = "unlinkPid"
    /\ pidFile' = None
    /\ Goes(d, "stat")
    /\ UNCHANGED <<path, listening>>

\* cleanupStale: stat, dial, unlink.
StatSocket(d) ==
    /\ dpc[d] = "stat"
    /\ Goes(d, IF path = None THEN "bind" ELSE "dial")
    /\ UNCHANGED filesVars

DialStale(d) ==
    /\ dpc[d] = "dial"
    /\ \/ Answering /\ Fails(d)
       \/ ~Answering /\ Goes(d, "unlink") /\ UNCHANGED listening
    /\ UNCHANGED <<path, pidFile>>

\* Mutant: the stale socket file is left in place.
UnlinkStaleForgotten(d) ==
    /\ dpc[d] = "unlink"
    /\ Goes(d, "bind")
    /\ UNCHANGED filesVars

UnlinkStale(d) ==
    /\ dpc[d] = "unlink"
    /\ path' = None
    /\ Goes(d, "bind")
    /\ UNCHANGED <<pidFile, listening>>

\* listenUnix: bind(2) fails when the path exists, whoever made it.
Bind(d) ==
    /\ dpc[d] = "bind"
    /\ \/ path = None /\ path' = d /\ Goes(d, "listen") /\ UNCHANGED listening
       \/ path # None /\ Fails(d) /\ UNCHANGED path
    /\ UNCHANGED pidFile

ListenCall(d) ==
    /\ dpc[d] = "listen"
    /\ listening' = listening \cup {d}
    /\ Goes(d, "chmod")
    /\ UNCHANGED <<path, pidFile>>

\* chmod goes by the path: it fails when the socket has been unlinked, and
\* changes whatever is there otherwise.
Chmod(d) ==
    /\ dpc[d] = "chmod"
    /\ \/ path # None /\ Goes(d, "writePid") /\ UNCHANGED listening
       \/ path = None /\ Goes(d, "unbind") /\ listening' = listening \ {d}
    /\ UNCHANGED <<path, pidFile>>

\* After a failed chmod Listen unlinks the path, whoever has bound it since.
Unbind(d) ==
    /\ dpc[d] = "unbind"
    /\ path' = None
    /\ Fails(d)
    /\ UNCHANGED pidFile

WritePID(d) ==
    /\ dpc[d] = "writePid"
    /\ pidFile' = pid[d]
    /\ Goes(d, "up")
    /\ UNCHANGED <<path, listening>>

\* Hub.Stop closes the listener first, then drains clients, subprocesses and
\* processes for as long as its context allows.
CloseListener(d) ==
    /\ dpc[d] \in {"term", "shut"}
    /\ listening' = listening \ {d}
    /\ Goes(d, IF dpc[d] = "term" THEN "drain" ELSE "drainCmd")
    /\ UNCHANGED <<path, pidFile>>

\* Manager.Close of an owner unlinks by path, whoever has bound it since.
RemoveSocket(d) ==
    /\ dpc[d] \in {"drain", "drainCmd"}
    /\ path' = None
    /\ Goes(d, IF dpc[d] = "drain" THEN "rmPid" ELSE "rmPidCmd")
    /\ UNCHANGED <<pidFile, listening>>

\* After a signal main returns; after a command it waits for a signal still.
RemovePID(d) ==
    /\ dpc[d] \in {"rmPid", "rmPidCmd"}
    /\ pidFile' = None
    /\ IF dpc[d] = "rmPid"
       THEN /\ Exit({d})
            /\ dpc' = [dpc EXCEPT ![d] = "gone"]
            /\ UNCHANGED <<foreign, dseen, clientVars, faults>>
       ELSE Goes(d, "lingers") /\ UNCHANGED listening
    /\ UNCHANGED path

Daemon(d) ==
    \/ ReadPIDFile(d) \/ Probe(d) \/ Await(d) \/ UnlinkPID(d)
    \/ StatSocket(d) \/ DialStale(d) \/ UnlinkStale(d)
    \/ Bind(d) \/ ListenCall(d) \/ Chmod(d) \/ Unbind(d) \/ WritePID(d)
    \/ CloseListener(d) \/ RemoveSocket(d) \/ RemovePID(d)

(***************************************************************************)
(* The client: AutoStartConn.ConnectContext.                               *)
(***************************************************************************)
\* The client c goes on to the step s with the files, the processes and the
\* lock as they are.
Turns(c, s) ==
    /\ cpc' = [cpc EXCEPT ![c] = s]
    /\ UNCHANGED <<filesVars, procVars, fd, lockPath, locked, faults>>

ConnectDial(c) ==
    /\ cpc[c] = "idle"
    /\ Turns(c, IF Answering THEN "connected" ELSE "open")
    /\ UNCHANGED cseen

\* acquireStartupLock opens the file, creating it when there is none.
OpenLock(c) ==
    /\ cpc[c] = "open"
    /\ lockPath' = IF lockPath # 0 THEN lockPath
                   ELSE CHOOSE i \in Inodes : \A k \in Clients : fd[k] # i
    /\ fd' = [fd EXCEPT ![c] = lockPath']
    /\ cpc' = [cpc EXCEPT ![c] = "flock"]
    /\ UNCHANGED <<filesVars, procVars, cseen, locked, faults>>

\* flock is on the inode.  A held lock comes back to startHub as an error
\* that it does not recognise, so that ConnectContext fails.
TryLock(c) ==
    /\ cpc[c] = "flock"
    /\ IF \E k \in locked : fd[k] = fd[c]
       THEN /\ cpc' = [cpc EXCEPT ![c] = "refused"]
            /\ fd' = [fd EXCEPT ![c] = 0]
            /\ UNCHANGED locked
       ELSE /\ cpc' = [cpc EXCEPT ![c] = "check"]
            /\ locked' = locked \cup {c}
            /\ UNCHANGED fd
    /\ UNCHANGED <<filesVars, procVars, cseen, lockPath, faults>>

\* The double check under the lock.
IsRunning(c) ==
    /\ cpc[c] = "check"
    /\ Turns(c, IF Answering THEN "release" ELSE "zombiePid")
    /\ UNCHANGED cseen

\* CleanupZombieDaemons: without a PID file nothing is done.
ZombieReadPID(c) ==
    /\ cpc[c] = "zombiePid"
    /\ cseen' = [cseen EXCEPT ![c] = pidFile]
    /\ Turns(c, IF pidFile = None THEN "spawn" ELSE "zombie")

\* Only the process in the PID file is eligible, if it is a daemon of this
\* path that does not answer.
ZombieTerm(c) ==
    /\ cpc[c] = "zombie"
    /\ LET p == cseen[c] IN
       IF DaemonWith(p) # {} /\ ~Answering
       THEN /\ Exit(DiesOfTerm(p))
            /\ dpc' = AfterTerm(p)
            /\ cpc' = [cpc EXCEPT ![c] = "reap"]
       ELSE /\ cpc' = [cpc EXCEPT ![c] = "spawn"]
            /\ UNCHANGED <<pid, listening, dpc>>
    /\ UNCHANGED <<path, pidFile, foreign, dseen, cseen, fd, lockPath, locked, faults>>

\* It has gone, or it gets SIGKILL after a second.
Reap(c) ==
    /\ cpc[c] = "reap"
    /\ LET p == cseen[c] IN
       \/ ~Running(p) /\ UNCHANGED <<pid, listening, foreign, dpc>>
       \/ /\ Running(p)
          /\ Exit(DaemonWith(p))
          /\ foreign' = foreign \ {p}
          /\ dpc' = AfterKill(p)
    /\ cpc' = [cpc EXCEPT ![c] = "sweepSocket"]
    /\ UNCHANGED <<path, pidFile, dseen, cseen, fd, lockPath, locked, faults>>

\* 100 ms later both files are unlinked, whoever they belong to by then.
SweepSocket(c) ==
    /\ cpc[c] = "sweepSocket"
    /\ path' = None
    /\ cpc' = [cpc EXCEPT ![c] = "sweepPid"]
    /\ UNCHANGED <<pidFile, listening, procVars, cseen, fd, lockPath, locked, faults>>

SweepPID(c) ==
    /\ cpc[c] = "sweepPid"
    /\ pidFile' = None
    /\ cpc' = [cpc EXCEPT ![c] = "spawn"]
    /\ UNCHANGED <<path, listening, procVars, cseen, fd, lockPath, locked, faults>>

\* cmd.Start returns once the new process exists.
Spawn(c) ==
    /\ cpc[c] = "spawn"
    /\ \E d \in Daemons, p \in PIDs :
         /\ dpc[d] = "off" /\ ~Running(p) /\ ~Polled(p)
         /\ pid' = [pid EXCEPT ![d] = p]
         /\ dpc' = [dpc EXCEPT ![d] = "start"]
    /\ cpc' = [cpc EXCEPT ![c] = "release"]
    /\ UNCHANGED <<filesVars, foreign, dseen, cseen, fd, lockPath, locked, faults>>

\* There is no executable, or cmd.Start returns an error: Connect fails once
\* the lock is released.
SpawnFails(c) ==
    /\ cpc[c] = "spawn"
    /\ Turns(c, "releaseFailed")
    /\ UNCHANGED cseen

\* releaseStartupLock: the file is unlinked if the path still names the
\* locked inode; then the lock is dropped.
RemoveLock(c) ==
    /\ cpc[c] \in {"release", "releaseFailed"}
    /\ lockPath' = IF lockPath = fd[c] THEN 0 ELSE lockPath
    /\ cpc' = [cpc EXCEPT ![c] = IF @ = "release" THEN "unlock" ELSE "unlockFailed"]
    /\ UNCHANGED <<filesVars, procVars, cseen, fd, locked, faults>>

Unlock(c) ==
    /\ cpc[c] \in {"unlock", "unlockFailed"}
    /\ locked' = locked \ {c}
    /\ fd' = [fd EXCEPT ![c] = 0]
    /\ cpc' = [cpc EXCEPT ![c] = IF @ = "unlock" THEN "wait" ELSE "refused"]
    /\ UNCHANGED <<filesVars, procVars, cseen, lockPath, faults>>

\* waitForHub polls until the hub answers, or gives up: MaxRetries,
\* StartTimeout or the caller's context.
WaitDial(c) ==
    /\ cpc[c] = "wait" /\ Answering
    /\ Turns(c, "connected")
    /\ UNCHANGED cseen

GiveUp(c) ==
    /\ cpc[c] = "wait"
    /\ Turns(c, "timeout")
    /\ UNCHANGED cseen

\* The application calls Connect again.
ConnectAgain(c) ==
    /\ cpc[c] \in {"refused", "timeout", "connected"}
    /\ faults.again < MaxAgain
    /\ cpc' = [cpc EXCEPT ![c] = "idle"]
    /\ faults' = [faults EXCEPT !.again = @ + 1]
    /\ UNCHANGED <<filesVars, procVars, cseen, fd, lockPath, locked>>

Client(c) ==
    \/ ConnectDial(c) \/ OpenLock(c) \/ TryLock(c) \/ IsRunning(c)
    \/ ZombieReadPID(c) \/ ZombieTerm(c) \/ Reap(c)
    \/ SweepSocket(c) \/ SweepPID(c) \/ Spawn(c) \/ SpawnFails(c)
    \/ RemoveLock(c) \/ Unlock(c) \/ WaitDial(c)

Step ==
    \/ \E d \in Daemons : Daemon(d) \/ Crash(d) \/ UserStop(d)
    \/ \E c \in Clients : Client(c) \/ GiveUp(c) \/ ConnectAgain(c)
    \/ \E p \in PIDs : ForeignStart(p)

\* No daemon but d lives, and no client is about to unlink the files.
Undisturbed(d) ==
    /\ \A e \in Daemons \ {d} : pid[e] = None
    /\ \A c \in Clients : cpc[c] \notin {"reap", "sweepSocket", "sweepPid"}

Found(d) == path = d /\ d \in listening /\ pidFile = pid[d]

Next ==
    /\ Step
    /\ settled' = {d \in Daemons : /\ dpc'[d] = "up"
                                   /\ d \in settled \/ (Found(d) /\ Undisturbed(d))'}
    /\ alone' = {d \in Daemons : /\ pid'[d] # None /\ Undisturbed(d)'
                                 /\ \/ d \in alone
                                    \/ pid[d] = None /\ pid'[d] # pidFile}

Spec == Init /\ [][Next]_vars
-----------------------------------------------------------------------------
TypeOK ==
    /\ path \in Daemons \cup {None} /\ pidFile \in PIDs \cup {None}
    /\ listening \in SUBSET Daemons
    /\ pid \in [Daemons -> PIDs \cup {None}] /\ foreign \in SUBSET PIDs
    /\ dseen \in [Daemons -> PIDs \cup {None}]
    /\ cseen \in [Clients -> PIDs \cup {None}]
    /\ fd \in [Clients -> {0} \cup Inodes] /\ lockPath \in {0} \cup Inodes
    /\ locked \in SUBSET Clients

\* A hub that came up undisturbed keeps its socket and its PID file until it
\* stops or dies itself: no daemon and no client that comes later takes them
\* (checkExisting, cleanupStale, CleanupZombieDaemons).
SettledHubIsFound == \A d \in settled : Found(d)

\* No daemon that starts and no client that cleans up after a crash signals a
\* program that is not a hub, though it may have the PID that a crashed hub
\* left in the PID file (processReferencesSocket).
ForeignSurvives == [][foreign \subseteq foreign']_vars

\* The steps of Manager.Listen, up to the PID file.
InListen == {"start", "probe", "await", "unlinkPid", "stat", "dial", "unlink", "bind",
             "listen", "chmod", "unbind", "writePid"}

\* The files of crashed hubs, in whatever combination, do not keep a daemon
\* from coming up that no other daemon and no cleaning client gets in the way
\* of: its Listen does not fail, and unless it crashes or a client signals it,
\* it does not end in Listen either.  A daemon whose own PID is the one in the
\* stale PID file is not in alone: checkExisting makes it signal itself.
LoneStartNeverFails ==
    [][\A d \in alone :
          /\ dpc'[d] # "failed"
          /\ dpc[d] \in InListen /\ dpc'[d] = "gone" => faults' # faults \/ cpc' # cpc]_vars
=============================================================================
