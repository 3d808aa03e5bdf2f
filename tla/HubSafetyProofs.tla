---------------------------- MODULE HubSafetyProofs ----------------------------
(***************************************************************************)
(* Theorems about HubSocket, for any numbers of clients, daemons, PIDs,    *)
(* crashes, stops, foreign processes and further calls; and about the four *)
(* components that MCHubSafety puts side by side.                          *)
(*                                                                         *)
(* The inductive invariant IInv of HubSocket says who holds which PID, who *)
(* may still signal it, and how far the others can get while a hub is      *)
(* settled or a daemon alone.  That of the output, OutputInv, relates each *)
(* slot of the ring, each entry of the log and each slot of the history to *)
(* its place in the stream.                                                *)
(***************************************************************************)
EXTENDS MCHubSafety, TLAPS, FiniteSetTheorems, SequenceTheorems

DPC == {"off", "start", "probe", "await", "unlinkPid", "stat", "dial", "unlink", "bind",
        "listen", "chmod", "unbind", "writePid", "up", "term", "shut", "drain", "drainCmd",
        "rmPid", "rmPidCmd", "lingers", "gone", "failed"}

CPC == {"idle", "open", "flock", "check", "zombiePid", "zombie", "reap", "sweepSocket",
        "sweepPid", "spawn", "release", "releaseFailed", "unlock", "unlockFailed", "wait",
        "connected", "refused", "timeout"}

TypeInv ==
    /\ TypeOK
    /\ dpc \in [Daemons -> DPC] /\ cpc \in [Clients -> CPC]
    /\ settled \subseteq Daemons /\ alone \subseteq Daemons
    /\ faults \in [crash : Nat, stop : Nat, foreign : Nat, again : Nat]

Dead == {"off", "gone", "failed"}
Serving == {"chmod", "writePid", "up", "term", "shut"}
Sweeping == {"reap", "sweepSocket", "sweepPid"}

\* Each living process has a PID of its own; whoever reads a PID to signal it
\* has read one; a daemon never waits for its own end; what is polled is no
\* foreign process; and only a daemon that has got past bind listens.
ProcInv ==
    /\ \A d \in Daemons : pid[d] = None <=> dpc[d] \in Dead
    /\ \A d, e \in Daemons : pid[d] = pid[e] /\ pid[d] # None => d = e
    /\ \A d \in Daemons : pid[d] \notin foreign
    /\ \A d \in Daemons : dpc[d] \in {"probe", "await"} => dseen[d] # None
    /\ \A c \in Clients : cpc[c] \in {"zombie", "reap"} => cseen[c] # None
    /\ \A d \in Daemons : dpc[d] = "await" => dseen[d] # pid[d]
    /\ \A p \in PIDs : Polled(p) => p \notin foreign
    /\ \A d \in listening : dpc[d] \in Serving

\* While a hub is settled no other daemon gets past checkExisting, because it
\* has read the hub's PID, and no client has begun to clean up.
Stays(d) ==
    /\ dpc[d] = "up" /\ Found(d)
    /\ \A e \in Daemons \ {d} : \/ dpc[e] \in Dead \cup {"start"}
                                \/ dpc[e] = "probe" /\ dseen[e] = pid[d]
    /\ \A c \in Clients : cpc[c] \notin Sweeping

SettledInv == \A d \in settled : Stays(d)

\* A daemon that is alone finds the path free and then its own, and the PID in
\* the file is not its own until it has written it.
Unhindered(d) ==
    /\ pid[d] # None /\ Undisturbed(d)
    /\ dpc[d] = "start" => pidFile # pid[d]
    /\ dpc[d] = "probe" => dseen[d] # pid[d]
    /\ dpc[d] \notin {"await", "unbind"}
    /\ dpc[d] = "bind" => path = None
    /\ dpc[d] \in {"listen", "chmod"} => path = d

AloneInv == \A d \in alone : Unhindered(d)

IInv == TypeInv /\ ProcInv /\ SettledInv /\ AloneInv
-----------------------------------------------------------------------------
\* There is always an inode that nobody has open: acquireStartupLock can
\* create the lock file.
LEMMA FreeInode ==
    ASSUME fd \in [Clients -> {0} \cup Inodes]
    PROVE  \E i \in Inodes : \A k \in Clients : fd[k] # i
<1> DEFINE n == Cardinality(Clients)
<1>1. n \in Nat
  BY ClientsAssumption, FS_CardinalityType
<1>2. IsFiniteSet(Inodes) /\ Cardinality(Inodes) = n + 1
  <2>1. IsFiniteSet(1..n + 1) /\ Cardinality(1..n + 1) = IF 1 > n + 1 THEN 0 ELSE n + 1 - 1 + 1
    BY SMTT(30), <1>1, FS_Interval
  <2> QED BY <1>1, <2>1 DEF Inodes
<1> SUFFICES ASSUME \A i \in Inodes : \E k \in Clients : fd[k] = i
             PROVE  FALSE
  OBVIOUS
<1> DEFINE g == [i \in Inodes |-> CHOOSE k \in Clients : fd[k] = i]
<1>3. g \in [Inodes -> Clients] /\ \A i \in Inodes : fd[g[i]] = i
  OBVIOUS
<1>4. n < Cardinality(Inodes)
  BY <1>1, <1>2
<1> HIDE DEF g
<1>5. \E x, y \in Inodes : x # y /\ g[x] = g[y]
  BY <1>2, <1>3, <1>4, ClientsAssumption, FS_PigeonHole
<1> QED BY <1>3, <1>5

\* What a signal to the PID p does, process by process.
LEMMA SignalFacts ==
    ASSUME TypeInv, NEW p
    PROVE  /\ AfterTerm(p) \in [Daemons -> DPC] /\ AfterKill(p) \in [Daemons -> DPC]
           /\ DiesOfTerm(p) \subseteq DaemonWith(p)
           /\ DaemonWith(p) \subseteq Daemons
           /\ \A e \in Daemons :
                 /\ pid[e] # p => AfterTerm(p)[e] = dpc[e] /\ AfterKill(p)[e] = dpc[e]
                 /\ pid[e] = p => AfterKill(p)[e] = "gone"
                 /\ e \in DiesOfTerm(p) => AfterTerm(p)[e] = "gone"
                 /\ pid[e] = p /\ e \notin DiesOfTerm(p) =>
                       /\ dpc[e] \in {"up", "term", "drain", "rmPid"}
                       /\ AfterTerm(p)[e] = IF dpc[e] = "up" THEN "term" ELSE dpc[e]
<1> USE DEF TypeInv, AfterTerm, AfterKill, DaemonWith, DiesOfTerm, Terminating
<1>1. AfterTerm(p) \in [Daemons -> DPC]
  BY DEF DPC
<1>2. AfterKill(p) \in [Daemons -> DPC]
  BY DEF DPC
<1>3. DiesOfTerm(p) \subseteq DaemonWith(p) /\ DaemonWith(p) \subseteq Daemons
  OBVIOUS
<1>4. ASSUME NEW e \in Daemons
      PROVE  /\ pid[e] # p => AfterTerm(p)[e] = dpc[e] /\ AfterKill(p)[e] = dpc[e]
             /\ pid[e] = p => AfterKill(p)[e] = "gone"
             /\ e \in DiesOfTerm(p) => AfterTerm(p)[e] = "gone"
             /\ pid[e] = p /\ e \notin DiesOfTerm(p) =>
                   /\ dpc[e] \in {"up", "term", "drain", "rmPid"}
                   /\ AfterTerm(p)[e] = IF dpc[e] = "up" THEN "term" ELSE dpc[e]
  OBVIOUS
<1> QED BY <1>1, <1>2, <1>3, <1>4

\* Every step keeps the types.
LEMMA TypeStep ==
    ASSUME TypeInv, [Next]_vars
    PROVE  TypeInv'
<1> USE NoneIsFresh
<1>1. CASE UNCHANGED vars
  BY <1>1 DEF TypeInv, TypeOK, vars, filesVars, procVars, clientVars, Inodes
<1>2. CASE Next
  <2>1. settled' \subseteq Daemons /\ alone' \subseteq Daemons
    BY <1>2 DEF Next
  <2> USE DEF TypeInv, TypeOK, filesVars, procVars, clientVars, DPC, CPC, Exit, Goes, Fails,
              Turns
  <2>2. ASSUME NEW d \in Daemons, Daemon(d) \/ Crash(d) \/ UserStop(d)
        PROVE  TypeInv'
    <3>1. CASE ReadPIDFile(d) BY <3>1, <2>1 DEF ReadPIDFile
    <3>2. CASE Probe(d) BY <3>2, <2>1, SignalFacts DEF Probe
    <3>3. CASE Await(d) BY <3>3, <2>1, SignalFacts DEF Await
    <3>4. CASE UnlinkPID(d) BY <3>4, <2>1 DEF UnlinkPID
    <3>5. CASE StatSocket(d) BY <3>5, <2>1 DEF StatSocket
    <3>6. CASE DialStale(d) BY <3>6, <2>1 DEF DialStale
    <3>7. CASE UnlinkStale(d) BY <3>7, <2>1 DEF UnlinkStale
    <3>8. CASE Bind(d) BY <3>8, <2>1 DEF Bind
    <3>9. CASE ListenCall(d) BY <3>9, <2>1 DEF ListenCall
    <3>10. CASE Chmod(d) BY <3>10, <2>1 DEF Chmod
    <3>17. CASE Unbind(d) BY <3>17, <2>1 DEF Unbind
    <3>11. CASE WritePID(d) BY <3>11, <2>1 DEF WritePID
    <3>12. CASE CloseListener(d) BY <3>12, <2>1 DEF CloseListener
    <3>13. CASE RemoveSocket(d) BY <3>13, <2>1 DEF RemoveSocket
    <3>14. CASE RemovePID(d) BY <3>14, <2>1 DEF RemovePID
    <3>15. CASE Crash(d) BY <3>15, <2>1, SignalFacts DEF Crash
    <3>16. CASE UserStop(d) BY <3>16, <2>1 DEF UserStop
    <3> QED BY <2>2, <3>1, <3>2, <3>3, <3>4, <3>5, <3>6, <3>7, <3>8, <3>9, <3>10, <3>11,
               <3>12, <3>13, <3>14, <3>15, <3>16, <3>17 DEF Daemon
  <2>3. ASSUME NEW c \in Clients, Client(c) \/ GiveUp(c) \/ ConnectAgain(c)
        PROVE  TypeInv'
    <3>1. CASE ConnectDial(c) BY <3>1, <2>1 DEF ConnectDial
    <3>2. CASE OpenLock(c)
      <4>1. lockPath' \in {0} \cup Inodes
        BY <3>2, FreeInode DEF OpenLock
      <4> QED BY <3>2, <2>1, <4>1 DEF OpenLock, Inodes
    <3>3. CASE TryLock(c) BY <3>3, <2>1 DEF TryLock, Inodes
    <3>4. CASE IsRunning(c) BY <3>4, <2>1 DEF IsRunning
    <3>5. CASE ZombieReadPID(c) BY <3>5, <2>1 DEF ZombieReadPID
    <3>6. CASE ZombieTerm(c) BY <3>6, <2>1, SignalFacts DEF ZombieTerm
    <3>7. CASE Reap(c) BY <3>7, <2>1, SignalFacts DEF Reap
    <3>8. CASE SweepSocket(c) BY <3>8, <2>1 DEF SweepSocket
    <3>9. CASE SweepPID(c) BY <3>9, <2>1 DEF SweepPID
    <3>10. CASE Spawn(c) BY <3>10, <2>1 DEF Spawn
    <3>16. CASE SpawnFails(c) BY <3>16, <2>1 DEF SpawnFails
    <3>11. CASE RemoveLock(c) BY <3>11, <2>1 DEF RemoveLock, Inodes
    <3>12. CASE Unlock(c) BY <3>12, <2>1 DEF Unlock, Inodes
    <3>13. CASE WaitDial(c) BY <3>13, <2>1 DEF WaitDial
    <3>14. CASE GiveUp(c) BY <3>14, <2>1 DEF GiveUp
    <3>15. CASE ConnectAgain(c) BY <3>15, <2>1 DEF ConnectAgain
    <3> QED BY <2>3, <3>1, <3>2, <3>3, <3>4, <3>5, <3>6, <3>7, <3>8, <3>9, <3>10, <3>11,
               <3>12, <3>13, <3>14, <3>15, <3>16 DEF Client
  <2>4. ASSUME NEW p \in PIDs, ForeignStart(p)
        PROVE  TypeInv'
    BY <2>4, <2>1 DEF ForeignStart
  <2> HIDE DEF TypeInv
  <2> QED BY <1>2, <2>2, <2>3, <2>4 DEF Next, Step
<1> QED BY <1>1, <1>2

-----------------------------------------------------------------------------
\* A daemon's step keeps the table of processes in order.
LEMMA DaemonProcStep ==
    ASSUME TypeInv, TypeInv', ProcInv,
           NEW d \in Daemons, Daemon(d) \/ Crash(d) \/ UserStop(d)
    PROVE  ProcInv'
<1> USE NoneIsFresh DEF filesVars, procVars, clientVars, Exit, Goes, Fails, Dead, Serving
<1>t. /\ dpc \in [Daemons -> DPC] /\ pid \in [Daemons -> PIDs \cup {None}]
      /\ dseen \in [Daemons -> PIDs \cup {None}] /\ listening \subseteq Daemons
      /\ pidFile \in PIDs \cup {None} /\ foreign \subseteq PIDs
  BY DEF TypeInv, TypeOK
<1>1. CASE ReadPIDFile(d) BY <1>1, <1>t DEF ReadPIDFile, ProcInv, Polled
<1>2. CASE Probe(d) BY <1>2, <1>t, SignalFacts DEF Probe, ProcInv, Polled, DaemonWith
<1>3. CASE Await(d) BY <1>3, <1>t, SignalFacts DEF Await, ProcInv, Polled, DaemonWith
<1>4. CASE UnlinkPID(d) BY <1>4, <1>t DEF UnlinkPID, ProcInv, Polled
<1>5. CASE StatSocket(d) BY <1>5, <1>t DEF StatSocket, ProcInv, Polled
<1>6. CASE DialStale(d) BY <1>6, <1>t DEF DialStale, ProcInv, Polled
<1>7. CASE UnlinkStale(d) BY <1>7, <1>t DEF UnlinkStale, ProcInv, Polled
<1>8. CASE Bind(d) BY <1>8, <1>t DEF Bind, ProcInv, Polled
<1>9. CASE ListenCall(d) BY <1>9, <1>t DEF ListenCall, ProcInv, Polled
<1>10. CASE Chmod(d) BY <1>10, <1>t DEF Chmod, ProcInv, Polled
<1>17. CASE Unbind(d) BY <1>17, <1>t DEF Unbind, ProcInv, Polled
<1>11. CASE WritePID(d) BY <1>11, <1>t DEF WritePID, ProcInv, Polled
<1>12. CASE CloseListener(d) BY <1>12, <1>t DEF CloseListener, ProcInv, Polled
<1>13. CASE RemoveSocket(d) BY <1>13, <1>t DEF RemoveSocket, ProcInv, Polled
<1>14. CASE RemovePID(d) BY <1>14, <1>t DEF RemovePID, ProcInv, Polled
<1>15. CASE Crash(d) BY <1>15, <1>t, SignalFacts DEF Crash, ProcInv, Polled
<1>16. CASE UserStop(d) BY <1>16, <1>t DEF UserStop, ProcInv, Polled
<1> QED BY <1>1, <1>2, <1>3, <1>4, <1>5, <1>6, <1>7, <1>8, <1>9, <1>10, <1>11,
           <1>12, <1>13, <1>14, <1>15, <1>16, <1>17 DEF Daemon

\* So does a client's step, and the start of a foreign process.
LEMMA ClientProcStep ==
    ASSUME TypeInv, TypeInv', ProcInv,
           NEW c \in Clients, Client(c) \/ GiveUp(c) \/ ConnectAgain(c)
    PROVE  ProcInv'
<1> USE NoneIsFresh DEF filesVars, procVars, clientVars, Exit, Turns, Dead, Serving
<1>t. /\ dpc \in [Daemons -> DPC] /\ pid \in [Daemons -> PIDs \cup {None}]
      /\ dseen \in [Daemons -> PIDs \cup {None}] /\ listening \subseteq Daemons
      /\ pidFile \in PIDs \cup {None} /\ foreign \subseteq PIDs
      /\ cpc \in [Clients -> CPC] /\ cseen \in [Clients -> PIDs \cup {None}]
  BY DEF TypeInv, TypeOK
<1>1. CASE ConnectDial(c) BY <1>1, <1>t DEF ConnectDial, ProcInv, Polled
<1>2. CASE OpenLock(c) BY <1>2, <1>t DEF OpenLock, ProcInv, Polled
<1>3. CASE TryLock(c) BY <1>3, <1>t DEF TryLock, ProcInv, Polled
<1>4. CASE IsRunning(c) BY <1>4, <1>t DEF IsRunning, ProcInv, Polled
<1>5. CASE ZombieReadPID(c) BY <1>5, <1>t DEF ZombieReadPID, ProcInv, Polled
<1>6. CASE ZombieTerm(c) BY <1>6, <1>t, SignalFacts DEF ZombieTerm, ProcInv, Polled, DaemonWith
<1>7. CASE Reap(c) BY <1>7, <1>t, SignalFacts DEF Reap, ProcInv, Polled, DaemonWith
<1>8. CASE SweepSocket(c) BY <1>8, <1>t DEF SweepSocket, ProcInv, Polled
<1>9. CASE SweepPID(c) BY <1>9, <1>t DEF SweepPID, ProcInv, Polled
<1>10. CASE Spawn(c) BY <1>10, <1>t DEF Spawn, ProcInv, Polled, Running
<1>16. CASE SpawnFails(c) BY <1>16, <1>t DEF SpawnFails, ProcInv, Polled
<1>11. CASE RemoveLock(c) BY <1>11, <1>t DEF RemoveLock, ProcInv, Polled
<1>12. CASE Unlock(c) BY <1>12, <1>t DEF Unlock, ProcInv, Polled
<1>13. CASE WaitDial(c) BY <1>13, <1>t DEF WaitDial, ProcInv, Polled
<1>14. CASE GiveUp(c) BY <1>14, <1>t DEF GiveUp, ProcInv, Polled
<1>15. CASE ConnectAgain(c) BY <1>15, <1>t DEF ConnectAgain, ProcInv, Polled
<1> QED BY <1>1, <1>2, <1>3, <1>4, <1>5, <1>6, <1>7, <1>8, <1>9, <1>10, <1>11,
           <1>12, <1>13, <1>14, <1>15, <1>16 DEF Client

\* Nor does any other step: what is known of the processes stays.
LEMMA ProcStep ==
    ASSUME TypeInv, TypeInv', ProcInv, [Next]_vars
    PROVE  ProcInv'
<1>1. CASE UNCHANGED vars
  BY <1>1 DEF ProcInv, Polled, vars, filesVars, procVars, clientVars
<1>2. ASSUME NEW p \in PIDs, ForeignStart(p)
      PROVE  ProcInv'
  BY <1>2 DEF ForeignStart, ProcInv, Polled, Running, filesVars, clientVars
<1> QED BY <1>1, <1>2, DaemonProcStep, ClientProcStep DEF Next, Step

\* A settled hub that goes on serving keeps its files through any step.
LEMMA SettledStays ==
    ASSUME TypeInv, TypeInv', ProcInv, ProcInv', Step,
           NEW d \in Daemons, Stays(d), dpc'[d] = "up"
    PROVE  Stays(d)'
<1> USE NoneIsFresh
<1>t. /\ dpc \in [Daemons -> DPC] /\ pid \in [Daemons -> PIDs \cup {None}]
      /\ dseen \in [Daemons -> PIDs \cup {None}] /\ listening \subseteq Daemons
      /\ cpc \in [Clients -> CPC]
  BY DEF TypeInv, TypeOK
<1>a. /\ Answering /\ Running(pid[d]) /\ pid[d] # None /\ path = d /\ d \in listening
      /\ pidFile = pid[d] /\ dpc[d] = "up"
  BY DEF Stays, Found, Answering, Running, ProcInv, Dead
<1> USE DEF filesVars, procVars, clientVars
<1>1. ASSUME NEW e \in Daemons, Daemon(e) \/ Crash(e) \/ UserStop(e)
      PROVE  Stays(d)'
  <2>1. CASE Crash(e)
    <3>1. e # d
      BY <2>1, <1>t, SignalFacts DEF Crash
    <3>2. pid[d] # pid[e]
      BY <3>1, <1>a DEF ProcInv
    <3> QED BY <2>1, <3>1, <3>2, <1>t, <1>a, SignalFacts
            DEF Crash, Exit, Stays, Found, Dead
  <2>2. CASE ReadPIDFile(e)
    BY <2>2, <1>t, <1>a DEF ReadPIDFile, Stays, Found, Dead
  <2>3. CASE Probe(e)
    <3>1. e # d /\ dseen[e] = pid[d]
      BY <2>3, <1>t, <1>a DEF Probe, Stays, Dead
    <3>2. Fails(e) /\ path' = path /\ pidFile' = pidFile
      BY <2>3, <3>1, <1>a DEF Probe
    <3> QED BY <3>1, <3>2, <1>t, <1>a DEF Fails, Exit, Stays, Found, Dead
  <2>4. CASE UserStop(e)
    BY <2>4, <1>t, <1>a DEF UserStop, Stays, Dead
  <2>5. CASE Daemon(e) /\ ~ReadPIDFile(e) /\ ~Probe(e)
    <3>1. dpc[e] \in Dead \cup {"start", "probe", "up"}
      BY <1>a DEF Stays
    <3> QED BY <2>5, <3>1 DEF Daemon, Await, UnlinkPID, StatSocket, DialStale, UnlinkStale,
               Bind, ListenCall, Chmod, Unbind, WritePID, CloseListener, RemoveSocket, RemovePID, Dead
  <2> QED BY <1>1, <2>1, <2>2, <2>3, <2>4, <2>5
<1>2. ASSUME NEW c \in Clients, Client(c) \/ GiveUp(c) \/ ConnectAgain(c)
      PROVE  Stays(d)'
  <2>1. cpc[c] \notin Sweeping
    BY DEF Stays
  <2>2. CASE Spawn(c)
    BY <2>2, <1>t, <1>a DEF Spawn, Stays, Found, Dead, Sweeping
  <2>3. CASE ZombieTerm(c)
    BY <2>3, <1>t, <1>a DEF ZombieTerm, Stays, Found, Sweeping
  <2>4. CASE ~Spawn(c) /\ ~ZombieTerm(c)
    <3>1. UNCHANGED <<filesVars, procVars>>
      BY <1>2, <2>1, <2>4 DEF Client, ConnectDial, OpenLock, TryLock, IsRunning, ZombieReadPID,
         Reap, SweepSocket, SweepPID, SpawnFails, RemoveLock, Unlock, WaitDial, GiveUp, ConnectAgain,
         Turns, Sweeping
    <3>2. cpc' = [cpc EXCEPT ![c] = cpc'[c]] /\ cpc'[c] \notin Sweeping
      BY <1>2, <2>1, <2>4, <1>t DEF Client, ConnectDial, OpenLock, TryLock, IsRunning,
         ZombieReadPID, Reap, SweepSocket, SweepPID, SpawnFails, RemoveLock, Unlock, WaitDial, GiveUp,
         ConnectAgain, Turns, Sweeping
    <3> QED BY <3>1, <3>2, <1>t DEF Stays, Found
  <2> QED BY <2>2, <2>3, <2>4
<1>3. ASSUME NEW p \in PIDs, ForeignStart(p)
      PROVE  Stays(d)'
  BY <1>3 DEF ForeignStart, Stays, Found
<1> QED BY <1>1, <1>2, <1>3 DEF Step

\* Each step keeps what settled hubs rely on.
LEMMA SettledStep ==
    ASSUME TypeInv, TypeInv', ProcInv, ProcInv', SettledInv, [Next]_vars
    PROVE  SettledInv'
<1>1. CASE UNCHANGED vars
  BY <1>1 DEF SettledInv, Stays, Found, vars, filesVars, procVars, clientVars
<1>2. CASE Next
  <2> SUFFICES ASSUME NEW d \in settled'
               PROVE  Stays(d)'
    BY DEF SettledInv
  <2>1. /\ Step /\ d \in Daemons /\ dpc'[d] = "up"
        /\ d \in settled \/ (Found(d) /\ Undisturbed(d))'
    BY <1>2 DEF Next
  <2>2. CASE d \in settled
    BY <2>1, <2>2, SettledStays DEF SettledInv
  <2>3. CASE (Found(d) /\ Undisturbed(d))'
    BY <2>1, <2>3 DEF Stays, Undisturbed, ProcInv, Sweeping
  <2> QED BY <2>1, <2>2, <2>3
<1> QED BY <1>1, <1>2

\* While a daemon is alone nobody answers until it listens itself, and the PID
\* it has read is not its own, so that its Listen neither fails nor ends it.
LEMMA AloneSucceeds ==
    ASSUME TypeInv, ProcInv, AloneInv, Step, NEW d \in alone
    PROVE  /\ dpc'[d] # "failed"
           /\ dpc[d] \in InListen /\ dpc'[d] = "gone" => faults' # faults \/ cpc' # cpc
<1> DEFINE ComesUp == /\ dpc'[d] # "failed"
                      /\ dpc[d] \in InListen /\ dpc'[d] = "gone" => faults' # faults \/ cpc' # cpc
<1> USE NoneIsFresh
<1>t. /\ dpc \in [Daemons -> DPC] /\ pid \in [Daemons -> PIDs \cup {None}]
      /\ d \in Daemons /\ listening \subseteq Daemons
      /\ cpc \in [Clients -> CPC]
  BY DEF TypeInv, TypeOK
<1>a. Unhindered(d) /\ dpc[d] \notin Dead /\ d # None
  BY <1>t DEF AloneInv, Unhindered, ProcInv
<1>b. \A e \in Daemons : e # d => dpc[e] \in Dead /\ pid[e] = None
  BY <1>t, <1>a DEF Unhindered, Undisturbed, ProcInv
<1>c. dpc[d] \in {"probe", "dial"} => ~Answering
  BY <1>t, <1>b DEF Answering, ProcInv, Serving, Dead
<1>d. dpc[d] = "probe" => DaemonWith(dseen[d]) = {}
  BY <1>t, <1>a, <1>b DEF DaemonWith, Unhindered, ProcInv
<1> USE DEF filesVars, procVars, clientVars, Dead
<1>1. ASSUME NEW e \in Daemons, Daemon(e) \/ UserStop(e)
      PROVE  ComesUp
  <2>1. e = d
    BY <1>1, <1>b DEF Daemon, ReadPIDFile, Probe, Await, UnlinkPID, StatSocket, DialStale,
       UnlinkStale, Bind, ListenCall, Chmod, Unbind, WritePID, CloseListener, RemoveSocket,
       RemovePID, UserStop
  <2>2. CASE Probe(d)
    BY <2>2, <1>t, <1>a, <1>c, <1>d DEF Probe, Goes
  <2>3. CASE DialStale(d)
    BY <2>3, <1>t, <1>a, <1>c DEF DialStale, Goes
  <2>4. CASE Bind(d)
    BY <2>4, <1>t, <1>a DEF Bind, Goes, Unhindered
  <2>5. CASE Await(d) \/ Unbind(d)
    BY <2>5, <1>a DEF Await, Unbind, Unhindered
  <2>6. CASE \/ ReadPIDFile(d) \/ UnlinkPID(d) \/ StatSocket(d) \/ UnlinkStale(d)
             \/ ListenCall(d) \/ Chmod(d) \/ WritePID(d) \/ CloseListener(d)
             \/ RemoveSocket(d) \/ RemovePID(d) \/ UserStop(d)
    BY <2>6, <1>t, <1>a DEF ReadPIDFile, UnlinkPID, StatSocket, UnlinkStale, ListenCall,
       Chmod, WritePID, CloseListener, RemoveSocket, RemovePID, UserStop, Goes, InListen
  <2> QED BY <1>1, <2>1, <2>2, <2>3, <2>4, <2>5, <2>6 DEF Daemon
<1>2. ASSUME NEW e \in Daemons, Crash(e)
      PROVE  ComesUp
  <2>1. dpc'[d] # "failed"
    BY <1>2, <1>t, <1>a, SignalFacts DEF Crash
  <2>2. faults'.crash = faults.crash + 1 /\ faults.crash \in Nat
    BY <1>2 DEF Crash, TypeInv
  <2> QED BY <2>1, <2>2
<1>3. ASSUME NEW c \in Clients, Client(c) \/ GiveUp(c) \/ ConnectAgain(c)
      PROVE  ComesUp
  <2>1. CASE ZombieTerm(c)
    BY <2>1, <1>t, <1>a, SignalFacts DEF ZombieTerm
  <2>2. CASE Reap(c)
    BY <2>2, <1>t, <1>a, SignalFacts DEF Reap
  <2>3. CASE ~ZombieTerm(c) /\ ~Reap(c)
    BY <1>3, <2>3, <1>t, <1>a DEF Client, ConnectDial, OpenLock, TryLock, IsRunning,
       ZombieReadPID, SweepSocket, SweepPID, Spawn, SpawnFails, RemoveLock, Unlock, WaitDial,
       GiveUp, ConnectAgain, Turns, InListen
  <2> QED BY <2>1, <2>2, <2>3
<1>4. ASSUME NEW p \in PIDs, ForeignStart(p)
      PROVE  ComesUp
  BY <1>4, <1>a DEF ForeignStart
<1> QED BY <1>1, <1>2, <1>3, <1>4 DEF Step

\* What a daemon that stays alone knows of the path stays true.
LEMMA AloneStep ==
    ASSUME TypeInv, TypeInv', ProcInv, ProcInv', AloneInv, [Next]_vars
    PROVE  AloneInv'
<1> USE NoneIsFresh
<1>1. CASE UNCHANGED vars
  BY <1>1 DEF AloneInv, Unhindered, Undisturbed, vars, filesVars, procVars, clientVars
<1>2. CASE Next
  <2> SUFFICES ASSUME NEW d \in alone'
               PROVE  Unhindered(d)'
    BY DEF AloneInv
  <2>1. /\ Step /\ d \in Daemons /\ pid'[d] # None /\ Undisturbed(d)'
        /\ d \in alone \/ (pid[d] = None /\ pid'[d] # pidFile)
    BY <1>2 DEF Next
  <2>t. /\ dpc \in [Daemons -> DPC] /\ pid \in [Daemons -> PIDs \cup {None}]
        /\ dseen \in [Daemons -> PIDs \cup {None}]
        /\ cpc \in [Clients -> CPC]
    BY DEF TypeInv, TypeOK
  <2> USE DEF filesVars, procVars, clientVars, Dead
  <2>2. CASE pid[d] = None /\ pid'[d] # pidFile
    <3>1. dpc'[d] = "start" /\ pidFile' = pidFile
      <4>1. ASSUME NEW e \in Daemons, Daemon(e) \/ Crash(e) \/ UserStop(e)
            PROVE  FALSE
        <5>1. pid' = pid \/ \E D \in SUBSET Daemons : Exit(D)
          <6>1. CASE Probe(e) BY <6>1, SignalFacts DEF Probe, Goes, Fails
          <6>2. CASE Await(e) BY <6>2, SignalFacts DEF Await, Goes
          <6>3. CASE ~Probe(e) /\ ~Await(e)
            BY <4>1, <6>3 DEF Daemon, ReadPIDFile, UnlinkPID, StatSocket, DialStale,
               UnlinkStale, Bind, ListenCall, Chmod, Unbind, WritePID, CloseListener, RemoveSocket,
               RemovePID, Crash, UserStop, Goes, Fails
          <6> QED BY <6>1, <6>2, <6>3
        <5> QED BY <5>1, <2>1, <2>2, <2>t DEF Exit
      <4>2. ASSUME NEW c \in Clients, Client(c) \/ GiveUp(c) \/ ConnectAgain(c)
            PROVE  dpc'[d] = "start" /\ pidFile' = pidFile
        <5>1. CASE Spawn(c)
          BY <5>1, <2>1, <2>2, <2>t DEF Spawn
        <5>2. pid' = pid \/ (\E D \in SUBSET Daemons : Exit(D)) \/ Spawn(c)
          <6>1. CASE ZombieTerm(c) \/ Reap(c) BY <6>1, SignalFacts DEF ZombieTerm, Reap
          <6>2. CASE ~ZombieTerm(c) /\ ~Reap(c) /\ ~Spawn(c)
            BY <4>2, <6>2 DEF Client, ConnectDial, OpenLock, TryLock, IsRunning,
               ZombieReadPID, SweepSocket, SweepPID, SpawnFails, RemoveLock, Unlock, WaitDial, GiveUp,
               ConnectAgain, Turns
          <6> QED BY <6>1, <6>2
        <5> QED BY <5>1, <5>2, <2>1, <2>2, <2>t DEF Exit
      <4>3. ASSUME NEW p \in PIDs, ForeignStart(p)
            PROVE  FALSE
        BY <4>3, <2>1, <2>2 DEF ForeignStart
      <4> QED BY <2>1, <4>1, <4>2, <4>3 DEF Step
    <3> QED BY <2>1, <2>2, <3>1 DEF Unhindered
  <2>3. CASE d \in alone
    <3>a. Unhindered(d) /\ d # None
      BY <2>1, <2>3 DEF AloneInv
    <3>b. \A e \in Daemons : e # d => dpc[e] \in Dead /\ pid[e] = None
      BY <3>a, <2>1 DEF Unhindered, Undisturbed, ProcInv
    <3>c. dpc[d] = "probe" => DaemonWith(dseen[d]) = {}
      BY <2>t, <2>1, <3>a, <3>b DEF DaemonWith, Unhindered, ProcInv
    <3>1. ASSUME NEW e \in Daemons, Daemon(e) \/ Crash(e) \/ UserStop(e)
          PROVE  Unhindered(d)'
      <4>1. e = d
        BY <3>1, <3>b DEF Daemon, ReadPIDFile, Probe, Await, UnlinkPID, StatSocket, DialStale,
           UnlinkStale, Bind, ListenCall, Chmod, Unbind, WritePID, CloseListener, RemoveSocket,
           RemovePID, Crash, UserStop
      <4>2. CASE Probe(d)
        BY <4>2, <2>1, <2>t, <3>a, <3>c DEF Probe, Goes, Fails, Unhindered
      <4>3. CASE Await(d)
        BY <4>3, <3>a DEF Await, Unhindered
      <4>4. CASE Crash(d)
        BY <4>4, <2>1, <2>t, <3>a, SignalFacts DEF Crash, Exit, Unhindered
      <4>5. CASE Daemon(d) /\ ~Probe(d) /\ ~Await(d)
        BY <4>5, <2>1, <2>t, <3>a DEF Daemon, ReadPIDFile, UnlinkPID, StatSocket, DialStale,
           UnlinkStale, Bind, ListenCall, Chmod, Unbind, WritePID, CloseListener, RemoveSocket,
           RemovePID, Goes, Fails, Exit, Unhindered
      <4>6. CASE UserStop(d)
        BY <4>6, <2>1, <2>t, <3>a DEF UserStop, Unhindered
      <4> QED BY <3>1, <4>1, <4>2, <4>3, <4>4, <4>5, <4>6
    <3>2. ASSUME NEW c \in Clients, Client(c) \/ GiveUp(c) \/ ConnectAgain(c)
          PROVE  Unhindered(d)'
      <4>1. cpc[c] \notin Sweeping
        BY <3>a DEF Unhindered, Undisturbed, Sweeping
      <4>2. path' = path /\ pidFile' = pidFile /\ dseen' = dseen
        BY <3>2, <4>1 DEF Client, ConnectDial, OpenLock, TryLock, IsRunning, ZombieReadPID,
           ZombieTerm, Reap, SweepSocket, SweepPID, Spawn, SpawnFails, RemoveLock, Unlock, WaitDial,
           GiveUp, ConnectAgain, Turns, Sweeping
      <4>4. pid'[d] = pid[d]
        <5>1. CASE ZombieTerm(c)
          BY <5>1, <2>1, <2>t DEF ZombieTerm, Exit
        <5>2. CASE Spawn(c)
          BY <5>2, <2>t, <3>a DEF Spawn, Unhindered, ProcInv
        <5>3. CASE ~ZombieTerm(c) /\ ~Spawn(c)
          BY <3>2, <4>1, <5>3 DEF Client, ConnectDial, OpenLock, TryLock, IsRunning,
             ZombieReadPID, Reap, SweepSocket, SweepPID, SpawnFails, RemoveLock, Unlock,
             WaitDial, GiveUp, ConnectAgain, Turns, Sweeping
        <5> QED BY <5>1, <5>2, <5>3
      <4>3. \/ dpc'[d] = dpc[d]
            \/ dpc'[d] \notin {"bind", "listen", "chmod", "start", "probe", "await", "unbind"}
        <5>1. CASE ZombieTerm(c)
          BY <5>1, <2>1, <2>t, SignalFacts DEF ZombieTerm
        <5>2. CASE Spawn(c)
          BY <5>2, <2>t, <3>a DEF Spawn, Unhindered, ProcInv
        <5>3. CASE ~ZombieTerm(c) /\ ~Spawn(c)
          BY <3>2, <4>1, <5>3 DEF Client, ConnectDial, OpenLock, TryLock, IsRunning,
             ZombieReadPID, Reap, SweepSocket, SweepPID, SpawnFails, RemoveLock, Unlock, WaitDial, GiveUp,
             ConnectAgain, Turns, Sweeping
        <5> QED BY <5>1, <5>2, <5>3
      <4> QED BY <4>2, <4>3, <4>4, <2>1, <3>a DEF Unhindered
    <3>3. ASSUME NEW p \in PIDs, ForeignStart(p)
          PROVE  Unhindered(d)'
      BY <3>3, <2>1, <3>a DEF ForeignStart, Unhindered
    <3> QED BY <2>1, <3>1, <3>2, <3>3 DEF Step
  <2> QED BY <2>1, <2>2, <2>3
<1> QED BY <1>1, <1>2

-----------------------------------------------------------------------------
\* At first there is no file, no process and no history.
LEMMA InitInv == Init => IInv
BY NoneIsFresh DEF Init, IInv, TypeInv, TypeOK, ProcInv, SettledInv, AloneInv, DPC, CPC, Dead,
   Polled, Inodes

\* IInv holds in every state.
THEOREM Inductive == Spec => []IInv
<1>1. IInv /\ [Next]_vars => IInv'
  BY TypeStep, ProcStep, SettledStep, AloneStep DEF IInv
<1> QED BY InitInv, <1>1, PTL DEF Spec

\* Every variable has a value of its type; that OpenLock always finds a free
\* inode is part of it.
THEOREM Typed == Spec => []TypeOK
<1>1. IInv => TypeOK
  BY DEF IInv, TypeInv
<1> QED BY Inductive, <1>1, PTL

\* A hub that came up undisturbed keeps its socket and its PID file until it
\* stops or dies itself, however many daemons and clients come later.
THEOREM HubIsFound == Spec => []SettledHubIsFound
<1>1. IInv => SettledHubIsFound
  BY DEF IInv, SettledInv, Stays, SettledHubIsFound
<1> QED BY Inductive, <1>1, PTL

\* Neither a daemon nor a client kills a program that is no hub, whatever PIDs
\* are used again.
THEOREM StrangersSurvive == Spec => ForeignSurvives
<1>1. IInv /\ [Next]_vars => [foreign \subseteq foreign']_vars
  <2> SUFFICES ASSUME IInv, Step
               PROVE  foreign \subseteq foreign'
    BY DEF Next
  <2> USE NoneIsFresh DEF filesVars, procVars, clientVars
  <2>t. /\ dseen \in [Daemons -> PIDs \cup {None}] /\ cseen \in [Clients -> PIDs \cup {None}]
        /\ foreign \subseteq PIDs
    BY DEF IInv, TypeInv, TypeOK
  <2>1. ASSUME NEW d \in Daemons, Daemon(d) \/ Crash(d) \/ UserStop(d)
        PROVE  foreign \subseteq foreign'
    <3>1. CASE Await(d)
      <4>1. dseen[d] \notin foreign
        BY <3>1, <2>t DEF IInv, ProcInv, Polled, Await
      <4> QED BY <3>1, <4>1 DEF Await, Goes
    <3>2. CASE ~Await(d)
      BY <2>1, <3>2 DEF Daemon, ReadPIDFile, Probe, UnlinkPID, StatSocket, DialStale,
         UnlinkStale, Bind, ListenCall, Chmod, Unbind, WritePID, CloseListener, RemoveSocket,
         RemovePID, Crash, UserStop, Goes, Fails
    <3> QED BY <3>1, <3>2
  <2>2. ASSUME NEW c \in Clients, Client(c) \/ GiveUp(c) \/ ConnectAgain(c)
        PROVE  foreign \subseteq foreign'
    <3>1. CASE Reap(c)
      <4>1. cseen[c] \notin foreign
        BY <3>1, <2>t DEF IInv, ProcInv, Polled, Reap
      <4> QED BY <3>1, <4>1 DEF Reap
    <3>2. CASE ~Reap(c)
      BY <2>2, <3>2 DEF Client, ConnectDial, OpenLock, TryLock, IsRunning, ZombieReadPID,
         ZombieTerm, SweepSocket, SweepPID, Spawn, SpawnFails, RemoveLock, Unlock, WaitDial, GiveUp,
         ConnectAgain, Turns
    <3> QED BY <3>1, <3>2
  <2>3. ASSUME NEW p \in PIDs, ForeignStart(p)
        PROVE  foreign \subseteq foreign'
    BY <2>3 DEF ForeignStart
  <2> QED BY <2>1, <2>2, <2>3 DEF Step
<1> QED BY Inductive, <1>1, PTL DEF Spec, ForeignSurvives

\* A daemon that no other daemon and no cleaning client gets in the way of gets
\* through Listen, whatever files crashed hubs have left and whoever has their
\* PIDs, unless it was given the very PID that the stale file names.
THEOREM LoneStartSucceeds == Spec => LoneStartNeverFails
<1> DEFINE ComesUp(d) ==
              /\ dpc'[d] # "failed"
              /\ dpc[d] \in InListen /\ dpc'[d] = "gone" => faults' # faults \/ cpc' # cpc
<1>1. IInv /\ [Next]_vars => [\A d \in alone : ComesUp(d)]_vars
  BY AloneSucceeds DEF IInv, Next
<1> QED BY Inductive, <1>1, PTL DEF Spec, LoneStartNeverFails

-----------------------------------------------------------------------------
(***************************************************************************)
(* The composition: a step of it is a step of one part and leaves the      *)
(* others as they are, so a behaviour of the composition is a behaviour of *)
(* each part.  The theorems above and those of PidTrackerProofs and        *)
(* WireProofs then hold for it.                                            *)
(***************************************************************************)
TrackerProofs == INSTANCE PidTrackerProofs WITH
    pid <- tpid, dpc <- tdpc, kpc <- tkpc, MaxCrashes <- MaxDaemonCrashes

WireProofs == INSTANCE WireProofs WITH faults <- wfaults

allVars == <<part, vars, trackerVars, wireVars, outputVars, hubProcess>>

\* The bounds of both parts are numbers.
LEMMA PartBounds == TrackerProofs!Bounds /\ WireProofs!Bounds
BY BoundsAreNumbers DEF TrackerProofs!Bounds, WireProofs!Bounds

-----------------------------------------------------------------------------
(***************************************************************************)
(* Each part runs as it would alone.  TrackerProofs and WireProofs have    *)
(* definitions of their own, equal to those of Tracker and W: the facts    *)
(* that say so expand them all.                                            *)
(***************************************************************************)
\* The socket and its files.
LEMMA SocketRuns == MCSpec => Spec
<1>1. MCInit => Init
  BY DEF MCInit
<1>2. [MCNext]_allVars => [Next]_vars
  BY DEF MCNext, allVars
<1> QED BY <1>1, <1>2, PTL DEF MCSpec, Spec, allVars

\* The tracking file of PIDs.
LEMMA TrackerRuns == MCSpec => TrackerProofs!Spec
<1>1. MCInit => TrackerProofs!Init
  BY SMTT(30) DEF MCInit, Tracker!Init, TrackerProofs!Init, Tracker!Births, TrackerProofs!Births
<1>2. Tracker!Next => TrackerProofs!Next
  BY DEF Tracker!Next, TrackerProofs!Next,
         Tracker!Births, Tracker!Alive, Tracker!Taken, Tracker!Named, Tracker!Born,
         Tracker!Awaited, Tracker!Ended, Tracker!Children, Tracker!Exits, Tracker!Forks,
         Tracker!ForeignStarts, Tracker!DaemonStarts, Tracker!CleanupLoadsAndClears,
         Tracker!Saves, Tracker!CleanupLoads, Tracker!IdentityIgnored,
         Tracker!IdentityMatches, Tracker!Verified, Tracker!GroupOf, Tracker!CleanupKills,
         Tracker!CleanupSaves, Tracker!Crash, Tracker!Step, Tracker!Spawn,
         Tracker!OthersAndOwn, Tracker!Others, Tracker!Add, Tracker!Descendants,
         Tracker!Snapshot, Tracker!Numbers, Tracker!Signalled, Tracker!StopSignals,
         Tracker!Scan, Tracker!Reap, Tracker!Sweep, Tracker!Remove,
         Tracker!vars, Tracker!osVars, Tracker!daemonVars, Tracker!keyVars,
         Tracker!historyVars, TrackerProofs!Births, TrackerProofs!Alive,
         TrackerProofs!Taken, TrackerProofs!Named, TrackerProofs!Born,
         TrackerProofs!Awaited, TrackerProofs!Ended, TrackerProofs!Children,
         TrackerProofs!Exits, TrackerProofs!Forks, TrackerProofs!ForeignStarts,
         TrackerProofs!DaemonStarts, TrackerProofs!CleanupLoadsAndClears,
         TrackerProofs!Saves, TrackerProofs!CleanupLoads, TrackerProofs!IdentityIgnored,
         TrackerProofs!IdentityMatches, TrackerProofs!Verified, TrackerProofs!GroupOf,
         TrackerProofs!CleanupKills, TrackerProofs!CleanupSaves, TrackerProofs!Crash,
         TrackerProofs!Step, TrackerProofs!Spawn, TrackerProofs!OthersAndOwn,
         TrackerProofs!Others, TrackerProofs!Add, TrackerProofs!Descendants,
         TrackerProofs!Snapshot, TrackerProofs!Numbers, TrackerProofs!Signalled,
         TrackerProofs!StopSignals, TrackerProofs!Scan, TrackerProofs!Reap,
         TrackerProofs!Sweep, TrackerProofs!Remove, TrackerProofs!vars,
         TrackerProofs!osVars, TrackerProofs!daemonVars, TrackerProofs!keyVars,
         TrackerProofs!historyVars
<1>3. UNCHANGED trackerVars => UNCHANGED TrackerProofs!vars
  BY DEF trackerVars, TrackerProofs!vars, TrackerProofs!osVars, TrackerProofs!daemonVars,
         TrackerProofs!keyVars, TrackerProofs!historyVars
<1>4. [MCNext]_allVars => [TrackerProofs!Next]_(TrackerProofs!vars)
  BY <1>2, <1>3 DEF MCNext, allVars
<1> QED BY <1>1, <1>4, PTL DEF MCSpec, TrackerProofs!Spec, allVars

\* The wire.
LEMMA WireRuns == MCSpec => WireProofs!Spec
<1>1. MCInit => WireProofs!Init
  BY SMTT(30) DEF MCInit, W!Init, WireProofs!Init, W!Links, WireProofs!Links,
         W!Numbers, WireProofs!Numbers
<1>2. W!Next => WireProofs!Next
  BY DEF W!Next, WireProofs!Next,
         W!Links, W!Numbers, W!Kinds, W!Frame, W!Unlocked, W!Begin, W!HandleErrorKeepsLink,
         W!HandleError, W!WritesCommand, W!Send, W!Finishes, W!ParsedResponse, W!Read,
         W!ReadFails, W!DeadlinePasses, W!Interrupt, W!Close, W!ParsedCommand, W!HubReads,
         W!Writes, W!HubChunk, W!HubAnswers, W!HubReturns, W!HubCloses, W!Handled,
         W!TickerFires, W!TickerWrites, W!TickerEnds, W!vars, W!connVars, W!clientVars,
         W!wireVars, W!hubVars, W!tickVars, WireProofs!Links, WireProofs!Numbers,
         WireProofs!Kinds, WireProofs!Frame, WireProofs!Unlocked, WireProofs!Begin,
         WireProofs!HandleErrorKeepsLink, WireProofs!HandleError, WireProofs!WritesCommand,
         WireProofs!Send, WireProofs!Finishes, WireProofs!ParsedResponse, WireProofs!Read,
         WireProofs!ReadFails, WireProofs!DeadlinePasses, WireProofs!Interrupt,
         WireProofs!Close, WireProofs!ParsedCommand, WireProofs!HubReads, WireProofs!Writes,
         WireProofs!HubChunk, WireProofs!HubAnswers, WireProofs!HubReturns,
         WireProofs!HubCloses, WireProofs!Handled, WireProofs!TickerFires,
         WireProofs!TickerWrites, WireProofs!TickerEnds, WireProofs!vars,
         WireProofs!connVars, WireProofs!clientVars, WireProofs!wireVars,
         WireProofs!hubVars, WireProofs!tickVars
<1>3. UNCHANGED wireVars => UNCHANGED WireProofs!vars
  BY DEF wireVars, WireProofs!vars, WireProofs!connVars, WireProofs!clientVars, WireProofs!wireVars,
         WireProofs!hubVars, WireProofs!tickVars
<1>4. [MCNext]_allVars => [WireProofs!Next]_(WireProofs!vars)
  BY <1>2, <1>3 DEF MCNext, allVars
<1> QED BY <1>1, <1>4, PTL DEF MCSpec, WireProofs!Spec, allVars

-----------------------------------------------------------------------------
\* Once a hub has come up undisturbed, every client finds it at the socket and
\* in the PID file, whatever the other components do.
THEOREM HubIsFoundBeside == MCSpec => []SettledHubIsFound
BY SocketRuns, HubIsFound, PTL

\* A daemon that nobody gets in the way of gets through Listen in the
\* composition too, unless it has the PID that the stale file names.
THEOREM LoneStartSucceedsBeside == MCSpec => LoneStartNeverFails
BY SocketRuns, LoneStartSucceeds, PTL

\* No process that an earlier daemon had recorded runs after the cleanup of
\* orphans, whatever crashes came before.
THEOREM OrphansAreGoneBeside == MCSpec => []OrphansGone
<1>1. TrackerProofs!OrphansGone => OrphansGone
  BY DEF OrphansGone, Tracker!OrphansGone, TrackerProofs!OrphansGone,
         Tracker!Alive, TrackerProofs!Alive, Tracker!Births, TrackerProofs!Births
<1> QED BY <1>1, TrackerRuns, TrackerProofs!OrphansAreGone, PartBounds, PTL

\* A request that succeeds has had all of its own answer and nothing else.
THEOREM AnswersAreOwnBeside == MCSpec => []AnswersMatch
<1>1. WireProofs!AnswersMatch => AnswersMatch
  BY DEF AnswersMatch, W!AnswersMatch, WireProofs!AnswersMatch
<1> QED BY <1>1, WireRuns, WireProofs!AnswersAreOwn, PartBounds, PTL

\* No program outside the hub is killed for a PID in the PID file, nor by
\* CleanupOrphans for one in the tracking file; by the cleanup after an exit
\* only one that a walk found below a PID which had changed hands.
THEOREM NoStrangerIsKilled == MCSpec => NoStrangerKilled
<1> DEFINE Spared == \A n \in Tracker!Births :
              kind[n] = "foreign" /\ state[n] = "alive" /\ state'[n] = "gone"
                 => todo' = todo /\ (tkpc' = tkpc \/ Tracker!FoundBelowStranger(n))
           SparedThere == \A n \in TrackerProofs!Births :
              kind[n] = "foreign" /\ state[n] = "alive" /\ state'[n] = "gone"
                 => todo' = todo /\ (tkpc' = tkpc \/ TrackerProofs!FoundBelowStranger(n))
<1>1. TrackerProofs!OthersSurvive => Tracker!OthersSurvive
  <2>1. UNCHANGED TrackerProofs!vars => UNCHANGED Tracker!vars
    BY DEF Tracker!vars, Tracker!osVars, Tracker!daemonVars, Tracker!keyVars,
           Tracker!historyVars, TrackerProofs!vars, TrackerProofs!osVars,
           TrackerProofs!daemonVars, TrackerProofs!keyVars, TrackerProofs!historyVars
  <2>2. [SparedThere]_(TrackerProofs!vars) => [Spared]_(Tracker!vars)
    BY <2>1 DEF Spared, SparedThere, Tracker!FoundBelowStranger,
                TrackerProofs!FoundBelowStranger,
                Tracker!Births, TrackerProofs!Births
  <2> QED
    BY <2>2, PTL DEF Tracker!OthersSurvive, TrackerProofs!OthersSurvive
<1>2. MCSpec => TrackerProofs!OthersSurvive
  BY TrackerRuns, TrackerProofs!OthersAreSpared, PartBounds, PTL
<1>3. MCSpec => ForeignSurvives
  BY SocketRuns, StrangersSurvive, PTL
<1> QED BY <1>1, <1>2, <1>3, PTL DEF NoStrangerKilled

-----------------------------------------------------------------------------
(***************************************************************************)
(* Positions in a ring.                                                    *)
(***************************************************************************)
\* The bounds of the buffers.
LEMMA OutputBounds ==
    /\ Capacity \in Nat \ {0} /\ MaxPartial \in Nat \ {0} /\ MaxLines \in Nat \ {0}
    /\ MaxStream \in Nat
BY BoundsAreNumbers

\* Division with a remainder.
LEMMA Remainder ==
    ASSUME NEW a \in Nat, NEW C \in Nat, C > 0
    PROVE  a = C * (a \div C) + (a % C) /\ a % C \in 0..C - 1 /\ (a \div C) \in Nat
OBVIOUS

\* A multiple of C that is within reach of 0 and C is one of the two.
LEMMA Multiples ==
    ASSUME NEW q \in Int, NEW C \in Nat, C > 0, C * q < 2 * C, C * q > -C
    PROVE  q \in {0, 1}
OBVIOUS

\* Multiplication distributes.
LEMMA Distributes ==
    ASSUME NEW p \in Int, NEW q \in Int, NEW C \in Int
    PROVE  C * (p - q) = C * p - C * q
OBVIOUS

\* Going on around a ring of C slots, by one round at most.
Wrap(a, C) == IF a < C THEN a ELSE a - C

LEMMA Around ==
    ASSUME NEW a \in Nat, NEW m \in Nat, NEW C \in Nat, C > 0, m <= C
    PROVE  (a + m) % C = Wrap((a % C) + m, C)
<1> DEFINE q1 == a \div C
<1> DEFINE r1 == a % C
<1> DEFINE q2 == (a + m) \div C
<1> DEFINE r2 == (a + m) % C
<1>1. q1 \in Nat /\ r1 \in 0..C - 1 /\ a = C * q1 + r1
  BY Remainder
<1>2. a + m \in Nat
  OBVIOUS
<1>3. q2 \in Nat /\ r2 \in 0..C - 1 /\ a + m = C * q2 + r2
  BY <1>2, Remainder
<1> HIDE DEF q1, r1, q2, r2
<1>4. C * q1 \in Int /\ C * q2 \in Int /\ C * q2 - C * q1 = r1 + m - r2
  BY <1>1, <1>3
<1>5. q2 - q1 \in Int /\ C * (q2 - q1) = r1 + m - r2
  BY <1>1, <1>3, <1>4, Distributes
<1>6. C * (q2 - q1) < 2 * C /\ C * (q2 - q1) > -C
  BY <1>1, <1>3, <1>5
<1>7. q2 - q1 \in {0, 1}
  BY <1>5, <1>6, Multiples
<1>8. C * (q2 - q1) \in {0, C}
  BY <1>7
<1>9. r2 = Wrap(r1 + m, C)
  BY <1>1, <1>3, <1>5, <1>8 DEF Wrap
<1> QED BY <1>9 DEF r1, r2

\* From a slot of the ring itself.
LEMMA AroundSlot ==
    ASSUME NEW C \in Nat, C > 0, NEW a \in 0..C - 1, NEW m \in Nat, m <= C
    PROVE  (a + m) % C = Wrap(a + m, C)
<1>1. 0 % C = 0
  OBVIOUS
<1>2. (0 + a) % C = Wrap((0 % C) + a, C)
  BY Around
<1>3. a % C = a
  BY <1>1, <1>2 DEF Wrap
<1>4. (a + m) % C = Wrap((a % C) + m, C)
  BY Around
<1> QED BY <1>3, <1>4

-----------------------------------------------------------------------------
(***************************************************************************)
(* The ring buffer.  A slot holds the byte that was written as many bytes  *)
(* ago as it takes to come back from there to the write position.          *)
(***************************************************************************)
Byte == 0..MaxStream

Pos == writePos % Capacity
AgeAt(pos, i, C) == IF i < pos THEN pos - i ELSE pos + C - i
Age(i) == AgeAt(Pos, i, Capacity)

RingType ==
    /\ given \in Seq(Byte) /\ Len(given) <= MaxStream /\ base \in 0..Len(given)
    /\ buffer \in [Output!Slots -> Byte]
    /\ writePos \in 0..Len(given) - base /\ totalWritten = writePos
    /\ overflowed \in BOOLEAN

RingInv ==
    /\ overflowed <=> Len(given) - base > Capacity
    /\ writePos = Len(given) - base \/ (writePos >= Capacity /\ overflowed)
    /\ \A i \in Output!Slots : Age(i) <= Len(given) - base =>
         buffer[i] = given[Len(given) + 1 - Age(i)]

\* What a process writes next.
LEMMA NextBytesType ==
    ASSUME RingType, NEW p \in Output!NextBytes
    PROVE  p \in Seq(Byte) /\ Len(p) \in 1..MaxStream - Len(given)
<1> DEFINE Writes(n) == {[i \in 1..n |-> IF i \in ends THEN Output!Newline ELSE Len(given) + i] :
                            ends \in SUBSET (1..n)}
<1>0. PICK n \in 1..MaxStream - Len(given) : p \in Writes(n)
  BY Zenon DEF Output!NextBytes
<1>1. PICK ends \in SUBSET (1..n) :
         p = [i \in 1..n |-> IF i \in ends THEN Output!Newline ELSE Len(given) + i]
  BY <1>0
<1>2. n \in Nat /\ Len(given) \in Nat
  BY OutputBounds DEF RingType
<1>3. \A i \in 1..n : p[i] \in Byte
  BY <1>1, <1>2, OutputBounds DEF Byte, Output!Newline, RingType
<1>4. p \in [1..n -> Byte]
  BY <1>1, <1>3
<1>5. p \in Seq(Byte) /\ Len(p) = n
  BY <1>2, <1>4
<1> QED BY <1>5

\* The last n of a sequence.
LEMMA LastOnes ==
    ASSUME NEW S, NEW s \in Seq(S), NEW n \in Nat \ {0}
    PROVE  LET q == Output!AtMost(n, s)
           IN  /\ q \in Seq(S) /\ Len(q) = IF Len(s) > n THEN n ELSE Len(s)
               /\ \A j \in 1..Len(q) : q[j] = s[Len(s) - Len(q) + j]
<1>1. CASE Len(s) > n
  <2> DEFINE m == Len(s) - n + 1
  <2>1. m \in Int /\ Len(s) \in Int /\ m >= 1 /\ \A i \in m..Len(s) : s[i] \in S
    BY <1>1, LenProperties, ElementOfSeq
  <2>2. /\ SubSeq(s, m, Len(s)) \in Seq(S)
        /\ Len(SubSeq(s, m, Len(s))) = n
        /\ \A j \in 1..n : SubSeq(s, m, Len(s))[j] = s[m + j - 1]
    BY <1>1, <2>1, SubSeqProperties
  <2> QED BY SMTT(30), <1>1, <2>1, <2>2 DEF Output!AtMost
<1>2. CASE ~(Len(s) > n)
  BY <1>2, LenProperties DEF Output!AtMost
<1> QED BY <1>1, <1>2

\* Where a write puts its bytes, and how much older it makes the others.
Ahead(pos, i, C) == IF i >= pos THEN i - pos ELSE i + C - pos

LEMMA Turned ==
    ASSUME NEW C \in Nat, C > 0, NEW pos \in 0..C - 1, NEW m \in 0..C, NEW i \in 0..C - 1
    PROVE  /\ Ahead(pos, i, C) \in 0..C - 1
           /\ Ahead(pos, i, C) < m =>
                AgeAt(Wrap(pos + m, C), i, C) = m - Ahead(pos, i, C)
           /\ Ahead(pos, i, C) >= m =>
                /\ AgeAt(pos, i, C) = C - Ahead(pos, i, C)
                /\ AgeAt(Wrap(pos + m, C), i, C) = C - Ahead(pos, i, C) + m
BY DEF Wrap, AgeAt, Ahead

\* The state of the ring after a write.
LEMMA RingWriteStep ==
    ASSUME RingType, RingInv, NEW p \in Seq(Byte), Len(p) \in 1..MaxStream - Len(given),
           Output!RingWrite(p), given' = given \o p, base' = base
    PROVE  RingType' /\ RingInv'
<1> DEFINE C == Capacity
           N == Len(given) - base
           n == Len(p)
           q == Output!AtMost(C, p)
           m == Len(q)
<1> USE OutputBounds
<1>1. C \in Nat /\ C > 0 /\ n \in Nat /\ n > 0 /\ Len(given) \in Nat /\ N \in Nat
  BY DEF RingType
<1>2. /\ q \in Seq(Byte) /\ m = IF n > C THEN C ELSE n
      /\ \A j \in 1..m : q[j] = p[n - m + j]
  BY <1>1, LastOnes
<1>3. m \in 0..C /\ m \in Nat /\ m <= n /\ (n <= C => m = n) /\ (n > C => m = C)
  BY <1>1, <1>2
<1>4. /\ given' \in Seq(Byte) /\ Len(given') = Len(given) + n
      /\ \A k \in 1..Len(given) : given'[k] = given[k]
      /\ \A k \in 1..n : given'[Len(given) + k] = p[k]
  BY ConcatProperties DEF RingType
<1>5. writePos' = writePos + m /\ totalWritten' = totalWritten + m
  BY DEF Output!RingWrite
<1>6. overflowed' <=> overflowed \/ n > C \/ totalWritten + m > C
  BY DEF Output!RingWrite
<1>7. overflowed' \in BOOLEAN
  BY DEF Output!RingWrite
<1>8. \A j \in 1..m : q[j] \in Byte
  BY <1>2, ElementOfSeq
<1> DEFINE At(i) == Ahead(Pos, i, C)
<1>9. /\ buffer' = [i \in Output!Slots |-> IF At(i) < m THEN q[At(i) + 1] ELSE buffer[i]]
      /\ Output!Slots = 0..C - 1
  BY DEF Output!RingWrite, Output!Placed, Output!Slots, Pos, Ahead
<1>c. Capacity = C /\ Pos = writePos % C /\ Pos' = (writePos') % C
  BY DEF Pos
<1> HIDE DEF C, N, n, q, m, At
<1>10. writePos \in Nat /\ Pos \in 0..C - 1 /\ Pos' = Wrap(Pos + m, C)
  <2>1. writePos \in Nat /\ writePos <= N
    BY <1>1 DEF RingType, N
  <2>2. Pos \in 0..C - 1
    BY <1>1, <1>c, <2>1, Remainder
  <2>3. (writePos + m) % C = Wrap((writePos % C) + m, C)
    BY <1>1, <1>3, <2>1, Around
  <2> QED BY <1>5, <1>c, <2>1, <2>2, <2>3
<1>11. ASSUME NEW i \in Output!Slots
       PROVE  /\ At(i) \in 0..C - 1
              /\ At(i) < m => Age(i)' = m - At(i)
              /\ At(i) >= m => Age(i) = C - At(i) /\ Age(i)' = C - At(i) + m
  <2>1. C \in Nat /\ C > 0 /\ Pos \in 0..C - 1 /\ m \in 0..C /\ i \in 0..C - 1
    BY <1>1, <1>3, <1>9, <1>10
  <2>2. Age(i) = AgeAt(Pos, i, C) /\ Age(i)' = AgeAt(Wrap(Pos + m, C), i, C)
    BY <1>10 DEF Age, C
  <2>3. /\ At(i) \in 0..C - 1
        /\ At(i) < m => AgeAt(Wrap(Pos + m, C), i, C) = m - At(i)
        /\ At(i) >= m => /\ AgeAt(Pos, i, C) = C - At(i)
                          /\ AgeAt(Wrap(Pos + m, C), i, C) = C - At(i) + m
    BY <2>1, Turned DEF At
  <2> QED BY <2>2, <2>3
<1>12. buffer' \in [Output!Slots -> Byte]
  <2>1. ASSUME NEW i \in Output!Slots
        PROVE  (IF At(i) < m THEN q[At(i) + 1] ELSE buffer[i]) \in Byte
    <3>1. At(i) < m => At(i) + 1 \in 1..m
      BY <1>3, <1>11
    <3>2. buffer[i] \in Byte
      BY DEF RingType
    <3> QED BY <1>8, <3>1, <3>2
  <2> QED BY <1>9, <2>1
<1>13. RingType'
  <2>1. n <= MaxStream - Len(given)
    BY DEF n
  <2>2. Len(given') <= MaxStream /\ base' \in 0..Len(given')
    BY <1>1, <1>4, <2>1 DEF RingType
  <2>3. writePos' \in 0..Len(given') - base' /\ totalWritten' = writePos'
    BY <1>1, <1>3, <1>4, <1>5 DEF RingType
  <2> QED BY <1>4, <1>7, <1>12, <2>2, <2>3 DEF RingType
<1>14. (overflowed <=> Len(given) - base > Capacity)'
  BY <1>1, <1>3, <1>4, <1>6 DEF RingInv, RingType, C
<1>15. (writePos = Len(given) - base \/ (writePos >= Capacity /\ overflowed))'
  <2>1. Len(given') - base' = N + n
    BY <1>1, <1>4 DEF N, RingType
  <2>2. writePos = N \/ (writePos >= C /\ overflowed)
    BY <1>c DEF RingInv, N
  <2>3. CASE n <= C /\ writePos = N
    BY <1>3, <1>5, <2>1, <2>3
  <2>4. CASE n <= C /\ writePos >= C /\ overflowed
    <3>1. writePos' >= C
      BY <1>1, <1>3, <1>5, <1>10, <2>4
    <3> QED BY <1>c, <1>6, <2>4, <3>1
  <2>5. CASE n > C
    <3>1. writePos' >= C
      BY <1>1, <1>3, <1>5, <1>10, <2>5
    <3> QED BY <1>c, <1>6, <2>5, <3>1
  <2> QED BY <1>1, <2>2, <2>3, <2>4, <2>5
<1>16. ASSUME NEW i \in Output!Slots, Age(i)' <= Len(given') - base'
       PROVE  buffer'[i] = given'[Len(given') + 1 - Age(i)']
  <2>1. CASE At(i) < m
    <3>1. buffer'[i] = q[At(i) + 1] /\ At(i) + 1 \in 1..m
      BY <1>3, <1>9, <1>11, <2>1
    <3>2. q[At(i) + 1] = p[n - m + (At(i) + 1)]
      BY <1>2, <3>1
    <3>3. Len(given') + 1 - Age(i)' = Len(given) + (n - m + (At(i) + 1))
             /\ n - m + (At(i) + 1) \in 1..n
      <4>1. At(i) \in 0..C - 1 /\ Age(i)' = m - At(i) /\ At(i) < m
        BY <1>11, <2>1
      <4>2. Len(given') = Len(given) + n
        BY <1>4
      <4>3. At(i) \in Int /\ m \in Int /\ n \in Int /\ Len(given) \in Int
        BY <1>1, <1>3, <4>1
      <4>4. n - m + (At(i) + 1) \in 1..n
        BY <1>3, <4>1, <4>3
      <4>5. Len(given) + n + 1 - (m - At(i)) = Len(given) + (n - m + (At(i) + 1))
        BY <4>3
      <4> QED BY <4>1, <4>2, <4>4, <4>5
    <3> QED BY <1>4, <3>1, <3>2, <3>3
  <2>2. CASE At(i) >= m
    <3>1. buffer'[i] = buffer[i]
      BY <1>3, <1>9, <1>11, <2>2
    <3>2. n = m
      BY <1>1, <1>3, <1>11, <2>2
    <3>3. Age(i) \in 1..N /\ Age(i)' = Age(i) + m
      <4>1. At(i) \in 0..C - 1 /\ Age(i) = C - At(i) /\ Age(i)' = C - At(i) + m
        BY <1>11, <2>2
      <4>2. Len(given') - base' = N + n
        BY <1>1, <1>4 DEF N, RingType
      <4> QED BY <1>1, <1>3, <1>16, <3>2, <4>1, <4>2
    <3>4. buffer[i] = given[Len(given) + 1 - Age(i)]
      BY <1>1, <3>3 DEF RingInv, N
    <3>5. /\ Len(given') + 1 - Age(i)' = Len(given) + 1 - Age(i)
          /\ Len(given) + 1 - Age(i) \in 1..Len(given)
      <4>1. Len(given') = Len(given) + n /\ N <= Len(given)
        BY <1>1, <1>4 DEF N, RingType
      <4>2. Age(i) \in Int /\ m \in Int /\ Len(given) \in Int
        BY <1>1, <1>3, <3>3
      <4>3. Len(given) + m + 1 - (Age(i) + m) = Len(given) + 1 - Age(i)
        BY <4>2
      <4>4. Len(given) + 1 - Age(i) \in 1..Len(given)
        BY <1>1, <3>3, <4>1, <4>2
      <4>5. Age(i)' = Age(i) + m /\ Len(given') = Len(given) + m
        BY <3>2, <3>3, <4>1
      <4>6. Len(given') + 1 - Age(i)' = Len(given) + m + 1 - (Age(i) + m)
        BY <4>5
      <4> QED BY <4>3, <4>4, <4>6
    <3> QED BY <1>4, <3>1, <3>4, <3>5
  <2>3. At(i) < m \/ At(i) >= m
    <3>1. At(i) \in 0..C - 1 /\ m \in Nat /\ C \in Nat
      BY <1>1, <1>3, <1>11
    <3> QED BY <3>1
  <2> QED BY <2>1, <2>2, <2>3
<1> QED BY <1>13, <1>14, <1>15, <1>16 DEF RingInv

\* As far from the write position as its age is the slot that is read k bytes
\* after the oldest one.
LEMMA AgeOfRead ==
    ASSUME NEW C \in Nat, C > 0, NEW pos \in 0..C - 1, NEW k \in 0..C - 1
    PROVE  Wrap(pos + k, C) \in 0..C - 1 /\ AgeAt(pos, Wrap(pos + k, C), C) = C - k
BY DEF Wrap, AgeAt

\* A snapshot is the tail of what has been written since the last Reset.
LEMMA RingInvKeepsTail ==
    ASSUME RingType, RingInv
    PROVE  Output!RingKeepsTail
<1> DEFINE C == Capacity
           N == Len(given) - base
           kept == SubSeq(given, base + 1, Len(given))
           tail == Output!AtMost(C, kept)
           m == Len(tail)
<1>1. C \in Nat /\ C > 0 /\ Len(given) \in Nat /\ base \in Nat /\ N \in Nat /\ base + N = Len(given)
  BY OutputBounds DEF RingType
<1>2. /\ kept \in Seq(Byte) /\ Len(kept) = N
      /\ \A j \in 1..N : kept[j] = given[base + j]
  <2>1. \A i \in base + 1..Len(given) : given[i] \in Byte
    BY <1>1, ElementOfSeq DEF RingType
  <2>2. /\ kept \in Seq(Byte)
        /\ Len(kept) = IF base + 1 <= Len(given) THEN Len(given) - (base + 1) + 1 ELSE 0
        /\ \A j \in 1..Len(given) - (base + 1) + 1 : kept[j] = given[base + 1 + j - 1]
    <3> DEFINE f == base + 1
               l == Len(given)
    <3>1. f \in Int /\ l \in Int /\ \A i \in f..l : given[i] \in Byte
      BY <1>1, <2>1
    <3> HIDE DEF f, l
    <3>2. /\ SubSeq(given, f, l) \in Seq(Byte)
          /\ Len(SubSeq(given, f, l)) = IF f <= l THEN l - f + 1 ELSE 0
          /\ \A j \in 1..l - f + 1 : SubSeq(given, f, l)[j] = given[f + j - 1]
      BY <3>1, SubSeqProperties
    <3> QED BY <3>2 DEF f, l
  <2> HIDE DEF kept
  <2> HIDE DEF N
  <2>3. Len(kept) = N
    <3>1. (IF base + 1 <= Len(given) THEN Len(given) - (base + 1) + 1 ELSE 0) = N
      BY <1>1
    <3> QED BY <2>2, <3>1
  <2>4. ASSUME NEW j \in 1..N PROVE kept[j] = given[base + j]
    <3>1. j \in 1..Len(given) - (base + 1) + 1 /\ base + 1 + j - 1 = base + j
      BY <1>1
    <3> QED BY <2>2, <3>1
  <2> QED BY <2>2, <2>3, <2>4
<1>3. /\ tail \in Seq(Byte) /\ m = IF N > C THEN C ELSE N
      /\ \A j \in 1..m : tail[j] = kept[N - m + j]
  <2> HIDE DEF kept
  <2>1. C \in Nat \ {0}
    BY <1>1
  <2> HIDE DEF C, N
  <2> QED BY <1>2, <2>1, LastOnes
<1>4. m \in Nat /\ m <= N /\ m <= C
  BY <1>1, <1>3
<1>5. ASSUME NEW j \in 1..m
      PROVE  tail[j] = given[Len(given) + 1 - (m + 1 - j)]
  <2>1. N - m + j \in 1..N
    BY <1>1, <1>4
  <2>2. tail[j] = given[base + (N - m + j)]
    BY <1>2, <1>3, <2>1
  <2>3. base + (N - m + j) = Len(given) + 1 - (m + 1 - j)
    BY <1>1, <1>4
  <2> QED BY <2>2, <2>3
<1>6. tail = [j \in 1..m |-> tail[j]]
  BY <1>3, LenProperties
<1>7. writePos \in Nat /\ writePos <= N /\ totalWritten = writePos
  BY <1>1 DEF RingType
<1>8. Pos \in 0..C - 1 /\ Pos = writePos % C
  BY <1>1, <1>7, Remainder DEF Pos
<1>9. (overflowed <=> N > C) /\ overflowed \in BOOLEAN /\ (writePos = N \/ (writePos >= C /\ overflowed))
  BY DEF RingInv, RingType
<1>10. ASSUME NEW i \in 0..C - 1, Age(i) <= N
       PROVE  buffer[i] = given[Len(given) + 1 - Age(i)]
  BY <1>1, <1>10 DEF RingInv, Output!Slots
<1>11. \A i : Age(i) = AgeAt(Pos, i, C)
  BY DEF Age
<1>12. /\ Output!Snapshot.data =
            IF writePos <= C THEN [i \in 1..writePos |-> buffer[i - 1]]
            ELSE [i \in 1..C |-> buffer[(writePos + i - 1) % C]]
       /\ Output!Snapshot =
            [data |-> Output!Snapshot.data,
             truncated |-> IF writePos <= C THEN overflowed ELSE TRUE]
  BY <1>1, <1>7 DEF Output!Snapshot
<1> DEFINE data == Output!Snapshot.data
<1> HIDE DEF C, N, kept, tail, m, data
<1>13. ASSUME writePos < C PROVE data = tail
  <2>1. N = writePos /\ m = writePos
    BY <1>1, <1>3, <1>4, <1>7, <1>9, <1>13
  <2>2. writePos % C = writePos
    <3>1. (0 + writePos) % C = Wrap(0 + writePos, C) /\ 0 \in 0..C - 1 /\ writePos <= C
      BY <1>1, <1>7, <1>13, AroundSlot
    <3> QED BY <1>7, <1>13, <3>1 DEF Wrap
  <2>3. data = [j \in 1..m |-> buffer[j - 1]]
    BY <1>7, <1>12, <1>13, <1>1, <2>1 DEF data
  <2>4. ASSUME NEW j \in 1..m PROVE buffer[j - 1] = tail[j]
    <3>1. j - 1 \in 0..C - 1 /\ Age(j - 1) = m + 1 - j
      BY <1>1, <1>4, <1>7, <1>8, <1>11, <1>13, <2>1, <2>2 DEF AgeAt
    <3>2. Age(j - 1) <= N
      BY <1>1, <1>4, <3>1
    <3> QED BY <1>5, <1>10, <3>1, <3>2
  <2> QED BY <1>6, <2>3, <2>4
<1>14. ASSUME writePos >= C PROVE data = tail
  <2>1. N >= C /\ m = C
    BY <1>1, <1>3, <1>4, <1>7, <1>14
  <2>2. ASSUME NEW j \in 1..m
        PROVE  buffer[Wrap(Pos + (j - 1), C)] = tail[j]
    <3>1. j - 1 \in 0..C - 1
      BY <1>1, <2>1
    <3>2. /\ Wrap(Pos + (j - 1), C) \in 0..C - 1
          /\ Age(Wrap(Pos + (j - 1), C)) = C - (j - 1)
      BY <1>1, <1>8, <1>11, <3>1, AgeOfRead
    <3>3. C - (j - 1) = m + 1 - j /\ C - (j - 1) <= N
      BY <1>1, <2>1
    <3> QED BY <1>5, <1>10, <3>2, <3>3
  <2>3. CASE writePos = C
    <3>1. Pos = 0
      <4>1. (0 + writePos) % C = Wrap(0 + writePos, C) /\ 0 \in 0..C - 1 /\ writePos <= C
        BY <1>1, <1>7, <2>3, AroundSlot
      <4> QED BY <1>1, <1>7, <1>8, <2>3, <4>1 DEF Wrap
    <3>2. data = [j \in 1..m |-> buffer[j - 1]]
      BY <1>1, <1>7, <1>12, <2>1, <2>3 DEF data
    <3>3. ASSUME NEW j \in 1..m PROVE buffer[j - 1] = tail[j]
      <4>1. Wrap(Pos + (j - 1), C) = j - 1
        BY <1>1, <2>1, <3>1 DEF Wrap
      <4> QED BY <2>2, <4>1
    <3> QED BY <1>6, <3>2, <3>3
  <2>4. CASE writePos > C
    <3>1. data = [j \in 1..m |-> buffer[(writePos + j - 1) % C]]
      <4>1. ~(writePos <= C)
        BY <1>1, <1>7, <2>4
      <4> QED BY <1>12, <2>1, <4>1 DEF data
    <3>2. ASSUME NEW j \in 1..m PROVE buffer[(writePos + j - 1) % C] = tail[j]
      <4>1. j - 1 \in Nat /\ j - 1 <= C /\ writePos + j - 1 = writePos + (j - 1)
        BY <1>1, <1>7, <2>1
      <4>2. (writePos + (j - 1)) % C = Wrap((writePos % C) + (j - 1), C)
        BY <1>1, <1>7, <4>1, Around
      <4> QED BY <1>8, <2>2, <4>1, <4>2
    <3> QED BY <1>6, <3>1, <3>2
  <2> QED BY <1>1, <1>7, <1>14, <2>3, <2>4
<1>15. data = tail
  <2>1. writePos < C \/ writePos >= C
    BY <1>1, <1>7
  <2> QED BY <1>13, <1>14, <2>1
<1>16. overflowed = (N > C)
  BY <1>9
<1>17. (IF writePos <= C THEN overflowed ELSE TRUE) = (N > C)
  <2>1. CASE writePos <= C
    BY <1>16, <2>1
  <2>2. CASE ~(writePos <= C)
    <3>1. N > C
      BY <1>1, <1>7, <2>2
    <3> QED BY <2>2, <3>1
  <2> QED BY <2>1, <2>2
<1>18. Output!Snapshot = [data |-> tail, truncated |-> N > C]
  BY <1>12, <1>15, <1>17 DEF data
<1> QED BY <1>2, <1>16, <1>18 DEF Output!RingKeepsTail, kept, tail, N, C

\* The age of a slot is at least 1.
LEMMA AgeIsPositive ==
    ASSUME NEW C \in Nat, C > 0, NEW pos \in 0..C - 1, NEW i \in 0..C - 1
    PROVE  AgeAt(pos, i, C) \in 1..C
BY DEF AgeAt

\* Every step keeps what the ring holds.
LEMMA RingStep ==
    ASSUME RingType, RingInv, [Output!Next]_(Output!vars)
    PROVE  RingType' /\ RingInv'
<1> USE OutputBounds
<1>1. ASSUME UNCHANGED Output!ringVars, UNCHANGED <<given, base>>
      PROVE  RingType' /\ RingInv'
  <2>1. UNCHANGED <<buffer, writePos, totalWritten, overflowed, given, base>>
    BY <1>1 DEF Output!ringVars
  <2>2. \A i : Age(i)' = Age(i)
    BY <2>1 DEF Age, Pos
  <2>3. RingType'
    BY <2>1 DEF RingType
  <2>4. RingInv'
    BY <2>1, <2>2 DEF RingInv
  <2> QED BY <2>3, <2>4
<1>2. ASSUME NEW p \in Output!NextBytes, Output!Write(p)
      PROVE  RingType' /\ RingInv'
  <2>1. Output!RingWrite(p) /\ given' = given \o p /\ base' = base
    BY <1>2 DEF Output!Write
  <2>2. p \in Seq(Byte) /\ Len(p) \in 1..MaxStream - Len(given)
    BY <1>2, NextBytesType
  <2> QED BY <2>1, <2>2, RingWriteStep
<1>3. ASSUME Output!Reset PROVE RingType' /\ RingInv'
  <2>1. /\ writePos' = 0 /\ totalWritten' = 0 /\ overflowed' = FALSE
        /\ base' = Len(given) /\ given' = given /\ buffer' = buffer
    BY <1>3 DEF Output!Reset
  <2>2. Len(given) \in Nat /\ Len(given') - base' = 0
    <3>1. Len(given) \in Nat
      BY LenProperties DEF RingType
    <3> QED BY <2>1, <3>1
  <2>3. RingType'
    <3>1. base' \in 0..Len(given')
      BY <2>1, <2>2
    <3>2. writePos' \in 0..Len(given') - base' /\ totalWritten' = writePos'
      BY <2>1, <2>2
    <3> QED BY <2>1, <3>1, <3>2 DEF RingType
  <2>4. Pos' \in 0..Capacity - 1
    <3>1. 0 % Capacity \in 0..Capacity - 1
      BY Remainder
    <3> QED BY <2>1, <3>1 DEF Pos
  <2>5. ASSUME NEW i \in Output!Slots PROVE ~(Age(i)' <= 0)
    <3>1. Age(i)' = AgeAt(Pos', i, Capacity)
      BY DEF Age
    <3>2. i \in 0..Capacity - 1
      BY DEF Output!Slots
    <3>3. AgeAt(Pos', i, Capacity) \in 1..Capacity
      BY <2>4, <3>2, AgeIsPositive
    <3> QED BY <3>1, <3>3
  <2>6. RingInv'
    BY <2>1, <2>2, <2>5 DEF RingInv
  <2> QED BY <2>3, <2>6
<1> QED
  BY <1>1, <1>2, <1>3 DEF Output!Next, Output!CutLine, Output!KeepPartial, Output!Flush,
     Output!AddRestartMarker, Output!vars

-----------------------------------------------------------------------------
(***************************************************************************)
(* The lines.  Every entry stands in the stream where the one before it    *)
(* ends, and what is in no entry yet are partial and pending.              *)
(***************************************************************************)
Start == Output!Before(Len(log) + 1)

\* The bytes of s come right after the first a of g.
StandsAt(s, g, a) ==
    a + Len(s) <= Len(g) /\ \A i \in 1..Len(s) : g[a + i] = s[i]

\* An entry of the log after the first a bytes of g.
EntryOK(e, g, a, over) ==
    \/ e.line = Output!RestartMarker /\ e.upTo = a /\ a <= Len(g)
    \/ /\ Output!Newlines(e.line) = {} /\ StandsAt(e.line, g, a) /\ e.upTo <= Len(g)
       /\ \/ e.upTo = a + Len(e.line) + 1 /\ g[e.upTo] = Output!Newline
          \/ /\ e.upTo = a + Len(e.line) /\ Len(e.line) > 0
             /\ Len(e.line) >= MaxPartial \/ (over /\ e.upTo = Len(g))

Entries == [line : Seq(Int), upTo : 0..MaxStream]

LineType ==
    /\ given \in Seq(Byte) /\ Len(given) <= MaxStream
    /\ pending \in Seq(Byte) /\ partial \in Seq(Byte)
    /\ log \in Seq(Entries) /\ ended \in BOOLEAN

LineInv ==
    /\ Start + Len(partial) + Len(pending) = Len(given)
    /\ StandsAt(partial, given, Start) /\ StandsAt(pending, given, Start + Len(partial))
    /\ Output!Newlines(partial) = {} /\ Len(partial) < MaxPartial
    /\ ended => partial = <<>> /\ pending = <<>>
    /\ \A n \in 1..Len(log) : EntryOK(log[n], given, Output!Before(n), ended)

HistoryType ==
    /\ DOMAIN history = {"lines", "head", "len"}
    /\ history.lines \in [0..MaxLines - 1 -> Seq(Int)]
    /\ history.head \in 0..MaxLines - 1 /\ history.len \in 0..MaxLines

HistoryInv ==
    /\ history.len = IF Len(log) < MaxLines THEN Len(log) ELSE MaxLines
    /\ history.len < MaxLines => history.head = 0
    /\ \A i \in 0..history.len - 1 :
         history.lines[Wrap(history.head + i, MaxLines)]
            = log[Len(log) - history.len + i + 1].line

\* A byte is a number.
LEMMA BytesAreNumbers == \A s \in Seq(Byte) : s \in Seq(Int)
<1>1. Byte \subseteq Int
  BY OutputBounds DEF Byte
<1> QED BY <1>1, SeqMonotonic

\* Two pieces that stand one after the other stand there as one.
LEMMA StandsConcat ==
    ASSUME NEW s \in Seq(Byte), NEW t \in Seq(Byte), NEW g \in Seq(Byte), NEW a \in Nat,
           StandsAt(s, g, a), StandsAt(t, g, a + Len(s))
    PROVE  StandsAt(s \o t, g, a)
<1>1. Len(s) \in Nat /\ Len(t) \in Nat
  BY LenProperties
<1>2. Len(s \o t) = Len(s) + Len(t)
  BY ConcatProperties
<1>3. ASSUME NEW i \in 1..Len(s) + Len(t) PROVE g[a + i] = (s \o t)[i]
  <2>1. (s \o t)[i] = IF i <= Len(s) THEN s[i] ELSE t[i - Len(s)]
    BY ConcatProperties
  <2>2. CASE i <= Len(s)
    BY <1>1, <2>1, <2>2 DEF StandsAt
  <2>3. CASE ~(i <= Len(s))
    <3>1. i - Len(s) \in 1..Len(t) /\ a + i = a + Len(s) + (i - Len(s))
      BY <1>1, <2>3
    <3> QED BY <2>1, <2>3, <3>1 DEF StandsAt
  <2> QED BY <2>2, <2>3
<1>4. a + Len(s) + Len(t) <= Len(g)
  BY DEF StandsAt
<1> QED BY <1>1, <1>2, <1>3, <1>4 DEF StandsAt

\* Nor does a newline appear where two pieces meet.
LEMMA NewlinesConcat ==
    ASSUME NEW s \in Seq(Byte), NEW t \in Seq(Byte),
           Output!Newlines(s) = {}, Output!Newlines(t) = {}
    PROVE  Output!Newlines(s \o t) = {}
<1>1. Len(s) \in Nat /\ Len(t) \in Nat
  BY LenProperties
<1>2. /\ \A i \in 1..Len(s) : s[i] # Output!Newline
      /\ \A i \in 1..Len(t) : t[i] # Output!Newline
  BY DEF Output!Newlines
<1>3. ASSUME NEW i \in 1..Len(s) + Len(t) PROVE (s \o t)[i] # Output!Newline
  <2>1. (s \o t)[i] = IF i <= Len(s) THEN s[i] ELSE t[i - Len(s)]
    BY ConcatProperties
  <2>2. i <= Len(s) => i \in 1..Len(s)
    BY <1>1
  <2>3. ~(i <= Len(s)) => i - Len(s) \in 1..Len(t)
    BY <1>1
  <2> QED BY <1>2, <2>1, <2>2, <2>3
<1>4. Len(s \o t) = Len(s) + Len(t)
  BY ConcatProperties
<1> QED BY <1>3, <1>4 DEF Output!Newlines

\* What stands somewhere is the bytes from there on.
LEMMA StandsBytes ==
    ASSUME NEW s \in Seq(Int), NEW g \in Seq(Byte), NEW a \in Nat, StandsAt(s, g, a)
    PROVE  SubSeq(g, a + 1, a + Len(s)) = s
<1>1. Len(s) \in Nat /\ g \in Seq(Int) /\ Len(g) \in Nat /\ a + Len(s) <= Len(g)
  BY LenProperties, BytesAreNumbers DEF StandsAt
<1> DEFINE f == a + 1
           l == a + Len(s)
<1>2. f \in Int /\ l \in Int /\ l - f + 1 = Len(s) /\ \A i \in f..l : i \in 1..Len(g)
  BY <1>1
<1>3. \A i \in f..l : g[i] \in Int
  BY <1>1, <1>2, ElementOfSeq
<1>4. \A i \in 1..Len(s) : f + i - 1 = a + i
  OBVIOUS
<1>5. Len(s) = 0 <=> ~(f <= l)
  BY <1>1
<1> HIDE DEF f, l
<1>6. /\ SubSeq(g, f, l) \in Seq(Int)
      /\ Len(SubSeq(g, f, l)) = IF f <= l THEN l - f + 1 ELSE 0
      /\ \A i \in 1..l - f + 1 : SubSeq(g, f, l)[i] = g[f + i - 1]
  BY <1>2, <1>3, SubSeqProperties
<1>7. Len(SubSeq(g, f, l)) = Len(s)
  BY <1>2, <1>5, <1>6
<1>8. \A i \in 1..Len(s) : SubSeq(g, f, l)[i] = s[i]
  BY <1>2, <1>4, <1>6 DEF StandsAt
<1> HIDE DEF StandsAt
<1>9. SubSeq(g, f, l) = s
  BY <1>6, <1>7, <1>8, SeqEqual
<1> QED BY <1>9 DEF f, l

\* Before the k-th byte of a piece, and after it.
LEMMA StandsParts ==
    ASSUME NEW s \in Seq(Byte), NEW g \in Seq(Byte), NEW a \in Nat, StandsAt(s, g, a),
           NEW k \in 1..Len(s)
    PROVE  /\ SubSeq(s, 1, k - 1) \in Seq(Byte) /\ Len(SubSeq(s, 1, k - 1)) = k - 1
           /\ \A i \in 1..k - 1 : SubSeq(s, 1, k - 1)[i] = s[i]
           /\ StandsAt(SubSeq(s, 1, k - 1), g, a)
           /\ SubSeq(s, k + 1, Len(s)) \in Seq(Byte)
           /\ Len(SubSeq(s, k + 1, Len(s))) = Len(s) - k
           /\ StandsAt(SubSeq(s, k + 1, Len(s)), g, a + k)
<1> DEFINE l == k - 1
           f == k + 1
           n == Len(s)
<1>1. n \in Nat /\ l \in Nat /\ f \in Nat /\ l <= n /\ a + n <= Len(g) /\ Len(g) \in Nat
  BY LenProperties DEF StandsAt
<1>2. /\ \A i \in 1..n : s[i] \in Byte
      /\ \A i \in 1..l : i \in 1..n
      /\ \A i \in f..n : i \in 1..n
      /\ l - 1 + 1 = l /\ n - f + 1 = n - k
      /\ (l = 0 <=> ~(1 <= l)) /\ (n - k = 0 <=> ~(f <= n))
      /\ \A i \in 1..l : 1 + i - 1 = i
      /\ \A i \in 1..n - k : f + i - 1 = k + i /\ k + i \in 1..n
  BY <1>1, ElementOfSeq
<1> HIDE DEF l, f
<1>3. /\ SubSeq(s, 1, l) \in Seq(Byte)
      /\ Len(SubSeq(s, 1, l)) = IF 1 <= l THEN l - 1 + 1 ELSE 0
      /\ \A i \in 1..l - 1 + 1 : SubSeq(s, 1, l)[i] = s[1 + i - 1]
  BY <1>1, <1>2, SubSeqProperties
<1>4. /\ SubSeq(s, f, n) \in Seq(Byte)
      /\ Len(SubSeq(s, f, n)) = IF f <= n THEN n - f + 1 ELSE 0
      /\ \A i \in 1..n - f + 1 : SubSeq(s, f, n)[i] = s[f + i - 1]
  BY <1>1, <1>2, SubSeqProperties
<1> DEFINE before == SubSeq(s, 1, l)
           after == SubSeq(s, f, n)
<1>5. before \in Seq(Byte) /\ Len(before) = l /\ \A i \in 1..l : before[i] = s[i]
  BY <1>2, <1>3
<1>6. after \in Seq(Byte) /\ Len(after) = n - k /\ \A i \in 1..n - k : after[i] = s[k + i]
  BY SMTT(30), <1>2, <1>4
<1> HIDE DEF before, after
<1>7. \A i \in 1..n : g[a + i] = s[i]
  BY DEF StandsAt
<1>8. StandsAt(before, g, a)
  <2>1. a + l <= Len(g)
    BY <1>1
  <2>2. \A i \in 1..l : g[a + i] = before[i]
    BY <1>2, <1>5, <1>7
  <2> QED BY <1>5, <2>1, <2>2 DEF StandsAt
<1>9. StandsAt(after, g, a + k)
  <2>1. a + k + (n - k) <= Len(g)
    BY <1>1
  <2>2. ASSUME NEW i \in 1..n - k PROVE g[a + k + i] = after[i]
    <3>1. k + i \in 1..n /\ a + (k + i) = a + k + i
      BY <1>1
    <3> QED BY <1>6, <1>7, <3>1
  <2> QED BY <1>6, <2>1, <2>2 DEF StandsAt
<1> QED BY <1>5, <1>6, <1>8, <1>9 DEF before, after, l, f

\* An entry stays what it is when more is written after it.
LEMMA EntryStays ==
    ASSUME NEW e \in Entries, NEW g \in Seq(Byte), NEW h \in Seq(Byte), NEW a \in Nat,
           NEW over, NEW overNow, EntryOK(e, g, a, over),
           Len(g) <= Len(h), \A i \in 1..Len(g) : h[i] = g[i],
           over => overNow /\ Len(h) = Len(g)
    PROVE  EntryOK(e, h, a, overNow)
<1>1. Len(g) \in Nat /\ Len(h) \in Nat /\ Len(e.line) \in Nat /\ e.upTo \in Nat
  BY OutputBounds, LenProperties DEF Entries
<1>2. StandsAt(e.line, g, a) => StandsAt(e.line, h, a)
  BY <1>1 DEF StandsAt
<1>3. e.upTo = a + Len(e.line) + 1 /\ e.upTo <= Len(g) => h[e.upTo] = g[e.upTo]
  BY <1>1
<1>4. e.upTo <= Len(g) => e.upTo <= Len(h)
  BY <1>1
<1>5. a <= Len(g) => a <= Len(h)
  BY <1>1
<1> QED BY <1>2, <1>3, <1>4, <1>5 DEF EntryOK

\* A delivery adds its entry after the others and moves none of them.
LEMMA EntryAdded ==
    ASSUME LineType, NEW e \in Entries, log' = Append(log, e)
    PROVE  /\ log' \in Seq(Entries) /\ Len(log) \in Nat /\ Len(log') = Len(log) + 1
           /\ \A n \in 1..Len(log) : log'[n] = log[n]
           /\ log'[Len(log) + 1] = e
           /\ \A n \in 1..Len(log) + 1 : Output!Before(n)' = Output!Before(n)
           /\ Start' = e.upTo
<1> DEFINE l == Len(log)
<1>1. /\ log' \in Seq(Entries) /\ l \in Nat /\ Len(log') = l + 1
      /\ \A n \in 1..l : log'[n] = log[n]
      /\ log'[l + 1] = e
  BY LenProperties, AppendProperties DEF LineType
<1>2. ASSUME NEW n \in 1..l + 1
      PROVE  Output!Before(n)' = Output!Before(n)
  <2>1. n = 1 \/ n - 1 \in 1..l
    BY <1>1
  <2> QED BY <1>1, <2>1 DEF Output!Before
<1>3. Start' = e.upTo
  <2>1. l + 1 + 1 # 1 /\ l + 1 + 1 - 1 = l + 1
    BY <1>1
  <2>2. Start' = log'[l + 1 + 1 - 1].upTo
    BY <1>1, <2>1 DEF Start, Output!Before
  <2> QED BY <1>1, <2>1, <2>2
<1> QED BY <1>1, <1>2, <1>3

\* The place where an entry starts is a number.
LEMMA BeforeIsNumber ==
    ASSUME LineType, NEW n \in 1..Len(log) + 1
    PROVE  Output!Before(n) \in Nat
<1>1. Len(log) \in Nat
  BY LenProperties DEF LineType
<1>2. n = 1 \/ n - 1 \in 1..Len(log)
  BY <1>1
<1>3. \A k \in 1..Len(log) : log[k].upTo \in Nat
  <2>1. \A k \in 1..Len(log) : log[k] \in Entries
    BY ElementOfSeq DEF LineType
  <2> QED BY <2>1, OutputBounds DEF Entries
<1> QED BY <1>2, <1>3 DEF Output!Before

\* After a delivery all entries are right if the new one is.
LEMMA EntriesFollow ==
    ASSUME LineType, LineInv, NEW e \in Entries, log' = Append(log, e), given' = given,
           ended => ended', EntryOK(e, given, Start, ended')
    PROVE  /\ log' \in Seq(Entries) /\ Start' = e.upTo
           /\ \A n \in 1..Len(log') : EntryOK(log'[n], given', Output!Before(n)', ended')
<1>1. /\ log' \in Seq(Entries) /\ Len(log) \in Nat /\ Len(log') = Len(log) + 1
      /\ \A n \in 1..Len(log) : log'[n] = log[n]
      /\ log'[Len(log) + 1] = e
      /\ \A n \in 1..Len(log) + 1 : Output!Before(n)' = Output!Before(n)
      /\ Start' = e.upTo
  BY EntryAdded
<1>2. ASSUME NEW n \in 1..Len(log')
      PROVE  EntryOK(log'[n], given', Output!Before(n)', ended')
  <2>1. n \in 1..Len(log) \/ n = Len(log) + 1
    BY <1>1
  <2>2. CASE n \in 1..Len(log)
    <3>1. EntryOK(log[n], given, Output!Before(n), ended)
      BY <2>2 DEF LineInv
    <3>2. log[n] \in Entries /\ given \in Seq(Byte) /\ Len(given) \in Nat
      BY <2>2, ElementOfSeq, LenProperties DEF LineType
    <3>3. Output!Before(n) \in Nat
      BY <1>1, <2>2, n \in 1..Len(log) + 1, BeforeIsNumber
    <3>4. EntryOK(log[n], given, Output!Before(n), ended')
      BY <3>1, <3>2, <3>3, EntryStays
    <3>5. n \in 1..Len(log) + 1
      BY <1>1, <2>2
    <3> QED BY <1>1, <2>2, <3>4, <3>5
  <2>3. CASE n = Len(log) + 1
    <3>1. Output!Before(n)' = Output!Before(n) /\ log'[n] = e
      BY <1>1, <2>3
    <3>2. Output!Before(n) = Start
      BY <2>3 DEF Start
    <3> QED BY <3>1, <3>2
  <2> QED BY <2>1, <2>2, <2>3
<1> QED BY <1>1, <1>2

\* Sizes and types that every step needs.
LEMMA LineFacts ==
    ASSUME LineType, LineInv
    PROVE  /\ Len(given) \in Nat /\ Len(given) <= MaxStream
           /\ Len(pending) \in Nat /\ Len(partial) \in Nat /\ Len(log) \in Nat
           /\ Start \in Nat /\ Start <= Len(given)
           /\ given \in Seq(Byte) /\ pending \in Seq(Byte) /\ partial \in Seq(Byte)
<1>1. /\ Len(given) \in Nat /\ Len(pending) \in Nat /\ Len(partial) \in Nat /\ Len(log) \in Nat
      /\ given \in Seq(Byte) /\ pending \in Seq(Byte) /\ partial \in Seq(Byte)
      /\ Len(given) <= MaxStream
  BY LenProperties DEF LineType
<1>2. Start \in Nat
  <2>1. Len(log) + 1 \in 1..Len(log) + 1
    BY <1>1
  <2> QED BY <2>1, BeforeIsNumber DEF Start
<1>3. Start <= Len(given)
  BY <1>1, <1>2 DEF LineInv
<1> QED BY <1>1, <1>2, <1>3

\* Nothing in progress stands anywhere.
LEMMA EmptyStands ==
    ASSUME NEW g \in Seq(Byte), NEW a \in Nat, a <= Len(g)
    PROVE  /\ StandsAt(<<>>, g, a) /\ <<>> \in Seq(Byte) /\ Len(<<>>) = 0
           /\ Output!Newlines(<<>>) = {}
<1>1. <<>> \in Seq(Byte) /\ Len(<<>>) = 0
  BY EmptySeq
<1>2. 1..0 = {}
  OBVIOUS
<1> QED BY <1>1, <1>2, LenProperties DEF StandsAt, Output!Newlines

\* The bytes of a new write are yet to be cut.
LEMMA WriteLines ==
    ASSUME LineType, LineInv, NEW p \in Output!NextBytes, Output!Write(p),
           p \in Seq(Byte), Len(p) \in 1..MaxStream - Len(given)
    PROVE  LineType' /\ LineInv'
<1>1. /\ ended = FALSE /\ pending = <<>> /\ given' = given \o p /\ pending' = p
      /\ UNCHANGED <<partial, ended, log>>
  BY DEF Output!Write, LineType
<1>2. /\ Len(given) \in Nat /\ Len(partial) \in Nat /\ Len(log) \in Nat /\ Start \in Nat
      /\ Start <= Len(given) /\ given \in Seq(Byte) /\ partial \in Seq(Byte)
      /\ Len(pending) = 0 /\ Len(p) \in Nat
  BY <1>1, LineFacts, EmptySeq, LenProperties
<1>3. /\ given' \in Seq(Byte) /\ Len(given') = Len(given) + Len(p)
      /\ \A i \in 1..Len(given) + Len(p) :
           given'[i] = IF i <= Len(given) THEN given[i] ELSE p[i - Len(given)]
  BY <1>1, <1>2, ConcatProperties
<1>4. \A i \in 1..Len(given) : given'[i] = given[i]
  BY <1>2, <1>3
<1>5. Start' = Start /\ \A n : Output!Before(n)' = Output!Before(n)
  BY <1>1 DEF Start, Output!Before
<1>6. Start + Len(partial) = Len(given)
  BY <1>2 DEF LineInv
<1>7. LineType'
  <2>1. Len(given') <= MaxStream
    BY <1>2, <1>3, OutputBounds
  <2> QED BY <1>1, <1>3, <2>1 DEF LineType
<1>8. StandsAt(partial, given', Start)
  <2>1. StandsAt(partial, given, Start)
    BY DEF LineInv
  <2>2. \A i \in 1..Len(partial) : Start + i \in 1..Len(given)
    BY <1>2, <1>6
  <2>3. Start + Len(partial) <= Len(given')
    BY <1>2, <1>3, <1>6
  <2> QED BY <1>4, <2>1, <2>2, <2>3 DEF StandsAt
<1>9. StandsAt(p, given', Len(given))
  <2>1. ASSUME NEW i \in 1..Len(p) PROVE given'[Len(given) + i] = p[i]
    <3>1. /\ Len(given) + i \in 1..Len(given) + Len(p) /\ ~(Len(given) + i <= Len(given))
          /\ Len(given) + i - Len(given) = i
      BY <1>2
    <3> QED BY <1>3, <3>1
  <2>2. Len(given) + Len(p) <= Len(given')
    BY <1>2, <1>3
  <2> QED BY <2>1, <2>2 DEF StandsAt
<1>10. ASSUME NEW n \in 1..Len(log)
       PROVE  EntryOK(log[n], given', Output!Before(n), ended)
  <2>1. EntryOK(log[n], given, Output!Before(n), ended)
    BY DEF LineInv
  <2>2. log[n] \in Entries
    BY ElementOfSeq DEF LineType
  <2>3. Output!Before(n) \in Nat
    BY <1>2, n \in 1..Len(log) + 1, BeforeIsNumber
  <2>4. Len(given) <= Len(given')
    BY <1>2, <1>3
  <2> QED BY <1>1, <1>2, <1>3, <1>4, <2>1, <2>2, <2>3, <2>4, EntryStays
<1>11. Start' + Len(partial') + Len(pending') = Len(given')
  BY <1>1, <1>2, <1>3, <1>5, <1>6
<1>12. StandsAt(partial', given', Start') /\ StandsAt(pending', given', Start' + Len(partial'))
  BY <1>1, <1>5, <1>6, <1>8, <1>9
<1>13. /\ Output!Newlines(partial)' = {} /\ (Len(partial) < MaxPartial)'
       /\ ~ended'
  BY <1>1 DEF LineInv, Output!Newlines
<1>14. \A n \in 1..Len(log') : EntryOK(log'[n], given', Output!Before(n)', ended')
  BY <1>1, <1>5, <1>10
<1> QED BY <1>7, <1>11, <1>12, <1>13, <1>14 DEF LineInv

\* What a delivered piece of the stream needs, whichever step delivers it: the
\* entry is right, and what is left of partial and pending follows it.
LEMMA DeliverLines ==
    ASSUME LineType, LineInv, NEW line \in Seq(Int), NEW n \in 0..Len(given),
           Output!Deliver(line, n), given' = given,
           EntryOK([line |-> line, upTo |-> n], given, Start, ended'),
           ended' \in BOOLEAN, ended => ended', ended' => pending' = <<>>,
           partial' = <<>>, pending' \in Seq(Byte), n + Len(pending') = Len(given),
           StandsAt(pending', given, n)
    PROVE  LineType' /\ LineInv'
<1> DEFINE e == [line |-> line, upTo |-> n]
<1>1. Len(given) \in Nat /\ Len(given) <= MaxStream /\ given \in Seq(Byte)
  BY LineFacts
<1>2. e \in Entries
  BY <1>1, OutputBounds DEF Entries
<1>3. log' = Append(log, e)
  BY DEF Output!Deliver
<1> HIDE DEF e
<1>4. /\ log' \in Seq(Entries) /\ Start' = e.upTo
      /\ \A k \in 1..Len(log') : EntryOK(log'[k], given', Output!Before(k)', ended')
  BY <1>2, <1>3, EntriesFollow DEF e
<1>5. Start' = n /\ n \in Nat
  BY <1>1, <1>4 DEF e
<1>6. /\ StandsAt(<<>>, given, n) /\ <<>> \in Seq(Byte) /\ Len(<<>>) = 0
      /\ Output!Newlines(<<>>) = {}
  BY <1>1, <1>5, EmptyStands
<1>7. LineType'
  BY <1>1, <1>4, <1>6 DEF LineType
<1>8. Start' + Len(partial') = n
  BY <1>5, <1>6
<1>9. (Output!Newlines(partial) = {})' /\ Len(partial') < MaxPartial
  BY <1>6, OutputBounds DEF Output!Newlines
<1>10. StandsAt(partial', given', Start') /\ StandsAt(pending', given', Start' + Len(partial'))
  BY <1>5, <1>6, <1>8
<1>11. Start' + Len(partial') + Len(pending') = Len(given')
  BY <1>8
<1> QED BY <1>4, <1>7, <1>9, <1>10, <1>11 DEF LineInv

\* A line is cut at the first newline of what is pending.
LEMMA CutLines ==
    ASSUME LineType, LineInv, Output!CutLine
    PROVE  LineType' /\ LineInv'
<1>1. PICK k \in Output!Newlines(pending) :
        /\ \A i \in Output!Newlines(pending) : k <= i
        /\ Output!Deliver(partial \o SubSeq(pending, 1, k - 1), Len(given) - Len(pending) + k)
        /\ pending' = SubSeq(pending, k + 1, Len(pending)) /\ partial' = <<>>
        /\ UNCHANGED <<ended, given>>
  BY DEF Output!CutLine
<1>2. /\ Len(given) \in Nat /\ Len(pending) \in Nat /\ Len(partial) \in Nat /\ Start \in Nat
      /\ given \in Seq(Byte) /\ pending \in Seq(Byte) /\ partial \in Seq(Byte)
      /\ Start + Len(partial) + Len(pending) = Len(given)
  BY LineFacts DEF LineInv
<1>3. k \in 1..Len(pending) /\ pending[k] = Output!Newline
  BY <1>1 DEF Output!Newlines
<1> DEFINE a == Start + Len(partial)
           first == SubSeq(pending, 1, k - 1)
           rest == SubSeq(pending, k + 1, Len(pending))
           line == partial \o first
           n == Len(given) - Len(pending) + k
<1>4. a \in Nat /\ StandsAt(partial, given, Start) /\ StandsAt(pending, given, a)
  BY <1>2 DEF LineInv
<1>5. /\ first \in Seq(Byte) /\ Len(first) = k - 1
      /\ \A i \in 1..k - 1 : first[i] = pending[i]
      /\ StandsAt(first, given, a)
      /\ rest \in Seq(Byte) /\ Len(rest) = Len(pending) - k /\ StandsAt(rest, given, a + k)
  BY <1>2, <1>3, <1>4, StandsParts
<1> HIDE DEF first, rest
<1>6. Output!Newlines(first) = {}
  <2>1. ASSUME NEW i \in 1..k - 1 PROVE first[i] # Output!Newline
    <3>1. i \in 1..Len(pending) /\ ~(k <= i)
      BY <1>2, <1>3
    <3>2. i \notin Output!Newlines(pending)
      BY <1>1, <3>1
    <3> QED BY <1>5, <3>1, <3>2 DEF Output!Newlines
  <2> QED BY <1>5, <2>1 DEF Output!Newlines
<1>7. /\ line \in Seq(Byte) /\ Len(line) = Len(partial) + Len(first)
      /\ StandsAt(line, given, Start) /\ Output!Newlines(line) = {}
  BY ZenonT(60), <1>2, <1>4, <1>5, <1>6, StandsConcat, NewlinesConcat, ConcatProperties
     DEF LineInv
<1> HIDE DEF line
<1>8. n = a + k /\ n \in 0..Len(given) /\ n = Start + Len(line) + 1
  <2>1. n = a + k /\ n \in 0..Len(given)
    BY SMTT(30), <1>2, <1>3
  <2>2. Len(line) = Len(partial) + (k - 1)
    BY <1>5, <1>7
  <2>3. a + k = Start + (Len(partial) + (k - 1)) + 1
    BY <1>2, <1>3
  <2> HIDE DEF a, n
  <2> QED BY <2>1, <2>2, <2>3
<1>9. given[n] = Output!Newline
  BY <1>3, <1>4, <1>8 DEF StandsAt
<1>10. line \in Seq(Int)
  BY <1>7, BytesAreNumbers
<1>11. ended = FALSE
  BY <1>2, <1>3, EmptySeq DEF LineInv, LineType
<1> HIDE DEF n
<1>12. EntryOK([line |-> line, upTo |-> n], given, Start, ended')
  BY <1>7, <1>8, <1>9 DEF EntryOK
<1>13. Output!Deliver(line, n) /\ pending' = rest /\ partial' = <<>> /\ given' = given
         /\ ended' = FALSE
  BY <1>1, <1>11 DEF line, n, first, rest
<1>14. n + Len(rest) = Len(given) /\ StandsAt(rest, given, n)
  <2>1. Len(given) - Len(pending) + k + (Len(pending) - k) = Len(given)
    BY <1>2, <1>3
  <2>2. n + Len(rest) = Len(given)
    BY <1>5, <2>1 DEF n
  <2> HIDE DEF a
  <2> QED BY <1>5, <1>8, <2>2
<1> QED BY <1>5, <1>8, <1>10, <1>11, <1>12, <1>13, <1>14, DeliverLines

\* What has no newline is kept, or delivered when it has reached the limit.
LEMMA KeepLines ==
    ASSUME LineType, LineInv, Output!KeepPartial
    PROVE  LineType' /\ LineInv'
<1> DEFINE line == partial \o pending
<1>1. /\ pending # <<>> /\ Output!Newlines(pending) = {}
      /\ IF Len(line) >= MaxPartial
         THEN Output!Deliver(line, Len(given)) /\ partial' = <<>>
         ELSE partial' = line /\ log' = log
      /\ pending' = <<>> /\ UNCHANGED <<ended, given>>
  BY DEF Output!KeepPartial
<1>2. /\ Len(given) \in Nat /\ Len(pending) \in Nat /\ Len(partial) \in Nat /\ Start \in Nat
      /\ given \in Seq(Byte) /\ pending \in Seq(Byte) /\ partial \in Seq(Byte)
      /\ Start + Len(partial) + Len(pending) = Len(given)
  BY LineFacts DEF LineInv
<1>3. /\ line \in Seq(Byte) /\ Len(line) = Len(partial) + Len(pending)
      /\ StandsAt(line, given, Start) /\ Output!Newlines(line) = {}
  BY ZenonT(60), <1>1, <1>2, StandsConcat, NewlinesConcat, ConcatProperties DEF LineInv
<1>4. ended = FALSE /\ ended' = FALSE
  BY <1>1 DEF LineInv, LineType
<1>5. Start + Len(line) = Len(given)
  BY <1>2, <1>3
<1>6. /\ StandsAt(<<>>, given, Len(given)) /\ <<>> \in Seq(Byte) /\ Len(<<>>) = 0
  BY <1>2, EmptyStands
<1> HIDE DEF line
<1>7. CASE Len(line) >= MaxPartial
  <2>1. EntryOK([line |-> line, upTo |-> Len(given)], given, Start, ended')
    <3>1. Len(line) > 0
      <4>1. Len(line) \in Nat /\ MaxPartial \in Nat \ {0}
        BY <1>3, OutputBounds, LenProperties
      <4> QED BY <1>7, <4>1
    <3>2. Len(given) <= Len(given)
      BY <1>2
    <3> DEFINE e == [line |-> line, upTo |-> Len(given)]
    <3>3. e.line = line /\ e.upTo = Len(given) /\ e.upTo = Start + Len(line)
      BY <1>5
    <3> HIDE DEF e
    <3>4. EntryOK(e, given, Start, ended')
      BY <1>3, <1>7, <3>1, <3>2, <3>3 DEF EntryOK
    <3> QED BY <3>4 DEF e
  <2>2. line \in Seq(Int)
    BY <1>3, BytesAreNumbers
  <2>3. Len(given) \in 0..Len(given) /\ Len(given) + 0 = Len(given)
    BY <1>2
  <2> QED BY <1>1, <1>4, <1>6, <1>7, <2>1, <2>2, <2>3, DeliverLines
<1>8. CASE ~(Len(line) >= MaxPartial)
  <2>1. partial' = line /\ log' = log /\ pending' = <<>> /\ given' = given /\ ended' = ended
    BY <1>1, <1>8
  <2>2. Start' = Start /\ \A n : Output!Before(n)' = Output!Before(n)
    BY <2>1 DEF Start, Output!Before
  <2>3. LineType'
    BY <1>3, <1>6, <2>1 DEF LineType
  <2>4. Start' + Len(partial') = Len(given')
    BY <1>5, <2>1, <2>2
  <2>5. Start' + Len(partial') + Len(pending') = Len(given')
    BY <1>2, <1>6, <2>1, <2>4
  <2>6. StandsAt(partial', given', Start') /\ StandsAt(pending', given', Start' + Len(partial'))
    BY <1>3, <1>6, <2>1, <2>2, <2>4
  <2>7. (Output!Newlines(partial) = {})' /\ Len(partial') < MaxPartial
    BY <1>2, <1>3, <1>8, <2>1, OutputBounds DEF Output!Newlines
  <2>8. \A n \in 1..Len(log') : EntryOK(log'[n], given', Output!Before(n)', ended')
    BY <2>1, <2>2 DEF LineInv
  <2> QED BY <1>4, <2>3, <2>5, <2>6, <2>7, <2>8 DEF LineInv
<1> QED BY <1>7, <1>8

\* What is in progress is delivered when the stream is over.
LEMMA FlushLines ==
    ASSUME LineType, LineInv, Output!Flush
    PROVE  LineType' /\ LineInv'
<1>1. /\ pending = <<>> /\ ended' = TRUE /\ partial' = <<>>
      /\ IF partial = <<>> THEN log' = log ELSE Output!Deliver(partial, Len(given))
      /\ UNCHANGED <<pending, given>>
  BY DEF Output!Flush
<1>2. /\ Len(given) \in Nat /\ Len(partial) \in Nat /\ Start \in Nat /\ Len(log) \in Nat
      /\ given \in Seq(Byte) /\ partial \in Seq(Byte)
      /\ Start + Len(partial) + Len(pending) = Len(given)
  BY LineFacts DEF LineInv
<1>3. StandsAt(<<>>, given, Len(given)) /\ <<>> \in Seq(Byte) /\ Len(<<>>) = 0
  BY <1>2, EmptyStands
<1>4. Start + Len(partial) = Len(given)
  BY <1>1, <1>2, <1>3
<1>5. CASE partial = <<>>
  <2>1. UNCHANGED <<partial, pending, given, log>>
    BY <1>1, <1>5
  <2>2. Start' = Start /\ \A n : Output!Before(n)' = Output!Before(n)
    BY <2>1 DEF Start, Output!Before
  <2>3. LineType'
    BY <1>1, <2>1 DEF LineType
  <2>4. ASSUME NEW n \in 1..Len(log)
        PROVE  EntryOK(log[n], given, Output!Before(n), TRUE)
    <3>1. EntryOK(log[n], given, Output!Before(n), ended)
      BY DEF LineInv
    <3>2. log[n] \in Entries
      BY ElementOfSeq DEF LineType
    <3>3. Output!Before(n) \in Nat
      BY <1>2, n \in 1..Len(log) + 1, BeforeIsNumber
    <3>4. Len(given) <= Len(given)
      BY <1>2
    <3> QED BY <1>2, <3>1, <3>2, <3>3, <3>4, EntryStays
  <2>5. \A n \in 1..Len(log') : EntryOK(log'[n], given', Output!Before(n)', ended')
    BY <1>1, <2>1, <2>2, <2>4
  <2>6. /\ Start' + Len(partial') + Len(pending') = Len(given')
        /\ StandsAt(partial', given', Start')
        /\ StandsAt(pending', given', Start' + Len(partial'))
        /\ Output!Newlines(partial)' = {} /\ Len(partial') < MaxPartial
    BY <2>1, <2>2 DEF LineInv, Output!Newlines
  <2> QED BY <1>1, <2>1, <2>3, <2>5, <2>6 DEF LineInv
<1>6. CASE partial # <<>>
  <2>1. Output!Deliver(partial, Len(given)) /\ partial \in Seq(Int)
    BY <1>1, <1>2, <1>6, BytesAreNumbers
  <2>2. EntryOK([line |-> partial, upTo |-> Len(given)], given, Start, ended')
    <3>1. Len(partial) > 0
      BY <1>2, <1>6, EmptySeq
    <3> QED BY <1>1, <1>2, <1>4, <3>1 DEF EntryOK, LineInv
  <2>3. Len(given) \in 0..Len(given) /\ Len(given) + 0 = Len(given)
    BY <1>2
  <2> QED BY <1>1, <1>3, <2>1, <2>2, <2>3, DeliverLines
<1> QED BY <1>5, <1>6

\* A marker takes no byte.
LEMMA MarkLines ==
    ASSUME LineType, LineInv, Output!AddRestartMarker
    PROVE  LineType' /\ LineInv'
<1> DEFINE e == [line |-> Output!RestartMarker, upTo |-> Start]
<1>1. log' = Append(log, e) /\ UNCHANGED <<pending, partial, ended, given>>
  BY DEF Output!AddRestartMarker, Output!Deliver, Start
<1>2. Start \in Nat /\ Start <= Len(given) /\ Len(given) \in Nat /\ Len(given) <= MaxStream
  BY LineFacts
<1>3. e \in Entries
  <2>1. Output!RestartMarker \in Seq(Int)
    BY DEF Output!RestartMarker
  <2> QED BY <1>2, <2>1, OutputBounds DEF Entries
<1>4. EntryOK(e, given, Start, ended')
  BY <1>2 DEF EntryOK
<1> HIDE DEF e
<1>5. /\ log' \in Seq(Entries) /\ Start' = e.upTo
      /\ \A n \in 1..Len(log') : EntryOK(log'[n], given', Output!Before(n)', ended')
  BY <1>1, <1>3, <1>4, EntriesFollow
<1>6. Start' = Start
  BY <1>5 DEF e
<1>7. LineType'
  BY <1>1, <1>5 DEF LineType
<1>8. /\ Start' + Len(partial') + Len(pending') = Len(given')
      /\ StandsAt(partial', given', Start')
      /\ StandsAt(pending', given', Start' + Len(partial'))
      /\ Output!Newlines(partial)' = {} /\ Len(partial') < MaxPartial
      /\ ended' => partial' = <<>> /\ pending' = <<>>
  BY <1>1, <1>6 DEF LineInv, Output!Newlines
<1> QED BY <1>5, <1>7, <1>8 DEF LineInv

\* Every step keeps the lines right.
LEMMA LineStep ==
    ASSUME RingType, LineType, LineInv, [Output!Next]_(Output!vars)
    PROVE  LineType' /\ LineInv'
<1>1. ASSUME UNCHANGED <<pending, partial, ended, given, log>>
      PROVE  LineType' /\ LineInv'
  <2>1. Start' = Start /\ \A n : Output!Before(n)' = Output!Before(n)
    BY <1>1 DEF Start, Output!Before
  <2>2. LineType'
    BY <1>1 DEF LineType
  <2>3. LineInv'
    BY <1>1, <2>1 DEF LineInv, Output!Newlines
  <2> QED BY <2>2, <2>3
<1>2. ASSUME NEW p \in Output!NextBytes, Output!Write(p) PROVE LineType' /\ LineInv'
  BY <1>2, NextBytesType, WriteLines
<1> QED
  BY <1>1, <1>2, CutLines, KeepLines, FlushLines, MarkLines
     DEF Output!Next, Output!Reset, Output!vars

\* The lines, one after the other, are the stream.
LEMMA LineInvAddsUp ==
    ASSUME LineType, LineInv
    PROVE  Output!LinesAddUp
<1>1. /\ Len(given) \in Nat /\ Len(pending) \in Nat /\ Len(partial) \in Nat /\ Len(log) \in Nat
      /\ Start \in Nat /\ given \in Seq(Byte) /\ pending \in Seq(Byte) /\ partial \in Seq(Byte)
      /\ Start + Len(partial) + Len(pending) = Len(given)
  BY LineFacts DEF LineInv
<1>2. partial \o pending = SubSeq(given, Start + 1, Len(given))
  <2> DEFINE s == partial \o pending
  <2>1. s \in Seq(Byte) /\ Len(s) = Len(partial) + Len(pending) /\ StandsAt(s, given, Start)
    BY <1>1, StandsConcat, ConcatProperties DEF LineInv
  <2>2. Start + Len(s) = Len(given)
    BY <1>1, <2>1
  <2> HIDE DEF s
  <2>3. SubSeq(given, Start + 1, Start + Len(s)) = s
    BY <1>1, <2>1, BytesAreNumbers, StandsBytes
  <2> QED BY <2>2, <2>3 DEF s
<1>3. ASSUME NEW n \in 1..Len(log)
      PROVE  LET line == log[n].line
                 bytes == SubSeq(given, Output!Before(n) + 1, log[n].upTo)
             IN  \/ line = Output!RestartMarker /\ bytes = <<>>
                 \/ /\ Output!Newlines(line) = {}
                    /\ \/ bytes = Append(line, Output!Newline)
                       \/ /\ bytes = line /\ line # <<>>
                          /\ Len(line) >= MaxPartial \/ (ended /\ log[n].upTo = Len(given))
  <2> DEFINE line == log[n].line
             u == log[n].upTo
             a == Output!Before(n)
  <2>1. log[n] \in Entries /\ EntryOK(log[n], given, a, ended)
    BY ElementOfSeq DEF LineType, LineInv
  <2>2. line \in Seq(Int) /\ Len(line) \in Nat /\ u \in Nat
    BY <2>1, OutputBounds, LenProperties DEF Entries
  <2>3. a \in Nat
    <3>1. n \in 1..Len(log) + 1
      BY <1>1
    <3> QED BY <3>1, BeforeIsNumber
  <2> HIDE DEF line, u, a
  <2>4. \/ line = Output!RestartMarker /\ u = a
        \/ /\ Output!Newlines(line) = {} /\ StandsAt(line, given, a) /\ u <= Len(given)
           /\ \/ u = a + Len(line) + 1 /\ given[u] = Output!Newline
              \/ /\ u = a + Len(line) /\ Len(line) > 0
                 /\ Len(line) >= MaxPartial \/ (ended /\ u = Len(given))
    BY <2>1 DEF EntryOK, line, u, a
  <2>5. ASSUME u = a PROVE SubSeq(given, a + 1, u) = <<>>
    <3>1. a + 1 \in Int /\ u \in Int /\ u < a + 1
      BY <2>3, <2>5
    <3> QED BY <3>1, SubSeqEmpty
  <2>6. ASSUME StandsAt(line, given, a), u <= Len(given), u = a + Len(line) + 1,
               given[u] = Output!Newline
        PROVE  SubSeq(given, a + 1, u) = Append(line, Output!Newline)
    <3> DEFINE s == Append(line, Output!Newline)
    <3>1. /\ s \in Seq(Int) /\ Len(s) = Len(line) + 1
          /\ \A i \in 1..Len(line) : s[i] = line[i]
          /\ s[Len(line) + 1] = Output!Newline
      BY <2>2, AppendProperties DEF Output!Newline
    <3> HIDE DEF s
    <3>2. ASSUME NEW i \in 1..Len(s) PROVE given[a + i] = s[i]
      <4>1. i \in 1..Len(line) \/ i = Len(line) + 1
        BY <2>2, <3>1
      <4>2. CASE i \in 1..Len(line)
        BY <2>6, <3>1, <4>2 DEF StandsAt
      <4>3. CASE i = Len(line) + 1
        <5>1. a + i = u
          BY <2>2, <2>3, <2>6, <4>3
        <5> QED BY <2>6, <3>1, <4>3, <5>1
      <4> QED BY <4>1, <4>2, <4>3
    <3>3. a + Len(s) = u
      BY <2>2, <2>3, <2>6, <3>1
    <3>4. StandsAt(s, given, a)
      BY <2>6, <3>2, <3>3 DEF StandsAt
    <3>5. SubSeq(given, a + 1, a + Len(s)) = s
      BY <1>1, <2>3, <3>1, <3>4, StandsBytes
    <3> QED BY <3>3, <3>5 DEF s
  <2>7. ASSUME StandsAt(line, given, a), u = a + Len(line)
        PROVE  SubSeq(given, a + 1, u) = line
    <3>1. SubSeq(given, a + 1, a + Len(line)) = line
      BY <1>1, <2>2, <2>3, <2>7, StandsBytes
    <3> QED BY <2>7, <3>1
  <2>8. Len(line) > 0 => line # <<>>
    BY <2>2, EmptySeq
  <2>9. \/ line = Output!RestartMarker /\ SubSeq(given, a + 1, u) = <<>>
        \/ /\ Output!Newlines(line) = {}
           /\ \/ SubSeq(given, a + 1, u) = Append(line, Output!Newline)
              \/ /\ SubSeq(given, a + 1, u) = line /\ line # <<>>
                 /\ Len(line) >= MaxPartial \/ (ended /\ u = Len(given))
    BY <2>4, <2>5, <2>6, <2>7, <2>8
  <2> QED BY <2>9 DEF line, u, a
<1>4. /\ Output!Newlines(partial) = {} /\ Len(partial) < MaxPartial
      /\ ended => partial = <<>> /\ pending = <<>>
  BY DEF LineInv
<1> QED BY <1>2, <1>3, <1>4 DEF Output!LinesAddUp, Start

-----------------------------------------------------------------------------
(***************************************************************************)
(* The history of a script.                                                *)
(***************************************************************************)
\* The history after one more line.
LEMMA HistoryAppended ==
    ASSUME LineType, HistoryType, HistoryInv, NEW line \in Seq(Int), NEW e \in Entries,
           e.line = line, log' = Append(log, e), history' = Output!Appended(history, line)
    PROVE  HistoryType' /\ HistoryInv'
<1> DEFINE M == MaxLines
           l == Len(log)
           h == history.head
           k == history.len
           w == (h + k) % M
<1>1. /\ M \in Nat /\ M > 0 /\ l \in Nat /\ h \in 0..M - 1 /\ k \in 0..M
      /\ history.lines \in [0..M - 1 -> Seq(Int)]
      /\ k = (IF l < M THEN l ELSE M) /\ (k < M => h = 0)
  BY OutputBounds, LenProperties DEF LineType, HistoryType, HistoryInv
<1>2. ASSUME NEW i \in 0..k - 1
      PROVE  history.lines[Wrap(h + i, M)] = log[l - k + i + 1].line
  BY DEF HistoryInv
<1>3. /\ history' = [lines |-> [history.lines EXCEPT ![w] = line],
                     head |-> IF k < M THEN h ELSE (h + 1) % M,
                     len |-> IF k < M THEN k + 1 ELSE k]
      /\ history'.lines = [history.lines EXCEPT ![w] = line]
      /\ history'.head = (IF k < M THEN h ELSE (h + 1) % M)
      /\ history'.len = (IF k < M THEN k + 1 ELSE k)
  BY DEF Output!Appended
<1>4. Len(log') = l + 1 /\ log'[l + 1] = e /\ \A n \in 1..l : log'[n] = log[n]
  BY EntryAdded
<1> HIDE DEF M, l, h, k, w
<1>5. w = Wrap(h + k, M)
  <2>1. k \in Nat /\ k <= M /\ M \in Nat /\ M > 0 /\ h \in 0..M - 1
    BY <1>1
  <2>2. (h + k) % M = Wrap(h + k, M)
    BY <2>1, AroundSlot
  <2> QED BY <2>2 DEF w
<1>6. (h + 1) % M = Wrap(h + 1, M)
  <2>1. 1 \in Nat /\ 1 <= M
    BY <1>1
  <2> QED BY <1>1, <2>1, AroundSlot
<1>7. w \in 0..M - 1 /\ Wrap(h + 1, M) \in 0..M - 1
  BY <1>1, <1>5 DEF Wrap
<1>8. HistoryType'
  <2>1. history'.lines \in [0..M - 1 -> Seq(Int)]
    BY <1>1, <1>3, <1>7
  <2>2. history'.head \in 0..M - 1 /\ history'.len \in 0..M
    BY <1>1, <1>3, <1>6, <1>7
  <2> QED BY <1>3, <2>1, <2>2 DEF HistoryType, M
<1>9. history'.len = (IF l + 1 < M THEN l + 1 ELSE M) /\ (history'.len < M => history'.head = 0)
  BY <1>1, <1>3
<1>10. ASSUME NEW i \in 0..history'.len - 1
       PROVE  history'.lines[Wrap(history'.head + i, M)]
                = log'[l + 1 - history'.len + i + 1].line
  <2>1. CASE k < M
    <3>1. h = 0 /\ k = l /\ history'.len = l + 1 /\ history'.head = 0 /\ w = l /\ i \in 0..l
      BY <1>1, <1>3, <1>5, <2>1 DEF Wrap
    <3>2. Wrap(history'.head + i, M) = i /\ l + 1 - history'.len + i + 1 = i + 1 /\ i \in 0..M - 1
      BY <1>1, <2>1, <3>1 DEF Wrap
    <3>3. history'.lines[i] = IF i = l THEN line ELSE history.lines[i]
      BY <1>1, <1>3, <3>1, <3>2
    <3>4. ASSUME i # l
          PROVE  history.lines[i] = log[i + 1].line /\ log'[i + 1] = log[i + 1]
      <4>1. i \in 0..k - 1 /\ i + 1 \in 1..l /\ Wrap(h + i, M) = i /\ l - k + i + 1 = i + 1
        BY <1>1, <2>1, <3>1, <3>2, <3>4 DEF Wrap
      <4> QED BY <1>2, <1>4, <4>1
    <3> QED BY ZenonT(60), <1>4, <3>2, <3>3, <3>4
  <2>2. CASE ~(k < M)
    <3>1. /\ k = M /\ l >= M /\ history'.len = M /\ history'.head = Wrap(h + 1, M)
          /\ w = h /\ i \in 0..M - 1
      BY <1>1, <1>3, <1>5, <1>6, <2>2 DEF Wrap
    <3>2. l + 1 - history'.len + i + 1 = l - M + i + 2
      BY <1>1, <3>1
    <3>3. CASE i = M - 1
      <4>1. Wrap(Wrap(h + 1, M) + i, M) = h /\ l - M + i + 2 = l + 1
        BY <1>1, <3>1, <3>3 DEF Wrap
      <4>2. history'.lines[h] = line
        BY <1>1, <1>3, <3>1
      <4> QED BY <1>4, <3>1, <3>2, <4>1, <4>2
    <3>4. CASE i # M - 1
      <4>1. /\ i + 1 \in 0..M - 1
            /\ Wrap(Wrap(h + 1, M) + i, M) = Wrap(h + (i + 1), M)
            /\ Wrap(h + (i + 1), M) # h /\ Wrap(h + (i + 1), M) \in 0..M - 1
        BY <1>1, <3>1, <3>4 DEF Wrap
      <4>2. history'.lines[Wrap(h + (i + 1), M)] = history.lines[Wrap(h + (i + 1), M)]
        BY <1>1, <1>3, <3>1, <4>1
      <4>3. history.lines[Wrap(h + (i + 1), M)] = log[l - k + (i + 1) + 1].line
        BY <1>2, <3>1, <4>1
      <4>4. l - k + (i + 1) + 1 = l - M + i + 2 /\ l - M + i + 2 \in 1..l
        BY <1>1, <3>1, <3>4
      <4> QED BY ZenonT(60), <1>4, <3>1, <3>2, <4>1, <4>2, <4>3, <4>4
    <3> QED BY <3>3, <3>4
  <2> QED BY <2>1, <2>2
<1>11. /\ history'.len = (IF Len(log') < MaxLines THEN Len(log') ELSE MaxLines)
       /\ history'.len < MaxLines => history'.head = 0
  BY <1>4, <1>9 DEF M
<1>12. \A i \in 0..history'.len - 1 :
         history'.lines[Wrap(history'.head + i, MaxLines)]
            = log'[Len(log') - history'.len + i + 1].line
  <2> TAKE i \in 0..history'.len - 1
  <2>1. history'.lines[Wrap(history'.head + i, M)] = log'[l + 1 - history'.len + i + 1].line
    BY <1>10
  <2>2. l + 1 - history'.len + i + 1 = Len(log') - history'.len + i + 1
    <3>1. history'.len \in Int /\ l \in Int
      BY <1>1, <1>3
    <3>2. i \in Int
      BY <3>1
    <3> QED BY SMTT(30), <1>4, <3>1, <3>2
  <2> QED BY <2>1, <2>2 DEF M
<1> QED BY <1>8, <1>11, <1>12 DEF HistoryInv

\* Every step keeps the history right.
LEMMA HistoryStep ==
    ASSUME LineType, LineInv, HistoryType, HistoryInv, [Output!Next]_(Output!vars)
    PROVE  HistoryType' /\ HistoryInv'
<1>1. ASSUME UNCHANGED <<history, log>> PROVE HistoryType' /\ HistoryInv'
  BY <1>1 DEF HistoryType, HistoryInv
<1>2. ASSUME NEW line \in Seq(Int), NEW n \in 0..Len(given), Output!Deliver(line, n)
      PROVE  HistoryType' /\ HistoryInv'
  <2> DEFINE e == [line |-> line, upTo |-> n]
  <2>1. e \in Entries /\ e.line = line
    BY LineFacts, OutputBounds DEF Entries
  <2>2. log' = Append(log, e) /\ history' = Output!Appended(history, line)
    BY <1>2 DEF Output!Deliver
  <2> HIDE DEF e
  <2> QED BY <2>1, <2>2, HistoryAppended
<1>3. ASSUME Output!CutLine PROVE HistoryType' /\ HistoryInv'
  <2>1. PICK k \in Output!Newlines(pending) :
          Output!Deliver(partial \o SubSeq(pending, 1, k - 1), Len(given) - Len(pending) + k)
    BY <1>3 DEF Output!CutLine
  <2>2. k \in 1..Len(pending)
    BY DEF Output!Newlines
  <2>3. /\ Len(given) \in Nat /\ Len(pending) \in Nat /\ Len(partial) \in Nat /\ Start \in Nat
        /\ given \in Seq(Byte) /\ pending \in Seq(Byte) /\ partial \in Seq(Byte)
        /\ Start + Len(partial) + Len(pending) = Len(given)
        /\ StandsAt(pending, given, Start + Len(partial))
    BY LineFacts DEF LineInv
  <2>4. Start + Len(partial) \in Nat
    BY <2>3
  <2>5. SubSeq(pending, 1, k - 1) \in Seq(Byte)
    BY <2>2, <2>3, <2>4, StandsParts
  <2>6. partial \o SubSeq(pending, 1, k - 1) \in Seq(Int)
    BY <2>3, <2>5, ConcatProperties, BytesAreNumbers
  <2>7. Len(given) - Len(pending) + k \in 0..Len(given)
    BY <2>2, <2>3
  <2> QED BY <1>2, <2>1, <2>6, <2>7
<1>4. ASSUME Output!KeepPartial PROVE HistoryType' /\ HistoryInv'
  <2>1. \/ Output!Deliver(partial \o pending, Len(given))
        \/ UNCHANGED <<history, log>>
    BY <1>4 DEF Output!KeepPartial
  <2>2. /\ Len(given) \in Nat /\ pending \in Seq(Byte) /\ partial \in Seq(Byte)
    BY LineFacts
  <2>3. partial \o pending \in Seq(Int)
    BY <2>2, ConcatProperties, BytesAreNumbers
  <2>4. Len(given) \in 0..Len(given)
    BY <2>2
  <2> QED BY <1>1, <1>2, <2>1, <2>3, <2>4
<1>5. ASSUME Output!Flush PROVE HistoryType' /\ HistoryInv'
  <2>1. Output!Deliver(partial, Len(given)) \/ UNCHANGED <<history, log>>
    BY <1>5 DEF Output!Flush
  <2>2. partial \in Seq(Int) /\ Len(given) \in Nat
    BY LineFacts, BytesAreNumbers
  <2>3. Len(given) \in 0..Len(given)
    BY <2>2
  <2> QED BY <1>1, <1>2, <2>1, <2>2, <2>3
<1>6. ASSUME Output!AddRestartMarker PROVE HistoryType' /\ HistoryInv'
  <2>1. Output!Deliver(Output!RestartMarker, Start)
    BY <1>6 DEF Output!AddRestartMarker, Start
  <2>2. Output!RestartMarker \in Seq(Int)
    BY DEF Output!RestartMarker
  <2>3. Start \in 0..Len(given)
    BY LineFacts
  <2> QED BY <1>2, <2>1, <2>2, <2>3
<1> QED
  BY <1>1, <1>3, <1>4, <1>5, <1>6 DEF Output!Next, Output!Write, Output!Reset, Output!vars

\* The history is the tail of the log.
LEMMA HistoryInvKeepsTail ==
    ASSUME LineType, HistoryType, HistoryInv
    PROVE  Output!HistoryKeepsTail
<1> DEFINE M == MaxLines
           l == Len(log)
           h == history.head
           k == history.len
           s == [n \in 1..Len(log) |-> log[n].line]
           tail == Output!AtMost(M, s)
<1>1. /\ M \in Nat \ {0} /\ M \in Nat /\ M > 0 /\ l \in Nat /\ h \in 0..M - 1 /\ k \in 0..M
      /\ k = (IF l > M THEN M ELSE l)
  BY OutputBounds, LenProperties DEF LineType, HistoryType, HistoryInv
<1>2. s \in Seq(Seq(Int)) /\ Len(s) = l /\ \A n \in 1..l : s[n] = log[n].line
  <2>1. \A n \in 1..l : log[n] \in Entries
    BY ElementOfSeq DEF LineType
  <2>2. \A n \in 1..l : log[n].line \in Seq(Int)
    BY <2>1 DEF Entries
  <2>3. s \in [1..l -> Seq(Int)]
    BY <2>2
  <2> QED BY <1>1, <2>3
<1> HIDE DEF s
<1>3. /\ tail \in Seq(Seq(Int)) /\ Len(tail) = k
      /\ \A j \in 1..Len(tail) : tail[j] = s[l - Len(tail) + j]
  <2> HIDE DEF M, l, k
  <2> QED BY <1>1, <1>2, LastOnes
<1> HIDE DEF tail, M, l, h, k
<1>4. tail = [j \in 1..k |-> tail[j]]
  BY <1>3, LenProperties
<1>5. ASSUME NEW j \in 1..k
      PROVE  history.lines[(h + j - 1) % M] = tail[j]
  <2>1. j - 1 \in 0..k - 1 /\ j - 1 \in Nat /\ j - 1 <= M /\ h + j - 1 = h + (j - 1)
    BY <1>1
  <2>2. (h + (j - 1)) % M = Wrap(h + (j - 1), M)
    BY <1>1, <2>1, AroundSlot
  <2>3. history.lines[Wrap(h + (j - 1), M)] = log[l - k + (j - 1) + 1].line
    BY <2>1 DEF HistoryInv, M, l, h, k
  <2>4. l - k + (j - 1) + 1 = l - k + j /\ l - k + j \in 1..l
    BY <1>1
  <2>5. tail[j] = s[l - k + j]
    BY <1>3
  <2> QED BY <1>2, <2>1, <2>2, <2>3, <2>4, <2>5
<1>6. Output!OutputLines = [j \in 1..k |-> history.lines[(h + j - 1) % M]]
  BY DEF Output!OutputLines, k, h, M
<1>7. Output!OutputLines = tail
  BY <1>4, <1>5, <1>6
<1> QED BY <1>7 DEF Output!HistoryKeepsTail, tail, s, M

-----------------------------------------------------------------------------
(***************************************************************************)
(* The three together.                                                     *)
(***************************************************************************)
OutputInv == RingType /\ RingInv /\ LineType /\ LineInv /\ HistoryType /\ HistoryInv

\* It holds at the start.
LEMMA OutputInitInv == Output!Init => OutputInv
<1> SUFFICES ASSUME Output!Init PROVE OutputInv
  OBVIOUS
<1> USE OutputBounds
<1>1. /\ given = <<>> /\ base = 0 /\ log = <<>> /\ pending = <<>> /\ partial = <<>>
      /\ writePos = 0 /\ totalWritten = 0 /\ overflowed = FALSE /\ ended = FALSE
      /\ buffer = [i \in Output!Slots |-> Output!Newline]
      /\ history = [lines |-> [i \in 0..MaxLines - 1 |-> <<>>], head |-> 0, len |-> 0]
  BY DEF Output!Init
<1>2. /\ given \in Seq(Byte) /\ Len(given) = 0 /\ pending \in Seq(Byte) /\ Len(pending) = 0
      /\ partial \in Seq(Byte) /\ Len(partial) = 0 /\ log \in Seq(Entries) /\ Len(log) = 0
      /\ StandsAt(<<>>, given, 0) /\ Output!Newlines(<<>>) = {} /\ <<>> \in Seq(Int)
  <2>1. \A S : <<>> \in Seq(S) /\ Len(<<>>) = 0
    BY EmptySeq
  <2>2. StandsAt(<<>>, <<>>, 0) /\ Output!Newlines(<<>>) = {}
    <3>1. <<>> \in Seq(Byte) /\ 0 \in Nat /\ 0 <= Len(<<>>)
      BY <2>1
    <3> QED BY <3>1, EmptyStands
  <2> QED BY <1>1, <2>1, <2>2
<1>3. RingType
  <2>1. Output!Newline \in Byte
    BY DEF Byte, Output!Newline
  <2> QED BY <1>1, <1>2, <2>1 DEF RingType
<1>4. RingInv
  <2>1. Pos \in 0..Capacity - 1
    <3>1. 0 % Capacity \in 0..Capacity - 1
      BY Remainder
    <3> QED BY <1>1, <3>1 DEF Pos
  <2>2. ASSUME NEW i \in Output!Slots PROVE ~(Age(i) <= 0)
    <3>1. i \in 0..Capacity - 1
      BY DEF Output!Slots
    <3>2. AgeAt(Pos, i, Capacity) \in 1..Capacity
      BY <2>1, <3>1, AgeIsPositive
    <3> QED BY <3>2 DEF Age
  <2>3. Len(given) - base = 0 /\ ~(Len(given) - base > Capacity) /\ overflowed = FALSE
    BY <1>1, <1>2
  <2>4. overflowed <=> Len(given) - base > Capacity
    BY <2>3
  <2>5. writePos = Len(given) - base
    BY <1>1, <2>3
  <2>6. \A i \in Output!Slots : ~(Age(i) <= Len(given) - base)
    BY <2>2, <2>3
  <2> QED BY <2>4, <2>5, <2>6 DEF RingInv
<1>5. LineType
  <2>1. Len(given) <= MaxStream /\ ended \in BOOLEAN
    <3>1. 0 <= MaxStream
      OBVIOUS
    <3>2. ended \in BOOLEAN
      BY <1>1
    <3> QED BY <1>2, <3>1, <3>2
  <2> QED BY <1>2, <2>1 DEF LineType
<1>6. Start = 0
  BY <1>2 DEF Start, Output!Before
<1>7. LineInv
  BY <1>1, <1>2, <1>6 DEF LineInv
<1>8. HistoryType
  BY <1>1, <1>2 DEF HistoryType
<1>9. HistoryInv
  BY <1>1, <1>2 DEF HistoryInv
<1> QED BY <1>3, <1>4, <1>5, <1>7, <1>8, <1>9 DEF OutputInv

\* Every step of the output keeps it, and so does every step beside it.
LEMMA OutputStep == OutputInv /\ [Output!Next]_(Output!vars) => OutputInv'
BY RingStep, LineStep, HistoryStep DEF OutputInv

\* The output in the composition.
LEMMA OutputRuns == MCSpec => Output!Init /\ [][Output!Next]_(Output!vars)
<1>1. MCInit => Output!Init
  BY DEF MCInit
<1>2. UNCHANGED outputVars => UNCHANGED Output!vars
  BY DEF outputVars, Output!vars, Output!ringVars
<1>3. [MCNext]_<<part, vars, trackerVars, wireVars, outputVars, hubProcess>> => [Output!Next]_(Output!vars)
  BY <1>2 DEF MCNext
<1> QED BY <1>1, <1>3, PTL DEF MCSpec

\* The invariant of the output holds in the composition.
LEMMA OutputHolds == MCSpec => []OutputInv
BY OutputRuns, OutputInitInv, OutputStep, PTL

\* What a reader gets of a process's output is what the process has written, up
\* to the limits of RingBuffer, lineWriter and Entry, each byte once and in
\* order, and it says so where the limits have cut it.
THEOREM OutputIsKeptWhole == MCSpec => []OutputIsKept
<1>1. OutputInv => OutputIsKept
  BY RingInvKeepsTail, LineInvAddsUp, HistoryInvKeepsTail
     DEF OutputInv, OutputIsKept, Output!OutputIsKept
<1> QED BY <1>1, OutputHolds, PTL

\* Every variable of the first four has a value of its type, side by side as
\* alone.
THEOREM PartsTyped == MCSpec => []TypesOK
<1>1. TrackerProofs!TypeOK => Tracker!TypeOK
  BY DEF Tracker!TypeOK, TrackerProofs!TypeOK, Tracker!Births, TrackerProofs!Births
<1>2. WireProofs!TypeOK => W!TypeOK
  BY DEF W!TypeOK, WireProofs!TypeOK, W!Links, WireProofs!Links, W!Numbers,
         WireProofs!Numbers
<1>3. OutputInv => Output!TypeOK
  <2>1. ASSUME OutputInv PROVE writePos \in 0..MaxStream
    <3>1. Len(given) \in Nat /\ base \in Nat /\ Len(given) - base <= MaxStream
      BY <2>1, LenProperties, OutputBounds DEF OutputInv, RingType
    <3> QED BY <2>1, <3>1, OutputBounds DEF OutputInv, RingType
  <2> QED BY <2>1 DEF OutputInv, RingType, LineType, HistoryType, Output!TypeOK, Byte
<1>4. MCSpec => []TypeOK
  BY SocketRuns, Typed, PTL
<1>5. MCSpec => []TrackerProofs!TypeOK
  BY TrackerRuns, TrackerProofs!Typed, PartBounds, PTL
<1>6. MCSpec => []WireProofs!TypeOK
  BY WireRuns, WireProofs!Typed, PartBounds, PTL
<1>7. TypeOK /\ Tracker!TypeOK /\ W!TypeOK /\ Output!TypeOK => TypesOK
  BY DEF TypesOK
<1> QED BY <1>1, <1>2, <1>3, <1>4, <1>5, <1>6, <1>7, OutputHolds, PTL
=============================================================================
