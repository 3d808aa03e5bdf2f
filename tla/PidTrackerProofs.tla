-------------------------- MODULE PidTrackerProofs --------------------------
(***************************************************************************)
(* Theorems about PidTracker, for any numbers of PIDs, keys, processes and *)
(* crashes.  Two facts carry them: a PID names one process as long as the  *)
(* process or its group lives; and what earlier daemons have recorded and  *)
(* still runs is in the file, until CleanupOrphans is through.             *)
(***************************************************************************)
EXTENDS PidTracker, TLAPS

Bounds == MaxBirths \in Nat /\ MaxCrashes \in Nat

Kids == [pid : PIDs \cup {None}, birth : 0..MaxBirths]
Entries == [key : Keys, pid : PIDs, birth : Births, kids : SUBSET Kids]

KernelType ==
    /\ births \in 0..MaxBirths
    /\ state \in [Births -> {"unborn", "alive", "zombie", "gone"}]
    /\ pid \in [Births -> PIDs \cup {None}]
    /\ kind \in [Births -> {"none", "daemon", "root", "child", "foreign"}]
    /\ parent \in [Births -> 0..MaxBirths] /\ group \in [Births -> 0..MaxBirths]

FileType == file \in [daemon : PIDs \cup {None}, procs : SUBSET Entries]

DaemonType ==
    /\ daemon \in 0..MaxBirths /\ dpc \in {"off", "load", "kill", "up"}
    /\ todo \subseteq Entries

KeyType ==
    /\ kpc \in [Keys -> {"none", "spawned", "tracked", "reaped", "swept"}]
    /\ root \in [Keys -> 0..MaxBirths] /\ snap \in [Keys -> SUBSET Kids]

HistoryType == crashes \in 0..MaxCrashes /\ older \subseteq Births /\ skipped \in BOOLEAN

TypeInv == KernelType /\ FileType /\ DaemonType /\ KeyType /\ HistoryType

Started == 1..births

\* A PID is not free while its process, or a process of its group, is there.
Held(n) == state[n] \in {"alive", "zombie"} \/ \E m \in Alive : group[m] = n

\* The kernel: numbers of births are handed out in order, PIDs are unique
\* among those held, and the daemons and programs outside the hub keep to
\* themselves.
KernelInv ==
    /\ \A n \in Births : n \notin Started <=> state[n] = "unborn"
    /\ \A n \in Started : pid[n] \in PIDs
    /\ \A n, m \in Started : Held(n) /\ Held(m) /\ pid[n] = pid[m] => n = m
    /\ \A n \in Started : group[n] \in Started /\ parent[n] \in {0} \cup Started
    /\ \A n \in Started : kind[n] \in {"foreign", "daemon"} => group[n] = n
    /\ \A n \in Started : kind[n] = "foreign" /\ parent[n] # 0 => kind[parent[n]] = "foreign"
    /\ \A n \in Started : kind[n] = "daemon" => parent[n] = 0

\* Which process is what.
RoleInv ==
    /\ daemon # 0 => daemon \in Started /\ kind[daemon] = "daemon" /\ state[daemon] = "alive"
    /\ daemon = 0 <=> dpc = "off"
    /\ \A k \in Keys : kpc[k] # "none" => /\ dpc = "up" /\ root[k] \in Started
                                           /\ kind[root[k]] = "root"
    /\ older \subseteq Started

\* The numbers that a stop signals are not the daemon's own.
NumberInv ==
    \A k \in Keys :
        /\ kpc[k] # "none" => pid[root[k]] # pid[daemon]
        /\ \A d \in snap[k] : kpc[k] # "none" /\ d.pid # pid[daemon]

\* An entry names a process that was started by the hub, with the PID it got;
\* its descendants are the hub's as long as that process is there.
Recorded(e) ==
    /\ e.birth \in Started /\ kind[e.birth] = "root" /\ e.pid = pid[e.birth]
    /\ \A d \in e.kids : d.birth # 0 =>
          /\ d.birth \in Started /\ kind[d.birth] # "daemon"
          /\ kind[d.birth] = "foreign" => state[e.birth] = "gone"

\* What the file says: one entry for a key, and one of every process that its
\* daemon has added and not removed.
FileInv ==
    /\ \A e, f \in file.procs : e.key = f.key => e = f
    /\ \A e \in file.procs : Recorded(e)
    /\ \A k \in Keys : \A d \in snap[k] : d.birth \in Started /\ kind[d.birth] # "daemon"
    /\ \A k \in Keys : kpc[k] = "tracked" =>
          \E e \in file.procs : e.key = k /\ e.birth = root[k]
    /\ todo \subseteq file.procs /\ (dpc # "kill" => todo = {})

\* What an earlier daemon has recorded and still runs is in the file, and in
\* what CleanupOrphans has left.
OrphanInv ==
    ~skipped => \A n \in older \cap Alive :
        /\ dpc # "up"
        /\ \E e \in file.procs : e.birth = n
        /\ dpc = "kill" => \E e \in todo : e.birth = n

IInv == TypeInv /\ KernelInv /\ RoleInv /\ NumberInv /\ FileInv /\ OrphanInv

-----------------------------------------------------------------------------
(***************************************************************************)
(* The two things that happen to processes: they fade, or one more starts. *)
(***************************************************************************)
Fades ==
    /\ UNCHANGED <<births, pid, kind, group>>
    /\ state' \in [Births -> {"unborn", "alive", "zombie", "gone"}]
    /\ parent' \in [Births -> 0..MaxBirths]
    /\ \A n \in Births :
          /\ \/ state'[n] = state[n]
             \/ state[n] \in {"alive", "zombie"} /\ state'[n] \in {"zombie", "gone"}
          /\ parent'[n] \in {0, parent[n]}

Grows(k, q, g) ==
    /\ Born(k, q, g)
    /\ k \in {"daemon", "root", "child", "foreign"}
    /\ q \in {0} \cup Started /\ g \in {0} \cup Alive
    /\ k = "foreign" => g = 0 /\ (q # 0 => kind[q] = "foreign")
    /\ k = "daemon" => g = 0 /\ q = 0

\* Who is made to end fades, and is not alive any more.
LEMMA EndedFades ==
    ASSUME Bounds, KernelType, NEW S, Ended(S)
    PROVE  Fades /\ \A n \in S : n \notin Alive'
BY DEF Bounds, KernelType, Ended, Fades, Alive, Births

\* The process that starts gets the next number and a PID that is free; the
\* others stay as they are.
LEMMA GrowsFacts ==
    ASSUME Bounds, TypeInv, NEW k, NEW q, NEW g, Grows(k, q, g)
    PROVE  /\ births + 1 \in Births /\ births' = births + 1 /\ births \in Nat
           /\ Started' = Started \cup {births + 1} /\ births + 1 \notin Started
           /\ Started \subseteq Births
           /\ pid'[births + 1] \in PIDs /\ ~Taken(pid'[births + 1])
           /\ state'[births + 1] = "alive" /\ kind'[births + 1] = k
           /\ parent'[births + 1] = q
           /\ group'[births + 1] = IF g = 0 THEN births + 1 ELSE g
           /\ KernelType'
           /\ \A n \in Births : n # births + 1 =>
                 /\ pid'[n] = pid[n] /\ state'[n] = state[n] /\ kind'[n] = kind[n]
                 /\ parent'[n] = parent[n] /\ group'[n] = group[n]
<1>1. /\ births \in Nat /\ births < MaxBirths /\ births' = births + 1 /\ births + 1 \in Births
      /\ births + 1 \in 0..MaxBirths
  BY DEF Grows, Born, Bounds, TypeInv, KernelType, Births
<1>2. /\ Started' = Started \cup {births + 1} /\ births + 1 \notin Started
      /\ Started \subseteq Births
  BY <1>1 DEF Started, Births, Bounds
<1>3. q \in 0..MaxBirths /\ g \in 0..MaxBirths
  BY <1>1, <1>2 DEF Grows, Alive, Births, Bounds
<1>4. PICK p \in PIDs : ~Taken(p) /\ pid' = [pid EXCEPT ![births + 1] = p]
  BY DEF Grows, Born
<1>5. /\ state' = [state EXCEPT ![births + 1] = "alive"]
      /\ kind' = [kind EXCEPT ![births + 1] = k]
      /\ parent' = [parent EXCEPT ![births + 1] = q]
      /\ group' = [group EXCEPT ![births + 1] = IF g = 0 THEN births + 1 ELSE g]
  BY DEF Grows, Born
<1>6. k \in {"daemon", "root", "child", "foreign"}
  BY DEF Grows
<1>7. KernelType'
  BY <1>1, <1>3, <1>4, <1>5, <1>6 DEF TypeInv, KernelType
<1> QED BY <1>1, <1>2, <1>4, <1>5, <1>7 DEF TypeInv, KernelType

\* Every step is one or the other.
LEMMA Kernel ==
    ASSUME Bounds, TypeInv, RoleInv, KernelInv, [Next]_vars
    PROVE  Fades \/ \E k, q, g : Grows(k, q, g)
<1>t. KernelType /\ Bounds
  BY DEF TypeInv
<1>u. ASSUME UNCHANGED osVars
      PROVE  Fades
  BY <1>u, <1>t DEF Fades, KernelType, osVars
<1>a. Alive \subseteq Started
  BY DEF KernelInv, Alive
<1>1. CASE UNCHANGED vars
  BY <1>1, <1>u DEF vars
<1>2. ASSUME NEW n \in Births, Exits(n)
      PROVE  Fades
  BY <1>2, <1>t, EndedFades DEF Exits
<1>3. ASSUME NEW n \in Births, Forks(n)
      PROVE  \E k, q, g : Grows(k, q, g)
  <2>1. PICK g \in {0, n} : Born("child", n, g)
    BY <1>3 DEF Forks
  <2>2. Grows("child", n, g)
    BY <1>3, <1>a, <2>1 DEF Forks, Grows
  <2> QED BY <2>2
<1>4. CASE ForeignStarts
  <2>1. PICK q \in {0} \cup {n \in Alive : kind[n] = "foreign"} : Born("foreign", q, 0)
    BY <1>4 DEF ForeignStarts
  <2>2. Grows("foreign", q, 0)
    BY <1>a, <2>1 DEF Grows
  <2> QED BY <2>2
<1>5. CASE DaemonStarts
  <2>1. Grows("daemon", 0, 0)
    BY <1>5 DEF DaemonStarts, Grows
  <2> QED BY <2>1
<1>6. CASE CleanupLoads \/ CleanupSaves \/ Scan
  BY <1>6, <1>u DEF CleanupLoads, CleanupSaves, Scan
<1>7. CASE Crash
  BY <1>7, <1>t DEF Crash, Fades, KernelType, Bounds, RoleInv
<1>8. ASSUME NEW e \in todo, CleanupKills(e)
      PROVE  Fades
  BY <1>8, <1>t, <1>u, EndedFades DEF CleanupKills
<1>9. ASSUME NEW k \in Keys, Spawn(k)
      PROVE  \E kk, q, g : Grows(kk, q, g)
  <2>1. Grows("root", daemon, 0)
    BY <1>9 DEF Spawn, Grows, RoleInv
  <2> QED BY <2>1
<1>10. ASSUME NEW k \in Keys, Add(k) \/ Snapshot(k) \/ Remove(k)
       PROVE  Fades
  BY <1>10, <1>u DEF Add, Snapshot, Remove
<1>11. ASSUME NEW k \in Keys, Reap(k)
       PROVE  Fades
  BY <1>11, <1>t DEF Reap, Fades, KernelType
<1>12. ASSUME NEW k \in Keys, Sweep(k)
       PROVE  Fades
  BY <1>12, <1>t, <1>u, EndedFades DEF Sweep
<1>13. ASSUME NEW k \in Keys, StopSignals(k)
       PROVE  Fades
  BY <1>13, <1>t, EndedFades DEF StopSignals
<1> QED BY <1>1, <1>2, <1>3, <1>4, <1>5, <1>6, <1>7, <1>8, <1>9, <1>10, <1>11, <1>12, <1>13
        DEF Next

\* What a process has been it stays.
Lasts ==
    /\ Started \subseteq Started' /\ Started \subseteq Births
    /\ \A n \in Started : /\ pid'[n] = pid[n] /\ kind'[n] = kind[n]
                          /\ state[n] = "gone" => state'[n] = "gone"
                          /\ n \in Alive' => n \in Alive

\* No step takes that back.
LEMMA LastsStep ==
    ASSUME Bounds, TypeInv, RoleInv, KernelInv, [Next]_vars
    PROVE  Lasts
<1>s. Started \subseteq Births
  BY DEF Bounds, Started, Births, TypeInv, KernelType
<1>1. CASE Fades
  BY <1>s, <1>1 DEF Fades, Lasts, Started, Alive
<1>2. ASSUME NEW k, NEW q, NEW g, Grows(k, q, g)
      PROVE  Lasts
  BY <1>2, GrowsFacts DEF Lasts, Alive
<1> QED BY <1>1, <1>2, Kernel

-----------------------------------------------------------------------------
\* The kernel keeps its word, whoever acts: a PID that is handed out is free.
LEMMA KernelStep ==
    ASSUME Bounds, TypeInv, RoleInv, KernelInv, [Next]_vars
    PROVE  KernelInv' /\ KernelType'
<1>s. Started \subseteq Births /\ 0 \notin Started /\ Alive \subseteq Started
  BY DEF Bounds, Started, Births, TypeInv, KernelType, KernelInv, Alive
<1>t. /\ state \in [Births -> {"unborn", "alive", "zombie", "gone"}]
      /\ parent \in [Births -> 0..MaxBirths]
  BY DEF TypeInv, KernelType
<1>1. CASE Fades
  <2>1. Started' = Started /\ Alive' \subseteq Alive
    BY <1>1 DEF Fades, Started, Alive
  <2>2. \A n \in Births : Held(n)' => Held(n)
    BY <1>1, <2>1 DEF Fades, Held
  <2>3. \A n \in Births : n \notin Started <=> state'[n] = "unborn"
    BY <1>1 DEF Fades, KernelInv
  <2>4. \A n, m \in Started : Held(n)' /\ Held(m)' /\ pid[n] = pid[m] => n = m
    BY <1>s, <2>2 DEF KernelInv
  <2>5. \A n \in Started : parent'[n] \in {0} \cup Started
    BY <1>1, <1>s DEF Fades, KernelInv
  <2>6. \A n \in Started :
           /\ kind[n] \in {"foreign", "daemon"} => group[n] = n
           /\ kind[n] = "foreign" /\ parent'[n] # 0 => kind[parent'[n]] = "foreign"
           /\ kind[n] = "daemon" => parent'[n] = 0
    BY <1>1, <1>s DEF Fades, KernelInv
  <2>7. UNCHANGED <<pid, kind, group>> /\ KernelType'
    BY <1>1 DEF Fades, TypeInv, KernelType
  <2> QED BY <2>1, <2>3, <2>4, <2>5, <2>6, <2>7 DEF KernelInv
<1>2. ASSUME NEW k, NEW q, NEW g, Grows(k, q, g)
      PROVE  KernelInv' /\ KernelType'
  <2> DEFINE b == births + 1
  <2>1. /\ b \in Births /\ Started' = Started \cup {b} /\ b \notin Started
        /\ pid'[b] \in PIDs /\ ~Taken(pid'[b])
        /\ state'[b] = "alive" /\ kind'[b] = k /\ parent'[b] = q
        /\ group'[b] = IF g = 0 THEN b ELSE g
        /\ \A n \in Births : n # b =>
                 /\ pid'[n] = pid[n] /\ state'[n] = state[n] /\ kind'[n] = kind[n]
                 /\ parent'[n] = parent[n] /\ group'[n] = group[n]
    BY <1>2, GrowsFacts
  <2>k. KernelType'
    BY <1>2, GrowsFacts
  <2> HIDE DEF b
  <2>2. Alive' = Alive \cup {b}
    BY <2>1, <1>s DEF Alive
  <2>3. q \in {0} \cup Started /\ g \in {0} \cup Alive
    BY <1>2 DEF Grows
  <2>4. \A n \in Started : Held(n)' => Held(n)
    <3>1. ASSUME NEW n \in Started, Held(n)'
          PROVE  Held(n)
      <4>1. n \in Births /\ n # b /\ state'[n] = state[n]
        BY <2>1, <1>s
      <4>2. CASE state[n] \in {"alive", "zombie"}
        BY <4>2 DEF Held
      <4>3. CASE \E m \in Alive' : group'[m] = n
        <5>1. PICK m \in Alive' : group'[m] = n
          BY <4>3
        <5>2. CASE m = b
          BY <4>1, <5>1, <5>2, <2>1, <2>3 DEF Held, Alive
        <5>3. CASE m # b
          BY <4>1, <5>1, <5>3, <2>1, <2>2, <1>s DEF Held
        <5> QED BY <5>2, <5>3
      <4> QED BY <3>1, <4>1, <4>2, <4>3 DEF Held
    <3> QED BY <3>1
  <2>5. \A n \in Started : Held(n) => pid[n] # pid'[b]
    BY <2>1, <1>s DEF Held, Taken
  <2>6. \A n, m \in Started' : Held(n)' /\ Held(m)' /\ pid'[n] = pid'[m] => n = m
    <3>1. ASSUME NEW n \in Started', NEW m \in Started', Held(n)', Held(m)', pid'[n] = pid'[m]
          PROVE  n = m
      <4>1. CASE n = b /\ m = b BY <4>1
      <4>2. CASE n = b /\ m # b BY <4>2, <3>1, <2>1, <2>4, <2>5, <1>s
      <4>3. CASE n # b /\ m = b BY <4>3, <3>1, <2>1, <2>4, <2>5, <1>s
      <4>4. CASE n # b /\ m # b BY <4>4, <3>1, <2>1, <2>4, <1>s DEF KernelInv
      <4> QED BY <4>1, <4>2, <4>3, <4>4
    <3> QED BY <3>1
  <2>7. \A n \in Births : n \notin Started' <=> state'[n] = "unborn"
    BY <2>1 DEF KernelInv
  <2>8. \A n \in Started' : group'[n] \in Started' /\ parent'[n] \in {0} \cup Started'
    BY <2>1, <2>3, <1>s DEF KernelInv
  <2>9. \A n \in Started' :
           /\ kind'[n] \in {"foreign", "daemon"} => group'[n] = n
           /\ kind'[n] = "foreign" /\ parent'[n] # 0 => kind'[parent'[n]] = "foreign"
           /\ kind'[n] = "daemon" => parent'[n] = 0
    <3>1. /\ k = "foreign" => g = 0 /\ (q # 0 => kind[q] = "foreign")
          /\ k = "daemon" => g = 0 /\ q = 0
      BY <1>2 DEF Grows
    <3> QED BY <3>1, <2>1, <2>3, <1>s DEF KernelInv
  <2>10. \A n \in Started' : pid'[n] \in PIDs
    BY <2>1, <1>s DEF KernelInv
  <2> QED BY <2>k, <2>6, <2>7, <2>8, <2>9, <2>10 DEF KernelInv
<1> QED BY <1>1, <1>2, Kernel

(***************************************************************************)
(* Who is killed.                                                          *)
(***************************************************************************)
\* CleanupOrphans kills neither a daemon nor a program outside the hub: the
\* process that an entry names is the one it was made for, the group is that
\* process's, and its descendants were found below it.
LEMMA CleanupSpares ==
    ASSUME TypeInv, KernelInv, FileInv, NEW e \in todo, IdentityMatches(e)
    PROVE  \A n \in Alive \cap (Verified(e.kids) \cup GroupOf(e.pid) \cup Named(e.pid)) :
              kind[n] \notin {"foreign", "daemon"}
<1>1. /\ e \in file.procs /\ e.birth \in Started /\ kind[e.birth] = "root" /\ e.pid = pid[e.birth]
      /\ state[e.birth] \in {"alive", "zombie"} /\ Held(e.birth)
  BY DEF FileInv, Recorded, IdentityMatches, Named, Held
<1>2. Alive \subseteq Started /\ \A n \in Alive : Held(n)
  BY DEF Alive, KernelInv, Held
<1>3. ASSUME NEW n \in Alive, n \in Verified(e.kids)
      PROVE  kind[n] \notin {"foreign", "daemon"}
  <2>1. PICK d \in e.kids : d.birth # 0 /\ d.birth = n
    BY <1>3 DEF Verified
  <2> QED BY <1>1, <2>1 DEF FileInv, Recorded
<1>4. ASSUME NEW n \in Alive, n \in GroupOf(e.pid)
      PROVE  kind[n] \notin {"foreign", "daemon"}
  <2>1. group[n] \in Started /\ Held(group[n]) /\ pid[group[n]] = e.pid
    BY <1>2, <1>4 DEF GroupOf, Held, KernelInv
  <2>2. group[n] = e.birth
    BY <1>1, <2>1 DEF KernelInv
  <2> QED BY <1>1, <1>2, <2>2 DEF KernelInv
<1>5. ASSUME NEW n \in Alive, n \in Named(e.pid)
      PROVE  kind[n] \notin {"foreign", "daemon"}
  <2>1. n = e.birth
    BY <1>1, <1>2, <1>5 DEF Named, KernelInv
  <2> QED BY <1>1, <2>1
<1> QED BY <1>3, <1>4, <1>5

\* The group of a process that has been reaped holds neither: they lead groups
\* of their own, and then its PID would name them.
LEMMA SweepSpares ==
    ASSUME TypeInv, KernelInv, NEW p, Named(p) = {}
    PROVE  \A n \in GroupOf(p) : kind[n] \notin {"foreign", "daemon"}
BY DEF GroupOf, Named, Alive, KernelInv

\* Whatever a walk below a PID finds is a child of the process that has it, so
\* no daemon; and no program from outside if that process is one of the hub.
LEMMA FoundBelow ==
    ASSUME Bounds, TypeInv, KernelInv, NEW p, NEW m \in Descendants(p)
    PROVE  /\ m \in Started /\ kind[m] # "daemon"
           /\ \E n \in Named(p) : n \in Started /\ (kind[m] = "foreign" => kind[n] = "foreign")
<1>1. PICK n \in Named(p) : m \in Alive /\ parent[m] = n
  BY DEF Descendants, Children
<1>2. n \in Started /\ m \in Started
  BY <1>1 DEF Named, Alive, KernelInv
<1>3. n # 0
  BY <1>2 DEF Started
<1> QED BY <1>1, <1>2, <1>3 DEF KernelInv

\* A stop does not signal the daemon: none of the numbers is its own, and it
\* leads the only group it is in.
LEMMA SignalsSpareDaemon ==
    ASSUME Bounds, TypeInv, KernelInv, RoleInv, NumberInv, FileInv, NEW k \in Keys,
           StopSignals(k)
    PROVE  daemon # 0 /\ daemon \notin Signalled(k)
<1> DEFINE p == pid[root[k]]
           K == UNION {e.kids : e \in {x \in file.procs : x.pid = p}}
<1>0. /\ daemon \in Started /\ state[daemon] = "alive" /\ Held(daemon) /\ daemon # 0
      /\ kind[daemon] = "daemon" /\ group[daemon] = daemon
  <2>1. daemon # 0
    BY DEF StopSignals, RoleInv
  <2> QED BY <2>1 DEF RoleInv, KernelInv, Held
<1>1. p # pid[daemon] /\ \A d \in snap[k] : d.pid # pid[daemon]
  BY DEF StopSignals, NumberInv
<1>2. ASSUME NEW m \in Started, Held(m), kind[m] # "daemon"
      PROVE  pid[m] # pid[daemon]
  BY <1>0, <1>2 DEF KernelInv
<1>3. ASSUME NEW m \in Descendants(p)
      PROVE  pid[m] # pid[daemon]
  <2>1. m \in Started /\ kind[m] # "daemon"
    BY <1>3, FoundBelow
  <2>2. Held(m)
    BY <1>3 DEF Descendants, Children, Alive, Held
  <2> QED BY <1>2, <2>1, <2>2
<1>4. ASSUME NEW m \in Verified(K)
      PROVE  pid[m] # pid[daemon]
  <2>1. PICK d \in K : d.birth # 0 /\ d.birth = m /\ m \in Named(d.pid)
    BY <1>4 DEF Verified
  <2>2. m \in Started /\ kind[m] # "daemon"
    BY <2>1 DEF FileInv, Recorded
  <2>3. Held(m)
    BY <2>1 DEF Named, Held
  <2> QED BY <1>2, <2>2, <2>3
<1>5. Numbers(k) = {p} \cup {pid[m] : m \in Descendants(p) \cup Verified(K)} \cup {d.pid : d \in snap[k]}
  BY DEF Numbers
<1> HIDE DEF p, K
<1>6. pid[daemon] \notin Numbers(k)
  BY <1>1, <1>3, <1>4, <1>5
<1> QED BY <1>0, <1>6 DEF Signalled, Named, GroupOf

\* No step changes who is the daemon, or what a key stands for, behind its back.
LEMMA RoleStep ==
    ASSUME Bounds, TypeInv, RoleInv, NumberInv, KernelInv, KernelInv', FileInv, [Next]_vars
    PROVE  RoleInv'
<1>l. Lasts
  BY LastsStep
<1>0. /\ 0 \notin Started
      /\ kpc \in [Keys -> {"none", "spawned", "tracked", "reaped", "swept"}]
      /\ root \in [Keys -> 0..MaxBirths]
      /\ state \in [Births -> {"unborn", "alive", "zombie", "gone"}]
      /\ Started \subseteq Births
  BY <1>l DEF Started, TypeInv, KeyType, KernelType, Lasts
\* A step that leaves the daemon alive and starts no process of the hub.
<1>a. ASSUME daemon # 0 => state'[daemon] = "alive", daemon' = daemon, older' = older,
             dpc' = dpc \/ (dpc # "off" /\ dpc' # "off" /\ dpc # "up"),
             UNCHANGED <<kpc, root>>
      PROVE  RoleInv'
  BY <1>a, <1>l, <1>0 DEF RoleInv, Lasts
<1>b. ASSUME NEW S, Ended(S), daemon # 0 => daemon \notin S \/ daemon \notin Alive
      PROVE  daemon # 0 => state'[daemon] = "alive"
  BY <1>b, <1>0 DEF Ended, RoleInv, Alive
<1>1. CASE UNCHANGED vars
  BY <1>1, <1>a DEF vars, daemonVars, keyVars, historyVars, osVars, RoleInv
<1>2. ASSUME NEW n \in Births, Exits(n)
      PROVE  RoleInv'
  <2>1. daemon # 0 => daemon \notin {n}
    BY <1>2 DEF Exits, RoleInv
  <2> QED BY <1>2, <1>a, <1>b, <2>1 DEF Exits, daemonVars, keyVars, historyVars
<1>3. ASSUME NEW n \in Births, Forks(n)
      PROVE  RoleInv'
  <2>1. daemon # 0 => state'[daemon] = "alive"
    BY <1>3, <1>0 DEF Forks, Born, RoleInv
  <2> QED BY <1>3, <1>a, <2>1 DEF Forks, daemonVars, keyVars, historyVars
<1>4. CASE DaemonStarts
  <2>1. Grows("daemon", 0, 0)
    BY <1>4 DEF DaemonStarts, Grows
  <2>2. /\ births + 1 \in Started' /\ state'[births + 1] = "alive"
        /\ kind'[births + 1] = "daemon"
    BY <2>1, GrowsFacts
  <2> QED BY <1>4, <1>l, <1>0, <2>2 DEF DaemonStarts, RoleInv, Lasts, keyVars, historyVars,
             Started
<1>5. CASE CleanupLoads \/ CleanupSaves \/ Scan
  <2>1. daemon # 0 => state'[daemon] = "alive"
    BY <1>5 DEF CleanupLoads, CleanupSaves, Scan, RoleInv, osVars
  <2> QED BY <1>5, <1>a, <2>1 DEF CleanupLoads, CleanupSaves, Scan, daemonVars, keyVars,
             historyVars
<1>6. CASE Crash
  <2>1. \A k \in Keys : kpc[k] = "tracked" => root[k] \in Started
    BY DEF RoleInv
  <2> QED BY <1>6, <1>l, <1>0, <2>1 DEF Crash, RoleInv, Lasts
<1>7. ASSUME NEW e \in todo, CleanupKills(e)
      PROVE  RoleInv'
  <2>1. daemon # 0 => state'[daemon] = "alive"
    <3>1. CASE IdentityMatches(e)
      <4>1. daemon # 0 => \/ daemon \notin Verified(e.kids) \cup GroupOf(e.pid) \cup Named(e.pid)
                          \/ daemon \notin Alive
        BY <3>1, CleanupSpares DEF RoleInv
      <4> QED BY <1>7, <1>b, <3>1, <4>1 DEF CleanupKills
    <3>2. CASE ~IdentityMatches(e)
      BY <1>7, <3>2 DEF CleanupKills, RoleInv, osVars
    <3> QED BY <3>1, <3>2
  <2> QED BY <1>7, <1>a, <2>1 DEF CleanupKills, keyVars, historyVars
<1>8. ASSUME NEW k \in Keys, Spawn(k)
      PROVE  RoleInv'
  <2>1. Grows("root", daemon, 0)
    BY <1>8 DEF Spawn, Grows, RoleInv
  <2>2. /\ births + 1 \in Started' /\ kind'[births + 1] = "root" /\ births + 1 \notin Started
        /\ \A n \in Births : n # births + 1 => state'[n] = state[n]
    BY <2>1, GrowsFacts
  <2>3. /\ root'[k] = births + 1 /\ \A j \in Keys : j # k => root'[j] = root[j] /\ kpc'[j] = kpc[j]
    BY <1>8, <1>0 DEF Spawn, Step
  <2> QED BY <1>8, <1>l, <1>0, <2>2, <2>3 DEF Spawn, RoleInv, Lasts, daemonVars, historyVars
<1>9. ASSUME NEW k \in Keys,
             \/ Add(k) \/ Snapshot(k) \/ StopSignals(k)
             \/ Reap(k) \/ Sweep(k) \/ Remove(k)
      PROVE  RoleInv'
  <2>1. daemon # 0 => state'[daemon] = "alive"
    <3>1. CASE Add(k) \/ Snapshot(k) \/ Remove(k)
      BY <3>1 DEF Add, Snapshot, Remove, RoleInv, osVars
    <3>2. CASE Reap(k)
      BY <3>2, <1>0 DEF Reap, RoleInv
    <3>3. CASE Sweep(k)
      <4> DEFINE p == pid[root[k]]
                 G == IF Named(p) = {} THEN GroupOf(p) ELSE {}
                 K == UNION {e.kids : e \in {x \in file.procs : x.pid = p}}
      <4>1. daemon # 0 => daemon \notin G
        BY SweepSpares DEF RoleInv
      <4>2. daemon # 0 => daemon \notin Verified(snap[k] \cup K)
        BY <1>0 DEF Verified, FileInv, Recorded, RoleInv
      <4>3. Ended(G \cup Verified(snap[k] \cup K)) \/ UNCHANGED osVars
        BY <3>3 DEF Sweep
      <4> HIDE DEF G, K
      <4>4. CASE Ended(G \cup Verified(snap[k] \cup K))
        BY <1>b, <4>1, <4>2, <4>4
      <4>5. CASE UNCHANGED osVars
        BY <4>5 DEF RoleInv, osVars
      <4> QED BY <4>3, <4>4, <4>5
    <3>4. CASE StopSignals(k)
      <4>1. daemon \notin Signalled(k)
        BY <3>4, SignalsSpareDaemon
      <4> QED BY <1>b, <3>4, <4>1 DEF StopSignals
    <3> QED BY <1>9, <3>1, <3>2, <3>3, <3>4
  <2>2. \A j \in Keys : kpc'[j] # "none" => root'[j] = root[j] /\ kpc[j] # "none"
    BY <1>9, <1>0 DEF Add, Snapshot, StopSignals, Reap, Sweep, Remove, Step, keyVars
  <2>3. UNCHANGED <<daemon, dpc, older>>
    BY <1>9 DEF Add, Snapshot, StopSignals, Reap, Sweep, Remove, daemonVars, historyVars
  <2> QED BY <1>l, <1>0, <2>1, <2>2, <2>3 DEF RoleInv, Lasts
<1>10. CASE ForeignStarts
  <2>1. daemon # 0 => state'[daemon] = "alive"
    BY <1>10, <1>0 DEF ForeignStarts, Born, RoleInv
  <2> QED BY <1>10, <1>a, <2>1 DEF ForeignStarts, daemonVars, keyVars, historyVars
<1> QED BY <1>1, <1>2, <1>3, <1>4, <1>5, <1>6, <1>7, <1>8, <1>9, <1>10 DEF Next

\* A stop signals no number of the daemon: it keeps its own, and a process it
\* starts, or finds below another, has a different one.
LEMMA NumberStep ==
    ASSUME Bounds, TypeInv, RoleInv, NumberInv, KernelInv, [Next]_vars
    PROVE  NumberInv'
<1>l. Lasts
  BY LastsStep
<1>0. /\ kpc \in [Keys -> {"none", "spawned", "tracked", "reaped", "swept"}]
      /\ root \in [Keys -> 0..MaxBirths] /\ snap \in [Keys -> SUBSET Kids]
  BY DEF TypeInv, KeyType
<1>d. ASSUME dpc = "up" \/ \E k \in Keys : kpc[k] # "none"
      PROVE  daemon \in Started /\ kind[daemon] = "daemon" /\ Held(daemon)
             /\ pid'[daemon] = pid[daemon]
  <2>1. daemon # 0
    BY <1>d DEF RoleInv
  <2> QED BY <1>l, <2>1 DEF RoleInv, Held, Lasts
\* A step that leaves the daemon, and no key a new process or snapshot.
<1>a. ASSUME daemon' = daemon,
             \A k \in Keys : /\ snap'[k] \subseteq snap[k]
                             /\ kpc[k] # "none" => kpc'[k] # "none" \/ snap'[k] = {}
                             /\ kpc'[k] # "none" => kpc[k] # "none" /\ root'[k] = root[k]
      PROVE  NumberInv'
  <2>1. ASSUME NEW k \in Keys, kpc[k] # "none"
        PROVE  pid'[root[k]] # pid'[daemon] /\ \A d \in snap[k] : d.pid # pid'[daemon]
    <3>1. root[k] \in Started /\ pid'[daemon] = pid[daemon]
      BY <2>1, <1>d DEF RoleInv
    <3> QED BY <2>1, <3>1, <1>l DEF NumberInv, Lasts
  <2> QED BY <1>a, <2>1 DEF NumberInv
<1>1. CASE UNCHANGED vars
  BY <1>1, <1>a DEF vars, daemonVars, keyVars
<1>2. ASSUME NEW n \in Births, Exits(n) \/ Forks(n)
      PROVE  NumberInv'
  BY <1>2, <1>a DEF Exits, Forks, daemonVars, keyVars
<1>3. CASE ForeignStarts
  BY <1>3, <1>a DEF ForeignStarts, daemonVars, keyVars
<1>4. CASE DaemonStarts
  BY <1>4 DEF DaemonStarts, RoleInv, NumberInv, keyVars
<1>5. CASE CleanupLoads \/ CleanupSaves \/ Scan
  BY <1>5, <1>a DEF CleanupLoads, CleanupSaves, Scan, daemonVars, keyVars
<1>6. CASE Crash
  BY <1>6 DEF Crash, NumberInv
<1>7. ASSUME NEW e \in todo, CleanupKills(e)
      PROVE  NumberInv'
  BY <1>7, <1>a DEF CleanupKills, keyVars
<1>8. ASSUME NEW k \in Keys, Spawn(k)
      PROVE  NumberInv'
  <2>1. Grows("root", daemon, 0)
    BY <1>8 DEF Spawn, Grows, RoleInv
  <2>2. ~Taken(pid'[births + 1]) /\ births + 1 \notin Started /\ Started \subseteq Births
    BY <2>1, GrowsFacts
  <2>3. daemon \in Started /\ Held(daemon) /\ pid'[daemon] = pid[daemon]
    BY <1>8, <1>d DEF Spawn
  <2>4. pid'[births + 1] # pid'[daemon]
    BY <2>2, <2>3 DEF Taken, Held
  <2>5. /\ root'[k] = births + 1 /\ snap' = snap /\ snap[k] = {} /\ kpc'[k] # "none"
        /\ \A j \in Keys : j # k => root'[j] = root[j] /\ kpc'[j] = kpc[j]
        /\ daemon' = daemon
    BY <1>8, <1>0 DEF Spawn, Step, NumberInv, daemonVars
  <2>6. ASSUME NEW j \in Keys, j # k, kpc[j] # "none"
        PROVE  pid'[root[j]] # pid'[daemon] /\ \A d \in snap[j] : d.pid # pid'[daemon]
    <3>1. root[j] \in Started
      BY <2>6 DEF RoleInv
    <3> QED BY <2>3, <2>6, <3>1, <1>l DEF NumberInv, Lasts
  <2> QED BY <2>4, <2>5, <2>6 DEF NumberInv
<1>9. ASSUME NEW k \in Keys, Add(k) \/ StopSignals(k) \/ Reap(k) \/ Sweep(k) \/ Remove(k)
      PROVE  NumberInv'
  BY <1>9, <1>0, <1>a DEF Add, StopSignals, Reap, Sweep, Remove, Step, daemonVars, keyVars
<1>10. ASSUME NEW k \in Keys, Snapshot(k)
       PROVE  NumberInv'
  <2> DEFINE K == {[pid |-> pid[m], birth |-> m] : m \in Descendants(pid[root[k]])}
  <2>1. /\ snap' = [snap EXCEPT ![k] = K] /\ UNCHANGED <<pid, daemon, kpc, root>>
        /\ kpc[k] # "none"
    BY <1>10 DEF Snapshot, daemonVars, osVars
  <2>2. daemon \in Started /\ kind[daemon] = "daemon" /\ Held(daemon)
    BY <2>1, <1>d
  <2>3. ASSUME NEW m \in Descendants(pid[root[k]])
        PROVE  pid[m] # pid[daemon]
    <3>1. m \in Started /\ kind[m] # "daemon"
      BY <2>3, FoundBelow
    <3>2. Held(m)
      BY <2>3 DEF Descendants, Children, Alive, Held
    <3> QED BY <2>2, <3>1, <3>2 DEF KernelInv
  <2>4. \A d \in K : d.pid # pid[daemon]
    BY <2>3
  <2> HIDE DEF K
  <2> QED BY <1>0, <2>1, <2>4 DEF NumberInv
<1> QED BY <1>1, <1>2, <1>3, <1>4, <1>5, <1>6, <1>7, <1>8, <1>9, <1>10 DEF Next

-----------------------------------------------------------------------------
(***************************************************************************)
(* Types.                                                                  *)
(***************************************************************************)
\* An entry that is given new descendants is otherwise the one it was.
LEMMA NewKids ==
    ASSUME NEW e \in Entries, NEW K \in SUBSET Kids
    PROVE  LET f == [e EXCEPT !.kids = K]
           IN  /\ f \in Entries /\ f.kids = K
               /\ f.key = e.key /\ f.pid = e.pid /\ f.birth = e.birth
BY DEF Entries

\* What a walk of /proc finds can be recorded, with its identities or without.
LEMMA FoundKids ==
    ASSUME Bounds, TypeInv, NEW p
    PROVE  /\ Descendants(p) \subseteq Births
           /\ {[pid |-> pid[m], birth |-> m] : m \in Descendants(p)} \in SUBSET Kids
           /\ {[pid |-> pid[m], birth |-> 0] : m \in Descendants(p)} \in SUBSET Kids
<1>1. Descendants(p) \subseteq Births
  BY DEF Descendants, Children, Alive
<1>2. \A m \in Births : pid[m] \in PIDs \cup {None} /\ m \in 0..MaxBirths /\ 0 \in 0..MaxBirths
  BY DEF Bounds, Births, TypeInv, KernelType
<1> QED BY <1>1, <1>2 DEF Kids

\* A snapshot and a scan give some entries new descendants.
SnapEntry(k, e) ==
    IF e.pid = pid[root[k]]
    THEN [e EXCEPT !.kids = {[pid |-> pid[m], birth |-> 0] : m \in Descendants(pid[root[k]])}]
    ELSE e

ScanEntry(e) ==
    IF Named(e.pid) = {} THEN e
    ELSE [e EXCEPT !.kids = {[pid |-> pid[m], birth |-> m] : m \in Descendants(e.pid)}]

\* Both keep the rest of an entry.
LEMMA Rewritten ==
    ASSUME Bounds, TypeInv, NEW e \in Entries
    PROVE  /\ \A k \in Keys : /\ SnapEntry(k, e) \in Entries
                              /\ SnapEntry(k, e).key = e.key /\ SnapEntry(k, e).pid = e.pid
                              /\ SnapEntry(k, e).birth = e.birth
                              /\ \A d \in SnapEntry(k, e).kids : d.birth = 0 \/ d \in e.kids
           /\ ScanEntry(e) \in Entries
           /\ ScanEntry(e).key = e.key /\ ScanEntry(e).pid = e.pid
           /\ ScanEntry(e).birth = e.birth
           /\ \A d \in ScanEntry(e).kids :
                 d \in e.kids \/ (Named(e.pid) # {} /\ d.birth \in Descendants(e.pid))
<1>1. ASSUME NEW k \in Keys
      PROVE  /\ SnapEntry(k, e) \in Entries
             /\ SnapEntry(k, e).key = e.key /\ SnapEntry(k, e).pid = e.pid
             /\ SnapEntry(k, e).birth = e.birth
             /\ \A d \in SnapEntry(k, e).kids : d.birth = 0 \/ d \in e.kids
  <2> DEFINE K == {[pid |-> pid[m], birth |-> 0] : m \in Descendants(pid[root[k]])}
  <2>1. K \in SUBSET Kids /\ \A d \in K : d.birth = 0
    BY FoundKids
  <2>2. SnapEntry(k, e) = IF e.pid = pid[root[k]] THEN [e EXCEPT !.kids = K] ELSE e
    BY DEF SnapEntry
  <2> HIDE DEF K
  <2> QED BY <2>1, <2>2, NewKids
<1>2. /\ ScanEntry(e) \in Entries
      /\ ScanEntry(e).key = e.key /\ ScanEntry(e).pid = e.pid /\ ScanEntry(e).birth = e.birth
      /\ \A d \in ScanEntry(e).kids :
            d \in e.kids \/ (Named(e.pid) # {} /\ d.birth \in Descendants(e.pid))
  <2> DEFINE K == {[pid |-> pid[m], birth |-> m] : m \in Descendants(e.pid)}
  <2>1. K \in SUBSET Kids /\ \A d \in K : d.birth \in Descendants(e.pid)
    BY FoundKids
  <2>2. ScanEntry(e) = IF Named(e.pid) = {} THEN e ELSE [e EXCEPT !.kids = K]
    BY DEF ScanEntry
  <2> HIDE DEF K
  <2> QED BY <2>1, <2>2, NewKids
<1> QED BY <1>1, <1>2

\* The two actions in these words.
LEMMA Walks ==
    /\ \A k \in Keys : Snapshot(k) => file' = [file EXCEPT !.procs = {SnapEntry(k, e) : e \in file.procs}]
    /\ Scan => file' = [file EXCEPT !.procs = {ScanEntry(e) : e \in file.procs}]
BY DEF Snapshot, Scan, Saves, SnapEntry, ScanEntry

\* What is written to the file are entries.
LEMMA FileTypeStep ==
    ASSUME Bounds, TypeInv, RoleInv, KernelInv, [Next]_vars
    PROVE  FileType'
<1>0. /\ file \in [daemon : PIDs \cup {None}, procs : SUBSET Entries]
      /\ daemon # 0 => pid[daemon] \in PIDs
      /\ daemon # 0 <=> dpc # "off"
      /\ Started \subseteq Births
  <2>1. file \in [daemon : PIDs \cup {None}, procs : SUBSET Entries]
    BY DEF TypeInv, FileType
  <2>2. daemon # 0 => pid[daemon] \in PIDs
    BY DEF RoleInv, KernelInv
  <2>3. daemon # 0 <=> dpc # "off"
    BY DEF RoleInv
  <2>4. Started \subseteq Births
    BY DEF TypeInv, Bounds, KernelType, Started, Births
  <2> QED BY <2>1, <2>2, <2>3, <2>4
<1>a. ASSUME NEW P \in SUBSET Entries, Saves(P)
      PROVE  FileType'
  BY <1>0, <1>a DEF Saves, FileType
<1>1. CASE file' = file
  BY <1>0, <1>1 DEF FileType
<1>2. CASE CleanupSaves
  BY <1>0, <1>2 DEF CleanupSaves, FileType
<1>3. ASSUME NEW k \in Keys, Add(k)
      PROVE  FileType'
  <2> DEFINE a == [key |-> k, pid |-> pid[root[k]], birth |-> root[k], kids |-> {}]
  <2>1. root[k] \in Started
    BY <1>3 DEF Add, RoleInv
  <2>2. a \in Entries
    BY <2>1, <1>0 DEF KernelInv, Entries
  <2>3. Others(k) \cup {a} \in SUBSET Entries
    BY <2>2, <1>0 DEF Others
  <2> HIDE DEF a
  <2> QED BY <1>a, <2>3, <1>3 DEF Add, a
<1>4. ASSUME NEW k \in Keys, Snapshot(k)
      PROVE  FileType'
  <2>1. {SnapEntry(k, e) : e \in file.procs} \in SUBSET Entries
    BY <1>0, Rewritten
  <2> QED BY <1>a, <2>1, <1>4, Walks DEF Saves
<1>5. CASE Scan
  <2>1. {ScanEntry(e) : e \in file.procs} \in SUBSET Entries
    BY <1>0, Rewritten
  <2> QED BY <1>a, <2>1, <1>5, Walks DEF Saves
<1>6. ASSUME NEW k \in Keys, Remove(k)
      PROVE  FileType'
  <2>1. Others(k) \in SUBSET Entries
    BY <1>0 DEF Others
  <2> QED BY <1>a, <2>1, <1>6 DEF Remove
<1>7. ASSUME NEW n \in Births, Exits(n) \/ Forks(n)
      PROVE  file' = file
  BY <1>7 DEF Exits, Forks
<1>8. ASSUME ForeignStarts \/ DaemonStarts \/ CleanupLoads \/ Crash
      PROVE  file' = file
  BY <1>8 DEF ForeignStarts, DaemonStarts, CleanupLoads, Crash
<1>9. ASSUME NEW e \in todo, CleanupKills(e)
      PROVE  file' = file
  BY <1>9 DEF CleanupKills
<1>10. ASSUME NEW k \in Keys, Spawn(k) \/ StopSignals(k) \/ Reap(k) \/ Sweep(k)
       PROVE  file' = file
  BY <1>10 DEF Spawn, StopSignals, Reap, Sweep
<1>11. UNCHANGED vars => file' = file
  BY DEF vars
<1> QED BY <1>1, <1>2, <1>3, <1>4, <1>5, <1>6, <1>7, <1>8, <1>9, <1>10, <1>11 DEF Next

\* The daemon's next step and its work list keep their types.
LEMMA DaemonTypeStep ==
    ASSUME Bounds, TypeInv, RoleInv, KernelInv, [Next]_vars
    PROVE  DaemonType'
<1>0. /\ daemon \in 0..MaxBirths /\ dpc \in {"off", "load", "kill", "up"}
      /\ todo \subseteq Entries /\ file.procs \subseteq Entries
      /\ births \in Nat /\ MaxBirths \in Nat
  BY DEF TypeInv, FileType, DaemonType, KernelType, Bounds
<1>1. CASE UNCHANGED daemonVars
  BY <1>0, <1>1 DEF daemonVars, DaemonType
<1>2. CASE DaemonStarts
  BY <1>0, <1>2 DEF DaemonStarts, Born, DaemonType
<1>3. CASE CleanupLoads \/ CleanupSaves \/ Crash
  BY <1>0, <1>3 DEF CleanupLoads, CleanupSaves, Crash, DaemonType
<1>4. ASSUME NEW e \in todo, CleanupKills(e)
      PROVE  DaemonType'
  BY <1>0, <1>4 DEF CleanupKills, DaemonType
<1>5. ASSUME NEW n \in Births, Exits(n) \/ Forks(n)
      PROVE  UNCHANGED daemonVars
  BY <1>5 DEF Exits, Forks
<1>6. ForeignStarts \/ Scan \/ UNCHANGED vars => UNCHANGED daemonVars
  BY DEF ForeignStarts, Scan, vars
<1>7. ASSUME NEW k \in Keys,
             \/ Spawn(k) \/ Add(k) \/ Snapshot(k) \/ StopSignals(k)
             \/ Reap(k) \/ Sweep(k) \/ Remove(k)
      PROVE  UNCHANGED daemonVars
  BY <1>7 DEF Spawn, Add, Snapshot, StopSignals, Reap, Sweep, Remove
<1> QED BY <1>1, <1>2, <1>3, <1>4, <1>5, <1>6, <1>7 DEF Next

\* So do the steps, processes and snapshots of the keys.
LEMMA KeyTypeStep ==
    ASSUME Bounds, TypeInv, [Next]_vars
    PROVE  KeyType'
<1>0. /\ kpc \in [Keys -> {"none", "spawned", "tracked", "reaped", "swept"}]
      /\ root \in [Keys -> 0..MaxBirths] /\ snap \in [Keys -> SUBSET Kids]
      /\ births \in 0..MaxBirths /\ MaxBirths \in Nat /\ 0 \in 0..MaxBirths
      /\ {} \in SUBSET Kids
  BY DEF TypeInv, KeyType, KernelType, Bounds
<1>1. CASE UNCHANGED keyVars
  BY <1>0, <1>1 DEF keyVars, KeyType
<1>2. CASE Crash
  BY <1>0, <1>2 DEF Crash, KeyType
<1>3. ASSUME NEW k \in Keys, Spawn(k)
      PROVE  KeyType'
  BY <1>0, <1>3 DEF Spawn, Born, Step, KeyType
<1>4. ASSUME NEW k \in Keys, Add(k) \/ Reap(k) \/ Sweep(k)
      PROVE  KeyType'
  BY <1>0, <1>4 DEF Add, Reap, Sweep, Step, KeyType
<1>5. ASSUME NEW k \in Keys, Snapshot(k)
      PROVE  KeyType'
  <2> DEFINE K == {[pid |-> pid[m], birth |-> m] : m \in Descendants(pid[root[k]])}
  <2>1. K \in SUBSET Kids
    BY FoundKids
  <2>2. snap' = [snap EXCEPT ![k] = K] /\ UNCHANGED <<kpc, root>>
    BY <1>5 DEF Snapshot
  <2> HIDE DEF K
  <2> QED BY <1>0, <2>1, <2>2 DEF KeyType
<1>6. ASSUME NEW k \in Keys, Remove(k)
      PROVE  KeyType'
  BY <1>0, <1>6 DEF Remove, Step, KeyType
<1>7. ASSUME NEW n \in Births, Exits(n) \/ Forks(n)
      PROVE  UNCHANGED keyVars
  BY <1>7 DEF Exits, Forks
<1>8. ForeignStarts \/ DaemonStarts \/ CleanupLoads \/ CleanupSaves \/ Scan \/ UNCHANGED vars
         => UNCHANGED keyVars
  BY DEF ForeignStarts, DaemonStarts, CleanupLoads, CleanupSaves, Scan, vars
<1>9. ASSUME NEW e \in todo, CleanupKills(e)
      PROVE  UNCHANGED keyVars
  BY <1>9 DEF CleanupKills
<1>10. ASSUME NEW k \in Keys, StopSignals(k)
       PROVE  UNCHANGED keyVars
  BY <1>10 DEF StopSignals
<1> QED BY <1>1, <1>2, <1>3, <1>4, <1>5, <1>6, <1>7, <1>8, <1>9, <1>10 DEF Next

\* And the history.
LEMMA HistoryTypeStep ==
    ASSUME Bounds, TypeInv, RoleInv, KernelInv, [Next]_vars
    PROVE  HistoryType'
<1>0. /\ crashes \in 0..MaxCrashes /\ older \subseteq Births /\ skipped \in BOOLEAN
      /\ MaxCrashes \in Nat /\ Started \subseteq Births
  BY DEF TypeInv, HistoryType, KernelType, Bounds, Started, Births
<1>1. CASE UNCHANGED historyVars
  BY <1>0, <1>1 DEF historyVars, HistoryType
<1>2. CASE Crash
  <2>1. \A k \in Keys : kpc[k] = "tracked" => root[k] \in Births
    BY <1>0 DEF RoleInv
  <2>2. older' \subseteq Births /\ skipped' = skipped
    BY <1>0, <1>2, <2>1 DEF Crash
  <2>3. crashes' \in 0..MaxCrashes
    BY <1>0, <1>2 DEF Crash
  <2> QED BY <1>0, <2>2, <2>3 DEF HistoryType
<1>3. CASE CleanupLoads
  BY <1>0, <1>3 DEF CleanupLoads, HistoryType
<1>4. ASSUME NEW n \in Births, Exits(n) \/ Forks(n)
      PROVE  UNCHANGED historyVars
  BY <1>4 DEF Exits, Forks
<1>5. ForeignStarts \/ DaemonStarts \/ CleanupSaves \/ Scan \/ UNCHANGED vars
         => UNCHANGED historyVars
  BY DEF ForeignStarts, DaemonStarts, CleanupSaves, Scan, vars
<1>6. ASSUME NEW e \in todo, CleanupKills(e)
      PROVE  UNCHANGED historyVars
  BY <1>6 DEF CleanupKills
<1>7. ASSUME NEW k \in Keys,
             \/ Spawn(k) \/ Add(k) \/ Snapshot(k) \/ StopSignals(k)
             \/ Reap(k) \/ Sweep(k) \/ Remove(k)
      PROVE  UNCHANGED historyVars
  BY <1>7 DEF Spawn, Add, Snapshot, StopSignals, Reap, Sweep, Remove
<1> QED BY <1>1, <1>2, <1>3, <1>4, <1>5, <1>6, <1>7 DEF Next

\* Types hold after every step.
LEMMA TypeStep ==
    ASSUME Bounds, TypeInv, RoleInv, KernelInv, [Next]_vars
    PROVE  TypeInv'
BY KernelStep, FileTypeStep, DaemonTypeStep, KeyTypeStep, HistoryTypeStep DEF TypeInv

-----------------------------------------------------------------------------
(***************************************************************************)
(* The file.                                                               *)
(***************************************************************************)
\* What a record says is true for good.
LEMMA RecordLasts ==
    ASSUME Lasts, NEW e, Recorded(e)
    PROVE  Recorded(e)'
BY DEF Lasts, Recorded

\* A scan records nothing untrue.
LEMMA ScanRecords ==
    ASSUME Bounds, TypeInv, KernelInv, NEW e \in Entries, Recorded(e)
    PROVE  Recorded(ScanEntry(e))
<1> DEFINE f == ScanEntry(e)
<1>1. /\ f.pid = e.pid /\ f.birth = e.birth
      /\ \A d \in f.kids : d \in e.kids \/ (Named(e.pid) # {} /\ d.birth \in Descendants(e.pid))
  BY Rewritten
<1> HIDE DEF f
<1>2. ASSUME NEW d \in f.kids, d.birth # 0
      PROVE  /\ d.birth \in Started /\ kind[d.birth] # "daemon"
             /\ kind[d.birth] = "foreign" => state[e.birth] = "gone"
  <2>1. CASE d \in e.kids
    BY <1>2, <2>1 DEF Recorded
  <2>2. CASE d.birth \in Descendants(e.pid)
    <3>1. /\ d.birth \in Started /\ kind[d.birth] # "daemon"
          /\ \E n \in Named(e.pid) :
                n \in Started /\ (kind[d.birth] = "foreign" => kind[n] = "foreign")
      BY <2>2, FoundBelow
    <3>2. PICK n \in Named(e.pid) :
             n \in Started /\ (kind[d.birth] = "foreign" => kind[n] = "foreign")
      BY <3>1
    <3>3. ASSUME state[e.birth] # "gone"
          PROVE  n = e.birth
      <4>1. e.birth \in Started /\ e.birth \in Births /\ e.pid = pid[e.birth]
        BY DEF Recorded, Entries
      <4>2. state[e.birth] # "unborn"
        BY <4>1 DEF KernelInv
      <4>3. Held(e.birth)
        BY <3>3, <4>1, <4>2 DEF Held, TypeInv, KernelType
      <4>4. Held(n) /\ pid[n] = e.pid
        BY DEF Named, Held
      <4> QED BY <3>2, <4>1, <4>3, <4>4 DEF KernelInv
    <3> QED BY <3>1, <3>2, <3>3 DEF Recorded
  <2> QED BY <1>1, <1>2, <2>1, <2>2
<1> QED BY <1>1, <1>2 DEF Recorded, f

\* The file stays true, whichever step is taken.
LEMMA FileStep ==
    ASSUME Bounds, TypeInv, RoleInv, KernelInv, FileInv, [Next]_vars
    PROVE  FileInv'
<1>l. Lasts
  BY LastsStep
<1>0. /\ file \in [daemon : PIDs \cup {None}, procs : SUBSET Entries]
      /\ kpc \in [Keys -> {"none", "spawned", "tracked", "reaped", "swept"}]
      /\ root \in [Keys -> 0..MaxBirths] /\ snap \in [Keys -> SUBSET Kids]
  BY DEF TypeInv, FileType, KeyType
<1>r. \A e \in file.procs : Recorded(e) /\ Recorded(e)'
  <2>1. ASSUME NEW e \in file.procs
        PROVE  Recorded(e) /\ Recorded(e)'
    <3>1. Recorded(e)
      BY DEF FileInv
    <3> QED BY <3>1, <1>l, RecordLasts
  <2> QED BY <2>1
<1>s. \A k \in Keys : \A d \in snap[k] : d.birth \in Started' /\ kind'[d.birth] # "daemon"
  BY <1>l DEF FileInv, Lasts
\* A step that leaves the file, and adds nothing to what is said of it.
<1>a. ASSUME file' = file, \A k \in Keys : snap'[k] \subseteq snap[k],
             \A k \in Keys : kpc'[k] = "tracked" => kpc[k] = "tracked" /\ root'[k] = root[k],
             todo' \subseteq file.procs, dpc' # "kill" => todo' = {}
      PROVE  FileInv'
  BY <1>a, <1>r, <1>s DEF FileInv
<1>t. todo \subseteq file.procs /\ (dpc # "kill" => todo = {})
  BY DEF FileInv
<1>k. \A k \in Keys : kpc[k] # "none" => dpc = "up"
  BY DEF RoleInv
<1>1. CASE UNCHANGED vars
  BY <1>1, <1>a, <1>t DEF vars, daemonVars, keyVars
<1>2. ASSUME NEW n \in Births, Exits(n) \/ Forks(n)
      PROVE  FileInv'
  BY <1>2, <1>a, <1>t DEF Exits, Forks, daemonVars, keyVars
<1>3. CASE ForeignStarts
  BY <1>3, <1>a, <1>t DEF ForeignStarts, daemonVars, keyVars
<1>4. CASE DaemonStarts
  <2>1. dpc # "kill"
    BY <1>4 DEF DaemonStarts, RoleInv
  <2> QED BY <1>4, <2>1, <1>a, <1>t DEF DaemonStarts, keyVars
<1>5. CASE CleanupLoads
  BY <1>5, <1>a, <1>t DEF CleanupLoads, keyVars
<1>6. CASE CleanupSaves
  <2>1. file'.procs = {} /\ todo' = {} /\ UNCHANGED <<kpc, root, snap, osVars>>
    BY <1>0, <1>6 DEF CleanupSaves, keyVars
  <2>2. \A k \in Keys : kpc[k] = "none"
    BY <1>6, <1>k DEF CleanupSaves
  <2> QED BY <2>1, <2>2, <1>s DEF FileInv
<1>7. CASE Crash
  BY <1>7, <1>0, <1>a DEF Crash
<1>8. ASSUME NEW e \in todo, CleanupKills(e)
      PROVE  FileInv'
  BY <1>8, <1>a, <1>t DEF CleanupKills, keyVars
<1>9. ASSUME NEW k \in Keys, Spawn(k) \/ StopSignals(k) \/ Reap(k) \/ Sweep(k)
      PROVE  FileInv'
  <2>1. \A j \in Keys : kpc'[j] = "tracked" => kpc[j] = "tracked" /\ root'[j] = root[j]
    BY <1>9, <1>0 DEF Spawn, StopSignals, Reap, Sweep, Step, keyVars
  <2>2. UNCHANGED <<file, daemonVars, snap>>
    BY <1>9 DEF Spawn, StopSignals, Reap, Sweep, keyVars
  <2> QED BY <1>a, <1>t, <2>1, <2>2 DEF daemonVars
<1>10. ASSUME NEW k \in Keys, Add(k)
       PROVE  FileInv'
  <2>d. PICK a : a = [key |-> k, pid |-> pid[root[k]], birth |-> root[k], kids |-> {}]
    OBVIOUS
  <2>1. /\ file'.procs = Others(k) \cup {a}
        /\ kpc' = [kpc EXCEPT ![k] = "tracked"] /\ UNCHANGED <<osVars, daemonVars, root, snap>>
    BY <2>d, <1>10, <1>0 DEF Add, Saves, Step
  <2>2. a.key = k /\ a.birth = root[k] /\ Recorded(a)
    BY <2>d, <1>10 DEF Add, RoleInv, Recorded
  <2>3. Recorded(a)'
    BY <1>l, <2>2, RecordLasts
  <2>4. \A e, f \in Others(k) \cup {a} : e.key = f.key => e = f
    BY <2>2 DEF Others, FileInv
  <2>5. \A e \in Others(k) \cup {a} : Recorded(e)'
    BY <2>3, <1>r DEF Others
  <2>6. \A j \in Keys : kpc'[j] = "tracked" =>
           \E e \in Others(k) \cup {a} : e.key = j /\ e.birth = root'[j]
    BY <1>0, <2>1, <2>2 DEF Others, FileInv
  <2>7. todo' = {} /\ dpc' = "up" /\ snap' = snap
    BY <1>10, <1>k, <1>t, <2>1 DEF Add, daemonVars
  <2> QED BY <2>1, <2>4, <2>5, <2>6, <2>7, <1>s DEF FileInv
<1>11. ASSUME NEW k \in Keys, Snapshot(k)
       PROVE  FileInv'
  <2>1. file'.procs = {SnapEntry(k, e) : e \in file.procs}
    BY <1>11, <1>0, Walks
  <2>2. \A e \in file.procs :
           /\ SnapEntry(k, e).key = e.key /\ SnapEntry(k, e).pid = e.pid
           /\ SnapEntry(k, e).birth = e.birth
           /\ \A d \in SnapEntry(k, e).kids : d.birth = 0 \/ d \in e.kids
    BY <1>0, Rewritten
  <2>3. \A e, f \in file'.procs : e.key = f.key => e = f
    BY <2>1, <2>2 DEF FileInv
  <2>4. UNCHANGED <<osVars, daemonVars, kpc, root>>
    BY <1>11 DEF Snapshot
  <2>5. \A e \in file'.procs : Recorded(e)'
    <3>1. \A e \in file.procs : Recorded(SnapEntry(k, e))
      BY <1>r, <2>2 DEF Recorded
    <3>2. \A e \in file'.procs : Recorded(e)
      BY <2>1, <3>1
    <3>3. ASSUME NEW e \in file'.procs
          PROVE  Recorded(e)'
      <4>1. Recorded(e)
        BY <3>2
      <4> QED BY <4>1, <1>l, RecordLasts
    <3> QED BY <3>3
  <2>6. \A j \in Keys : kpc'[j] = "tracked" => \E e \in file'.procs : e.key = j /\ e.birth = root'[j]
    BY <2>1, <2>2, <2>4 DEF FileInv
  <2>7. \A j \in Keys : \A d \in snap'[j] : d.birth \in Started' /\ kind'[d.birth] # "daemon"
    <3> DEFINE K == {[pid |-> pid[m], birth |-> m] : m \in Descendants(pid[root[k]])}
    <3>1. \A d \in K : d.birth \in Started /\ kind[d.birth] # "daemon"
      BY FoundBelow
    <3>2. snap' = [snap EXCEPT ![k] = K]
      BY <1>11 DEF Snapshot
    <3> HIDE DEF K
    <3>3. \A d \in K : d.birth \in Started' /\ kind'[d.birth] # "daemon"
      BY <3>1, <1>l DEF Lasts
    <3> QED BY <3>2, <3>3, <1>s, <1>0
  <2>8. todo' = {} /\ dpc' = "up"
    BY <1>11, <1>k, <1>t, <2>4 DEF Snapshot, daemonVars
  <2> QED BY <2>3, <2>5, <2>6, <2>7, <2>8 DEF FileInv
<1>12. CASE Scan
  <2>1. file'.procs = {ScanEntry(e) : e \in file.procs}
    BY <1>12, <1>0, Walks
  <2>2. \A e \in file.procs : /\ ScanEntry(e).key = e.key
                              /\ ScanEntry(e).birth = e.birth
    BY <1>0, Rewritten
  <2>3. \A e, f \in file'.procs : e.key = f.key => e = f
    BY <2>1, <2>2 DEF FileInv
  <2>4. UNCHANGED <<osVars, daemonVars, keyVars>>
    BY <1>12 DEF Scan
  <2>5. \A e \in file'.procs : Recorded(e)'
    <3>1. \A e \in file.procs : Recorded(ScanEntry(e))
      BY <1>0, <1>r, ScanRecords
    <3>2. \A e \in file'.procs : Recorded(e)
      BY <2>1, <3>1
    <3>3. ASSUME NEW e \in file'.procs
          PROVE  Recorded(e)'
      <4>1. Recorded(e)
        BY <3>2
      <4> QED BY <4>1, <1>l, RecordLasts
    <3> QED BY <3>3
  <2>6. \A j \in Keys : kpc'[j] = "tracked" => \E e \in file'.procs : e.key = j /\ e.birth = root'[j]
    BY <2>1, <2>2, <2>4 DEF FileInv, keyVars
  <2>7. todo' = {} /\ dpc' = "up" /\ snap' = snap
    BY <1>12, <1>t, <2>4 DEF Scan, daemonVars, keyVars
  <2> QED BY <2>3, <2>5, <2>6, <2>7, <1>s DEF FileInv
<1>13. ASSUME NEW k \in Keys, Remove(k)
       PROVE  FileInv'
  <2>1. /\ file'.procs = Others(k) /\ UNCHANGED <<osVars, daemonVars>>
        /\ kpc' = [kpc EXCEPT ![k] = "none"] /\ root' = [root EXCEPT ![k] = 0]
        /\ snap' = [snap EXCEPT ![k] = {}]
    BY <1>13, <1>0 DEF Remove, Saves, Step
  <2>2. \A e, f \in Others(k) : e.key = f.key => e = f
    BY DEF Others, FileInv
  <2>3. \A e \in Others(k) : Recorded(e)'
    BY <1>r DEF Others
  <2>4. \A j \in Keys : kpc'[j] = "tracked" =>
           \E e \in Others(k) : e.key = j /\ e.birth = root'[j]
    BY <1>0, <2>1 DEF Others, FileInv
  <2>5. \A j \in Keys : \A d \in snap'[j] : d.birth \in Started' /\ kind'[d.birth] # "daemon"
    BY <1>0, <2>1, <1>s
  <2>6. todo' = {} /\ dpc' = "up"
    BY <1>13, <1>k, <1>t, <2>1 DEF Remove, daemonVars
  <2> QED BY <2>1, <2>2, <2>3, <2>4, <2>5, <2>6 DEF FileInv
<1> QED BY <1>1, <1>2, <1>3, <1>4, <1>5, <1>6, <1>7, <1>8, <1>9, <1>10, <1>11, <1>12, <1>13 DEF Next

-----------------------------------------------------------------------------
(***************************************************************************)
(* The orphans.                                                            *)
(***************************************************************************)
\* An entry whose process still runs is found to be of it, and kills it.
LEMMA KillsItsOwn ==
    ASSUME Bounds, TypeInv, FileInv, NEW e \in todo, CleanupKills(e)
    PROVE  e.birth \notin Alive'
<1>1. CASE e.birth \in Alive
  <2>1. e \in file.procs /\ Recorded(e)
    BY DEF FileInv
  <2>2. e.birth \in Named(e.pid)
    BY <1>1, <2>1 DEF Recorded, Named, Alive
  <2>3. Ended(Verified(e.kids) \cup GroupOf(e.pid) \cup Named(e.pid))
    BY <2>2 DEF CleanupKills, IdentityMatches
  <2> QED BY <2>2, <2>3, EndedFades DEF TypeInv
<1>2. CASE e.birth \notin Alive
  <2>1. KernelType /\ (Fades \/ UNCHANGED osVars)
    BY EndedFades DEF CleanupKills, TypeInv
  <2> QED BY <1>2, <2>1 DEF Fades, Alive, osVars
<1> QED BY <1>1, <1>2

\* No step leaves an orphan that is not listed any more.
LEMMA OrphanStep ==
    ASSUME Bounds, TypeInv, RoleInv, KernelInv, FileInv, OrphanInv, [Next]_vars
    PROVE  OrphanInv'
<1>l. /\ Lasts /\ older \subseteq Started
      /\ \A n \in older : n \in Alive' => n \in Alive
  BY LastsStep DEF RoleInv, Lasts
\* A step that leaves the file, the daemon and what it has left to do.
<1>a. ASSUME UNCHANGED <<file, daemonVars, historyVars>>
      PROVE  OrphanInv'
  BY <1>a, <1>l DEF OrphanInv, daemonVars, historyVars
\* A step of a daemon that is through with CleanupOrphans.
<1>b. ASSUME dpc = "up", UNCHANGED historyVars
      PROVE  OrphanInv'
  BY <1>b, <1>l DEF OrphanInv, historyVars
<1>1. CASE UNCHANGED vars
  BY <1>1, <1>a DEF vars
<1>2. ASSUME NEW n \in Births, Exits(n) \/ Forks(n)
      PROVE  OrphanInv'
  BY <1>2, <1>a DEF Exits, Forks
<1>3. CASE ForeignStarts
  BY <1>3, <1>a DEF ForeignStarts
<1>4. CASE DaemonStarts
  BY <1>4, <1>l DEF DaemonStarts, OrphanInv, historyVars
<1>5. CASE CleanupLoads
  <2>1. older' = older /\ file' = file
    BY <1>5 DEF CleanupLoads
  <2>2. ~skipped' => ~skipped /\ dpc' = "kill" /\ todo' = file.procs
    BY <1>5 DEF CleanupLoads
  <2> QED BY <2>1, <2>2, <1>l DEF OrphanInv
<1>6. CASE CleanupSaves
  <2>1. ~skipped => older \cap Alive = {}
    BY <1>6 DEF CleanupSaves, OrphanInv
  <2> QED BY <1>6, <2>1, <1>l DEF CleanupSaves, OrphanInv, historyVars
<1>7. CASE Crash
  <2>1. older' = older \cup {root[k] : k \in {j \in Keys : kpc[j] = "tracked"}}
    BY <1>7 DEF Crash
  <2>2. dpc' = "off" /\ file' = file /\ skipped' = skipped
    BY <1>7 DEF Crash
  <2>3. \A k \in Keys : kpc[k] = "tracked" => \E e \in file.procs : e.birth = root[k]
    BY DEF FileInv
  <2> QED BY <2>1, <2>2, <2>3, <1>l DEF OrphanInv
<1>8. ASSUME NEW e \in todo, CleanupKills(e)
      PROVE  OrphanInv'
  <2>1. /\ todo' = todo \ {e} /\ file' = file /\ older' = older /\ skipped' = skipped
        /\ dpc = "kill" /\ dpc' = "kill"
    BY <1>8 DEF CleanupKills, historyVars
  <2>2. e.birth \notin Alive'
    BY <1>8, KillsItsOwn
  <2>3. ASSUME ~skipped, NEW n \in older, n \in Alive'
        PROVE  (\E f \in file.procs : f.birth = n) /\ \E f \in todo' : f.birth = n
    <3>1. n \in Alive
      BY <2>3, <1>l
    <3>2. (\E f \in file.procs : f.birth = n) /\ \E f \in todo : f.birth = n
      BY <3>1, <2>1, <2>3 DEF OrphanInv
    <3> QED BY <3>2, <2>1, <2>2, <2>3
  <2> QED BY <2>1, <2>3 DEF OrphanInv
<1>9. CASE Scan
  BY <1>9, <1>b DEF Scan
<1>10. ASSUME NEW k \in Keys,
             \/ Spawn(k) \/ Add(k) \/ Snapshot(k) \/ StopSignals(k)
             \/ Reap(k) \/ Sweep(k) \/ Remove(k)
       PROVE  OrphanInv'
  <2>1. dpc = "up"
    BY <1>10 DEF RoleInv, Spawn, Add, Snapshot, StopSignals, Reap, Sweep,
      Remove
  <2> QED BY <1>10, <2>1, <1>b DEF Spawn, Add, Snapshot, StopSignals, Reap, Sweep, Remove
<1> QED BY <1>1, <1>2, <1>3, <1>4, <1>5, <1>6, <1>7, <1>8, <1>9, <1>10 DEF Next

\* Nothing has been started and the file is empty.
LEMMA InitInv ==
    ASSUME Bounds, Init
    PROVE  IInv
<1>1. Started = {} /\ Alive = {}
  BY DEF Started, Init, Alive
<1>2. TypeInv
  <2>1. KernelType
    BY DEF Bounds, Init, KernelType
  <2>2. FileType /\ DaemonType
    BY DEF Bounds, Init, FileType, DaemonType
  <2>3. KeyType
    BY DEF Bounds, Init, KeyType
  <2>4. HistoryType
    <3>1. crashes \in 0..MaxCrashes /\ older \subseteq Births
      BY DEF Bounds, Init
    <3>2. skipped \in BOOLEAN
      BY DEF Init
    <3> QED BY <3>1, <3>2 DEF HistoryType
  <2> QED BY <2>1, <2>2, <2>3, <2>4 DEF TypeInv
<1>3. KernelInv
  BY <1>1 DEF Init, KernelInv
<1>4. RoleInv /\ NumberInv /\ FileInv /\ OrphanInv
  BY <1>1 DEF Init, RoleInv, NumberInv, FileInv, OrphanInv
<1> QED BY <1>2, <1>3, <1>4 DEF IInv

\* The invariant is inductive.
THEOREM Inductive ==
    ASSUME Bounds
    PROVE  Spec => []IInv
<1>1. Init => IInv
  BY InitInv
<1>2. IInv /\ [Next]_vars => IInv'
  BY TypeStep, KernelStep, RoleStep, NumberStep, FileStep, OrphanStep DEF IInv
<1> QED BY <1>1, <1>2, PTL DEF Spec

\* Types hold in every reachable state, and the file has one entry for a
\* process ID and path, made for a process that was started, with a PID.
THEOREM Typed ==
    ASSUME Bounds
    PROVE  Spec => []TypeOK
<1>1. IInv => TypeOK
  <2>1. ASSUME IInv
        PROVE  TypeOK
    <3>1. KernelType /\ FileType /\ DaemonType /\ KeyType /\ HistoryType
      BY <2>1 DEF IInv, TypeInv
    <3>2. \A e \in file.procs : e.key \in Keys /\ e.pid \in PIDs /\ e.birth \in Births
      BY <3>1 DEF FileType, Entries
    <3>3. \A e, f \in file.procs : e.key = f.key => e = f
      BY <2>1 DEF IInv, FileInv
    <3> QED BY <3>1, <3>2, <3>3 DEF TypeOK, KernelType, FileType, DaemonType, KeyType, HistoryType
  <2> QED BY <2>1
<1> QED BY <1>1, Inductive, PTL

\* CleanupOrphans leaves nothing behind: once it is through, no process that
\* an earlier daemon had recorded runs, whatever crashes cut earlier cleanups
\* short and whatever PIDs have been used again in between, unless a daemon has
\* come up with the PID of its predecessor.
THEOREM OrphansAreGone ==
    ASSUME Bounds
    PROVE  Spec => []OrphansGone
<1>1. IInv => OrphansGone
  BY DEF IInv, OrphanInv, OrphansGone
<1> QED BY <1>1, Inductive, PTL

-----------------------------------------------------------------------------
\* Who ends when the group and the descendants of a process that was reaped
\* are killed: nobody from outside the hub who was not found below its PID.
LEMMA SweepMistakes ==
    ASSUME Bounds, TypeInv, KernelInv, NEW k \in Keys, Sweep(k),
           NEW n \in Births, kind[n] = "foreign", state[n] = "alive", state'[n] = "gone"
    PROVE  FoundBelowStranger(n)
<1> DEFINE p == pid[root[k]]
           G == IF Named(p) = {} THEN GroupOf(p) ELSE {}
           K == UNION {e.kids : e \in {x \in file.procs : x.pid = p}}
<1>1. n \notin G
  BY SweepSpares
<1>2. n \in Verified(snap[k] \cup K) => FoundBelowStranger(n)
  BY DEF Verified, FoundBelowStranger
<1>3. Ended(G \cup Verified(snap[k] \cup K)) \/ UNCHANGED osVars
  BY DEF Sweep
<1> HIDE DEF G, K
<1>4. n \in G \cup Verified(snap[k] \cup K)
  BY <1>3 DEF Ended, osVars
<1> QED BY <1>1, <1>2, <1>4

\* CleanupOrphans kills no program outside the hub, whatever the PIDs and
\* group IDs of the file name by now; the cleanup after an exit at most one
\* that a scan or a snapshot found below a PID which had changed hands.
THEOREM OthersAreSpared ==
    ASSUME Bounds
    PROVE  Spec => OthersSurvive
<1> DEFINE Spared == \A n \in Births :
              kind[n] = "foreign" /\ state[n] = "alive" /\ state'[n] = "gone"
                 => todo' = todo /\ (kpc' = kpc \/ FoundBelowStranger(n))
<1>1. ASSUME Bounds, IInv, [Next]_vars
      PROVE  Spared
  <2>i. TypeInv /\ KernelInv /\ RoleInv /\ FileInv
    BY <1>1 DEF IInv
  <2>0. UNCHANGED <<daemonVars, keyVars>> \/ state' = state => Spared
    BY DEF daemonVars, keyVars
  <2>1. CASE UNCHANGED vars
    BY <2>0, <2>1 DEF vars
  <2>2. ASSUME NEW n \in Births, Exits(n) \/ Forks(n)
        PROVE  Spared
    BY <2>0, <2>2 DEF Exits, Forks
  <2>3. CASE ForeignStarts
    BY <2>0, <2>3 DEF ForeignStarts
  <2>4. CASE DaemonStarts
    BY <2>4 DEF DaemonStarts, keyVars
  <2>5. CASE CleanupLoads \/ CleanupSaves \/ Scan
    BY <2>0, <2>5 DEF CleanupLoads, CleanupSaves, Scan, osVars
  <2>6. CASE Crash
    BY <2>i, <2>6 DEF Crash, RoleInv
  <2>7. ASSUME NEW e \in todo, CleanupKills(e)
        PROVE  Spared
    <3>1. CASE IdentityMatches(e)
      <4>1. Ended(Verified(e.kids) \cup GroupOf(e.pid) \cup Named(e.pid))
        BY <2>7, <3>1 DEF CleanupKills
      <4>2. \A n \in Alive \cap (Verified(e.kids) \cup GroupOf(e.pid) \cup Named(e.pid)) :
               kind[n] \notin {"foreign", "daemon"}
        BY <2>i, <3>1, CleanupSpares
      <4> QED BY <4>1, <4>2 DEF Ended, Alive
    <3>2. CASE ~IdentityMatches(e)
      BY <2>0, <2>7, <3>2 DEF CleanupKills, osVars
    <3> QED BY <3>1, <3>2
  <2>8. ASSUME NEW k \in Keys, Spawn(k)
        PROVE  Spared
    <3>1. state' = [state EXCEPT ![births + 1] = "alive"]
      BY <2>8 DEF Spawn, Born
    <3>2. state \in [Births -> {"unborn", "alive", "zombie", "gone"}]
      BY <2>i DEF TypeInv, KernelType
    <3> QED BY <3>1, <3>2
  <2>9. ASSUME NEW k \in Keys, Add(k) \/ Snapshot(k) \/ Remove(k)
        PROVE  Spared
    BY <2>0, <2>9 DEF Add, Snapshot, Remove, osVars
  <2>10. ASSUME NEW k \in Keys, Reap(k)
         PROVE  Spared
    <3>1. state' = [state EXCEPT ![root[k]] = "gone"] /\ state[root[k]] = "zombie"
      BY <2>10 DEF Reap
    <3>2. state \in [Births -> {"unborn", "alive", "zombie", "gone"}]
      BY <2>i DEF TypeInv, KernelType
    <3> QED BY <3>1, <3>2
  <2>11. ASSUME NEW k \in Keys, Sweep(k)
         PROVE  Spared
    <3>1. todo' = todo
      BY <2>11 DEF Sweep, daemonVars
    <3> QED BY <1>1, <2>i, <2>11, <3>1, SweepMistakes
  <2>12. ASSUME NEW k \in Keys, StopSignals(k)
         PROVE  Spared
    BY <2>0, <2>12 DEF StopSignals
  <2> QED BY <1>1, <2>1, <2>2, <2>3, <2>4, <2>5, <2>6, <2>7, <2>8, <2>9, <2>10, <2>11, <2>12
          DEF Next
<1>2. IInv /\ [Next]_vars => [Spared]_vars
  BY <1>1
<1> QED BY <1>2, Inductive, PTL DEF Spec, OthersSurvive, Spared

=============================================================================
