--------------------------- MODULE HubLivenessProofs ---------------------------
(***************************************************************************)
(* Theorems about the three components that MCHubLiveness puts side by     *)
(* side, for any numbers of clients, requests, Conns, sessions, faults and *)
(* attempts: HubServer and ResilientConn with inductive invariants of      *)
(* their own, SubprocessServer with that of SubprocessServerProofs.        *)
(***************************************************************************)
EXTENDS MCHubLiveness, TLAPS, FiniteSetTheorems

-----------------------------------------------------------------------------
(***************************************************************************)
(* The hub process.  Its counters say how many connections are in the map  *)
(* and how many goroutines run; its session codes are never given twice.   *)
(***************************************************************************)
CS == {"idle", "backlog", "accepted", "loop", "read", "command", "close", "remove", "session",
       "forget", "return", "gone"}

\* Connections that have a goroutine, and those that the counter counts.
Serving == {c \in Clients : cs[c] \in {"loop", "read", "command", "close", "remove", "session",
                                        "forget", "return"}}
Counted == {c \in Clients : cs[c] \in {"loop", "read", "command", "close", "remove"}}

HubType ==
    /\ hloop \in {"accept", "store", "launch", "done"} /\ cur \in Clients \cup {None}
    /\ cs \in [Clients -> CS]
    /\ open \subseteq Clients /\ hungUp \subseteq Clients /\ clients \subseteq Clients
    /\ spc \in {"none", "cancel", "unlisten", "range", "drain", "wait", "files", "done"}
    /\ patient \in BOOLEAN /\ wanted \in BOOLEAN

CountInv ==
    /\ count = Cardinality(Counted)
    /\ wg = Cardinality(Serving) + (IF hloop = "done" THEN 0 ELSE 1)

\* One connection is being admitted at a time, and what is open or in the map
\* is being admitted or has a goroutine.
AdmitInv ==
    /\ hloop \in {"store", "launch"} => cur \in Clients /\ cs[cur] = "accepted"
    /\ \A c \in Clients : cs[c] = "accepted" => hloop \in {"store", "launch"} /\ cur = c
    /\ \A c \in open : cs[c] \in {"accepted", "loop", "read", "command", "close"}
    /\ \A c \in clients : c \in Counted \/ (cs[c] = "accepted" /\ hloop = "launch")

\* A code is given to one connection, and its session goes with that unless the
\* connection has been given another code.
SessionInv ==
    /\ code \in [Clients -> 0..MaxSessions] /\ nextCode \in 1..MaxSessions + 1
    /\ \A n \in sessions : n \in 1..nextCode - 1
    /\ \A c \in Clients : code[c] < nextCode
    /\ \A c, d \in Clients : code[c] = code[d] /\ code[c] # 0 => c = d
    /\ \A c \in Clients : cs[c] \in {"idle", "backlog", "accepted"} => code[c] = 0
    /\ \A n \in sessions \ replaced :
          \E c \in Clients : code[c] = n /\ cs[c] \notin {"return", "gone"}

\* A Stop that has waited leaves no goroutine, no connection, no entry of the map.
StoppedInv ==
    patient /\ spc \in {"files", "done"} => hloop = "done" /\ Serving = {}

HubInv == HubType /\ CountInv /\ AdmitInv /\ SessionInv /\ StoppedInv

\* The initial state: nobody has dialled, the accept loop runs.
LEMMA HubInit ==
    ASSUME Hub!Init
    PROVE  HubInv
<1> USE PartsAssumption DEF Hub!Init
<1>1. HubType
  BY DEF HubType, CS
<1>2. CountInv
  <2>1. Counted = {} /\ Serving = {}
    BY DEF Counted, Serving
  <2> QED BY <2>1, FS_EmptySet DEF CountInv
<1>3. AdmitInv
  BY DEF AdmitInv
<1>4. SessionInv
  BY DEF SessionInv
<1>5. StoppedInv
  BY DEF StoppedInv
<1> QED BY <1>1, <1>2, <1>3, <1>4, <1>5 DEF HubInv

\* Steps of a client's connection; the others are of the accept loop and Stop.
HubConnStep(c) == Hub!Dial(c) \/ Hub!HangUp(c) \/ Hub!Accept(c) \/ Hub!ReadEnds(c)
                     \/ Hub!Handle(c)

\* Who makes a step.
LEMMA HubSteps ==
    ASSUME [Hub!Next]_(Hub!vars)
    PROVE  \/ \E c \in Clients : HubConnStep(c)
           \/ Hub!Store \/ Hub!Launch \/ Hub!AcceptFails \/ Hub!StopBegin \/ Hub!Stop
           \/ UNCHANGED Hub!vars
BY DEF Hub!Next, HubConnStep

\* Every step keeps the types.
LEMMA HubTypeStep ==
    ASSUME HubType, AdmitInv, [Hub!Next]_(Hub!vars)
    PROVE  HubType'
<1> USE DEF HubType, CS, Hub!loopVars, Hub!connVars, Hub!mapVars, Hub!stopVars
<1>1. ASSUME NEW c \in Clients, HubConnStep(c)
      PROVE  HubType'
  <2>1. CASE Hub!Dial(c) \/ Hub!HangUp(c) \/ Hub!Accept(c)
    BY <2>1 DEF Hub!Dial, Hub!HangUp, Hub!Accept
  <2>2. CASE Hub!ReadEnds(c) \/ Hub!CheckContext(c)
    BY <2>2 DEF Hub!ReadEnds, Hub!CheckContext, Hub!Becomes
  <2>3. CASE Hub!CloseConn(c) \/ Hub!RemoveClient(c) \/ Hub!StopProcesses(c)
    BY <2>3 DEF Hub!CloseConn, Hub!RemoveClient, Hub!StopProcesses, Hub!Becomes
  <2>4. CASE Hub!ForgetSession(c) \/ Hub!Return(c)
    BY <2>4 DEF Hub!ForgetSession, Hub!Return, Hub!Becomes
  <2>5. CASE Hub!Command(c)
    <3>1. wanted' \in BOOLEAN
      BY <2>5 DEF Hub!Command, Hub!Register, Hub!Unregister, Hub!Shutdown
    <3> QED BY <2>5, <3>1 DEF Hub!Command, Hub!Becomes
  <2> QED BY <1>1, <2>1, <2>2, <2>3, <2>4, <2>5 DEF HubConnStep, Hub!Handle
<1>2. CASE Hub!Store \/ Hub!Launch
  BY <1>2 DEF Hub!Store, Hub!Launch, AdmitInv
<1>3. CASE Hub!AcceptFails \/ Hub!StopBegin
  BY <1>3 DEF Hub!AcceptFails, Hub!StopBegin
<1>4. CASE Hub!Stop
  BY <1>4 DEF Hub!Stop, Hub!Cancel, Hub!CloseListener, Hub!CloseClient, Hub!RangeEnds,
     Hub!Drain, Hub!WaitEnds, Hub!StopReturn
<1>5. UNCHANGED Hub!vars => HubType'
  BY DEF Hub!vars
<1> QED BY <1>1, <1>2, <1>3, <1>4, <1>5, HubSteps

\* The accept loop admits a connection to the end before it takes the next.
LEMMA HubAdmitStep ==
    ASSUME HubType, AdmitInv, [Hub!Next]_(Hub!vars)
    PROVE  AdmitInv'
<1> USE DEF HubType, AdmitInv, Counted, Hub!loopVars, Hub!connVars, Hub!mapVars, Hub!stopVars
<1>1. ASSUME NEW c \in Clients, HubConnStep(c)
      PROVE  AdmitInv'
  <2>1. CASE Hub!Dial(c) \/ Hub!HangUp(c) \/ Hub!Accept(c)
    BY <2>1 DEF Hub!Dial, Hub!HangUp, Hub!Accept
  <2>2. CASE Hub!ReadEnds(c) \/ Hub!CheckContext(c)
    BY <2>2 DEF Hub!ReadEnds, Hub!CheckContext, Hub!Becomes
  <2>3. CASE Hub!CloseConn(c) \/ Hub!RemoveClient(c) \/ Hub!StopProcesses(c)
    BY <2>3 DEF Hub!CloseConn, Hub!RemoveClient, Hub!StopProcesses, Hub!Becomes
  <2>4. CASE Hub!ForgetSession(c) \/ Hub!Return(c)
    BY <2>4 DEF Hub!ForgetSession, Hub!Return, Hub!Becomes
  <2>5. CASE Hub!Command(c)
    BY <2>5 DEF Hub!Command, Hub!Becomes
  <2> QED BY <1>1, <2>1, <2>2, <2>3, <2>4, <2>5 DEF HubConnStep, Hub!Handle
<1>2. CASE Hub!Store \/ Hub!Launch
  BY <1>2 DEF Hub!Store, Hub!Launch
<1>3. CASE Hub!AcceptFails \/ Hub!StopBegin
  BY <1>3 DEF Hub!AcceptFails, Hub!StopBegin
<1>4. CASE Hub!Stop
  BY <1>4 DEF Hub!Stop, Hub!Cancel, Hub!CloseListener, Hub!CloseClient, Hub!RangeEnds,
     Hub!Drain, Hub!WaitEnds, Hub!StopReturn
<1>5. UNCHANGED Hub!vars => AdmitInv'
  BY DEF Hub!vars
<1> QED BY <1>1, <1>2, <1>3, <1>4, <1>5, HubSteps

\* A finite set with one element more or less.
LEMMA OneMore ==
    ASSUME NEW S, IsFiniteSet(S), NEW c
    PROVE  /\ c \notin S => Cardinality(S \cup {c}) = Cardinality(S) + 1
           /\ c \in S => Cardinality(S \ {c}) = Cardinality(S) - 1
           /\ Cardinality(S) \in Nat
BY FS_AddElement, FS_RemoveElement, FS_CardinalityType

\* Goroutines begin and end as wg says, and clients come and go as the counter
\* says.
LEMMA HubCountStep ==
    ASSUME HubType, AdmitInv, CountInv, [Hub!Next]_(Hub!vars)
    PROVE  CountInv'
<1>f. IsFiniteSet(Serving) /\ IsFiniteSet(Counted)
  <2>1. Serving \in SUBSET Clients /\ Counted \in SUBSET Clients
    BY DEF Serving, Counted
  <2> QED BY <2>1, PartsAssumption, FS_Subset
<1>n. Cardinality(Serving) \in Nat /\ Cardinality(Counted) \in Nat
  BY <1>f, FS_CardinalityType
<1> USE DEF HubType, Hub!loopVars, Hub!connVars, Hub!mapVars, Hub!stopVars
<1>1. ASSUME Serving' = Serving, Counted' = Counted,
             wg' = wg, count' = count, hloop' = "done" <=> hloop = "done"
      PROVE  CountInv'
  BY <1>1 DEF CountInv
<1>2. ASSUME NEW c \in Clients, HubConnStep(c)
      PROVE  CountInv'
  <2>1. CASE Hub!Dial(c) \/ Hub!HangUp(c) \/ Hub!Accept(c)
    <3>1. Serving' = Serving /\ Counted' = Counted
      BY <2>1 DEF Hub!Dial, Hub!HangUp, Hub!Accept, Serving, Counted
    <3> QED BY <1>1, <2>1, <3>1 DEF Hub!Dial, Hub!HangUp, Hub!Accept
  <2>2. CASE Hub!ReadEnds(c) \/ Hub!CheckContext(c) \/ Hub!CloseConn(c) \/ Hub!Command(c)
    <3>1. Serving' = Serving /\ Counted' = Counted
      BY <2>2 DEF Hub!ReadEnds, Hub!CheckContext, Hub!CloseConn, Hub!Command, Hub!Becomes,
         Serving, Counted
    <3> QED BY <1>1, <2>2, <3>1 DEF Hub!ReadEnds, Hub!CheckContext, Hub!CloseConn, Hub!Command
  <2>3. CASE Hub!StopProcesses(c) \/ Hub!ForgetSession(c)
    <3>1. Serving' = Serving /\ Counted' = Counted
      BY <2>3 DEF Hub!StopProcesses, Hub!ForgetSession, Hub!Becomes, Serving, Counted
    <3> QED BY <1>1, <2>3, <3>1 DEF Hub!StopProcesses, Hub!ForgetSession
  <2>4. CASE Hub!RemoveClient(c)
    <3>1. Serving' = Serving /\ c \in Counted /\ Counted' = Counted \ {c}
      BY <2>4 DEF Hub!RemoveClient, Hub!Becomes, Serving, Counted
    <3>2. Cardinality(Counted') = Cardinality(Counted) - 1
      BY <1>f, <3>1, OneMore
    <3> QED BY <2>4, <3>1, <3>2 DEF Hub!RemoveClient, CountInv
  <2>5. CASE Hub!Return(c)
    <3>1. Counted' = Counted /\ c \in Serving /\ Serving' = Serving \ {c}
      BY <2>5 DEF Hub!Return, Hub!Becomes, Serving, Counted
    <3>2. Cardinality(Serving') = Cardinality(Serving) - 1
      BY <1>f, <3>1, OneMore
    <3> QED BY <1>n, <2>5, <3>1, <3>2 DEF Hub!Return, CountInv
  <2> QED BY <1>2, <2>1, <2>2, <2>3, <2>4, <2>5 DEF HubConnStep, Hub!Handle
<1>3. CASE Hub!Store \/ Hub!StopBegin
  <2>1. Serving' = Serving /\ Counted' = Counted
    BY <1>3 DEF Hub!Store, Hub!StopBegin, Serving, Counted
  <2> QED BY <1>1, <1>3, <2>1 DEF Hub!Store, Hub!StopBegin
<1>4. CASE Hub!Launch
  <2>1. /\ cur \notin Serving /\ Serving' = Serving \cup {cur}
        /\ cur \notin Counted /\ Counted' = Counted \cup {cur}
    BY <1>4 DEF Hub!Launch, Serving, Counted, AdmitInv
  <2>2. /\ Cardinality(Serving') = Cardinality(Serving) + 1
        /\ Cardinality(Counted') = Cardinality(Counted) + 1
    BY <1>f, <2>1, OneMore
  <2> QED BY <1>n, <1>4, <2>2 DEF Hub!Launch, CountInv
<1>5. CASE Hub!AcceptFails
  <2>1. Serving' = Serving /\ Counted' = Counted
    BY <1>5 DEF Hub!AcceptFails, Serving, Counted
  <2> QED BY <1>n, <1>5, <2>1 DEF Hub!AcceptFails, CountInv
<1>6. CASE Hub!Stop
  <2>1. Serving' = Serving /\ Counted' = Counted
    BY <1>6 DEF Hub!Stop, Hub!Cancel, Hub!CloseListener, Hub!CloseClient, Hub!RangeEnds,
       Hub!Drain, Hub!WaitEnds, Hub!StopReturn, Serving, Counted
  <2> QED BY <1>1, <1>6, <2>1 DEF Hub!Stop, Hub!Cancel, Hub!CloseListener, Hub!CloseClient,
         Hub!RangeEnds, Hub!Drain, Hub!WaitEnds, Hub!StopReturn
<1>7. CASE UNCHANGED Hub!vars
  <2>1. Serving' = Serving /\ Counted' = Counted
    BY <1>7 DEF Hub!vars, Serving, Counted
  <2> QED BY <1>1, <1>7, <2>1 DEF Hub!vars
<1> QED BY <1>2, <1>3, <1>4, <1>5, <1>6, <1>7, HubSteps

\* A code that is given is new, and a connection forgets its code's session
\* before it ends.
LEMMA HubSessionStep ==
    ASSUME HubType, SessionInv, [Hub!Next]_(Hub!vars)
    PROVE  SessionInv'
<1>m. MaxSessions \in Nat
  BY PartsAssumption
<1> USE DEF HubType, SessionInv, Hub!loopVars, Hub!connVars, Hub!mapVars, Hub!stopVars,
            Hub!sessionVars
<1>1. ASSUME NEW c \in Clients, HubConnStep(c)
      PROVE  SessionInv'
  <2>1. CASE Hub!Dial(c) \/ Hub!HangUp(c) \/ Hub!Accept(c)
    BY <2>1 DEF Hub!Dial, Hub!HangUp, Hub!Accept
  <2>2. CASE Hub!ReadEnds(c) \/ Hub!CheckContext(c) \/ Hub!CloseConn(c)
    BY <2>2 DEF Hub!ReadEnds, Hub!CheckContext, Hub!CloseConn, Hub!Becomes
  <2>3. CASE Hub!RemoveClient(c) \/ Hub!StopProcesses(c) \/ Hub!Return(c)
    BY <2>3 DEF Hub!RemoveClient, Hub!StopProcesses, Hub!Return, Hub!Becomes
  <2>4. CASE Hub!ForgetSession(c)
    BY <2>4 DEF Hub!ForgetSession, Hub!Becomes
  <2>5. CASE Hub!Command(c)
    <3>1. \E s \in {"loop", "close"} : cs' = [cs EXCEPT ![c] = s]
      BY <2>5 DEF Hub!Command, Hub!Becomes
    <3>2. cs[c] = "command"
      BY <2>5 DEF Hub!Command
    <3>3. CASE Hub!Register(c)
      BY <1>m, <3>1, <3>2, <3>3 DEF Hub!Register
    <3>4. ASSUME NEW n \in 1..MaxSessions, Hub!Unregister(c, n)
          PROVE  SessionInv'
      BY <1>m, <3>1, <3>2, <3>4 DEF Hub!Unregister
    <3>5. CASE UNCHANGED <<sessions, code, nextCode, replaced>>
      BY <3>1, <3>2, <3>5
    <3> QED BY <2>5, <3>3, <3>4, <3>5 DEF Hub!Command, Hub!Shutdown
  <2> QED BY <1>1, <2>1, <2>2, <2>3, <2>4, <2>5 DEF HubConnStep, Hub!Handle
<1>2. CASE Hub!Store \/ Hub!AcceptFails \/ Hub!StopBegin
  BY <1>2 DEF Hub!Store, Hub!AcceptFails, Hub!StopBegin
<1>3. CASE Hub!Launch
  BY <1>3 DEF Hub!Launch
<1>4. CASE Hub!Stop
  BY <1>4 DEF Hub!Stop, Hub!Cancel, Hub!CloseListener, Hub!CloseClient, Hub!RangeEnds,
     Hub!Drain, Hub!WaitEnds, Hub!StopReturn
<1>5. UNCHANGED Hub!vars => SessionInv'
  BY DEF Hub!vars
<1> QED BY <1>1, <1>2, <1>3, <1>4, <1>5, HubSteps

\* Nothing starts again once a Stop that waits has seen wg at zero.
LEMMA HubStoppedStep ==
    ASSUME HubType, CountInv, AdmitInv, StoppedInv, [Hub!Next]_(Hub!vars)
    PROVE  StoppedInv'
<1> USE DEF HubType, StoppedInv, Serving, Hub!loopVars, Hub!connVars, Hub!mapVars, Hub!stopVars
<1>1. ASSUME NEW c \in Clients, HubConnStep(c)
      PROVE  StoppedInv'
  <2>1. CASE Hub!Dial(c) \/ Hub!HangUp(c) \/ Hub!Accept(c)
    BY <2>1 DEF Hub!Dial, Hub!HangUp, Hub!Accept
  <2>2. CASE Hub!ReadEnds(c) \/ Hub!CheckContext(c) \/ Hub!CloseConn(c) \/ Hub!Command(c)
    BY <2>2 DEF Hub!ReadEnds, Hub!CheckContext, Hub!CloseConn, Hub!Command, Hub!Becomes
  <2>3. CASE Hub!RemoveClient(c) \/ Hub!StopProcesses(c) \/ Hub!ForgetSession(c)
               \/ Hub!Return(c)
    BY <2>3 DEF Hub!RemoveClient, Hub!StopProcesses, Hub!ForgetSession, Hub!Return, Hub!Becomes
  <2> QED BY <1>1, <2>1, <2>2, <2>3 DEF HubConnStep, Hub!Handle
<1>2. CASE Hub!Store \/ Hub!Launch \/ Hub!AcceptFails
  BY <1>2 DEF Hub!Store, Hub!Launch, Hub!AcceptFails
<1>3. CASE Hub!StopBegin
  BY <1>3 DEF Hub!StopBegin
<1>4. CASE Hub!WaitEnds
  <2>1. wg = 0 => hloop = "done" /\ Serving = {}
    <3>1. IsFiniteSet(Serving)
      <4>1. Serving \in SUBSET Clients
        OBVIOUS
      <4> QED BY <4>1, PartsAssumption, FS_Subset
    <3>2. Cardinality(Serving) \in Nat
      BY <3>1, FS_CardinalityType
    <3>3. wg = 0 => hloop = "done" /\ Cardinality(Serving) = 0
      BY <3>2 DEF CountInv
    <3> QED BY <3>1, <3>3, FS_EmptySet
  <2> QED BY <1>4, <2>1 DEF Hub!WaitEnds
<1>5. CASE Hub!Cancel \/ Hub!CloseListener \/ Hub!RangeEnds \/ Hub!Drain \/ Hub!StopReturn
             \/ \E c \in Clients : Hub!CloseClient(c)
  BY <1>5 DEF Hub!Cancel, Hub!CloseListener, Hub!CloseClient, Hub!RangeEnds, Hub!Drain,
     Hub!StopReturn
<1>6. UNCHANGED Hub!vars => StoppedInv'
  BY DEF Hub!vars
<1> QED BY <1>1, <1>2, <1>3, <1>4, <1>5, <1>6, HubSteps DEF Hub!Stop

\* The invariant of the hub process.
LEMMA HubInductive == Hub!Init /\ [][Hub!Next]_(Hub!vars) => []HubInv
<1>1. HubInv /\ [Hub!Next]_(Hub!vars) => HubInv'
  BY HubTypeStep, HubCountStep, HubAdmitStep, HubSessionStep, HubStoppedStep DEF HubInv
<1> QED BY HubInit, <1>1, PTL
-----------------------------------------------------------------------------
(***************************************************************************)
(* The reconnecting client.  A Connect that runs while the reconnect loop  *)
(* does (overlapped) may leave a connection without heartbeat; in every    *)
(* other history the loop, the owner's step and the heartbeat in charge    *)
(* (rc.heartbeatCancel) settle each other.                                 *)
(***************************************************************************)
HPC == {"off", "wait", "ping", "trigger", "swap", "ended"}

NumberType ==
    /\ conn \in 0..MaxConns /\ gen \in 0..MaxConns /\ dialled \in 0..MaxConns
    /\ beat \in 0..MaxConns /\ fresh \in 0..MaxConns
    /\ unclosed \subseteq Conns /\ stopped \subseteq Conns

FlagType ==
    /\ reconnecting \in BOOLEAN /\ shutdown \in BOOLEAN /\ failed \in BOOLEAN
    /\ overlapped \in BOOLEAN
    /\ owner \in {"new", "dialling", "open", "unbeat", "unconn", "closed"}
    /\ loop \in {"off", "top", "dial", "publish", "mark", "beat", "missed", "giveup", "failed"}

ThreadType ==
    /\ rpc \in [Requests -> {"idle", "exec", "check", "trigger", "swap"}]
    /\ rconn \in [Requests -> 0..MaxConns] /\ rgen \in [Requests -> 0..MaxConns]
    /\ hpc \in [Conns -> HPC] /\ hconn \in [Conns -> 0..MaxConns]

ClientType == NumberType /\ FlagType /\ ThreadType

\* The loop runs iff the flag says so.
FlagInv == loop # "off" <=> reconnecting

\* Every publication has a Conn of its own.
GenInv == gen <= dialled /\ (loop = "publish" => gen < dialled)

\* Heartbeats are named by Conns there are, and the Conn that the loop has
\* dialled has had none yet.
FreshInv ==
    /\ beat <= dialled
    /\ \A g \in stopped : g <= dialled
    /\ \A g \in Conns : g > dialled => hpc[g] = "off"
    /\ loop \in {"publish", "mark", "beat"} =>
         fresh \in 1..dialled /\ hpc[fresh] = "off" /\ fresh \notin stopped /\ fresh # beat

LoopInv == FlagInv /\ GenInv /\ FreshInv

\* A heartbeat that will go on is the one that rc.heartbeatCancel can end.
BeatInv == \A g \in Live : g = beat

\* Close is the last that the owner does, and a Connect the first.
OwnerInv ==
    /\ shutdown <=> owner \in {"unbeat", "unconn", "closed"}
    /\ owner = "new" => gen = 0
    /\ gen = 0 => /\ owner \in {"new", "dialling"} /\ conn = 0 /\ loop = "off" /\ beat = 0
                  /\ \A g \in Conns : hpc[g] = "off"
                  /\ \A r \in Requests : rpc[r] = "idle"

Beating == beat \in Live

\* While no Connect has run during a reconnect: a loop that dials has forgotten
\* the old Conn, one that has failed leaves none until another loop publishes
\* one, and the Conn there is between two reconnects has its heartbeat.
ServiceInv ==
    ~overlapped =>
        /\ failed => conn = 0 \/ loop = "mark"
        /\ loop \in {"dial", "missed", "giveup", "publish"} => conn = 0
        /\ owner = "dialling" => ~failed
        /\ ~shutdown /\ conn # 0 /\ loop \in {"off", "top", "failed"} => Beating

ClientInv == ClientType /\ LoopInv /\ BeatInv /\ OwnerInv /\ ServiceInv

\* The initial state: nothing dialled, no goroutine.
LEMMA ClientInit ==
    ASSUME Init
    PROVE  ClientInv
<1>0. MaxConns \in Nat /\ 0 \in 0..MaxConns
  BY ResilientConstants
<1>1. ClientType
  <2>1. /\ hpc \in [Conns -> HPC] /\ hconn \in [Conns -> 0..MaxConns]
        /\ rpc \in [Requests -> {"idle", "exec", "check", "trigger", "swap"}]
        /\ rconn \in [Requests -> 0..MaxConns] /\ rgen \in [Requests -> 0..MaxConns]
    BY <1>0 DEF Init, HPC
  <2> QED BY <1>0, <2>1 DEF Init, ClientType, NumberType, FlagType, ThreadType, HPC
<1>2. LoopInv
  BY <1>0 DEF Init, LoopInv, FlagInv, GenInv, FreshInv, Conns
<1>3. BeatInv
  BY DEF Init, BeatInv, Live
<1>4. OwnerInv
  BY DEF Init, OwnerInv
<1>5. ServiceInv
  BY DEF Init, ServiceInv
<1> QED BY <1>1, <1>2, <1>3, <1>4, <1>5 DEF ClientInv

\* Steps of a request, of a heartbeat, and of the owner when he closes.
RequestStep(r) == Issue(r) \/ Request(r)
OwnerCloses == Close \/ CloseHeartbeat \/ CloseConn

\* Who makes a step, and what becomes of the history flag.
LEMMA ClientSteps ==
    ASSUME [Next]_vars
    PROVE  /\ \/ HubCrash \/ HubStart \/ Loop \/ Connect \/ ConnectDials \/ OwnerCloses
              \/ \E r \in Requests : RequestStep(r)
              \/ \E g \in Conns : Heartbeat(g)
              \/ UNCHANGED state
           /\ \/ overlapped' = (overlapped \/ (owner = "dialling" /\ loop \notin {"off", "failed"}))
              \/ UNCHANGED vars
BY DEF Next, Step, RequestStep, OwnerCloses, vars

\* Every step keeps the types.
LEMMA ClientTypeStep ==
    ASSUME ClientType, LoopInv, [Next]_vars
    PROVE  ClientType'
<1>b. overlapped' \in BOOLEAN
  BY ClientSteps DEF ClientType, FlagType, vars
<1>h. MaxConns \in Nat /\ 0 \in 0..MaxConns /\ overlapped' \in BOOLEAN
  BY <1>b, ResilientConstants
<1> USE DEF ClientType, NumberType, FlagType, ThreadType, HPC, Conns, hubVars, connVars,
            rcVars, reqVars, loopVars, hbVars
<1>1. CASE HubCrash \/ HubStart
  BY ZenonT(60), <1>h, <1>1 DEF HubCrash, HubStart
<1>2. ASSUME NEW r \in Requests, RequestStep(r)
      PROVE  ClientType'
  <2>1. CASE Issue(r)
    BY <1>h, <2>1 DEF Issue
  <2>2. CASE Execute(r)
    <3>1. NumberType'
      BY <1>h, <2>2 DEF Execute, Exchange, Returns, ConnectionError
    <3>2. FlagType'
      BY <1>h, <2>2 DEF Execute, Exchange, Returns, ConnectionError
    <3>3. ThreadType'
      BY ZenonT(60), <1>h, <2>2 DEF Execute, Exchange, Returns, ConnectionError
    <3> QED BY <3>1, <3>2, <3>3
  <2>3. CASE CheckGeneration(r)
    <3>1. NumberType'
      BY <1>h, <2>3 DEF CheckGeneration, Returns
    <3>2. FlagType'
      BY <1>h, <2>3 DEF CheckGeneration, Returns
    <3>3. ThreadType'
      BY <1>h, <2>3 DEF CheckGeneration, Returns
    <3> QED BY <3>1, <3>2, <3>3
  <2>4. CASE RequestTriggers(r)
    <3>1. NumberType'
      BY <1>h, <2>4 DEF RequestTriggers, Returns
    <3>2. FlagType'
      BY <1>h, <2>4 DEF RequestTriggers, Returns
    <3>3. ThreadType'
      BY <1>h, <2>4 DEF RequestTriggers, Returns
    <3> QED BY <3>1, <3>2, <3>3
  <2>5. CASE RequestSwaps(r)
    <3>1. NumberType'
      BY <1>h, <2>5 DEF RequestSwaps, Trigger, Returns
    <3>2. FlagType'
      BY <1>h, <2>5 DEF RequestSwaps, Trigger, Returns
    <3>3. ThreadType'
      BY <1>h, <2>5 DEF RequestSwaps, Trigger, Returns
    <3> QED BY <3>1, <3>2, <3>3
  <2> QED BY <1>2, <2>1, <2>2, <2>3, <2>4, <2>5 DEF RequestStep, Request
<1>3. ASSUME NEW g \in Conns, Heartbeat(g)
      PROVE  ClientType'
  <2>1. CASE HeartbeatStops(g)
    BY <1>h, <2>1 DEF HeartbeatStops
  <2>2. CASE Tick(g)
    BY ZenonT(60), <1>h, <2>2 DEF Tick, Busy
  <2>3. CASE Ping(g)
    <3>1. NumberType'
      BY <1>h, <2>3 DEF Ping, Exchange
    <3>2. FlagType'
      BY <1>h, <2>3 DEF Ping, Exchange
    <3>3. ThreadType'
      BY <1>h, <2>3 DEF Ping, Exchange
    <3> QED BY <3>1, <3>2, <3>3
  <2>4. CASE HeartbeatTriggers(g)
    BY ZenonT(60), <1>h, <2>4 DEF HeartbeatTriggers
  <2>5. CASE HeartbeatSwaps(g)
    BY ZenonT(60), <1>h, <2>5 DEF HeartbeatSwaps, Trigger
  <2> QED BY <1>3, <2>1, <2>2, <2>3, <2>4, <2>5 DEF Heartbeat
<1>4. CASE LoopTop
  <2>1. NumberType'
    BY <1>h, <1>4 DEF LoopTop, LoopEnds, Closes
  <2>2. FlagType'
    BY <1>h, <1>4 DEF LoopTop, LoopEnds, Closes
  <2>3. ThreadType'
    BY <1>h, <1>4 DEF LoopTop, LoopEnds, Closes
  <2> QED BY <2>1, <2>2, <2>3
<1>5. CASE LoopDial
  <2>1. dialled' \in 0..MaxConns /\ fresh' \in 0..MaxConns
    BY <1>h, <1>5 DEF LoopDial, Dials
  <2>2. dialled < MaxConns => dialled + 1 \in Conns
    BY <1>h
  <2>3. unclosed' \subseteq Conns
    BY <1>5, <2>2 DEF LoopDial, Dials
  <2>4. NumberType'
    BY <1>5, <2>1, <2>3 DEF LoopDial
  <2>5. FlagType' /\ ThreadType'
    BY <1>h, <1>5 DEF LoopDial
  <2> QED BY <2>4, <2>5
<1>6. CASE LoopPublish
  <2>1. gen' \in 0..MaxConns /\ conn' \in 0..MaxConns /\ fresh' \in 0..MaxConns
    BY <1>h, <1>6 DEF LoopPublish, LoopEnds, LoopInv, GenInv
  <2>2. unclosed' \subseteq Conns /\ UNCHANGED <<dialled, beat, stopped>>
    BY <1>h, <1>6 DEF LoopPublish, Closes
  <2>3. FlagType'
    BY <1>h, <1>6 DEF LoopPublish, LoopEnds
  <2>4. ThreadType'
    BY <1>h, <1>6 DEF LoopPublish
  <2> QED BY <2>1, <2>2, <2>3, <2>4
<1>7. CASE LoopMark
  BY <1>h, <1>7 DEF LoopMark
<1>8. CASE LoopBeat
  <2>1. NumberType'
    BY <1>h, <1>8 DEF LoopBeat, StartsHeartbeat, LoopEnds
  <2>2. FlagType'
    BY <1>h, <1>8 DEF LoopBeat, StartsHeartbeat, LoopEnds
  <2>3. ThreadType'
    BY <1>h, <1>8 DEF LoopBeat, StartsHeartbeat, LoopEnds
  <2> QED BY <2>1, <2>2, <2>3
<1>9. CASE LoopMissed
  <2>1. NumberType'
    BY <1>h, <1>9 DEF LoopMissed, LoopEnds
  <2>2. FlagType'
    BY <1>h, <1>9 DEF LoopMissed, LoopEnds
  <2>3. ThreadType'
    BY <1>h, <1>9 DEF LoopMissed, LoopEnds
  <2> QED BY <2>1, <2>2, <2>3
<1>10. CASE LoopGivesUp
  BY <1>h, <1>10 DEF LoopGivesUp
<1>11. CASE LoopReturns
  <2>1. NumberType'
    BY <1>h, <1>11 DEF LoopReturns, LoopEnds
  <2>2. FlagType'
    BY <1>h, <1>11 DEF LoopReturns, LoopEnds
  <2>3. ThreadType'
    BY <1>h, <1>11 DEF LoopReturns, LoopEnds
  <2> QED BY <2>1, <2>2, <2>3
<1>12. CASE Connect
  BY <1>h, <1>12 DEF Connect
<1>13. CASE ConnectDials
  <2>1. NumberType'
    BY <1>h, <1>13 DEF ConnectDials, StartsHeartbeat, LoopInv, GenInv
  <2>2. FlagType'
    BY <1>h, <1>13 DEF ConnectDials, StartsHeartbeat, LoopInv, GenInv
  <2>3. ThreadType'
    BY <1>h, <1>13 DEF ConnectDials, StartsHeartbeat, LoopInv, GenInv
  <2> QED BY <2>1, <2>2, <2>3
<1>14. CASE Close
  BY <1>h, <1>14 DEF Close
<1>15. CASE CloseHeartbeat
  BY <1>h, <1>15 DEF CloseHeartbeat
<1>16. CASE CloseConn
  BY <1>h, <1>16 DEF CloseConn, Closes
<1>17. CASE UNCHANGED state
  BY <1>h, <1>17 DEF state
<1> QED BY <1>1, <1>2, <1>3, <1>4, <1>5, <1>6, <1>7, <1>8, <1>9, <1>10, <1>11, <1>12, <1>13,
       <1>14, <1>15, <1>16, <1>17, ClientSteps DEF Loop, OwnerCloses

\* A Conn gets one publication and one heartbeat.
LEMMA LoopStep ==
    ASSUME ClientType, LoopInv, [Next]_vars
    PROVE  LoopInv'
<1>h. MaxConns \in Nat
  BY ResilientConstants
<1> USE DEF ClientType, NumberType, FlagType, ThreadType, LoopInv, FlagInv, GenInv, FreshInv,
            HPC, Conns, hubVars, connVars, rcVars, reqVars, loopVars, hbVars
<1>1. CASE HubCrash \/ HubStart
  <2>1. FlagInv'
    BY <1>h, <1>1 DEF HubCrash, HubStart
  <2>2. GenInv'
    BY <1>h, <1>1 DEF HubCrash, HubStart
  <2>3. FreshInv'
    BY <1>h, <1>1 DEF HubCrash, HubStart
  <2> QED BY <2>1, <2>2, <2>3
<1>2. ASSUME NEW r \in Requests, RequestStep(r)
      PROVE  LoopInv'
  <2>1. CASE Issue(r)
    BY <1>h, <2>1 DEF Issue
  <2>2. CASE Execute(r)
    BY <1>h, <2>2 DEF Execute, Exchange, Returns, ConnectionError
  <2>3. CASE CheckGeneration(r)
    BY <1>h, <2>3 DEF CheckGeneration, Returns
  <2>4. CASE RequestTriggers(r)
    BY <1>h, <2>4 DEF RequestTriggers, Returns
  <2>5. CASE RequestSwaps(r)
    BY <1>h, <2>5 DEF RequestSwaps, Trigger, Returns
  <2> QED BY <1>2, <2>1, <2>2, <2>3, <2>4, <2>5 DEF RequestStep, Request
<1>3. ASSUME NEW g \in Conns, Heartbeat(g)
      PROVE  LoopInv'
  <2>1. CASE HeartbeatStops(g)
    BY <1>h, <2>1 DEF HeartbeatStops
  <2>2. CASE Tick(g)
    BY SMTT(30), <1>h, <2>2 DEF Tick, Busy
  <2>3. CASE Ping(g)
    BY <1>h, <2>3 DEF Ping, Exchange
  <2>4. CASE HeartbeatTriggers(g)
    BY <1>h, <2>4 DEF HeartbeatTriggers
  <2>5. CASE HeartbeatSwaps(g)
    BY <1>h, <2>5 DEF HeartbeatSwaps, Trigger
  <2> QED BY <1>3, <2>1, <2>2, <2>3, <2>4, <2>5 DEF Heartbeat
<1>4. CASE LoopTop
  BY <1>h, <1>4 DEF LoopTop, LoopEnds, Closes
<1>5. CASE LoopDial
  BY <1>h, <1>5 DEF LoopDial, Dials
<1>6. CASE LoopPublish
  <2>1. /\ UNCHANGED <<dialled, hbVars>>
        /\ loop' \in {"mark", "off"} /\ gen' \in {gen, gen + 1}
    BY <1>6 DEF LoopPublish, LoopEnds, Closes
  <2>2. FlagInv'
    BY <1>6 DEF LoopPublish, LoopEnds
  <2>3. GenInv'
    BY <1>6, <2>1 DEF LoopPublish
  <2>4. FreshInv'
    BY <1>6, <2>1 DEF LoopPublish, LoopEnds
  <2> QED BY <2>2, <2>3, <2>4
<1>7. CASE LoopMark
  BY <1>h, <1>7 DEF LoopMark
<1>8. CASE LoopBeat
  BY <1>h, <1>8 DEF LoopBeat, StartsHeartbeat, LoopEnds
<1>9. CASE LoopMissed
  BY <1>h, <1>9 DEF LoopMissed, LoopEnds
<1>10. CASE LoopGivesUp
  BY <1>h, <1>10 DEF LoopGivesUp
<1>11. CASE LoopReturns
  BY <1>h, <1>11 DEF LoopReturns, LoopEnds
<1>12. CASE Connect
  BY <1>h, <1>12 DEF Connect
<1>13. CASE ConnectDials
  <2>1. FlagInv'
    BY <1>13 DEF ConnectDials
  <2>2. GenInv'
    BY <1>h, <1>13 DEF ConnectDials
  <2>3. CASE dialled' = dialled + 1 /\ StartsHeartbeat(dialled + 1)
    <3>1. fresh' = fresh /\ loop' = loop /\ dialled + 1 \in Conns
      BY <1>h, <1>13, <2>3 DEF ConnectDials
    <3>2. FreshInv'
      BY <1>h, <2>3, <3>1 DEF StartsHeartbeat
    <3> QED BY <2>1, <2>2, <3>2
  <2>4. CASE UNCHANGED <<connVars, hbVars>>
    <3>1. FreshInv'
      BY <1>13, <2>4 DEF ConnectDials
    <3> QED BY <2>1, <2>2, <3>1
  <2> QED BY <1>13, <2>3, <2>4 DEF ConnectDials
<1>14. CASE Close
  BY <1>h, <1>14 DEF Close
<1>15. CASE CloseHeartbeat
  BY <1>h, <1>15 DEF CloseHeartbeat
<1>16. CASE CloseConn
  BY <1>h, <1>16 DEF CloseConn, Closes
<1>17. CASE UNCHANGED state
  BY <1>h, <1>17 DEF state
<1> QED BY <1>1, <1>2, <1>3, <1>4, <1>5, <1>6, <1>7, <1>8, <1>9, <1>10, <1>11, <1>12, <1>13,
       <1>14, <1>15, <1>16, <1>17, ClientSteps DEF Loop, OwnerCloses

\* Whoever starts a heartbeat ends the one before.
LEMMA BeatStep ==
    ASSUME ClientType, BeatInv, [Next]_vars
    PROVE  BeatInv'
<1>h. MaxConns \in Nat
  BY ResilientConstants
<1> USE DEF ClientType, NumberType, FlagType, ThreadType, BeatInv, Live, HPC, Conns, hubVars,
            connVars, rcVars, reqVars, loopVars, hbVars
<1>1. CASE HubCrash \/ HubStart
  BY <1>h, <1>1 DEF HubCrash, HubStart
<1>2. ASSUME NEW r \in Requests, RequestStep(r)
      PROVE  BeatInv'
  <2>1. CASE Issue(r)
    BY <1>h, <2>1 DEF Issue
  <2>2. CASE Execute(r)
    BY <1>h, <2>2 DEF Execute, Exchange, Returns, ConnectionError
  <2>3. CASE CheckGeneration(r)
    BY <1>h, <2>3 DEF CheckGeneration, Returns
  <2>4. CASE RequestTriggers(r)
    BY <1>h, <2>4 DEF RequestTriggers, Returns
  <2>5. CASE RequestSwaps(r)
    BY <1>h, <2>5 DEF RequestSwaps, Trigger, Returns
  <2> QED BY <1>2, <2>1, <2>2, <2>3, <2>4, <2>5 DEF RequestStep, Request
<1>3. ASSUME NEW g \in Conns, Heartbeat(g)
      PROVE  BeatInv'
  <2>1. CASE HeartbeatStops(g)
    BY <1>h, <2>1 DEF HeartbeatStops
  <2>2. CASE Tick(g)
    BY <1>h, <2>2 DEF Tick, Busy
  <2>3. CASE Ping(g)
    BY <1>h, <2>3 DEF Ping, Exchange
  <2>4. CASE HeartbeatTriggers(g)
    BY <1>h, <2>4 DEF HeartbeatTriggers
  <2>5. CASE HeartbeatSwaps(g)
    BY <1>h, <2>5 DEF HeartbeatSwaps, Trigger
  <2> QED BY <1>3, <2>1, <2>2, <2>3, <2>4, <2>5 DEF Heartbeat
<1>4. CASE LoopTop \/ LoopDial
  BY <1>h, <1>4 DEF LoopTop, LoopDial, LoopEnds, Closes, Dials
<1>5. CASE LoopPublish \/ LoopMark
  BY <1>h, <1>5 DEF LoopPublish, LoopMark, LoopEnds, Closes
<1>6. CASE LoopBeat
  BY <1>h, <1>6 DEF LoopBeat, StartsHeartbeat, LoopEnds
<1>7. CASE LoopMissed \/ LoopGivesUp \/ LoopReturns
  BY <1>h, <1>7 DEF LoopMissed, LoopGivesUp, LoopReturns, LoopEnds
<1>8. CASE Connect
  BY <1>h, <1>8 DEF Connect
<1>9. CASE ConnectDials
  BY <1>h, <1>9 DEF ConnectDials, StartsHeartbeat
<1>10. CASE OwnerCloses
  BY <1>h, <1>10 DEF OwnerCloses, Close, CloseHeartbeat, CloseConn, Closes
<1>11. CASE UNCHANGED state
  BY <1>h, <1>11 DEF state
<1> QED BY <1>1, <1>2, <1>3, <1>4, <1>5, <1>6, <1>7, <1>8, <1>9, <1>10, <1>11,
       ClientSteps DEF Loop

\* Nothing runs before the first Connect, and nothing undoes a Close.
LEMMA OwnerStep ==
    ASSUME ClientType, OwnerInv, [Next]_vars
    PROVE  OwnerInv'
<1>h. MaxConns \in Nat
  BY ResilientConstants
<1> USE DEF ClientType, NumberType, FlagType, ThreadType, OwnerInv, HPC, Conns, hubVars,
            connVars, rcVars, reqVars, loopVars, hbVars
<1>1. CASE HubCrash \/ HubStart
  BY <1>h, <1>1 DEF HubCrash, HubStart
<1>2. ASSUME NEW r \in Requests, RequestStep(r)
      PROVE  OwnerInv'
  <2>1. CASE Issue(r)
    BY <1>h, <2>1 DEF Issue
  <2>2. CASE Execute(r)
    BY <1>h, <2>2 DEF Execute, Exchange, Returns, ConnectionError
  <2>3. CASE CheckGeneration(r)
    BY <1>h, <2>3 DEF CheckGeneration, Returns
  <2>4. CASE RequestTriggers(r)
    BY <1>h, <2>4 DEF RequestTriggers, Returns
  <2>5. CASE RequestSwaps(r)
    BY <1>h, <2>5 DEF RequestSwaps, Trigger, Returns
  <2> QED BY <1>2, <2>1, <2>2, <2>3, <2>4, <2>5 DEF RequestStep, Request
<1>3. ASSUME NEW g \in Conns, Heartbeat(g)
      PROVE  OwnerInv'
  <2>1. CASE HeartbeatStops(g)
    BY <1>h, <2>1 DEF HeartbeatStops
  <2>2. CASE Tick(g)
    BY <1>h, <2>2 DEF Tick, Busy
  <2>3. CASE Ping(g)
    BY <1>h, <2>3 DEF Ping, Exchange
  <2>4. CASE HeartbeatTriggers(g)
    BY <1>h, <2>4 DEF HeartbeatTriggers
  <2>5. CASE HeartbeatSwaps(g)
    BY <1>h, <2>5 DEF HeartbeatSwaps, Trigger
  <2> QED BY <1>3, <2>1, <2>2, <2>3, <2>4, <2>5 DEF Heartbeat
<1>4. CASE LoopTop \/ LoopDial
  BY <1>h, <1>4 DEF LoopTop, LoopDial, LoopEnds, Closes, Dials
<1>5. CASE LoopPublish \/ LoopMark
  BY <1>h, <1>5 DEF LoopPublish, LoopMark, LoopEnds, Closes
<1>6. CASE LoopBeat
  BY <1>h, <1>6 DEF LoopBeat, StartsHeartbeat, LoopEnds
<1>7. CASE LoopMissed \/ LoopGivesUp \/ LoopReturns
  BY <1>h, <1>7 DEF LoopMissed, LoopGivesUp, LoopReturns, LoopEnds
<1>8. CASE Connect
  BY <1>h, <1>8 DEF Connect
<1>9. CASE ConnectDials
  BY <1>h, <1>9 DEF ConnectDials, StartsHeartbeat
<1>10. CASE OwnerCloses
  BY <1>h, <1>10 DEF OwnerCloses, Close, CloseHeartbeat, CloseConn, Closes
<1>11. CASE UNCHANGED state
  BY <1>h, <1>11 DEF state
<1> QED BY <1>1, <1>2, <1>3, <1>4, <1>5, <1>6, <1>7, <1>8, <1>9, <1>10, <1>11,
       ClientSteps DEF Loop

\* A Conn that is published gets its heartbeat before the loop ends.
LEMMA ServiceStep ==
    ASSUME ClientType, LoopInv, OwnerInv, ServiceInv, [Next]_vars
    PROVE  ServiceInv'
<1>h. /\ MaxConns \in Nat
      /\ overlapped' = (overlapped \/ (owner = "dialling" /\ loop \notin {"off", "failed"}))
           \/ UNCHANGED vars
  BY ResilientConstants, ClientSteps
<1> USE DEF ClientType, NumberType, FlagType, ThreadType, LoopInv, FlagInv, GenInv, FreshInv,
            OwnerInv, ServiceInv, Beating, Live, HPC, Conns, vars, state, hubVars, connVars,
            rcVars, reqVars, loopVars, hbVars
<1>1. CASE HubCrash \/ HubStart
  <2>1. UNCHANGED <<rcVars, owner, loopVars, hbVars>>
    BY <1>1 DEF HubCrash, HubStart
  <2>2. overlapped => overlapped'
    BY <1>h
  <2> QED BY <2>1, <2>2
<1>2. ASSUME NEW r \in Requests, RequestStep(r)
      PROVE  ServiceInv'
  <2>1. CASE Issue(r)
    BY <1>h, <2>1 DEF Issue
  <2>2. CASE Execute(r)
    BY <1>h, <2>2 DEF Execute, Exchange, Returns, ConnectionError
  <2>3. CASE CheckGeneration(r)
    BY <1>h, <2>3 DEF CheckGeneration, Returns
  <2>4. CASE RequestTriggers(r)
    BY <1>h, <2>4 DEF RequestTriggers, Returns
  <2>5. CASE RequestSwaps(r)
    BY <1>h, <2>5 DEF RequestSwaps, Trigger, Returns
  <2> QED BY <1>2, <2>1, <2>2, <2>3, <2>4, <2>5 DEF RequestStep, Request
<1>3. ASSUME NEW g \in Conns, Heartbeat(g)
      PROVE  ServiceInv'
  <2>1. CASE HeartbeatStops(g)
    BY <1>h, <2>1 DEF HeartbeatStops
  <2>2. CASE Tick(g)
    BY <1>h, <2>2 DEF Tick, Busy
  <2>3. CASE Ping(g)
    BY <1>h, <2>3 DEF Ping, Exchange
  <2>4. CASE HeartbeatTriggers(g)
    BY <1>h, <2>4 DEF HeartbeatTriggers
  <2>5. CASE HeartbeatSwaps(g)
    BY <1>h, <2>5 DEF HeartbeatSwaps, Trigger
  <2> QED BY <1>3, <2>1, <2>2, <2>3, <2>4, <2>5 DEF Heartbeat
<1>4. CASE LoopTop \/ LoopDial
  BY <1>h, <1>4 DEF LoopTop, LoopDial, LoopEnds, Closes, Dials
<1>5. CASE LoopPublish \/ LoopMark
  BY <1>h, <1>5 DEF LoopPublish, LoopMark, LoopEnds, Closes
<1>6. CASE LoopBeat
  BY <1>h, <1>6 DEF LoopBeat, StartsHeartbeat, LoopEnds
<1>7. CASE LoopMissed \/ LoopGivesUp \/ LoopReturns
  BY <1>h, <1>7 DEF LoopMissed, LoopGivesUp, LoopReturns, LoopEnds
<1>8. CASE Connect
  BY <1>h, <1>8 DEF Connect
<1>9. CASE ConnectDials
  BY <1>h, <1>9 DEF ConnectDials, StartsHeartbeat
<1>10. CASE OwnerCloses
  BY <1>h, <1>10 DEF OwnerCloses, Close, CloseHeartbeat, CloseConn, Closes
<1>11. CASE UNCHANGED state
  BY <1>h, <1>11 DEF state
<1> QED BY <1>1, <1>2, <1>3, <1>4, <1>5, <1>6, <1>7, <1>8, <1>9, <1>10, <1>11,
       ClientSteps DEF Loop

\* The invariant of the client.
LEMMA ClientInductive == Init /\ [][Next]_vars => []ClientInv
<1>1. ClientInv /\ [Next]_vars => ClientInv'
  BY ClientTypeStep, LoopStep, BeatStep, OwnerStep, ServiceStep DEF ClientInv
<1> QED BY ClientInit, <1>1, PTL

-----------------------------------------------------------------------------
(***************************************************************************)
(* What the properties of the runs need of the invariants.                 *)
(***************************************************************************)
\* The hub's counters stay within the number of its clients.
LEMMA HubInvGivesTypes == HubInv => Hub!TypeOK
<1> SUFFICES ASSUME HubInv PROVE Hub!TypeOK
  OBVIOUS
<1>1. Serving \in SUBSET Clients /\ Counted \in SUBSET Clients
  BY DEF Serving, Counted
<1>2. /\ Cardinality(Serving) \in Nat /\ Cardinality(Serving) <= Cardinality(Clients)
      /\ Cardinality(Counted) \in Nat /\ Cardinality(Counted) <= Cardinality(Clients)
      /\ Cardinality(Clients) \in Nat
  BY <1>1, PartsAssumption, FS_Subset, FS_CardinalityType
<1>3. count \in 0..Cardinality(Clients) /\ wg \in 0..Cardinality(Clients) + 1
  BY <1>2 DEF HubInv, CountInv
<1>4. Hub!Cardinality(Clients) = Cardinality(Clients)
  BY DEF Hub!Cardinality, Cardinality
<1> QED BY <1>3, <1>4 DEF HubInv, HubType, SessionInv, Hub!TypeOK

\* A session that has not been replaced has its connection.
LEMMA HubInvEndsSessions == HubInv => Hub!SessionsEnd
BY DEF HubInv, SessionInv, Hub!SessionsEnd

\* What a Stop of the hub that waits for everybody has left when it removes
\* the socket and returns (Stop): no open connection, no entry in the map of
\* clients, and counters at zero.
HubQuiet ==
    patient /\ spc \in {"files", "done"} => open = {} /\ clients = {} /\ count = 0 /\ wg = 0

LEMMA HubInvGivesQuiet == HubInv => HubQuiet
<1> SUFFICES ASSUME HubInv, patient, spc \in {"files", "done"}
             PROVE  open = {} /\ clients = {} /\ count = 0 /\ wg = 0
  BY DEF HubQuiet
<1>1. hloop = "done" /\ Serving = {}
  BY DEF HubInv, StoppedInv
<1>2. Counted = {}
  BY <1>1 DEF Serving, Counted
<1>3. count = 0 /\ wg = 0
  BY <1>1, <1>2, FS_EmptySet DEF HubInv, CountInv
<1>4. open = {} /\ clients = {}
  BY <1>1, <1>2 DEF HubInv, HubType, AdmitInv, Serving
<1> QED BY <1>3, <1>4

\* The types of the client.
LEMMA ClientInvGivesTypes == ClientInv => TypeOK
BY DEF ClientInv, ClientType, NumberType, ThreadType, TypeOK

\* The heartbeat in charge is the only one that goes on.
LEMMA ClientInvGivesOneHeartbeat == ClientInv => OneHeartbeat
<1> SUFFICES ASSUME ClientInv PROVE OneHeartbeat
  OBVIOUS
<1>1. Live = {} \/ Live = {beat}
  BY DEF ClientInv, BeatInv
<1>2. Cardinality(Live) <= 1
  <2>1. CASE Live = {}
    BY <2>1, FS_EmptySet
  <2>2. CASE Live = {beat}
    <3>1. Cardinality({beat}) = 1
      BY FS_Singleton
    <3> QED BY <2>2, <3>1
  <2> QED BY <1>1, <2>1, <2>2
<1>3. owner = "open" /\ conn # 0 /\ loop = "off" /\ ~failed /\ ~overlapped => Live # {}
  BY DEF ClientInv, ServiceInv, OwnerInv, Beating
<1> QED BY <1>2, <1>3 DEF OneHeartbeat

-----------------------------------------------------------------------------
(***************************************************************************)
(* The three side by side: each runs as it would alone.  SubProofs has     *)
(* definitions of its own, equal to those of Sub: the facts that say so    *)
(* expand them all.                                                        *)
(***************************************************************************)
SubProofs == INSTANCE SubprocessServerProofs WITH
    Conns <- {CHOOSE c \in Clients : TRUE}, MaxFaults <- MaxSubFaults,
    loop <- sloop, cur <- scur, open <- sopen, hungUp <- shungUp, faults <- sfaults

allVars == <<part, vars, hubProcess, subprocess>>

\* The hub process.
LEMMA HubRuns == MCSpec => Hub!Init /\ [][Hub!Next]_(Hub!vars)
<1>1. MCInit => Hub!Init
  BY DEF MCInit
<1>2. [MCNext]_allVars => [Hub!Next]_(Hub!vars)
  BY DEF MCNext, allVars, hubProcess, Hub!vars, Hub!loopVars, Hub!connVars, Hub!mapVars,
     Hub!stopVars, Hub!sessionVars
<1> QED BY <1>1, <1>2, PTL DEF MCSpec, allVars

\* The client.
LEMMA ClientRuns == MCSpec => Init /\ [][Next]_vars
<1>1. MCInit => Init
  BY DEF MCInit
<1>2. [MCNext]_allVars => [Next]_vars
  BY DEF MCNext, allVars
<1> QED BY <1>1, <1>2, PTL DEF MCSpec, allVars

\* The constants of the subprocess's server are as its proofs assume.
LEMMA SubConstants == SubProofs!Constants
<1>1. Ops \in [Callers -> SUBSET {"Start", "StartWithHub", "Stop", "StopForEver", "Wait"}]
  BY DEF Ops
<1>2. (CHOOSE c \in Clients : TRUE) \in Clients
  BY PartsAssumption
<1> QED BY <1>1, <1>2, PartsAssumption DEF SubProofs!Constants

\* The subprocess's server.
LEMMA SubRuns == MCSpec => SubProofs!Init /\ [][SubProofs!Next]_(SubProofs!vars)
<1>1. MCInit => SubProofs!Init
  BY SMTT(30) DEF MCInit, Sub!Init, SubProofs!Init, Sub!Epochs, SubProofs!Epochs
<1>2. ASSUME NEW u \in Callers, Sub!Caller(u)
      PROVE  SubProofs!Caller(u)
  <2>1. /\ Sub!StartBegin(u) => SubProofs!StartBegin(u)
        /\ Sub!NewEpoch(u) => SubProofs!NewEpoch(u)
        /\ Sub!Listen(u) => SubProofs!Listen(u)
    BY DEF Sub!StartBegin, SubProofs!StartBegin, Sub!NewEpoch, SubProofs!NewEpoch, Sub!Listen,
       SubProofs!Listen, Sub!Moves, SubProofs!Moves, Sub!Fault, SubProofs!Fault, Sub!Epochs,
       SubProofs!Epochs, Sub!lifeVars, SubProofs!lifeVars, Sub!loopVars, SubProofs!loopVars,
       Sub!connVars, SubProofs!connVars
  <2>2. /\ Sub!RegisterWithHub(u) => SubProofs!RegisterWithHub(u)
        /\ Sub!StopBegin(u) => SubProofs!StopBegin(u)
        /\ Sub!CloseChannel(u) => SubProofs!CloseChannel(u)
    BY DEF Sub!RegisterWithHub, SubProofs!RegisterWithHub, Sub!StopBegin, SubProofs!StopBegin,
       Sub!CloseChannel, SubProofs!CloseChannel, Sub!Moves, SubProofs!Moves, Sub!Fault,
       SubProofs!Fault, Sub!Epochs, SubProofs!Epochs, Sub!lifeVars, SubProofs!lifeVars,
       Sub!loopVars, SubProofs!loopVars, Sub!connVars, SubProofs!connVars
  <2>3. /\ Sub!CloseListener(u) => SubProofs!CloseListener(u)
        /\ Sub!CloseConns(u) => SubProofs!CloseConns(u)
    BY DEF Sub!CloseListener, SubProofs!CloseListener, Sub!CloseConns, SubProofs!CloseConns,
       Sub!Moves, SubProofs!Moves, Sub!Epochs, SubProofs!Epochs, Sub!lifeVars,
       SubProofs!lifeVars, Sub!loopVars, SubProofs!loopVars, Sub!connVars, SubProofs!connVars
  <2>4. Sub!StopEnds(u) => SubProofs!StopEnds(u)
    BY DEF Sub!StopEnds, SubProofs!StopEnds, Sub!Moves, SubProofs!Moves, Sub!Fault,
       SubProofs!Fault, Sub!Drained, SubProofs!Drained, Sub!Serving, SubProofs!Serving,
       Sub!Epochs, SubProofs!Epochs, Sub!lifeVars, SubProofs!lifeVars, Sub!loopVars,
       SubProofs!loopVars, Sub!connVars, SubProofs!connVars
  <2>5. /\ Sub!WaitBegin(u) => SubProofs!WaitBegin(u)
        /\ Sub!WaitEnds(u) => SubProofs!WaitEnds(u)
    BY DEF Sub!WaitBegin, SubProofs!WaitBegin, Sub!WaitEnds, SubProofs!WaitEnds, Sub!Moves,
       SubProofs!Moves, Sub!Drained, SubProofs!Drained, Sub!Serving, SubProofs!Serving,
       Sub!Epochs, SubProofs!Epochs, Sub!lifeVars, SubProofs!lifeVars, Sub!loopVars,
       SubProofs!loopVars, Sub!connVars, SubProofs!connVars
  <2> QED BY <1>2, <2>1, <2>2, <2>3, <2>4, <2>5 DEF Sub!Caller, SubProofs!Caller
<1>3. ASSUME NEW u \in Callers, NEW op \in Ops[u], Sub!Call(u, op)
      PROVE  SubProofs!Call(u, op)
  BY <1>3 DEF Sub!Call, SubProofs!Call, Sub!Moves, SubProofs!Moves, Sub!Epochs,
     SubProofs!Epochs, Sub!lifeVars, SubProofs!lifeVars, Sub!loopVars, SubProofs!loopVars,
     Sub!connVars, SubProofs!connVars
<1>4. ASSUME NEW c \in {CHOOSE d \in Clients : TRUE},
             Sub!Dial(c) \/ Sub!HangUp(c) \/ Sub!Read(c) \/ Sub!Conn(c)
      PROVE  SubProofs!Dial(c) \/ SubProofs!HangUp(c) \/ SubProofs!Read(c) \/ SubProofs!Conn(c)
  BY <1>4 DEF Sub!Dial, SubProofs!Dial, Sub!HangUp, SubProofs!HangUp, Sub!Read, SubProofs!Read,
     Sub!Conn, SubProofs!Conn, Sub!Begin, SubProofs!Begin, Sub!Check, SubProofs!Check,
     Sub!Handle, SubProofs!Handle, Sub!CloseConn, SubProofs!CloseConn, Sub!Forget,
     SubProofs!Forget, Sub!Exit, SubProofs!Exit, Sub!Becomes, SubProofs!Becomes, Sub!ConnRest,
     SubProofs!ConnRest, Sub!Epochs, SubProofs!Epochs, Sub!lifeVars, SubProofs!lifeVars,
     Sub!loopVars, SubProofs!loopVars, Sub!connVars, SubProofs!connVars
<1>5. ASSUME NEW e \in Sub!Epochs,
             Sub!Loop(e) \/ Sub!AcceptFails(e)
               \/ \E c \in {CHOOSE d \in Clients : TRUE} : Sub!Accept(e, c)
      PROVE  SubProofs!Loop(e) \/ SubProofs!AcceptFails(e)
               \/ \E c \in {CHOOSE d \in Clients : TRUE} : SubProofs!Accept(e, c)
  BY <1>5 DEF Sub!Loop, SubProofs!Loop, Sub!Store, SubProofs!Store, Sub!Launch,
     SubProofs!Launch, Sub!Wake, SubProofs!Wake, Sub!AcceptFails, SubProofs!AcceptFails,
     Sub!Accept, SubProofs!Accept, Sub!Fault, SubProofs!Fault, Sub!Epochs, SubProofs!Epochs,
     Sub!lifeVars, SubProofs!lifeVars, Sub!loopVars, SubProofs!loopVars, Sub!connVars,
     SubProofs!connVars
<1>6. Sub!Next => SubProofs!Next
  BY <1>2, <1>3, <1>4, <1>5 DEF Sub!Next, SubProofs!Next, Sub!Epochs, SubProofs!Epochs
<1>7. UNCHANGED subprocess => UNCHANGED SubProofs!vars
  BY DEF subprocess, SubProofs!vars, SubProofs!lifeVars, SubProofs!loopVars, SubProofs!connVars
<1>8. [MCNext]_allVars => [SubProofs!Next]_(SubProofs!vars)
  BY <1>6, <1>7 DEF MCNext, allVars
<1> QED BY <1>1, <1>8, PTL DEF MCSpec, allVars

\* Its two properties are those of Sub.
LEMMA SubProperties ==
    /\ SubProofs!TypeOK => Sub!TypeOK
    /\ SubProofs!StoppedIsQuiet => Sub!StoppedIsQuiet
<1>1. SubProofs!TypeOK => Sub!TypeOK
  BY DEF SubProofs!TypeOK, Sub!TypeOK, SubProofs!Epochs, Sub!Epochs
<1>2. SubProofs!StoppedIsQuiet => Sub!StoppedIsQuiet
  BY DEF SubProofs!StoppedIsQuiet, Sub!StoppedIsQuiet, SubProofs!Epochs, Sub!Epochs,
     SubProofs!Drained, Sub!Drained, SubProofs!Serving, Sub!Serving
<1> QED BY <1>1, <1>2

-----------------------------------------------------------------------------
\* The invariants of the three parts hold for ever.
THEOREM PartsInductive == MCSpec => [](HubInv /\ ClientInv /\ SubProofs!IInv)
<1>1. SubProofs!Init /\ [][SubProofs!Next]_(SubProofs!vars) => []SubProofs!IInv
  BY SubConstants, SubProofs!InvHolds
<1> QED BY <1>1, HubRuns, ClientRuns, SubRuns, HubInductive, ClientInductive, PTL

\* Every variable of the three has a value of its type.
THEOREM PartsTyped == MCSpec => []TypesOK
<1>1. HubInv /\ ClientInv /\ SubProofs!IInv => TypesOK
  BY HubInvGivesTypes, ClientInvGivesTypes, SubProofs!InvGivesTypes, SubProperties DEF TypesOK
<1> QED BY <1>1, PartsInductive, PTL

\* No session outlives its connection, whichever of its client and Stop ends
\* that, and whoever registers and unregisters meanwhile; but one that a second
\* REGISTER on the connection replaced (cleanupSession).
THEOREM EndedHasNoSession == MCSpec => []Hub!SessionsEnd
BY HubInvEndsSessions, PartsInductive, PTL

\* A Stop of the hub that has waited leaves no connection and no goroutine.
THEOREM HubStopLeavesNothing == MCSpec => []HubQuiet
BY HubInvGivesQuiet, PartsInductive, PTL

\* A Stop of a subprocess's server that returns without an error leaves
\* nothing of its epoch, and only the last epoch listens.
THEOREM ServerStopLeavesQuiet == MCSpec => []StoppedIsQuiet
<1>1. SubProofs!IInv => StoppedIsQuiet
  BY SubProofs!InvGivesQuiet, SubProperties DEF StoppedIsQuiet
<1> QED BY <1>1, PartsInductive, PTL

\* The client never has two heartbeats that go on, and has one whenever it is
\* in service, unless a Connect ran during a reconnect (startHeartbeat).
THEOREM HeartbeatIsOne == MCSpec => []OneHeartbeat
BY ClientInvGivesOneHeartbeat, PartsInductive, PTL
=============================================================================
