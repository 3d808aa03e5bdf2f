------------------------ MODULE SubprocessServerProofs ------------------------
(***************************************************************************)
(* Theorems about SubprocessServer, for any callers, connections, epochs,  *)
(* commands and faults, whatever calls the callers make.  The inductive    *)
(* invariant says who holds lifeMu at which step, what has become of the   *)
(* listener of the current epoch by then, and to which accept loop a       *)
(* connection belongs that is not served yet.                              *)
(***************************************************************************)
EXTENDS SubprocessServer, TLAPS

\* What the runs' constants are, and all that the proofs use of them.
Constants ==
    /\ Ops \in [Callers -> SUBSET {"Start", "StartWithHub", "Stop", "StopForEver", "Wait"}]
    /\ MaxEpochs \in Nat /\ MaxCommands \in Nat /\ MaxFaults \in Nat
    /\ None \notin Callers \cup Conns

Starts == {"newEpoch", "newEpochHub", "listen", "listenHub"}
Signals == {"signal", "signalForEver", "unlisten", "unlistenForEver"}
Closes == {"range", "rangeForEver", "drain", "drainForEver"}

\* The steps between Lock and Unlock of lifeMu.
Holds == Starts \cup Signals \cup Closes

UPC == Holds \cup {"idle", "Start", "StartWithHub", "Stop", "StopForEver", "Wait", "register",
                   "stopped", "waiting", "done"}

Served == {"begin", "check", "read", "handle", "close", "forget", "exit"}

CPC == Served \cup {"idle", "backlog", "accepted", "gone"}

LifeType ==
    /\ life \in Callers \cup {None} /\ running \in BOOLEAN /\ epoch \in Epochs
    /\ closedCh \subseteq Epochs /\ listener \in [Epochs -> {"none", "open", "closed"}]

LoopType ==
    /\ loop \in [Epochs -> {"off", "accept", "store", "launch", "nap", "ended"}]
    /\ cur \in [Epochs -> Conns \cup {None}]

ConnType ==
    /\ cpc \in [Conns -> CPC] /\ cepoch \in [Conns -> Epochs] /\ sees \in [Conns -> Epochs]
    /\ open \subseteq Conns /\ hungUp \subseteq Conns /\ known \subseteq Conns

CallType ==
    /\ upc \in [Callers -> UPC] /\ target \in [Callers -> Epochs]
    /\ commands \in 0..MaxCommands /\ faults \in 0..MaxFaults

TypeInv == LifeType /\ LoopType /\ ConnType /\ CallType

\* lifeMu is held by the one caller that is between Lock and Unlock.
LockInv == \A u \in Callers : upc[u] \in Holds <=> life = u

\* The listener is that of the epoch there is.  It is open only while the
\* server runs or a Stop is on its way to close it.
ListenerInv ==
    /\ \A e \in Epochs : listener[e] = "open" => e = epoch
    /\ \A e \in Epochs : e > epoch => listener[e] = "none"
    /\ life = None /\ ~running => listener[epoch] # "open"
    /\ \A u \in Callers :
         /\ upc[u] \in Starts => running
         /\ upc[u] \in {"newEpoch", "newEpochHub"} => listener[epoch] # "open" /\ epoch < MaxEpochs
         /\ upc[u] \in {"listen", "listenHub"} => listener[epoch] = "none"
         /\ upc[u] \in Closes => listener[epoch] = "closed"
         /\ upc[u] \in {"drain", "drainForEver"} => target[u] = epoch

\* An accept loop is where its epoch has a listener, and admits a connection
\* of its own; a connection that is open is being admitted or served.
AdmitInv ==
    /\ \A e \in Epochs : loop[e] # "off" => listener[e] # "none"
    /\ \A e \in Epochs : loop[e] \in {"store", "launch"} =>
         /\ cur[e] \in Conns
         /\ cepoch[cur[e]] = e /\ cpc[cur[e]] = "accepted"
    /\ \A c \in Conns : cpc[c] = "accepted" =>
         loop[cepoch[c]] \in {"store", "launch"} /\ cur[cepoch[c]] = c
    /\ \A c \in open : cpc[c] \in {"accepted", "begin", "check", "read", "handle", "close"}

\* A Stop that has waited for its epoch left it closed and drained.
QuietInv ==
    \A u \in Callers : upc[u] = "stopped" =>
        listener[target[u]] = "closed" /\ Drained(target[u])

IInv == TypeInv /\ LockInv /\ ListenerInv /\ AdmitInv /\ QuietInv

-----------------------------------------------------------------------------
(***************************************************************************)
(* The steps, by who makes them.                                           *)
(***************************************************************************)
CallStep(u) == Caller(u) \/ \E op \in Ops[u] : Call(u, op)

ServeStep(c) == Dial(c) \/ HangUp(c) \/ Read(c) \/ Conn(c)

AcceptStep(e) == Loop(e) \/ AcceptFails(e) \/ \E c \in Conns : Accept(e, c)

\* Who makes a step.
LEMMA Steps ==
    ASSUME [Next]_vars
    PROVE  \/ \E u \in Callers : CallStep(u)
           \/ \E c \in Conns : ServeStep(c)
           \/ \E e \in Epochs : AcceptStep(e)
           \/ UNCHANGED vars
BY DEF Next, CallStep, ServeStep, AcceptStep

\* Accept loops and connections leave lifeMu, the listeners and the callers alone.
LEMMA OthersLeaveCalls ==
    ASSUME (\E c \in Conns : ServeStep(c)) \/ (\E e \in Epochs : AcceptStep(e))
              \/ UNCHANGED vars
    PROVE  UNCHANGED <<lifeVars, upc, target>>
<1>1. ASSUME NEW c \in Conns, ServeStep(c)
      PROVE  UNCHANGED <<lifeVars, upc, target>>
  BY <1>1 DEF ServeStep, Dial, HangUp, Read, Conn, Begin, Check, Handle, CloseConn, Forget,
     Exit, ConnRest
<1>2. ASSUME NEW e \in Epochs, AcceptStep(e)
      PROVE  UNCHANGED <<lifeVars, upc, target>>
  BY <1>2 DEF AcceptStep, Loop, Store, Launch, Wake, AcceptFails, Accept
<1> QED BY <1>1, <1>2 DEF vars

\* The calls that leave loops and connections alone.
LEMMA CallsLeaveLoops ==
    ASSUME NEW u \in Callers, CallStep(u), ~Listen(u), ~CloseListener(u), ~CloseConns(u)
    PROVE  UNCHANGED <<loopVars, connVars>>
BY DEF CallStep, Caller, StartBegin, NewEpoch, RegisterWithHub, StopBegin, CloseChannel,
   StopEnds, WaitBegin, WaitEnds, Call

-----------------------------------------------------------------------------
(***************************************************************************)
(* Types.                                                                  *)
(***************************************************************************)
\* The initial values have their types.
LEMMA TypeInit ==
    ASSUME Constants, Init
    PROVE  TypeInv
<1>0. 0 \in Epochs /\ {0} \subseteq Epochs
  BY DEF Constants, Epochs
<1>1. LifeType
  BY <1>0 DEF Init, LifeType
<1>2. LoopType
  BY DEF Init, LoopType
<1>3. ConnType
  BY <1>0 DEF Init, ConnType, CPC
<1>4. CallType
  BY <1>0 DEF Init, CallType, UPC, Constants
<1> QED BY <1>1, <1>2, <1>3, <1>4 DEF TypeInv

\* The callers.
LEMMA TypeCall ==
    ASSUME Constants, TypeInv, ListenerInv, NEW u \in Callers, CallStep(u)
    PROVE  TypeInv'
<1> USE DEF Moves, Fault, TypeInv, LifeType, LoopType, ConnType, CallType,
            lifeVars, loopVars, connVars
<1>1. ASSUME NEW s \in UPC
      PROVE  [upc EXCEPT ![u] = s] \in [Callers -> UPC]
  OBVIOUS
<1>2. faults < MaxFaults => faults + 1 \in 0..MaxFaults
  BY DEF Constants
<1> USE <1>1, <1>2
<1>a. CASE \E op \in Ops[u] : Call(u, op)
  <2>1. PICK op \in Ops[u] : Call(u, op)
    BY <1>a
  <2>2. op \in UPC
    BY DEF Constants, UPC
  <2> QED BY <2>1, <2>2 DEF Call
<1>b. CASE StartBegin(u) \/ StopBegin(u)
  <2>1. /\ life' \in Callers \cup {None} /\ running' \in BOOLEAN
        /\ UNCHANGED <<epoch, closedCh, listener, loopVars, connVars, target, commands, faults>>
    BY <1>b DEF StartBegin, StopBegin
  <2>2. \E s \in UPC : upc' = [upc EXCEPT ![u] = s]
    BY <1>b DEF StartBegin, StopBegin, UPC, Holds, Starts, Signals
  <2> QED BY <2>1, <2>2
<1>c. CASE NewEpoch(u)
  <2>1. epoch + 1 \in Epochs
    BY <1>c DEF NewEpoch, ListenerInv, Epochs, Constants
  <2> QED BY <1>c, <2>1 DEF NewEpoch, UPC, Holds, Starts
<1>d. CASE Listen(u)
  <2>1. /\ life' = None /\ running' \in BOOLEAN /\ faults' \in 0..MaxFaults
        /\ UNCHANGED <<epoch, closedCh, cur, connVars, target, commands>>
    BY <1>d DEF Listen
  <2>3. /\ listener' \in [Epochs -> {"none", "open", "closed"}]
        /\ loop' \in [Epochs -> {"off", "accept", "store", "launch", "nap", "ended"}]
    BY <1>d DEF Listen
  <2>2. \E s \in UPC : upc' = [upc EXCEPT ![u] = s]
    BY <1>d DEF Listen, UPC
  <2> QED BY <2>1, <2>2, <2>3
<1>e. CASE RegisterWithHub(u) \/ WaitBegin(u) \/ WaitEnds(u)
  BY <1>e DEF RegisterWithHub, WaitBegin, WaitEnds, UPC
<1>f. CASE CloseChannel(u)
  BY <1>f DEF CloseChannel, UPC, Holds, Signals
<1>g. CASE CloseListener(u)
  <2>1. cpc' \in [Conns -> CPC]
    BY <1>g DEF CloseListener, CPC
  <2> QED BY <1>g, <2>1 DEF CloseListener, UPC, Holds, Closes
<1>h. CASE CloseConns(u)
  BY <1>h DEF CloseConns, UPC, Holds, Closes
<1>i. CASE StopEnds(u)
  BY <1>i DEF StopEnds, UPC
<1> QED BY <1>a, <1>b, <1>c, <1>d, <1>e, <1>f, <1>g, <1>h, <1>i DEF CallStep, Caller

\* The connections.
LEMMA TypeServe ==
    ASSUME Constants, TypeInv, NEW c \in Conns, ServeStep(c)
    PROVE  TypeInv'
<1> USE DEF Becomes, TypeInv, LifeType, LoopType, ConnType, CallType,
            lifeVars, loopVars, connVars, ConnRest, CPC, Served
<1>1. CASE Dial(c) \/ HangUp(c)
  BY <1>1 DEF Dial, HangUp
<1>2. CASE Read(c)
  BY <1>2 DEF Read, Constants
<1>3. CASE Begin(c) \/ Check(c)
  BY <1>3 DEF Begin, Check
<1>4. CASE Handle(c)
  BY <1>4 DEF Handle
<1>5. CASE CloseConn(c) \/ Forget(c) \/ Exit(c)
  BY <1>5 DEF CloseConn, Forget, Exit
<1> QED BY <1>1, <1>2, <1>3, <1>4, <1>5 DEF ServeStep, Conn

\* The accept loops.
LEMMA TypeAccept ==
    ASSUME Constants, TypeInv, AdmitInv, NEW e \in Epochs, AcceptStep(e)
    PROVE  TypeInv'
<1> USE DEF TypeInv, LifeType, LoopType, ConnType, CallType, lifeVars, loopVars, connVars,
            CPC, Served
<1>1. CASE Store(e) \/ Launch(e)
  BY <1>1 DEF Store, Launch, AdmitInv
<1>2. CASE Wake(e)
  BY <1>2 DEF Wake
<1>3. CASE AcceptFails(e)
  BY <1>3 DEF AcceptFails, Fault, Constants
<1>4. ASSUME NEW c \in Conns, Accept(e, c)
      PROVE  TypeInv'
  BY <1>4 DEF Accept
<1> QED BY <1>1, <1>2, <1>3, <1>4 DEF AcceptStep, Loop

\* Every step keeps the types.
LEMMA TypeStep ==
    ASSUME Constants, TypeInv, ListenerInv, AdmitInv, [Next]_vars
    PROVE  TypeInv'
<1>1. UNCHANGED vars => TypeInv'
  BY DEF TypeInv, LifeType, LoopType, ConnType, CallType, vars, lifeVars, loopVars, connVars
<1> QED BY <1>1, Steps, TypeCall, TypeServe, TypeAccept

-----------------------------------------------------------------------------
(***************************************************************************)
(* lifeMu and the listeners.                                               *)
(***************************************************************************)
\* lifeMu changes hands only when a caller locks or unlocks it.
LEMMA LockStep ==
    ASSUME Constants, TypeInv, LockInv, [Next]_vars
    PROVE  LockInv'
<1>1. CASE \E u \in Callers : CallStep(u)
  <2> PICK u \in Callers : CallStep(u)
    BY <1>1
  <2> USE DEF Moves, Fault, TypeInv, LifeType, CallType, LockInv, lifeVars, Constants, Holds,
              Starts, Signals, Closes
  <2>1. ASSUME NEW op \in Ops[u], Call(u, op)
        PROVE  LockInv'
    BY <2>1 DEF Call
  <2>2. CASE StartBegin(u)
    BY <2>2 DEF StartBegin
  <2>3. CASE StopBegin(u)
    BY <2>3 DEF StopBegin
  <2>4. CASE NewEpoch(u) \/ CloseChannel(u)
    BY <2>4 DEF NewEpoch, CloseChannel
  <2>5. CASE Listen(u)
    BY <2>5 DEF Listen
  <2>6. CASE RegisterWithHub(u) \/ WaitBegin(u) \/ WaitEnds(u)
    BY <2>6 DEF RegisterWithHub, WaitBegin, WaitEnds
  <2>7. CASE CloseListener(u) \/ CloseConns(u)
    BY <2>7 DEF CloseListener, CloseConns
  <2>8. CASE StopEnds(u)
    BY <2>8 DEF StopEnds
  <2> QED BY <2>1, <2>2, <2>3, <2>4, <2>5, <2>6, <2>7, <2>8 DEF CallStep, Caller
<1>2. UNCHANGED <<lifeVars, upc, target>> => LockInv'
  BY DEF LockInv, lifeVars
<1> QED BY <1>1, <1>2, Steps, OthersLeaveCalls

\* Start opens a listener for its new epoch after the one before was closed.
LEMMA ListenerStep ==
    ASSUME Constants, TypeInv, LockInv, ListenerInv, [Next]_vars
    PROVE  ListenerInv'
<1>1. CASE \E u \in Callers : CallStep(u)
  <2> PICK u \in Callers : CallStep(u)
    BY <1>1
  <2> USE DEF Moves, Fault, TypeInv, LifeType, CallType, LockInv, ListenerInv, lifeVars,
              Constants, Holds, Starts, Signals, Closes, Epochs
  <2>1. ASSUME NEW op \in Ops[u], Call(u, op)
        PROVE  ListenerInv'
    BY ZenonT(60), <2>1 DEF Call
  <2>2. CASE StartBegin(u)
    BY <2>2 DEF StartBegin
  <2>3. CASE StopBegin(u)
    BY <2>3 DEF StopBegin
  <2>4. CASE NewEpoch(u)
    BY <2>4 DEF NewEpoch
  <2>a. CASE CloseChannel(u)
    BY <2>a DEF CloseChannel
  <2>5. CASE Listen(u)
    <3>1. /\ listener[epoch] = "none" /\ life = u
          /\ \A v \in Callers \ {u} : upc[v] \notin Holds
      BY <2>5 DEF Listen
    <3>2. /\ epoch' = epoch /\ life' = None /\ target' = target
          /\ \A v \in Callers \ {u} : upc'[v] = upc[v]
          /\ upc'[u] \in {"done", "register"}
      BY <2>5 DEF Listen
    <3>3. \A e \in Epochs \ {epoch} : listener'[e] = listener[e]
      BY <2>5 DEF Listen
    <3>4. listener'[epoch] = "open" => running'
      BY <2>5, <3>1 DEF Listen
    <3>5. life' # None \/ running' \/ listener'[epoch] # "open"
      BY <3>4
    <3>6. \A v \in Callers : upc'[v] \notin Holds
      BY <3>1, <3>2
    <3> QED BY <3>2, <3>3, <3>5, <3>6
  <2>6. CASE RegisterWithHub(u) \/ WaitBegin(u) \/ WaitEnds(u)
    BY <2>6 DEF RegisterWithHub, WaitBegin, WaitEnds
  <2>7. CASE CloseListener(u)
    BY <2>7 DEF CloseListener
  <2>b. CASE CloseConns(u)
    BY <2>b DEF CloseConns
  <2>8. CASE StopEnds(u)
    BY <2>8 DEF StopEnds
  <2> QED BY <2>1, <2>2, <2>3, <2>4, <2>a, <2>b, <2>5, <2>6, <2>7, <2>8 DEF CallStep, Caller
<1>2. UNCHANGED <<lifeVars, upc, target>> => ListenerInv'
  BY DEF ListenerInv, lifeVars
<1> QED BY <1>1, <1>2, Steps, OthersLeaveCalls

-----------------------------------------------------------------------------
(***************************************************************************)
(* Loops and connections.                                                  *)
(***************************************************************************)
\* A connection is admitted by one loop, and served once it is admitted.
LEMMA AdmitStep ==
    ASSUME Constants, TypeInv, LockInv, ListenerInv, AdmitInv, [Next]_vars
    PROVE  AdmitInv'
<1> USE DEF TypeInv, LifeType, LoopType, ConnType, AdmitInv
<1>1. CASE \E u \in Callers : CallStep(u)
  <2> PICK u \in Callers : CallStep(u)
    BY <1>1
  <2>1. CASE Listen(u)
    BY <2>1 DEF Listen, ListenerInv, connVars
  <2>2. CASE CloseListener(u)
    BY <2>2 DEF CloseListener, loopVars
  <2>3. CASE CloseConns(u)
    BY <2>3 DEF CloseConns, lifeVars, loopVars
  <2>4. CASE ~Listen(u) /\ ~CloseListener(u) /\ ~CloseConns(u)
    <3>1. UNCHANGED <<listener, loopVars, connVars>>
      BY <2>4, CallsLeaveLoops DEF CallStep, Caller, StartBegin, NewEpoch, RegisterWithHub,
         StopBegin, CloseChannel, StopEnds, WaitBegin, WaitEnds, Call, lifeVars
    <3> QED BY <3>1 DEF loopVars, connVars
  <2> QED BY <2>1, <2>2, <2>3, <2>4
<1>2. CASE \E c \in Conns : ServeStep(c)
  <2> PICK c \in Conns : ServeStep(c)
    BY <1>2
  <2> USE DEF Becomes, ConnRest, lifeVars, loopVars
  <2>1. CASE Dial(c) \/ HangUp(c)
    BY <2>1 DEF Dial, HangUp
  <2>2. CASE Read(c)
    BY <2>2 DEF Read
  <2>3. CASE Begin(c) \/ Check(c)
    BY <2>3 DEF Begin, Check
  <2>4. CASE Handle(c)
    BY <2>4 DEF Handle
  <2>5. CASE CloseConn(c) \/ Forget(c) \/ Exit(c)
    BY <2>5 DEF CloseConn, Forget, Exit
  <2> QED BY <2>1, <2>2, <2>3, <2>4, <2>5 DEF ServeStep, Conn
<1>3. CASE \E e \in Epochs : AcceptStep(e)
  <2> PICK e \in Epochs : AcceptStep(e)
    BY <1>3
  <2> USE DEF lifeVars, connVars
  <2>1. CASE Store(e)
    BY <2>1 DEF Store
  <2>2. CASE Launch(e)
    BY <2>2 DEF Launch
  <2>3. CASE Wake(e)
    BY <2>3 DEF Wake
  <2>4. CASE AcceptFails(e)
    BY <2>4 DEF AcceptFails
  <2>5. ASSUME NEW c \in Conns, Accept(e, c)
        PROVE  AdmitInv'
    BY <2>5 DEF Accept
  <2> QED BY <2>1, <2>2, <2>3, <2>4, <2>5 DEF AcceptStep, Loop
<1>4. UNCHANGED vars => AdmitInv'
  BY DEF vars, lifeVars, loopVars, connVars
<1> QED BY <1>1, <1>2, <1>3, <1>4, Steps

\* An epoch whose listener is closed and whose goroutines are over stays so.
LEMMA DrainedStays ==
    ASSUME Constants, TypeInv, LockInv, ListenerInv, AdmitInv, [Next]_vars,
           NEW e \in Epochs, listener[e] = "closed", Drained(e)
    PROVE  listener'[e] = "closed" /\ Drained(e)'
<1> USE DEF TypeInv, LifeType, LoopType, ConnType, AdmitInv, Drained, Serving
<1>1. CASE \E u \in Callers : CallStep(u)
  <2> PICK u \in Callers : CallStep(u)
    BY <1>1
  <2>1. CASE Listen(u)
    BY <2>1 DEF Listen, ListenerInv, connVars
  <2>2. CASE CloseListener(u)
    BY <2>2 DEF CloseListener, loopVars
  <2>3. CASE CloseConns(u)
    BY <2>3 DEF CloseConns, lifeVars, loopVars
  <2>4. CASE ~Listen(u) /\ ~CloseListener(u) /\ ~CloseConns(u)
    <3>1. UNCHANGED <<listener, loopVars, connVars>>
      BY <2>4, CallsLeaveLoops DEF CallStep, Caller, StartBegin, NewEpoch, RegisterWithHub,
         StopBegin, CloseChannel, StopEnds, WaitBegin, WaitEnds, Call, lifeVars
    <3> QED BY <3>1 DEF loopVars, connVars
  <2> QED BY <2>1, <2>2, <2>3, <2>4
<1>2. CASE \E c \in Conns : ServeStep(c)
  <2> PICK c \in Conns : ServeStep(c)
    BY <1>2
  <2> USE DEF Becomes, ConnRest, lifeVars, loopVars
  <2>1. CASE Dial(c) \/ HangUp(c)
    BY <2>1 DEF Dial, HangUp
  <2>2. CASE Read(c)
    BY <2>2 DEF Read
  <2>3. CASE Begin(c) \/ Check(c)
    BY <2>3 DEF Begin, Check
  <2>4. CASE Handle(c)
    BY <2>4 DEF Handle
  <2>5. CASE CloseConn(c) \/ Forget(c) \/ Exit(c)
    BY <2>5 DEF CloseConn, Forget, Exit
  <2> QED BY <2>1, <2>2, <2>3, <2>4, <2>5 DEF ServeStep, Conn
<1>3. CASE \E f \in Epochs : AcceptStep(f)
  <2> PICK f \in Epochs : AcceptStep(f)
    BY <1>3
  <2> USE DEF lifeVars, connVars
  <2>1. CASE Store(f)
    BY <2>1 DEF Store
  <2>2. CASE Launch(f)
    BY <2>2 DEF Launch
  <2>3. CASE Wake(f) \/ AcceptFails(f)
    BY <2>3 DEF Wake, AcceptFails
  <2>4. ASSUME NEW c \in Conns, Accept(f, c)
        PROVE  listener'[e] = "closed" /\ Drained(e)'
    BY <2>4 DEF Accept
  <2> QED BY <2>1, <2>2, <2>3, <2>4 DEF AcceptStep, Loop
<1>4. UNCHANGED vars => listener'[e] = "closed" /\ Drained(e)'
  BY DEF vars, lifeVars, loopVars, connVars
<1> QED BY <1>1, <1>2, <1>3, <1>4, Steps

\* What a Stop has found drained stays drained, since only a new epoch begins.
LEMMA QuietStep ==
    ASSUME Constants, TypeInv, LockInv, ListenerInv, AdmitInv, QuietInv, [Next]_vars
    PROVE  QuietInv'
<1>1. CASE \E u \in Callers : CallStep(u)
  <2> PICK u \in Callers : CallStep(u)
    BY <1>1
  <2>1. CASE StopEnds(u)
    <3>1. \A v \in Callers \ {u} : upc'[v] = upc[v]
      BY <2>1 DEF StopEnds, Moves, TypeInv, CallType
    <3>2. target' = target /\ listener' = listener /\ UNCHANGED <<loopVars, connVars>>
      BY <2>1 DEF StopEnds
    <3>3. \A e \in Epochs : Drained(e)' <=> Drained(e)
      BY <3>2 DEF Drained, Serving, loopVars, connVars
    <3>4. upc'[u] = "stopped" => listener[target[u]] = "closed" /\ Drained(target[u])
      BY <2>1 DEF StopEnds, Moves, TypeInv, CallType, ListenerInv, Closes
    <3>5. \A v \in Callers : target[v] \in Epochs
      BY DEF TypeInv, CallType
    <3> QED BY <3>1, <3>2, <3>3, <3>4, <3>5 DEF QuietInv
  <2>2. CASE ~StopEnds(u)
    <3>1. \A v \in Callers : upc'[v] = "stopped" => upc[v] = "stopped" /\ target'[v] = target[v]
      BY <2>2 DEF CallStep, Caller, StartBegin, NewEpoch, Listen, RegisterWithHub, StopBegin,
         CloseChannel, CloseListener, CloseConns, WaitBegin, WaitEnds, Call, Moves,
         TypeInv, CallType, Constants
    <3> QED BY <3>1, DrainedStays DEF QuietInv, TypeInv, CallType
  <2> QED BY <2>1, <2>2
<1>2. CASE UNCHANGED <<lifeVars, upc, target>>
  <2>1. \A u \in Callers : target[u] \in Epochs
    BY DEF TypeInv, CallType
  <2> QED BY <1>2, <2>1, DrainedStays DEF QuietInv
<1> QED BY <1>1, <1>2, Steps, OthersLeaveCalls

-----------------------------------------------------------------------------
(***************************************************************************)
(* The theorems.                                                           *)
(***************************************************************************)
\* The invariant holds initially: nothing has been started.
LEMMA InitInv ==
    ASSUME Constants, Init
    PROVE  IInv
<1>1. LockInv
  BY DEF Constants, Init, LockInv, Holds, Starts, Signals, Closes
<1>2. ListenerInv
  BY DEF Constants, Init, ListenerInv, Epochs, Starts, Closes
<1>3. AdmitInv /\ QuietInv
  BY DEF Init, AdmitInv, QuietInv
<1> QED BY <1>1, <1>2, <1>3, TypeInit DEF IInv

\* The invariant, from the steps alone: no fairness is needed.
LEMMA InvHolds ==
    ASSUME Constants
    PROVE  Init /\ [][Next]_vars => []IInv
<1>1. IInv /\ [Next]_vars => IInv'
  BY TypeStep, LockStep, ListenerStep, AdmitStep, QuietStep DEF IInv
<1> QED BY InitInv, <1>1, PTL

\* The types are a part of the invariant.
LEMMA InvGivesTypes == IInv => TypeOK
BY DEF IInv, TypeInv, LifeType, LoopType, ConnType, CallType, TypeOK

\* A connection that is open is being admitted or served, so that an epoch
\* that is drained and has no listener has none.
LEMMA InvGivesQuiet == IInv => StoppedIsQuiet
<1> SUFFICES ASSUME IInv PROVE StoppedIsQuiet
  OBVIOUS
<1>1. ASSUME NEW u \in Callers, upc[u] = "stopped", NEW c \in Conns, cepoch[c] = target[u]
      PROVE  c \notin open
  BY <1>1 DEF IInv, QuietInv, AdmitInv, Drained, Serving
<1> QED BY <1>1 DEF IInv, QuietInv, ListenerInv, StoppedIsQuiet

\* The invariant that the properties follow from: lifeMu excludes the callers
\* from each other, and each epoch has one listener and one accept loop.
THEOREM Inductive ==
    ASSUME Constants
    PROVE  Spec => []IInv
BY InvHolds, PTL DEF Spec

\* Every variable has a value of its type.
THEOREM Typed ==
    ASSUME Constants
    PROVE  Spec => []TypeOK
BY Inductive, InvGivesTypes, PTL

\* A Stop that returns without an error leaves no listener, goroutine or open
\* connection of its epoch, and only the last epoch listens.
THEOREM StopLeavesQuiet ==
    ASSUME Constants
    PROVE  Spec => []StoppedIsQuiet
BY Inductive, InvGivesQuiet, PTL
=============================================================================
