--------------------------- MODULE SubprocessServer ---------------------------
(***************************************************************************)
(* The server that an application runs to be a subprocess of the hub       *)
(* (src/client/subprocess.go): Start, Stop, Wait and StartWithHub, called  *)
(* by any goroutine, against the accept loop and the connections.          *)
(*                                                                         *)
(* Each successful or failed Start begins an epoch with a shutdown channel *)
(* and a WaitGroup of its own; lifeMu orders Start and Stop.  Goroutines   *)
(* of an epoch that a Stop has not waited out live on beside the next.     *)
(***************************************************************************)
EXTENDS Naturals, FiniteSets

CONSTANTS Callers,     \* goroutines of the application
          Ops,         \* the calls each of them may make
          Conns,       \* connections that the hub may open
          None,
          MaxEpochs,   \* Starts that get past the running flag
          MaxCommands, \* commands the hub sends
          MaxFaults    \* failures of Listen and Accept, expired contexts

Epochs == 0..MaxEpochs

VARIABLES life,        \* the holder of lifeMu, or None
          running, epoch,
          closedCh,    \* epochs whose shutdown channel is closed
          listener,    \* per epoch: none, open, closed
          loop, cur,   \* per epoch: accept loop's step, connection it admits
          cpc,         \* per connection: its step
          cepoch,      \* the epoch whose loop has accepted it
          sees,        \* the epoch whose channel its goroutine looks at
          open,        \* connections whose server side is open
          hungUp,      \* connections the hub has dropped
          known,       \* the server's map of connections
          upc, target, \* per caller: step, epoch it waits for
          commands, faults

lifeVars == <<life, running, epoch, closedCh, listener>>
loopVars == <<loop, cur>>
connVars == <<cpc, cepoch, sees, open, hungUp, known>>
vars == <<lifeVars, loopVars, connVars, upc, target, commands, faults>>

Init ==
    /\ life = None /\ running = FALSE /\ epoch = 0
    /\ closedCh = {0} /\ listener = [e \in Epochs |-> "none"]
    /\ loop = [e \in Epochs |-> "off"] /\ cur = [e \in Epochs |-> None]
    /\ cpc = [c \in Conns |-> "idle"] /\ cepoch = [c \in Conns |-> 0]
    /\ sees = [c \in Conns |-> 0] /\ open = {} /\ hungUp = {} /\ known = {}
    /\ upc = [u \in Callers |-> "idle"] /\ target = [u \in Callers |-> 0]
    /\ commands = 0 /\ faults = 0

\* A goroutine of the epoch e that its WaitGroup counts.
Serving(e) == {c \in Conns : cepoch[c] = e /\ cpc[c] \in
                 {"begin", "check", "read", "handle", "close", "forget", "exit"}}
\* Mutant: the WaitGroup counts the accept loop only.
DrainedOfLoop(e) == loop[e] \in {"off", "ended"}

Drained(e) == loop[e] \in {"off", "ended"} /\ Serving(e) = {}

Moves(u, s) == upc' = [upc EXCEPT ![u] = s]

Fault == faults < MaxFaults /\ faults' = faults + 1

(***************************************************************************)
(* Start, and StartWithHub, which goes on to register with the hub.        *)
(***************************************************************************)
Call(u, op) ==
    /\ upc[u] = "idle" /\ op \in Ops[u]
    /\ Moves(u, op)
    /\ UNCHANGED <<lifeVars, loopVars, connVars, target, commands, faults>>

\* lifeMu, and the CAS on running.
StartBegin(u) ==
    /\ upc[u] \in {"Start", "StartWithHub"} /\ life = None
    /\ IF running
       THEN Moves(u, "done") /\ UNCHANGED <<life, running>>
       ELSE /\ epoch < MaxEpochs
            /\ life' = u /\ running' = TRUE
            /\ Moves(u, IF upc[u] = "Start" THEN "newEpoch" ELSE "newEpochHub")
    /\ UNCHANGED <<epoch, closedCh, listener, loopVars, connVars, target, commands, faults>>

NewEpoch(u) ==
    /\ upc[u] \in {"newEpoch", "newEpochHub"}
    /\ epoch' = epoch + 1
    /\ Moves(u, IF upc[u] = "newEpoch" THEN "listen" ELSE "listenHub")
    /\ UNCHANGED <<life, running, closedCh, listener, loopVars, connVars, target, commands,
                   faults>>

\* The listener and the accept loop; or running is taken back, with the new
\* channel left open.
Listen(u) ==
    /\ upc[u] \in {"listen", "listenHub"}
    /\ life' = None
    /\ \/ /\ listener' = [listener EXCEPT ![epoch] = "open"]
          /\ loop' = [loop EXCEPT ![epoch] = "accept"]
          /\ Moves(u, IF upc[u] = "listen" THEN "done" ELSE "register")
          /\ UNCHANGED <<running, faults>>
       \/ /\ Fault
          /\ running' = FALSE
          /\ Moves(u, "done")
          /\ UNCHANGED <<listener, loop>>
    /\ UNCHANGED <<epoch, closedCh, cur, connVars, target, commands>>

\* RegisterWithHub succeeds, or the server is stopped again, without a limit
\* on the time it takes.
RegisterWithHub(u) ==
    /\ upc[u] = "register"
    /\ \/ Moves(u, "done") /\ UNCHANGED faults
       \/ Fault /\ Moves(u, "StopForEver")
    /\ UNCHANGED <<lifeVars, loopVars, connVars, target, commands>>

(***************************************************************************)
(* Stop, with a context that may end or with one that does not; Wait.      *)
(***************************************************************************)
StopBegin(u) ==
    /\ upc[u] \in {"Stop", "StopForEver"} /\ life = None
    /\ IF running
       THEN /\ life' = u /\ running' = FALSE
            /\ Moves(u, IF upc[u] = "Stop" THEN "signal" ELSE "signalForEver")
       ELSE Moves(u, "done") /\ UNCHANGED <<life, running>>
    /\ UNCHANGED <<epoch, closedCh, listener, loopVars, connVars, target, commands, faults>>

CloseChannel(u) ==
    /\ upc[u] \in {"signal", "signalForEver"}
    /\ closedCh' = closedCh \cup {epoch}
    /\ Moves(u, IF upc[u] = "signal" THEN "unlisten" ELSE "unlistenForEver")
    /\ UNCHANGED <<life, running, epoch, listener, loopVars, connVars, target, commands,
                   faults>>

\* Connections that nobody has accepted are reset.
CloseListener(u) ==
    /\ upc[u] \in {"unlisten", "unlistenForEver"}
    /\ listener' = [listener EXCEPT ![epoch] = "closed"]
    /\ cpc' = [c \in Conns |-> IF cpc[c] = "backlog" THEN "gone" ELSE cpc[c]]
    /\ Moves(u, IF upc[u] = "unlisten" THEN "range" ELSE "rangeForEver")
    /\ UNCHANGED <<life, running, epoch, closedCh, loopVars, cepoch, sees, open, hungUp,
                   known, target, commands, faults>>

CloseConns(u) ==
    /\ upc[u] \in {"range", "rangeForEver"}
    /\ open' = open \ known /\ known' = {}
    /\ target' = [target EXCEPT ![u] = epoch]
    /\ Moves(u, IF upc[u] = "range" THEN "drain" ELSE "drainForEver")
    /\ UNCHANGED <<lifeVars, loopVars, cpc, cepoch, sees, hungUp, commands, faults>>

\* The WaitGroup of this epoch is done, or the context ends first.
StopEnds(u) ==
    /\ upc[u] \in {"drain", "drainForEver"}
    /\ \/ Drained(target[u]) /\ Moves(u, "stopped") /\ UNCHANGED faults
       \/ upc[u] = "drain" /\ Fault /\ Moves(u, "done")
    /\ life' = None
    /\ UNCHANGED <<running, epoch, closedCh, listener, loopVars, connVars, target, commands>>

\* Wait reads the channel and the WaitGroup of the epoch there is.
WaitBegin(u) ==
    /\ upc[u] = "Wait"
    /\ target' = [target EXCEPT ![u] = epoch]
    /\ Moves(u, "waiting")
    /\ UNCHANGED <<lifeVars, loopVars, connVars, commands, faults>>

WaitEnds(u) ==
    /\ upc[u] = "waiting" /\ target[u] \in closedCh /\ Drained(target[u])
    /\ Moves(u, "done")
    /\ UNCHANGED <<lifeVars, loopVars, connVars, target, commands, faults>>

Caller(u) ==
    \/ StartBegin(u) \/ NewEpoch(u) \/ Listen(u) \/ RegisterWithHub(u)
    \/ StopBegin(u) \/ CloseChannel(u) \/ CloseListener(u) \/ CloseConns(u) \/ StopEnds(u)
    \/ WaitBegin(u) \/ WaitEnds(u)

(***************************************************************************)
(* acceptLoop, on the listener, the channel and the WaitGroup of its epoch.*)
(***************************************************************************)
Dial(c) ==
    /\ cpc[c] = "idle" /\ listener[epoch] = "open"
    /\ cpc' = [cpc EXCEPT ![c] = "backlog"]
    /\ UNCHANGED <<lifeVars, loopVars, cepoch, sees, open, hungUp, known, upc, target,
                   commands, faults>>

HangUp(c) ==
    /\ c \in open \/ cpc[c] = "backlog"
    /\ c \notin hungUp
    /\ hungUp' = hungUp \cup {c}
    /\ UNCHANGED <<lifeVars, loopVars, cpc, cepoch, sees, open, known, upc, target,
                   commands, faults>>

Accept(e, c) ==
    /\ loop[e] = "accept" /\ listener[e] = "open" /\ cpc[c] = "backlog"
    /\ loop' = [loop EXCEPT ![e] = "store"] /\ cur' = [cur EXCEPT ![e] = c]
    /\ cpc' = [cpc EXCEPT ![c] = "accepted"] /\ cepoch' = [cepoch EXCEPT ![c] = e]
    /\ open' = open \cup {c}
    /\ UNCHANGED <<lifeVars, sees, hungUp, known, upc, target, commands, faults>>

\* The map, then OnConnect.
Store(e) ==
    /\ loop[e] = "store"
    /\ known' = known \cup {cur[e]}
    /\ loop' = [loop EXCEPT ![e] = "launch"]
    /\ UNCHANGED <<lifeVars, cur, cpc, cepoch, sees, open, hungUp, upc, target, commands,
                   faults>>

Launch(e) ==
    /\ loop[e] = "launch"
    /\ cpc' = [cpc EXCEPT ![cur[e]] = "begin"]
    /\ loop' = [loop EXCEPT ![e] = "accept"] /\ cur' = [cur EXCEPT ![e] = None]
    /\ UNCHANGED <<lifeVars, cepoch, sees, open, hungUp, known, upc, target, commands,
                   faults>>

\* The listener is closed; or Accept fails for the moment, and the loop naps
\* unless the server is not running; or it fails for good.
AcceptFails(e) ==
    /\ loop[e] = "accept"
    /\ \/ /\ listener[e] = "closed"
          /\ loop' = [loop EXCEPT ![e] = "ended"]
          /\ UNCHANGED faults
       \/ /\ listener[e] = "open" /\ Fault
          /\ \E s \in (IF running THEN {"nap"} ELSE {}) \cup {"ended"} :
               loop' = [loop EXCEPT ![e] = s]
    /\ UNCHANGED <<lifeVars, cur, connVars, upc, target, commands>>

\* The timer, or the channel of the epoch.
Wake(e) ==
    /\ loop[e] = "nap"
    /\ \/ loop' = [loop EXCEPT ![e] = "accept"]
       \/ e \in closedCh /\ loop' = [loop EXCEPT ![e] = "ended"]
    /\ UNCHANGED <<lifeVars, cur, connVars, upc, target, commands, faults>>

Loop(e) == Store(e) \/ Launch(e) \/ Wake(e)

(***************************************************************************)
(* handleConnection.                                                       *)
(***************************************************************************)
Becomes(c, s) == cpc' = [cpc EXCEPT ![c] = s]

ConnRest == <<lifeVars, loopVars, cepoch, hungUp, upc, target, faults>>

\* The goroutine takes the channel that is current when it gets to run.
Begin(c) ==
    /\ cpc[c] = "begin"
    /\ sees' = [sees EXCEPT ![c] = epoch]
    /\ Becomes(c, "check")
    /\ UNCHANGED <<ConnRest, open, known, commands>>

Check(c) ==
    /\ cpc[c] = "check"
    /\ Becomes(c, IF sees[c] \in closedCh THEN "close" ELSE "read")
    /\ UNCHANGED <<ConnRest, sees, open, known, commands>>

\* The connection fails on either side; a command comes; nothing does for
\* thirty seconds, or an unknown verb is answered; or half a frame is all that
\* comes, which ends the connection.
Read(c) ==
    /\ cpc[c] = "read"
    /\ \/ (c \notin open \/ c \in hungUp) /\ Becomes(c, "close") /\ UNCHANGED commands
       \/ /\ c \in open \ hungUp /\ commands < MaxCommands
          /\ Becomes(c, "handle") /\ commands' = commands + 1
       \/ /\ c \in open \ hungUp
          /\ \E s \in (IF running THEN {"check"} ELSE {}) \cup {"close"} : Becomes(c, s)
          /\ UNCHANGED commands
    /\ UNCHANGED <<ConnRest, sees, open, known>>

\* The handler returns, and its response can be written or not.
Handle(c) ==
    /\ cpc[c] = "handle"
    /\ \/ c \in open /\ Becomes(c, "check")
       \/ (c \notin open \/ c \in hungUp) /\ Becomes(c, "close")
    /\ UNCHANGED <<ConnRest, sees, open, known, commands>>

\* subprocessConn.close, by whoever is first, then the WaitGroup.
CloseConn(c) ==
    /\ cpc[c] = "close"
    /\ open' = open \ {c}
    /\ Becomes(c, IF c \in open THEN "forget" ELSE "exit")
    /\ UNCHANGED <<ConnRest, sees, known, commands>>

Forget(c) ==
    /\ cpc[c] = "forget"
    /\ known' = known \ {c}
    /\ Becomes(c, "exit")
    /\ UNCHANGED <<ConnRest, sees, open, commands>>

Exit(c) ==
    /\ cpc[c] = "exit"
    /\ Becomes(c, "gone")
    /\ UNCHANGED <<ConnRest, sees, open, known, commands>>

Conn(c) == Begin(c) \/ Check(c) \/ Handle(c) \/ CloseConn(c) \/ Forget(c) \/ Exit(c)

Next ==
    \/ \E u \in Callers : Caller(u) \/ \E op \in Ops[u] : Call(u, op)
    \/ \E c \in Conns : Dial(c) \/ HangUp(c) \/ Read(c) \/ Conn(c)
    \/ \E e \in Epochs : Loop(e) \/ AcceptFails(e) \/ \E c \in Conns : Accept(e, c)

\* Goroutines run on, timers fire, handlers return within their thirty
\* seconds, and a read of a closed connection or an Accept on a closed
\* listener returns.  Nothing makes the application call or the hub send.
Fairness ==
    /\ \A u \in Callers : WF_vars(Caller(u))
    /\ \A c \in Conns : WF_vars(Conn(c)) /\ WF_vars(c \notin open /\ Read(c))
    /\ \A e \in Epochs : WF_vars(Loop(e)) /\ WF_vars(listener[e] = "closed" /\ AcceptFails(e))

Spec == Init /\ [][Next]_vars /\ Fairness
-----------------------------------------------------------------------------
TypeOK ==
    /\ life \in Callers \cup {None} /\ epoch \in Epochs /\ closedCh \subseteq Epochs
    /\ cur \in [Epochs -> Conns \cup {None}]
    /\ cepoch \in [Conns -> Epochs] /\ sees \in [Conns -> Epochs]
    /\ open \subseteq Conns /\ known \subseteq Conns /\ hungUp \subseteq Conns
    /\ target \in [Callers -> Epochs] /\ commands \in 0..MaxCommands
    /\ faults \in 0..MaxFaults

\* A Stop that returns without an error leaves nothing of its epoch: no open
\* listener, no goroutine, no open connection, not even one that was accepted
\* while Stop closed the others.  And only the last epoch ever listens.
StoppedIsQuiet ==
    /\ \A u \in Callers : upc[u] = "stopped" =>
         /\ listener[target[u]] = "closed" /\ Drained(target[u])
         /\ \A c \in Conns : cepoch[c] = target[u] => c \notin open
    /\ \A e \in Epochs : listener[e] = "open" => e = epoch

\* A Stop whose context does not end returns, whatever the hub does.  There is
\* one at a time, since it holds lifeMu.
Stopping == \E u \in Callers : upc[u] = "drainForEver"
StopReturns == Stopping ~> ~Stopping
=============================================================================
