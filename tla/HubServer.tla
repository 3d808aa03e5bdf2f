------------------------------ MODULE HubServer ------------------------------
(***************************************************************************)
(* The hub process once its socket is bound: the accept loop, one          *)
(* goroutine per client connection (src/hub/connection.go), the sessions   *)
(* clients register (src/hub/handlers.go), and Stop (src/hub/hub.go).      *)
(*                                                                         *)
(* The map of clients and the map of sessions are sync.Maps, the counter   *)
(* and the shutdown flag are atomics: nothing orders the accept loop, the  *)
(* connections and Stop but the order in which each does its own steps.    *)
(* The process manager and the subprocess router have modules of their     *)
(* own; here they are the steps in which their operations are called.      *)
(***************************************************************************)
EXTENDS Integers, FiniteSets

CONSTANTS Conns,        \* connections that clients may open
          None,
          MaxClients,   \* Config.MaxClients, 0 for no limit
          MaxSessions   \* SESSION REGISTER commands of the whole run

VARIABLES loop,      \* accept loop: next step
          cur,       \* the connection it is admitting
          cs,        \* per connection: next step of its client or goroutine
          open,      \* connections whose server side is open
          hungUp,    \* connections whose client has gone
          clients,   \* Hub.clients
          count,     \* Hub.clientCount
          wg,        \* Hub.wg
          listening, shutdown, cancelled,
          spc,       \* Stop: next step of the caller that won the CAS
          patient,   \* its context never ends
          visited,   \* connections its Range has closed
          must,      \* connections its Range has yet to see
          wanted,    \* a goroutine that will call Stop exists
          sessions,  \* the codes in Hub.sessions
          code,      \* per connection: Connection.sessionCode, 0 for none
          nextCode,
          replaced   \* history: codes that a second REGISTER of their connection replaced

loopVars == <<loop, cur>>
connVars == <<cs, open, hungUp>>
mapVars == <<clients, count, wg>>
stopVars == <<listening, shutdown, cancelled, spc, patient, visited, must, wanted>>
sessionVars == <<sessions, code, nextCode, replaced>>
vars == <<loopVars, connVars, mapVars, stopVars, sessionVars>>

Init ==
    /\ loop = "accept" /\ cur = None
    /\ cs = [c \in Conns |-> "idle"] /\ open = {} /\ hungUp = {}
    /\ clients = {} /\ count = 0 /\ wg = 1
    /\ listening = TRUE /\ shutdown = FALSE /\ cancelled = FALSE
    /\ spc = "none" /\ patient = TRUE /\ visited = {} /\ must = {}
    /\ wanted = FALSE
    /\ sessions = {} /\ code = [c \in Conns |-> 0] /\ nextCode = 1
    /\ replaced = {}

(***************************************************************************)
(* Clients.                                                                *)
(***************************************************************************)
Dial(c) ==
    /\ cs[c] = "idle" /\ listening
    /\ cs' = [cs EXCEPT ![c] = "backlog"]
    /\ UNCHANGED <<loopVars, open, hungUp, mapVars, stopVars, sessionVars>>

HangUp(c) ==
    /\ c \in open \/ cs[c] = "backlog"
    /\ c \notin hungUp
    /\ hungUp' = hungUp \cup {c}
    /\ UNCHANGED <<loopVars, cs, open, mapVars, stopVars, sessionVars>>

(***************************************************************************)
(* acceptLoop.                                                             *)
(***************************************************************************)
\* MaxClients is compared with the counter; a client too many is closed.
Accept(c) ==
    /\ loop = "accept" /\ listening /\ cs[c] = "backlog"
    /\ IF MaxClients > 0 /\ count >= MaxClients
       THEN /\ cs' = [cs EXCEPT ![c] = "gone"]
            /\ UNCHANGED <<loopVars, open>>
       ELSE /\ loop' = "store" /\ cur' = c
            /\ cs' = [cs EXCEPT ![c] = "accepted"]
            /\ open' = open \cup {c}
    /\ UNCHANGED <<hungUp, mapVars, stopVars, sessionVars>>

Store ==
    /\ loop = "store"
    /\ clients' = clients \cup {cur}
    /\ loop' = "launch"
    /\ UNCHANGED <<cur, connVars, count, wg, stopVars, sessionVars>>

\* Mutant: the counter is not raised.
LaunchUncounted ==
    /\ loop = "launch"
    /\ wg' = wg + 1
    /\ cs' = [cs EXCEPT ![cur] = "loop"]
    /\ loop' = "accept" /\ cur' = None
    /\ UNCHANGED <<open, hungUp, clients, count, stopVars, sessionVars>>

\* clientCount.Add, wg.Add, and the goroutine.
Launch ==
    /\ loop = "launch"
    /\ count' = count + 1 /\ wg' = wg + 1
    /\ cs' = [cs EXCEPT ![cur] = "loop"]
    /\ loop' = "accept" /\ cur' = None
    /\ UNCHANGED <<open, hungUp, clients, stopVars, sessionVars>>

\* Accept fails: the listener is closed, or for good.  Without a shutdown in
\* progress the loop asks for one before it ends.
AcceptFails ==
    /\ loop = "accept"
    /\ loop' = "done" /\ wg' = wg - 1
    /\ wanted' = (wanted \/ ~shutdown)
    /\ UNCHANGED <<cur, connVars, clients, count, listening, shutdown, cancelled,
                   spc, patient, visited, must, sessionVars>>

(***************************************************************************)
(* Connection.Handle.                                                      *)
(***************************************************************************)
Becomes(c, s) == cs' = [cs EXCEPT ![c] = s]

\* The context is looked at before each command, and only there.
CheckContext(c) ==
    /\ cs[c] = "loop"
    /\ Becomes(c, IF cancelled THEN "close" ELSE "read")
    /\ UNCHANGED <<loopVars, open, hungUp, mapVars, stopVars, sessionVars>>

\* ParseCommand ends: the connection is closed on one side; a frame came in
\* broken; the read timed out between frames or the frame is answered with an
\* error; or there is a command.
ReadEnds(c) ==
    /\ cs[c] = "read"
    /\ \/ (c \notin open \/ c \in hungUp) /\ Becomes(c, "close")
       \/ c \in open /\ \E s \in {"loop", "command", "close"} : Becomes(c, s)
    /\ UNCHANGED <<loopVars, open, hungUp, mapVars, stopVars, sessionVars>>

\* SESSION REGISTER: a new session, and the connection's code is replaced.
Register(c) ==
    /\ nextCode <= MaxSessions
    /\ sessions' = sessions \cup {nextCode}
    /\ code' = [code EXCEPT ![c] = nextCode]
    /\ nextCode' = nextCode + 1
    /\ replaced' = replaced \cup ({code[c]} \ {0})
    /\ UNCHANGED wanted

\* SESSION UNREGISTER: its own session or, if it has none, the one it names.
Unregister(c, n) ==
    /\ code[c] \in {0, n}
    /\ sessions' = sessions \ {n}
    /\ code' = [code EXCEPT ![c] = 0]
    /\ UNCHANGED <<nextCode, replaced, wanted>>

\* SHUTDOWN is answered, and a goroutine of its own calls Stop.
Shutdown == wanted' = TRUE /\ UNCHANGED sessionVars

\* One command; the loop goes on unless its answer cannot be written.
Command(c) ==
    /\ cs[c] = "command"
    /\ \/ Register(c)
       \/ \E n \in 1..MaxSessions : Unregister(c, n)
       \/ Shutdown
       \/ UNCHANGED <<sessionVars, wanted>>
    /\ \/ c \in open /\ Becomes(c, "loop")
       \/ (c \notin open \/ c \in hungUp) /\ Becomes(c, "close")
    /\ UNCHANGED <<loopVars, open, hungUp, mapVars, listening, shutdown, cancelled,
                   spc, patient, visited, must>>

\* The deferred part: Close, removeClient, cleanupSession, wg.Done.
CloseConn(c) ==
    /\ cs[c] = "close"
    /\ open' = open \ {c}
    /\ Becomes(c, "remove")
    /\ UNCHANGED <<loopVars, hungUp, mapVars, stopVars, sessionVars>>

RemoveClient(c) ==
    /\ cs[c] = "remove"
    /\ clients' = clients \ {c} /\ count' = count - 1
    /\ Becomes(c, IF code[c] = 0 THEN "return" ELSE "session")
    /\ UNCHANGED <<loopVars, open, hungUp, wg, stopVars, sessionVars>>

\* StopByProjectPath of the session's path, which takes its time.
StopProcesses(c) ==
    /\ cs[c] = "session"
    /\ Becomes(c, "forget")
    /\ UNCHANGED <<loopVars, open, hungUp, mapVars, stopVars, sessionVars>>

\* Mutant: the session stays in the map.
ForgetSessionKeeps(c) ==
    /\ cs[c] = "forget"
    /\ Becomes(c, "return")
    /\ UNCHANGED <<loopVars, open, hungUp, mapVars, stopVars, sessionVars>>

ForgetSession(c) ==
    /\ cs[c] = "forget"
    /\ sessions' = sessions \ {code[c]}
    /\ Becomes(c, "return")
    /\ UNCHANGED <<loopVars, open, hungUp, mapVars, stopVars, code, nextCode, replaced>>

Return(c) ==
    /\ cs[c] = "return"
    /\ wg' = wg - 1
    /\ Becomes(c, "gone")
    /\ UNCHANGED <<loopVars, open, hungUp, clients, count, stopVars, sessionVars>>

Handle(c) == CheckContext(c) \/ CloseConn(c) \/ RemoveClient(c) \/ StopProcesses(c)
                \/ ForgetSession(c) \/ Return(c) \/ Command(c)

(***************************************************************************)
(* Stop.                                                                   *)
(***************************************************************************)
\* The CAS.  The signal handler's context ends after ten seconds; SHUTDOWN and
\* the accept loop stop with a context that never ends.
StopBegin ==
    /\ ~shutdown
    /\ patient' \in {FALSE} \cup (IF wanted THEN {TRUE} ELSE {})
    /\ shutdown' = TRUE /\ spc' = "cancel"
    /\ UNCHANGED <<loopVars, connVars, mapVars, listening, cancelled, visited, must,
                   wanted, sessionVars>>

Cancel ==
    /\ spc = "cancel"
    /\ cancelled' = TRUE /\ spc' = "unlisten"
    /\ UNCHANGED <<loopVars, connVars, mapVars, listening, shutdown, patient, visited,
                   must, wanted, sessionVars>>

\* Connections nobody has accepted are reset with the listener.
CloseListener ==
    /\ spc = "unlisten"
    /\ listening' = FALSE /\ spc' = "range" /\ must' = clients
    /\ cs' = [c \in Conns |-> IF cs[c] = "backlog" THEN "gone" ELSE cs[c]]
    /\ UNCHANGED <<loopVars, open, hungUp, mapVars, shutdown, cancelled, patient,
                   visited, wanted, sessionVars>>

\* Range sees what was in the map all along; what is stored meanwhile it may
\* see or not.
CloseClient(c) ==
    /\ spc = "range" /\ c \in clients \ visited
    /\ open' = open \ {c} /\ visited' = visited \cup {c}
    /\ UNCHANGED <<loopVars, cs, hungUp, mapVars, listening, shutdown, cancelled, spc,
                   patient, must, wanted, sessionVars>>

\* Mutant: the Range over the clients ends early.
RangeEndsEarly ==
    /\ spc = "range"
    /\ spc' = "drain"
    /\ UNCHANGED <<loopVars, connVars, mapVars, listening, shutdown, cancelled, patient,
                   visited, must, wanted, sessionVars>>

RangeEnds ==
    /\ spc = "range" /\ must \cap clients \subseteq visited
    /\ spc' = "drain"
    /\ UNCHANGED <<loopVars, connVars, mapVars, listening, shutdown, cancelled, patient,
                   visited, must, wanted, sessionVars>>

\* SubprocessRouter.StopAll and ProcessManager.Shutdown.
Drain ==
    /\ spc = "drain"
    /\ spc' = "wait"
    /\ UNCHANGED <<loopVars, connVars, mapVars, listening, shutdown, cancelled, patient,
                   visited, must, wanted, sessionVars>>

\* wg.Wait, or the end of the context; then Manager.Close.
WaitEnds ==
    /\ spc = "wait" /\ (wg = 0 \/ ~patient)
    /\ spc' = "files"
    /\ UNCHANGED <<loopVars, connVars, mapVars, listening, shutdown, cancelled, patient,
                   visited, must, wanted, sessionVars>>

StopReturn ==
    /\ spc = "files"
    /\ spc' = "done"
    /\ UNCHANGED <<loopVars, connVars, mapVars, listening, shutdown, cancelled, patient,
                   visited, must, wanted, sessionVars>>

Stop == \/ Cancel \/ CloseListener \/ (\E c \in Conns : CloseClient(c))
        \/ RangeEnds \/ Drain \/ WaitEnds \/ StopReturn

Next ==
    \/ \E c \in Conns : Dial(c) \/ HangUp(c) \/ Accept(c) \/ ReadEnds(c) \/ Handle(c)
    \/ Store \/ Launch \/ AcceptFails \/ StopBegin \/ Stop

\* Goroutines run on, commands end, and a read of a closed connection returns.
\* Nothing makes a client send or hang up, or Accept fail on an open listener.
Fairness ==
    /\ \A c \in Conns : /\ WF_vars(Handle(c))
                        /\ WF_vars(c \notin open /\ ReadEnds(c))
    /\ WF_vars(Store \/ Launch) /\ WF_vars(~listening /\ AcceptFails)
    /\ WF_vars(wanted /\ StopBegin) /\ WF_vars(Stop)

Spec == Init /\ [][Next]_vars /\ Fairness
-----------------------------------------------------------------------------
TypeOK ==
    /\ loop \in {"accept", "store", "launch", "done"} /\ cur \in Conns \cup {None}
    /\ open \in SUBSET Conns /\ hungUp \in SUBSET Conns /\ clients \in SUBSET Conns
    /\ count \in 0..Cardinality(Conns) /\ wg \in 0..Cardinality(Conns) + 1
    /\ code \in [Conns -> 0..MaxSessions]

\* A Stop that waits for everybody (SHUTDOWN, a broken listener) returns.
Stopped == spc = "done"
StopReturns == wanted ~> Stopped

\* No session outlives the connection it belongs to, in whatever order clients
\* register and unregister, their own session or another's, and hang up, and Stop
\* closes them; but one that a second REGISTER on its connection has replaced is
\* nobody's any more and stays.
SessionsEnd == sessions \ replaced \subseteq {code[c] : c \in {d \in Conns : cs[d] # "gone"}}
=============================================================================
