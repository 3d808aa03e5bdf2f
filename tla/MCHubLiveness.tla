----------------------------- MODULE MCHubLiveness -----------------------------
(***************************************************************************)
(* Three components that share no state, checked side by side with their   *)
(* liveness: the hub process, the client that reconnects, and the server   *)
(* that a subprocess runs.  The initial state settles which of the three   *)
(* runs; in the other two, which stay as they are, no fair action is       *)
(* enabled.                                                                *)
(***************************************************************************)
EXTENDS ResilientConn

CONSTANTS Clients, None, MaxClients, MaxSessions,
          Callers, u1, u2, MaxEpochs, MaxCommands, MaxSubFaults

\* There are clients, None is none of the names, and the limits are numbers.
ASSUME PartsAssumption ==
    /\ IsFiniteSet(Clients) /\ Clients # {}
    /\ None \notin Clients \cup Callers
    /\ {MaxClients, MaxSessions, MaxEpochs, MaxCommands, MaxSubFaults} \subseteq Nat

VARIABLES part,
          hloop, cur, cs, open, hungUp, clients, count, wg, listening, hshutdown,
          cancelled, spc, patient, visited, must, wanted, sessions, code, nextCode, replaced,
          life, running, epoch, closedCh, listener, sloop, scur, cpc, cepoch, sees,
          sopen, shungUp, known, upc, target, commands, sfaults

hubProcess == <<hloop, cur, cs, open, hungUp, clients, count, wg, listening, hshutdown,
                cancelled, spc, patient, visited, must, wanted, sessions, code, nextCode, replaced>>

subprocess == <<life, running, epoch, closedCh, listener, sloop, scur, cpc, cepoch, sees,
                sopen, shungUp, known, upc, target, commands, sfaults>>

Hub == INSTANCE HubServer WITH
    Conns <- Clients, loop <- hloop, shutdown <- hshutdown

\* A start with registration, a stop that may give up and a Wait, and for the
\* others a start and a stop that does not give up.
Ops == [u \in Callers |-> CASE u = u1 -> {"StartWithHub"}
                            [] u = u2 -> {"Stop", "Wait"}
                            [] OTHER -> {"Start", "StopForEver"}]

Sub == INSTANCE SubprocessServer WITH
    Conns <- {CHOOSE c \in Clients : TRUE}, MaxFaults <- MaxSubFaults,
    loop <- sloop, cur <- scur, open <- sopen, hungUp <- shungUp, faults <- sfaults

Parts == {"hub", "client", "subprocess"}

MCInit == part \in Parts /\ Init /\ Hub!Init /\ Sub!Init

MCNext ==
    /\ UNCHANGED part
    /\ \/ part = "client" /\ Next /\ UNCHANGED <<hubProcess, subprocess>>
       \/ part = "hub" /\ Hub!Next /\ UNCHANGED <<vars, subprocess>>
       \/ part = "subprocess" /\ Sub!Next /\ UNCHANGED <<vars, hubProcess>>

MCSpec == /\ MCInit /\ [][MCNext]_<<part, vars, hubProcess, subprocess>>
          /\ Fairness /\ Hub!Fairness /\ Sub!Fairness
-----------------------------------------------------------------------------
\* Every variable of the three has a value of its type.
TypesOK == TypeOK /\ Hub!TypeOK /\ Sub!TypeOK

\* A Stop that does not give up returns: that of the hub, and that of a
\* subprocess's server (both wait for every goroutine they have started).  It
\* is Hub!StopReturns and Sub!StopReturns in one formula.
StopsReturn ==
    (wanted \/ Sub!Stopping) ~> (Hub!Stopped \/ (part = "subprocess" /\ ~Sub!Stopping))

\* A Stop of a subprocess's server that returns leaves nothing of its epoch.
StoppedIsQuiet == Sub!StoppedIsQuiet
=============================================================================
