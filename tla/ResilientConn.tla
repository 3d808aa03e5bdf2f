---------------------------- MODULE ResilientConn ----------------------------
(***************************************************************************)
(* The client connection that survives restarts of the hub                 *)
(* (src/client/resilient.go), over the plain connection that dials again   *)
(* by itself (src/client/conn.go).                                         *)
(*                                                                         *)
(* Four kinds of goroutines share it: requests, heartbeats, the reconnect  *)
(* loop, and the owner, who calls Connect before anything else, Connect    *)
(* again when OnReconnectFailed has told it so, and Close in the end.  The *)
(* flags are separate atomics; connMu covers only the pointer and its      *)
(* generation.  A Conn is named by a number; its link to the hub is up,    *)
(* broken (nobody has noticed yet), or none.                               *)
(***************************************************************************)
EXTENDS Integers, FiniteSets

CONSTANTS Requests,      \* goroutines that issue requests
          MaxRequests,   \* requests each of them issues
          MaxConns,      \* Conns that are ever dialled
          MaxFaults,     \* crashes of the hub and answers that come too late
          MaxAttempts,   \* Config.MaxReconnectAttempts, 0 for no limit
          MaxFailures    \* failed heartbeats in a row that start a reconnect

ASSUME ResilientConstants ==
    /\ {MaxRequests, MaxConns, MaxFaults, MaxAttempts} \subseteq Nat
    /\ MaxFailures \in Nat \ {0}

Conns == 1..MaxConns

VARIABLES hubUp, faults,
          link, dialled,   \* per Conn: its link; how many there are
          unclosed,        \* Conns on which Close has not been called
          conn, gen,       \* rc.conn, 0 for nil, and rc.generation
          connected, reconnecting, shutdown, failed,
          owner,           \* the owner's next step
          rpc, rconn, rgen, issued,    \* per request goroutine
          loop, fresh, attempts,       \* the reconnect loop, its new Conn
          hpc, hconn, misses,          \* per heartbeat, named by its first Conn
          stopped, beat,   \* heartbeats told to end, rc.heartbeatCancel
          overlapped       \* history: a Connect ran during a reconnect

hubVars == <<hubUp, faults>>
connVars == <<link, dialled, unclosed>>
rcVars == <<conn, gen, connected, reconnecting, shutdown, failed>>
reqVars == <<rpc, rconn, rgen, issued>>
loopVars == <<loop, fresh, attempts>>
hbVars == <<hpc, hconn, misses, stopped, beat>>
state == <<hubVars, connVars, rcVars, owner, reqVars, loopVars, hbVars>>
vars == <<state, overlapped>>

Init ==
    /\ hubUp = TRUE /\ faults = 0
    /\ link = [i \in Conns |-> "none"] /\ dialled = 0 /\ unclosed = {}
    /\ conn = 0 /\ gen = 0
    /\ connected = FALSE /\ reconnecting = FALSE /\ shutdown = FALSE /\ failed = FALSE
    /\ owner = "new"
    /\ rpc = [r \in Requests |-> "idle"] /\ rconn = [r \in Requests |-> 0]
    /\ rgen = [r \in Requests |-> 0] /\ issued = [r \in Requests |-> 0]
    /\ loop = "off" /\ fresh = 0 /\ attempts = 0
    /\ hpc = [g \in Conns |-> "off"] /\ hconn = [g \in Conns |-> 0]
    /\ misses = [g \in Conns |-> 0] /\ stopped = {} /\ beat = 0
    /\ overlapped = FALSE

(***************************************************************************)
(* The hub and the links.                                                  *)
(***************************************************************************)
\* The hub dies: no link of any Conn works.
HubCrash ==
    /\ faults < MaxFaults
    /\ faults' = faults + 1 /\ hubUp' = FALSE
    /\ link' = [i \in Conns |-> IF link[i] = "up" THEN "broken" ELSE link[i]]
    /\ UNCHANGED <<dialled, unclosed, rcVars, owner, reqVars, loopVars, hbVars>>

HubStart ==
    /\ ~hubUp /\ hubUp' = TRUE
    /\ UNCHANGED <<faults, connVars, rcVars, owner, reqVars, loopVars, hbVars>>

\* connMu is free: Connect holds it while it dials.
Unlocked == owner # "dialling"

\* EnsureHubRunning: a new Conn; the hub is started if need be.
Dials ==
    /\ dialled < MaxConns
    /\ dialled' = dialled + 1
    /\ link' = [link EXCEPT ![dialled + 1] = "up"]
    /\ unclosed' = unclosed \cup {dialled + 1}
    /\ hubUp' = TRUE
    /\ UNCHANGED faults

\* Conn.Close, for good.
Closes(S) ==
    /\ unclosed' = unclosed \ S
    /\ link' = [i \in Conns |-> IF i \in S THEN "none" ELSE link[i]]
    /\ UNCHANGED dialled

\* A command on the Conn i, and what it returns: a Conn without a link dials
\* again, unless it was closed; an error drops the link; an answer that is
\* late is an error.
Exchange(i, result) ==
    \/ /\ i \notin unclosed /\ result = "closed"
       /\ UNCHANGED <<link, faults>>
    \/ /\ i \in unclosed /\ link[i] = "none" /\ ~hubUp /\ result = "notfound"
       /\ UNCHANGED <<link, faults>>
    \/ /\ i \in unclosed /\ (link[i] = "up" \/ (link[i] = "none" /\ hubUp)) /\ result = "ok"
       /\ link' = [link EXCEPT ![i] = "up"] /\ UNCHANGED faults
    \/ /\ i \in unclosed /\ link[i] = "broken" /\ result = "lost"
       /\ link' = [link EXCEPT ![i] = "none"] /\ UNCHANGED faults
    \/ /\ i \in unclosed /\ link[i] = "up" /\ result = "lost" /\ faults < MaxFaults
       /\ link' = [link EXCEPT ![i] = "none"] /\ faults' = faults + 1

\* isConnectionError: no socket file is not one.
ConnectionError(result) == result \in {"closed", "lost"}

(***************************************************************************)
(* triggerReconnect: shutdown and reconnectFailed are read, then the loop  *)
(* is started by whoever wins the CAS, whatever they are by then.          *)
(***************************************************************************)
GivenUp == shutdown \/ failed

Trigger ==
    IF ~reconnecting
    THEN /\ reconnecting' = TRUE /\ connected' = FALSE
         /\ loop' = "top" /\ attempts' = 0
         /\ UNCHANGED <<conn, gen, shutdown, failed, fresh>>
    ELSE UNCHANGED <<rcVars, loopVars>>

(***************************************************************************)
(* Requests: WithConn, and the builders.                                   *)
(***************************************************************************)
Issue(r) ==
    /\ rpc[r] = "idle" /\ issued[r] < MaxRequests /\ Unlocked
    /\ ~shutdown /\ ~reconnecting /\ conn # 0
    /\ issued' = [issued EXCEPT ![r] = @ + 1]
    /\ rconn' = [rconn EXCEPT ![r] = conn] /\ rgen' = [rgen EXCEPT ![r] = gen]
    /\ rpc' = [rpc EXCEPT ![r] = "exec"]
    /\ UNCHANGED <<hubVars, connVars, rcVars, owner, loopVars, hbVars>>

Returns(r) ==
    /\ rpc' = [rpc EXCEPT ![r] = "idle"]
    /\ rconn' = [rconn EXCEPT ![r] = 0] /\ rgen' = [rgen EXCEPT ![r] = 0]

Execute(r) ==
    /\ rpc[r] = "exec"
    /\ \E result \in {"ok", "closed", "notfound", "lost"} :
         /\ Exchange(rconn[r], result)
         /\ IF ConnectionError(result) THEN /\ rpc' = [rpc EXCEPT ![r] = "check"]
                                             /\ UNCHANGED <<rconn, rgen>>
                                       ELSE Returns(r)
    /\ UNCHANGED <<hubUp, dialled, unclosed, rcVars, owner, issued, loopVars, hbVars>>

\* triggerReconnectIfCurrent: only for the generation the request was made on.
CheckGeneration(r) ==
    /\ rpc[r] = "check"
    /\ IF rgen[r] = gen THEN rpc' = [rpc EXCEPT ![r] = "trigger"] /\ UNCHANGED <<rconn, rgen>>
                        ELSE Returns(r)
    /\ UNCHANGED <<hubVars, connVars, rcVars, owner, issued, loopVars, hbVars>>

RequestTriggers(r) ==
    /\ rpc[r] = "trigger"
    /\ IF GivenUp THEN Returns(r)
                  ELSE rpc' = [rpc EXCEPT ![r] = "swap"] /\ UNCHANGED <<rconn, rgen>>
    /\ UNCHANGED <<hubVars, connVars, rcVars, owner, issued, loopVars, hbVars>>

RequestSwaps(r) ==
    /\ rpc[r] = "swap"
    /\ Trigger
    /\ Returns(r)
    /\ UNCHANGED <<hubVars, connVars, owner, issued, hbVars>>

Request(r) == Execute(r) \/ CheckGeneration(r) \/ RequestTriggers(r) \/ RequestSwaps(r)

(***************************************************************************)
(* Heartbeats.                                                             *)
(***************************************************************************)
\* Mutant: the heartbeat there is goes on.
StartsAnotherHeartbeat(g) ==
    /\ beat' = g
    /\ hpc' = [hpc EXCEPT ![g] = "wait"]
    /\ UNCHANGED <<hconn, misses, stopped>>

\* startHeartbeat cancels the one there is.
StartsHeartbeat(g) ==
    /\ stopped' = IF beat = 0 THEN stopped ELSE stopped \cup {beat}
    /\ beat' = g
    /\ hpc' = [hpc EXCEPT ![g] = "wait"]
    /\ UNCHANGED <<hconn, misses>>

HeartbeatStops(g) ==
    /\ hpc[g] = "wait" /\ g \in stopped
    /\ hpc' = [hpc EXCEPT ![g] = "ended"] /\ misses' = [misses EXCEPT ![g] = 0]
    /\ UNCHANGED <<hubVars, connVars, rcVars, owner, reqVars, loopVars, hconn, stopped,
                   beat>>

Busy(i) == \E r \in Requests : rpc[r] = "exec" /\ rconn[r] = i

\* A tick: it ends after a shutdown, skips a reconnect, and takes a request in
\* flight for a sign of life.
Tick(g) ==
    /\ hpc[g] = "wait" /\ Unlocked
    /\ CASE shutdown \/ failed ->
              hpc' = [hpc EXCEPT ![g] = "ended"] /\ misses' = [misses EXCEPT ![g] = 0]
              /\ UNCHANGED hconn
         [] ~shutdown /\ ~failed /\ reconnecting -> UNCHANGED <<hpc, hconn, misses>>
         [] ~shutdown /\ ~failed /\ ~reconnecting /\ Busy(conn) ->
              misses' = [misses EXCEPT ![g] = 0] /\ UNCHANGED <<hpc, hconn>>
         [] OTHER ->
              /\ hpc' = [hpc EXCEPT ![g] = "ping"]
              /\ hconn' = [hconn EXCEPT ![g] = conn]
              /\ UNCHANGED misses
    /\ UNCHANGED <<hubVars, connVars, rcVars, owner, reqVars, loopVars, stopped, beat>>

\* The PING.  A failure counts unless a request has come in between and the
\* PING only timed out behind it.
Ping(g) ==
    /\ hpc[g] = "ping"
    /\ \/ /\ Busy(hconn[g])
          /\ misses' = [misses EXCEPT ![g] = 0] /\ hpc' = [hpc EXCEPT ![g] = "wait"]
          /\ UNCHANGED <<link, faults>>
       \/ \E result \in {"ok", "closed", "notfound", "lost"} :
            /\ IF hconn[g] = 0 THEN result = "closed" /\ UNCHANGED <<link, faults>>
                               ELSE Exchange(hconn[g], result)
            /\ IF result = "ok"
               THEN misses' = [misses EXCEPT ![g] = 0] /\ hpc' = [hpc EXCEPT ![g] = "wait"]
               ELSE IF misses[g] + 1 < MaxFailures
               THEN misses' = [misses EXCEPT ![g] = @ + 1] /\ hpc' = [hpc EXCEPT ![g] = "wait"]
               ELSE misses' = [misses EXCEPT ![g] = 0] /\ hpc' = [hpc EXCEPT ![g] = "trigger"]
    /\ hconn' = [hconn EXCEPT ![g] = 0]
    /\ UNCHANGED <<hubUp, dialled, unclosed, rcVars, owner, reqVars, loopVars, stopped,
                   beat>>

\* Mutant: the count of failures is reset before it is compared.
HeartbeatResets(g) ==
    /\ hpc[g] = "trigger"
    /\ hpc' = [hpc EXCEPT ![g] = "wait"]
    /\ UNCHANGED <<hubVars, connVars, rcVars, owner, reqVars, loopVars, hconn, misses,
                   stopped, beat>>

\* No generation is compared here.
HeartbeatTriggers(g) ==
    /\ hpc[g] = "trigger"
    /\ hpc' = [hpc EXCEPT ![g] = IF GivenUp THEN "wait" ELSE "swap"]
    /\ UNCHANGED <<hubVars, connVars, rcVars, owner, reqVars, loopVars, hconn, misses,
                   stopped, beat>>

HeartbeatSwaps(g) ==
    /\ hpc[g] = "swap"
    /\ Trigger
    /\ hpc' = [hpc EXCEPT ![g] = "wait"]
    /\ UNCHANGED <<hubVars, connVars, owner, reqVars, hconn, misses, stopped, beat>>

Heartbeat(g) ==
    HeartbeatStops(g) \/ Tick(g) \/ Ping(g) \/ HeartbeatTriggers(g) \/ HeartbeatSwaps(g)

(***************************************************************************)
(* reconnectLoop.                                                          *)
(***************************************************************************)
LoopEnds == loop' = "off" /\ reconnecting' = FALSE /\ attempts' = 0 /\ fresh' = 0

\* The top of the loop: the old Conn is closed and forgotten.
LoopTop ==
    /\ loop = "top" /\ Unlocked
    /\ IF shutdown
       THEN LoopEnds /\ UNCHANGED <<conn, connVars>>
       ELSE /\ attempts' = attempts + 1
            /\ Closes({conn}) /\ conn' = 0
            /\ loop' = "dial" /\ UNCHANGED <<reconnecting, fresh>>
    /\ UNCHANGED <<hubVars, gen, connected, shutdown, failed, owner, reqVars, hbVars>>

\* The attempt succeeds, or fails: the hub does not come up, or Close has
\* cancelled it.
LoopDial ==
    /\ loop = "dial"
    /\ \/ Dials /\ fresh' = dialled + 1 /\ loop' = "publish"
       \/ loop' = "missed" /\ UNCHANGED <<hubVars, connVars, fresh>>
    /\ UNCHANGED <<rcVars, owner, reqVars, attempts, hbVars>>

\* Mutant: the new Conn is published although Close has been called.
LoopPublishRegardless ==
    /\ loop = "publish" /\ Unlocked
    /\ conn' = fresh /\ gen' = gen + 1 /\ loop' = "mark"
    /\ UNCHANGED <<hubVars, connVars, connected, reconnecting, shutdown, failed, owner,
                   reqVars, fresh, attempts, hbVars>>

\* Under connMu, and only if nobody has called Close.
LoopPublish ==
    /\ loop = "publish" /\ Unlocked
    /\ IF shutdown
       THEN /\ Closes({fresh}) /\ LoopEnds /\ UNCHANGED <<conn, gen>>
       ELSE /\ conn' = fresh /\ gen' = gen + 1 /\ loop' = "mark"
            /\ UNCHANGED <<connVars, reconnecting, fresh, attempts>>
    /\ UNCHANGED <<hubVars, connected, shutdown, failed, owner, reqVars, hbVars>>

\* After connMu: connected is set, OnReconnect is called.
LoopMark ==
    /\ loop = "mark"
    /\ connected' = TRUE /\ failed' = FALSE /\ loop' = "beat"
    /\ UNCHANGED <<hubVars, connVars, conn, gen, reconnecting, shutdown, owner, reqVars,
                   fresh, attempts, hbVars>>

LoopBeat ==
    /\ loop = "beat"
    /\ StartsHeartbeat(fresh)
    /\ LoopEnds
    /\ UNCHANGED <<hubVars, connVars, conn, gen, connected, shutdown, failed, owner, reqVars>>

\* The last attempt has failed, or the loop waits out its backoff, which Close
\* cuts short.
LoopMissed ==
    /\ loop = "missed"
    /\ \/ /\ MaxAttempts > 0 /\ attempts >= MaxAttempts
          /\ failed' = TRUE /\ loop' = "giveup"
          /\ UNCHANGED <<reconnecting, fresh, attempts>>
       \/ /\ ~(MaxAttempts > 0 /\ attempts >= MaxAttempts)
          /\ \/ loop' = "top" /\ UNCHANGED <<reconnecting, fresh, attempts>>
             \/ shutdown /\ LoopEnds
          /\ UNCHANGED failed
    /\ UNCHANGED <<hubVars, connVars, conn, gen, connected, shutdown, owner, reqVars, hbVars>>

\* The heartbeat is cancelled, then OnReconnectFailed called.
LoopGivesUp ==
    /\ loop = "giveup"
    /\ stopped' = IF beat = 0 THEN stopped ELSE stopped \cup {beat}
    /\ beat' = 0 /\ loop' = "failed"
    /\ UNCHANGED <<hubVars, connVars, rcVars, owner, reqVars, fresh, attempts, hpc, hconn,
                   misses>>

LoopReturns ==
    /\ loop = "failed"
    /\ LoopEnds
    /\ UNCHANGED <<hubVars, connVars, conn, gen, connected, shutdown, failed, owner,
                   reqVars, hbVars>>

Loop == \/ LoopTop \/ LoopDial \/ LoopPublish \/ LoopMark \/ LoopBeat
        \/ LoopMissed \/ LoopGivesUp \/ LoopReturns

(***************************************************************************)
(* The owner.                                                              *)
(***************************************************************************)
\* Connect resets reconnectFailed, then takes connMu and keeps it.
Connect ==
    /\ \/ owner = "new"
       \/ owner = "open" /\ failed /\ loop # "giveup"
    /\ failed' = FALSE /\ owner' = "dialling"
    /\ UNCHANGED <<hubVars, connVars, conn, gen, connected, reconnecting, shutdown,
                   reqVars, loopVars, hbVars>>

\* The new Conn replaces the old one, which is closed.
ConnectDials ==
    /\ owner = "dialling"
    /\ \/ /\ dialled < MaxConns
          /\ dialled' = dialled + 1 /\ hubUp' = TRUE
          /\ unclosed' = (unclosed \cup {dialled + 1}) \ {conn}
          /\ link' = [i \in Conns |-> CASE i = dialled + 1 -> "up"
                                        [] i = conn -> "none" [] OTHER -> link[i]]
          /\ conn' = dialled + 1 /\ gen' = gen + 1 /\ connected' = TRUE
          /\ StartsHeartbeat(dialled + 1)
          /\ owner' = "open"
          /\ UNCHANGED faults
       \/ /\ owner' = IF gen = 0 THEN "new" ELSE "open"
          /\ UNCHANGED <<hubVars, connVars, conn, gen, connected, hbVars>>
    /\ UNCHANGED <<reconnecting, shutdown, failed, reqVars, loopVars>>

\* Close: the flag and the channel, the heartbeat, the Conn.
Close ==
    /\ owner = "open"
    /\ shutdown' = TRUE /\ owner' = "unbeat"
    /\ UNCHANGED <<hubVars, connVars, conn, gen, connected, reconnecting, failed, reqVars,
                   loopVars, hbVars>>

CloseHeartbeat ==
    /\ owner = "unbeat"
    /\ stopped' = IF beat = 0 THEN stopped ELSE stopped \cup {beat}
    /\ owner' = "unconn"
    /\ UNCHANGED <<hubVars, connVars, rcVars, reqVars, loopVars, hpc, hconn, misses, beat>>

CloseConn ==
    /\ owner = "unconn"
    /\ connected' = FALSE
    /\ Closes({conn})
    /\ owner' = "closed"
    /\ UNCHANGED <<hubVars, conn, gen, reconnecting, shutdown, failed, reqVars, loopVars,
                   hbVars>>

Step ==
    \/ HubCrash \/ HubStart \/ Loop
    \/ Connect \/ ConnectDials \/ Close \/ CloseHeartbeat \/ CloseConn
    \/ \E r \in Requests : Issue(r) \/ Request(r)
    \/ \E g \in Conns : Heartbeat(g)

\* A trigger that has read the flags before the loop gave up can start it
\* again, and so can a heartbeat that was in the middle of its PING, as soon as
\* Connect has reset reconnectFailed: the loop may then run beside Connect.
Next == /\ Step
        /\ overlapped' = (overlapped \/ (owner = "dialling" /\ loop \notin {"off", "failed"}))

\* Goroutines run on and timers fire; a heartbeat that has been told to stop
\* and ticks at the same time does not choose the tick for ever.  Nothing
\* makes the hub start, a request be issued or the owner act.
Fairness ==
    /\ WF_state(Loop) /\ WF_state(ConnectDials \/ CloseHeartbeat \/ CloseConn)
    /\ \A r \in Requests : WF_state(Request(r))
    /\ \A g \in Conns :
         /\ WF_state(Tick(g)) /\ SF_state(HeartbeatStops(g))
         /\ WF_state(Ping(g) \/ HeartbeatTriggers(g) \/ HeartbeatSwaps(g))

Spec == Init /\ [][Next]_vars /\ Fairness
-----------------------------------------------------------------------------
TypeOK ==
    /\ conn \in 0..MaxConns /\ gen \in 0..MaxConns /\ dialled \in 0..MaxConns
    /\ unclosed \in SUBSET Conns /\ stopped \in SUBSET Conns /\ beat \in 0..MaxConns
    /\ rconn \in [Requests -> 0..MaxConns] /\ hconn \in [Conns -> 0..MaxConns]

Live == {g \in Conns : hpc[g] \in {"wait", "ping", "trigger", "swap"} /\ g \notin stopped}

\* A connection in service has exactly one heartbeat that will go on, whatever
\* reconnects, failures and further Connects it has been through.
OneHeartbeat ==
    /\ Cardinality(Live) <= 1
    /\ owner = "open" /\ conn # 0 /\ loop = "off" /\ ~failed /\ ~overlapped => Live # {}

\* After Close nothing is left: no open Conn, no heartbeat, no loop.
CloseCleansUp ==
    (owner = "closed" /\ ~overlapped)
      ~> /\ unclosed = {} /\ loop = "off"
         /\ \A g \in Conns : hpc[g] \in {"off", "ended"}

\* A lost link is noticed without any request: the connection works again, has
\* given up and said so, or is being closed.
Recovers ==
    (owner = "open" /\ conn # 0 /\ link[conn] = "broken")
      ~> ((conn # 0 /\ link[conn] = "up") \/ failed \/ shutdown)
=============================================================================
