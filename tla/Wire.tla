--------------------------------- MODULE Wire ---------------------------------
(***************************************************************************)
(* Requests and answers on the wire: a client Conn that many goroutines    *)
(* share (src/client/conn.go), the hub's connections at the other end with *)
(* their STATUS tickers (src/hub/connection.go), and the frames between    *)
(* them (src/protocol/parser.go).                                          *)
(*                                                                         *)
(* A frame says nothing of the request it answers.  The client has one     *)
(* request on a link at a time and takes the next frames for its answer,   *)
(* so every frame of an answer has to be read, or the link dropped, before *)
(* the next request.  Here frames carry the request they are about, which  *)
(* only the property looks at.                                             *)
(*                                                                         *)
(* Conn.mu is held from the first step of a request to the last, so the    *)
(* requests are numbered in the order in which their goroutines get it.    *)
(***************************************************************************)
EXTENDS Naturals, Sequences

CONSTANTS MaxRequests, \* requests that are issued
          Closers,     \* goroutines that each call Close or Disconnect
          None,
          Chunks,      \* chunks of a complete chunked answer
          MaxLinks,    \* connections that are dialled
          MaxTicks,    \* times a STATUS ticker fires
          MaxFaults    \* deadlines that pass, connections the hub drops

Links == 1..MaxLinks
Numbers == 1..MaxRequests

\* Ping; execute; executeChunked.
Kinds == {"ping", "plain", "chunked"}

VARIABLES link, dialled, closed,   \* Conn.conn, 0 for nil; Conn.closed
          late,        \* links whose deadline has passed
          req,         \* the current or last request: its number and kind
          step, got,   \* its step or outcome, the frames it has taken
          kpc,         \* per closer: step
          up, down,    \* per link: frames not read yet, each way
          shut,        \* links the client has closed
          hpc, hreq,   \* per link: step of the hub's goroutine, its request
          sent,        \* chunks it has sent
          terminal,    \* Connection.terminalWritten
          ticker, via, \* per request: its STATUS ticker and that one's link
          ticks, faults

connVars == <<link, dialled, closed, late>>
clientVars == <<req, step, got, kpc>>
wireVars == <<up, down, shut>>
hubVars == <<hpc, hreq, sent, terminal>>
tickVars == <<ticker, via>>
vars == <<connVars, clientVars, wireVars, hubVars, tickVars, ticks, faults>>

Init ==
    /\ link = 0 /\ dialled = 0 /\ closed = FALSE /\ late = {}
    /\ req = [n |-> 0, kind |-> "ping"] /\ step = "failed" /\ got = <<>>
    /\ kpc = [k \in Closers |-> "idle"]
    /\ up = [i \in Links |-> <<>>] /\ down = [i \in Links |-> <<>>] /\ shut = {}
    /\ hpc = [i \in Links |-> "none"] /\ hreq = [i \in Links |-> None]
    /\ sent = [i \in Links |-> 0] /\ terminal = [i \in Links |-> FALSE]
    /\ ticker = [n \in Numbers |-> "off"] /\ via = [n \in Numbers |-> 0]
    /\ ticks = 0 /\ faults = 0

Frame(type, n) == [type |-> type, n |-> n]

\* Conn.mu is free.
Unlocked == step \in {"ok", "failed"}

(***************************************************************************)
(* The client: execute, executeChunked, Ping.                              *)
(***************************************************************************)
\* mu is taken, and the link dialled if there is none.
Begin ==
    /\ Unlocked /\ req.n < MaxRequests
    /\ \E k \in Kinds : req' = [n |-> req.n + 1, kind |-> k]
    /\ got' = <<>>
    /\ IF closed
       THEN step' = "failed" /\ UNCHANGED <<link, dialled, hpc>>
       ELSE /\ step' = "send"
            /\ IF link # 0
               THEN UNCHANGED <<link, dialled, hpc>>
               ELSE /\ dialled < MaxLinks
                    /\ dialled' = dialled + 1 /\ link' = dialled + 1
                    /\ hpc' = [hpc EXCEPT ![dialled + 1] = "idle"]
    /\ UNCHANGED <<closed, late, kpc, wireVars, hreq, sent, terminal, tickVars, ticks, faults>>

\* Mutant: an error leaves the link for the next request.
HandleErrorKeepsLink == UNCHANGED <<link, shut, down, late>>

\* handleErrorLocked: the link is dropped, and what is still in it with it.
HandleError ==
    /\ link' = 0 /\ shut' = shut \cup {link}
    /\ down' = [down EXCEPT ![link] = <<>>]
    /\ late' = late \ {link}

\* WriteCommand.
WritesCommand == up' = [up EXCEPT ![link] = Append(@, req)]

\* setDeadlineLocked and the command, which cannot be written once the hub has
\* closed its side.
Send ==
    /\ step = "send"
    /\ IF hpc[link] = "gone"
       THEN step' = "failed" /\ HandleError /\ UNCHANGED up
       ELSE /\ step' = "read" /\ late' = late \ {link}
            /\ WritesCommand
            /\ UNCHANGED <<link, down, shut>>
    /\ UNCHANGED <<dialled, closed, req, got, kpc, hubVars, tickVars, ticks, faults>>

\* The last frame of an answer of each kind.
Finishes(kind, type) ==
    CASE kind = "ping" -> type = "pong"
      [] kind = "plain" -> type = "ok"
      [] kind = "chunked" -> type = "end"

\* ParseResponse: a whole frame.
ParsedResponse == Head(down[link])

\* A frame comes in.  STATUS and CHUNK keep a request going and renew its
\* deadline, but PING knows neither, nor a plain request CHUNK; any frame that
\* does not fit is an error that leaves the link as it is.
Read ==
    /\ step = "read" /\ down[link] # <<>>
    /\ down' = [down EXCEPT ![link] = Tail(@)]
    /\ LET f == ParsedResponse IN
       IF \/ f.type = "status" /\ req.kind # "ping"
          \/ f.type = "chunk" /\ req.kind = "chunked"
       THEN /\ got' = IF f.type = "chunk" THEN Append(got, f) ELSE got
            /\ late' = late \ {link}
            /\ UNCHANGED step
       ELSE /\ IF Finishes(req.kind, f.type)
               THEN step' = "ok" /\ got' = Append(got, f)
               ELSE step' = "failed" /\ got' = <<>>
            /\ UNCHANGED late
    /\ UNCHANGED <<link, dialled, closed, req, kpc, up, shut, hubVars, tickVars, ticks, faults>>

\* The deadline has passed, or the hub has closed its side, maybe in the
\* middle of a frame.
ReadFails ==
    /\ step = "read" /\ down[link] = <<>>
    /\ link \in late \/ hpc[link] = "gone"
    /\ HandleError
    /\ step' = "failed" /\ got' = <<>>
    /\ UNCHANGED <<dialled, closed, req, kpc, up, hubVars, tickVars, ticks, faults>>

DeadlinePasses ==
    /\ link # 0 /\ link \notin late /\ faults < MaxFaults
    /\ late' = late \cup {link} /\ faults' = faults + 1
    /\ UNCHANGED <<link, dialled, closed, clientVars, wireVars, hubVars, tickVars, ticks>>

(***************************************************************************)
(* Close and Disconnect.                                                   *)
(***************************************************************************)
\* interruptActive, without mu.
Interrupt(k) ==
    /\ kpc[k] = "idle"
    /\ late' = late \cup ({link} \ {0})
    /\ \E s \in {"close", "disconnect"} : kpc' = [kpc EXCEPT ![k] = s]
    /\ UNCHANGED <<link, dialled, closed, req, step, got, wireVars, hubVars, tickVars, ticks,
                   faults>>

Close(k) ==
    /\ kpc[k] \in {"close", "disconnect"} /\ Unlocked
    /\ closed' = (closed \/ kpc[k] = "close")
    /\ IF link = 0 THEN UNCHANGED <<link, late, shut, down>> ELSE HandleError
    /\ kpc' = [kpc EXCEPT ![k] = "done"]
    /\ UNCHANGED <<dialled, req, step, got, up, hubVars, tickVars, ticks, faults>>

(***************************************************************************)
(* The hub: Connection.Handle and dispatchWithStatus.                      *)
(***************************************************************************)
\* ParseCommand: a whole frame.
ParsedCommand(i) == Head(up[i])

\* A command is read.  PING is answered at once; the others are dispatched,
\* with a ticker of their own.
HubReads(i) ==
    /\ hpc[i] = "idle" /\ up[i] # <<>>
    /\ LET r == ParsedCommand(i) IN
         /\ up' = [up EXCEPT ![i] = Tail(@)]
         /\ hreq' = [hreq EXCEPT ![i] = r]
         /\ hpc' = [hpc EXCEPT ![i] = "handle"]
         /\ IF r.kind = "ping"
            THEN UNCHANGED <<terminal, tickVars>>
            ELSE /\ terminal' = [terminal EXCEPT ![i] = FALSE]
                 /\ ticker' = [ticker EXCEPT ![r.n] = "waits"]
                 /\ via' = [via EXCEPT ![r.n] = i]
    /\ UNCHANGED <<connVars, clientVars, down, shut, sent, ticks, faults>>

\* A frame is written, unless the client has closed the link.
Writes(i, f) ==
    down' = IF i \in shut THEN down ELSE [down EXCEPT ![i] = Append(@, f)]

HubChunk(i) ==
    /\ hpc[i] = "handle" /\ hreq[i].kind = "chunked" /\ sent[i] < Chunks
    /\ Writes(i, Frame("chunk", hreq[i].n))
    /\ sent' = [sent EXCEPT ![i] = @ + 1]
    /\ UNCHANGED <<connVars, clientVars, up, shut, hpc, hreq, terminal, tickVars, ticks, faults>>

\* The last frame of the answer, or an error at any time.
HubAnswers(i) ==
    /\ hpc[i] = "handle"
    /\ \E type \in {"pong", "ok", "end", "err"} :
         /\ type # "err" => Finishes(hreq[i].kind, type)
         /\ type = "end" => sent[i] = Chunks
         /\ type = "err" => hreq[i].kind # "ping"
         /\ Writes(i, Frame(type, hreq[i].n))
    /\ terminal' = [terminal EXCEPT ![i] = TRUE]
    /\ hpc' = [hpc EXCEPT ![i] = "return"]
    /\ UNCHANGED <<connVars, clientVars, up, shut, hreq, sent, tickVars, ticks, faults>>

\* Dispatch returns, done is closed; nobody waits for the ticker.
HubReturns(i) ==
    /\ hpc[i] = "return"
    /\ hpc' = [hpc EXCEPT ![i] = IF i \in shut THEN "gone" ELSE "idle"]
    /\ hreq' = [hreq EXCEPT ![i] = None] /\ sent' = [sent EXCEPT ![i] = 0]
    /\ UNCHANGED <<connVars, clientVars, wireVars, terminal, tickVars, ticks, faults>>

\* The client has closed the link, or the hub drops it: it stops, or the
\* connection's context is done.
HubCloses(i) ==
    /\ hpc[i] \in {"idle", "handle"}
    /\ \/ i \in shut /\ up[i] = <<>> /\ UNCHANGED faults
       \/ i \notin shut /\ faults < MaxFaults /\ faults' = faults + 1
    /\ hpc' = [hpc EXCEPT ![i] = "gone"] /\ hreq' = [hreq EXCEPT ![i] = None]
    /\ sent' = [sent EXCEPT ![i] = 0]
    /\ UNCHANGED <<connVars, clientVars, wireVars, terminal, tickVars, ticks>>

(***************************************************************************)
(* The STATUS ticker of a request.                                         *)
(***************************************************************************)
Handled(n) == \E i \in Links : hreq[i] # None /\ hreq[i].n = n

TickerFires(n) ==
    /\ ticker[n] = "waits" /\ ticks < MaxTicks
    /\ ticker' = [ticker EXCEPT ![n] = "fires"] /\ ticks' = ticks + 1
    /\ UNCHANGED <<connVars, clientVars, wireVars, hubVars, via, faults>>

\* TryWriteStatus: not after the terminal frame of the request that is being
\* handled, be it another one by now; not while somebody else writes.
TickerWrites(n) ==
    /\ ticker[n] = "fires"
    /\ \/ /\ ~terminal[via[n]] /\ hpc[via[n]] # "gone"
          /\ Writes(via[n], Frame("status", n))
       \/ UNCHANGED down
    /\ ticker' = [ticker EXCEPT ![n] = "waits"]
    /\ UNCHANGED <<connVars, clientVars, up, shut, hubVars, via, ticks, faults>>

TickerEnds(n) ==
    /\ ticker[n] = "waits" /\ ~Handled(n)
    /\ ticker' = [ticker EXCEPT ![n] = "off"] /\ via' = [via EXCEPT ![n] = 0]
    /\ UNCHANGED <<connVars, clientVars, wireVars, hubVars, ticks, faults>>

Next ==
    \/ Begin \/ Send \/ Read \/ ReadFails \/ DeadlinePasses
    \/ \E n \in Numbers : TickerFires(n) \/ TickerWrites(n) \/ TickerEnds(n)
    \/ \E i \in Links : \/ HubReads(i) \/ HubChunk(i) \/ HubAnswers(i)
                        \/ HubReturns(i) \/ HubCloses(i)
    \/ \E k \in Closers : Interrupt(k) \/ Close(k)

Spec == Init /\ [][Next]_vars
-----------------------------------------------------------------------------
TypeOK ==
    /\ link \in 0..MaxLinks /\ dialled \in 0..MaxLinks /\ req.n \in 0..MaxRequests
    /\ late \subseteq Links /\ shut \subseteq Links
    /\ \A i \in Links : /\ sent[i] \in 0..Chunks
                        /\ \A m \in DOMAIN up[i] : up[i][m].n \in Numbers
                        /\ \A m \in DOMAIN down[i] : down[i][m].n \in Numbers
    /\ ticks \in 0..MaxTicks /\ faults \in 0..MaxFaults

\* A request that succeeds has had its own answer and all of it, whatever the
\* requests before it on the same link ran into: late answers, interruptions
\* by Close or Disconnect, hubs that died, STATUS frames of an earlier request.
AnswersMatch ==
    step = "ok" =>
        /\ \A m \in DOMAIN got : got[m].n = req.n
        /\ Len(got) = IF req.kind = "chunked" THEN Chunks + 1 ELSE 1
=============================================================================
