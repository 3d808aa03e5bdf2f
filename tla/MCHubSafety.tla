------------------------------ MODULE MCHubSafety ------------------------------
(***************************************************************************)
(* Five components that share no state, checked side by side: the socket   *)
(* and its files, the tracking file of PIDs, the wire, the output of a     *)
(* process, and the hub process with its sessions.  The initial state      *)
(* settles which of the five runs; the others stay as they are.            *)
(***************************************************************************)
EXTENDS HubSocket, TLC

CONSTANTS Keys, MaxBirths, MaxDaemonCrashes,
          MaxRequests, Closers, Chunks, MaxLinks, MaxTicks, MaxFaults,
          Capacity, MaxPartial, MaxLines, MaxStream, MaxMarkers,
          MaxClients, MaxSessions

\* The limits are numbers, those of the buffers not 0.
ASSUME BoundsAreNumbers ==
    /\ {MaxBirths, MaxDaemonCrashes, MaxRequests, MaxLinks, Chunks, MaxTicks, MaxFaults,
        MaxStream, MaxMarkers, MaxClients, MaxSessions} \subseteq Nat
    /\ {Capacity, MaxPartial, MaxLines} \subseteq Nat \ {0}

VARIABLES part,
          births, state, tpid, kind, parent, group, file, daemon, tdpc, todo,
          tkpc, root, snap, crashes, older, skipped,
          link, dialled, closed, late, req, step, got, kpc, up, down, shut,
          hpc, hreq, sent, terminal, ticker, via, ticks, wfaults,
          buffer, writePos, totalWritten, overflowed, pending, partial, history,
          ended, given, base, log,
          loop, cur, cs, open, hungUp, clients, count, wg, hlistening, shutdown,
          cancelled, spc, patient, visited, must, wanted, sessions, code, nextCode,
          replaced

trackerVars == <<births, state, tpid, kind, parent, group, file, daemon, tdpc, todo,
                 tkpc, root, snap, crashes, older, skipped>>

wireVars == <<link, dialled, closed, late, req, step, got, kpc, up, down, shut, hpc,
              hreq, sent, terminal, ticker, via, ticks, wfaults>>

outputVars == <<buffer, writePos, totalWritten, overflowed, pending, partial, history,
                ended, given, base, log>>

hubProcess == <<loop, cur, cs, open, hungUp, clients, count, wg, hlistening, shutdown,
                cancelled, spc, patient, visited, must, wanted, sessions, code, nextCode,
                replaced>>

Tracker == INSTANCE PidTracker WITH
    pid <- tpid, dpc <- tdpc, kpc <- tkpc, MaxCrashes <- MaxDaemonCrashes

W == INSTANCE Wire WITH faults <- wfaults

Output == INSTANCE OutputCapture

Hub == INSTANCE HubServer WITH Conns <- Clients, listening <- hlistening

Symmetry == Permutations(PIDs) \cup Permutations(Clients) \cup Permutations(Daemons)

Parts == {"socket", "tracker", "wire", "output", "hub"}

MCInit ==
    part \in Parts /\ Init /\ Tracker!Init /\ W!Init /\ Output!Init /\ Hub!Init

MCNext ==
    /\ UNCHANGED part
    /\ \/ /\ part = "socket" /\ Next
          /\ UNCHANGED <<trackerVars, wireVars, outputVars, hubProcess>>
       \/ /\ part = "tracker" /\ Tracker!Next
          /\ UNCHANGED <<vars, wireVars, outputVars, hubProcess>>
       \/ /\ part = "wire" /\ W!Next
          /\ UNCHANGED <<vars, trackerVars, outputVars, hubProcess>>
       \/ /\ part = "output" /\ Output!Next
          /\ UNCHANGED <<vars, trackerVars, wireVars, hubProcess>>
       \/ /\ part = "hub" /\ Hub!Next
          /\ UNCHANGED <<vars, trackerVars, wireVars, outputVars>>

MCSpec == MCInit /\ [][MCNext]_<<part, vars, trackerVars, wireVars, outputVars, hubProcess>>
-----------------------------------------------------------------------------
\* Every variable of the first four has a value of its type; MCHubLiveness looks
\* at those of the hub process.
TypesOK == TypeOK /\ Tracker!TypeOK /\ W!TypeOK /\ Output!TypeOK

\* The daemon and its clients never kill a program outside the hub for a PID
\* in the PID file (processReferencesSocket), nor does CleanupOrphans for one
\* in the tracking file (identityMatches); the cleanup after an exit only one
\* that a walk found below a PID which had changed hands
\* (cleanupReapedProcessGroup).
NoStrangerKilled == ForeignSurvives /\ Tracker!OthersSurvive

\* After the cleanup of orphans none of an earlier daemon runs
\* (CleanupOrphans).
OrphansGone == Tracker!OrphansGone

\* A successful request has had its own answer (execute, executeChunked).
AnswersMatch == W!AnswersMatch

\* No session outlives its connection, but one that a second REGISTER replaced
\* (cleanupSession).
SessionsEnd == Hub!SessionsEnd

\* What a reader gets of a process's output is what the process has written, up
\* to the limits, and says so where the limits have cut it (RingBuffer,
\* lineWriter, Entry.OutputLines).
OutputIsKept == Output!OutputIsKept
=============================================================================
