# TLA+ models of go-cli-server

Formal models of `github.com/standardbeagle/go-cli-server`: a hub daemon that
runs and supervises processes for its clients over a socket, routes commands to
external subprocesses, and delivers scheduled tasks. The modules are translated
from the Go code in `src/`; `PROJECT.json` names, for every definition, the lines
it models.

    tlc -workers 2 -config ProcessManagerCore.cfg MCProcessManager.tla
    tlapm ProcessManagerProofs.tla

## Inventory

| Component | Source | State | Operations | Hard behaviour |
|---|---|---|---|---|
| Process manager | `process/manager.go`, `lifecycle.go`, `process.go`, `lifecycle_unix.go` | registry (sync.Map by id and path), per process an atomic state, `done` channel, `cmd`; `wg`, `shuttingDown`, `shutdownOnce`, counters | Start, StartCommand, StartOrReuse, RunSync, Restart, Stop, StopProcess, StopAll, StopByProjectPath, Shutdown, health check, the waiter of each child | lock-free state machine raced by callers, waiter and health loop; a `WaitGroup` ticket that changes owner; unregister and untrack by key |
| Output capture | `process/ringbuf.go`, `linewriter.go` | ring buffer, partial line | Write, Snapshot, Truncated | wrap-around, writes longer than the buffer |
| PID tracker | `process/pidtracker.go`, `pidtracker_unix.go` | PID file | Add, Remove, UpdateDescendants, descendant scan, CleanupOrphans | daemon crashes between any two steps; PIDs and group IDs used again |
| Port lookup | `process/portlookup*.go` | none | find and kill by port | operating system tables |
| Scheduler | `scheduler/scheduler.go`, `state.go` | tasks (sync.Map), per-task mutex, next ID, state file | Schedule, Cancel, Start, Stop, tick, delivery and retry, load and save | stale snapshots written after a lock is released; crashes; overlapping deliveries |
| Subprocess router | `hub/router.go`, `subprocess_handler.go` | per subprocess: state, `stopped`, `restarting`, lifecycle context, connection, `wg`, restart count; the route table | Register, Unregister, Start, Stop, StartAll, StopAll, Route, health check, automatic restart | a detached restart against Stop, Start and Unregister |
| Command registry | `hub/registry.go` | verbs and handlers | Register, Dispatch | none: a static table after start-up |
| Hub | `hub/hub.go` | listener, connections, sessions, wait group | Start, accept, Stop, session cleanup | accept against Stop; sessions sharing a project path |
| Connection | `hub/connection.go` | one client, writer, status ticker | read, dispatch, Close | answers and status frames interleaved |
| Handlers | `hub/handlers.go`, `script_handlers.go` | none of their own | PROC, RUN, SESSION, SCRIPT verbs | calls into the managers |
| Script registry | `script/registry.go` | entries, output ring, state history | Register, SetState, Append, Remove | bounded history under concurrent writers |
| Protocol | `protocol/*.go` | parser position | commands, responses, chunks | framing of data that may contain the terminator |
| Client connection | `client/conn.go` | link, deadline, closed flag | Ping, execute, executeChunked, Close, Disconnect | an answer left unread is taken for the next one |
| AutoStart | `client/autostart*.go`, `startup_lock_unix.go` | startup lock | connect, or lock, clean up, spawn and wait | several clients starting one hub |
| ResilientConn | `client/resilient.go` | connection and generation, four flags, heartbeat | Connect, request, heartbeat, reconnect, Close | Close inside a reconnect; heartbeats replaced under way |
| SubprocessServer | `client/subprocess.go` | listener, shutdown channel and WaitGroup per epoch | Start, Stop, Wait, serve | goroutines of one epoch meeting the next |
| Socket manager | `socket/*.go` | socket file, pid file | Listen, Close, stale check, zombie cleanup | check, remove and bind are separate steps |
| Version, programs, examples, Windows | `client/version.go`, `cmd/`, `examples/`, `*_windows.go` | none | | none, or the control of the Unix files |

The parts meet as follows. A client's `conn` talks the line protocol to the
hub's `Connection`, which dispatches a verb through the registry to a handler;
handlers call the process manager, the script registry, the scheduler or the
subprocess router. The process manager calls the PID tracker at both ends of a
process's life. The hub's `Stop` shuts the router, the scheduler and the process
manager down. `AutoStart` and the socket manager decide which daemon owns the
socket.

What makes each part correct, in one line:

- process manager: a process object moves through its states once, its end is
  announced once and only when it is over, a shutdown leaves nothing behind, and
  the registry and the PID file name what runs;
- scheduler: an accepted job is delivered, cancelled or exhausted, it is never
  lost by a crash, and never delivered twice at the same time;
- subprocess router: at most one instance runs, and Stop and Unregister win over a
  restart in flight;
- PID tracker: no recorded orphan survives the cleanup, and the cleanup kills no
  program outside the hub for having the number of one;
- socket manager and AutoStart: a hub that is up stays reachable until it stops or
  dies, and what dead hubs leave behind does not keep the next one from starting, unless
  the kernel gives it the very PID of the dead one;
- wire: an answer belongs to its request and is complete;
- output capture: a reader gets the end of what was written, and is told if more is lost;
- hub: Stop returns, and a session ends with its connection;
- ResilientConn: a lost link is recovered or reported, one heartbeat watches the
  connection, Close leaves nothing behind;
- SubprocessServer: a stopped epoch has neither goroutine nor connection.

The hazards, each at its line and with the property that covers it, are in
`PROJECT.json`.

## Modules

| Module | What it is |
|---|---|
| `ProcessManager` | the process manager: registry, objects, all start, stop and shutdown calls, waiters, health check |
| `ProcessLife` | what it promises: the life cycle of an object, seen from outside |
| `MCProcessManager` | instances for TLC |
| `MCManagers` | the process manager and the scheduler side by side, with fairness |
| `ProcessManagerProofs` | its inductive invariant, the theorems about its properties, and the proof that it implements `ProcessLife` |
| `Scheduler`, `MCScheduler` | the scheduler with its state file, crashes and restarts |
| `JobQueue` | what it promises: a durable queue that delivers a job one at a time |
| `SchedulerProofs` | its inductive invariant and theorems, and the proof that it implements `JobQueue` |
| `ManagedSubprocess`, `MCManagedSubprocess` | one subprocess of the router: start, stop, unregister, health loop, monitor, automatic restart |
| `ManagedSubprocessProofs` | its inductive invariant and theorems, with one starting user |
| `HubSocket` | socket file, PID file and startup lock between daemons (`socket_unix.go`, `cmd/hub`) and clients that start them (`autostart.go`) |
| `PidTracker` | the tracking file across daemon crashes and PID reuse, with the steps of a process that use it |
| `Wire` | requests on a shared client connection, the hub's dispatch and STATUS tickers, links that fail |
| `OutputCapture` | one output stream of a process: ring buffer, lines, and the history of lines of its script |
| `MCHubSafety` | these four and `HubServer` side by side |
| `PidTrackerProofs`, `WireProofs` | the inductive invariants and theorems of two of them |
| `HubSafetyProofs` | those of `HubSocket` and `OutputCapture`, and the theorems of the four for the composition |
| `HubServer` | the hub process: accept loop, connections, sessions, Stop |
| `ResilientConn` | the reconnecting client |
| `SubprocessServer` | the server side of a subprocess, epoch by epoch |
| `MCHubLiveness` | these three side by side, with fairness |
| `SubprocessServerProofs` | the inductive invariant and theorems of the last |
| `HubLivenessProofs` | those of the first two, and all three's theorems for the composition |

### ProcessManager

A `Proc` is one `*ManagedProcess`, a `Caller` one goroutine that makes one public
call. One action is one atomic operation of the code: an atomic load, store or
compare-and-swap, one `sync.Map` operation, one critical section of `startMu`, one
ready case of a `select`. `pc` says where the call is; `stop[c][p]` where c's
`StopProcess` or `forceKill` of p is, since StopAll runs several at once. The
waiter goroutine of a process (`waitForProcess`) is `waiter[p]`, the child behind
`cmd` is `child[p]`, `wg` counts the tickets of `pm.wg`.

| Code | Actions |
|---|---|
| `Start` | BeginStart, TakeTicket, CasStarting, RegisterCheck, RegisterStore, Spawn or SpawnFails, Track, LaunchWaiter, ReleaseTicket |
| `failStart` | FailState, FailUnregister, FailClose |
| `waitForProcess` | WaitReturns, WaitFails, Untrack, CloseDone, WaiterExits |
| `StopProcess`, `forceKill` | StopRead, StopCas, StopSignal, StopGrace, StopAwait, ForceKill |
| `StartOrReuse`, `Restart`, `RunSync` | Lookup, ReadOld, WaitOld, RemoveOld, ... then Start |
| `StopAll`, `StopByProjectPath` | a stop per object collected, then removal |
| `Shutdown` | the once, the flag, StopAll's work, the wait for `wg` or the deadline, ForceKillAll |
| health check | HealthRead, HealthAct, HealthExits |

Merged into one step: the loops that collect objects and launch a stop for each;
a re-read of the state after a CAS that failed; the kill and the store of
`forceKill`. Left out: the script registry's copy of the state (not installed),
the statistics `activeCount` and `totalStarted`, the public `Remove`, descendants of
a child, standard input. A run timeout kills the child and appears as its exit. The
health check of a Starting object (`checkStartingProcess`) wants its start time to be
30 seconds old; `Start` stores that time two statements before Running, within the same
critical section, so the step is left out.

### Scheduler

One `*Task` is an object `<<start, id>>`, named by the scheduler start that precedes
its creation, so that the object restored from the file and the one that an old
delivery still holds are different ones with one ID. `file` is the state file and
all that a crash leaves. Actions are the critical sections of `task.mu`, the state
manager's mutex and the scheduler's mutex, and the outcome of `DeliverFunc`. The
snapshot that `persistTask` takes under `task.mu` and writes after releasing it is
`snap`. Left out: several projects and their scan, disk errors, delays and back-off
(a pending task may be due at any time), validation, totals, read-only calls. The
end of the parent context is `StopBegin`. Start and Stop are called by one goroutine
and nothing is scheduled before the first Start.

`JobQueue` is the view of whoever hands in a job. `Given`, `Accepted`, `Stored` and `Deliveries` are
the refinement mapping: a job is accepted when its `Schedule` has returned, stored when an entry of the
file is its own, and under delivery from the dispatch to the end of `deliverTask`. An entry that is
over may be stored again (finding 3), one that is not over may never be forgotten.

### ManagedSubprocess

Each install of a context by `newLifecycle` is a new `life`; connections with their
child and monitor, and health loops, are numbered as they come. `pc[Restarter]` is
the detached goroutine of `doRestart`; that it is not `"none"` is `sp.restarting`.
`watch` holds the health loops and the child monitors, the goroutines that `sp.wg`
counts. A load, and the store that depends on it, are separate actions: the check of
`stopped` in `startCore` and its store of Stopped, the limit check in
`triggerAutoRestart` and its store of Failed, the end of `wg.Wait` and the stamp in
`stop`. The health loop waits on the context it read when it entered its select
(`held`), and so does `doRestart` (`seen`). The transport is stdio. Left out: how many
failed PINGs make the threshold (any number may), back-off durations, routing,
StartAll and StopAll, AutoRestart or the health check switched off, a limit of 0.

### HubSocket

A step is one system call on the socket file, the PID file, the startup lock file or the table of
processes; nothing locks them together. Each daemon binds at most once, so `path` names the daemon whose
socket is bound there; a PID is handed out by the kernel and may be used again by a later daemon or by a
`foreign` program. Reading a PID's command line, dialling and sending SIGTERM are one step (`Probe`,
`ZombieTerm`), since the PID was read earlier. SIGTERM kills a daemon that is still starting, stops one
that serves, and is ignored by one that a signal has stopped before; after SHUTDOWN a hub has closed its
files but its process still waits for a signal (`lingers`). `Chmod` may fail, and `Unbind` then unlinks
whatever socket the path names; an error of the disk in writing the PID file is left out. `cmd.Start` may
fail (`SpawnFails`). The startup lock is an inode: `lockPath` is the inode the file names, `fd` the one
each client has open. `settled` and `alone` are history: hubs that came up with nobody in the way, and
daemons that no other daemon or cleaning client disturbs and whose own PID is not the one in the stale
PID file.

### PidTracker

A process is named by its birth, which stands for the start time and owner that
`processIdentity` reads; `pid` maps it to a number that is free again once the process
is reaped and no group of that ID is left. The tracker's mutex makes each operation a
step on `file`; `CleanupOrphans`, which kills between load and save, is `CleanupLoads`,
one `CleanupKills` per entry, and `CleanupSaves`, and the daemon may crash in between. `kpc`
says where a process of the hub is between spawn, Add, `cmd.Wait` and Remove. `StopSignals` is
what `StopProcess` and `forceKill` signal, by number, as long as the waiter has not removed the
entry; it may come after the reap, when the numbers name others. (A `forceKill` that is
late even for Remove signals the same numbers; it is left out.) Programs
outside the hub start at any time, one below another. Only `CleanupOrphans` of this
repository is modelled as called at start-up, as its comment demands; in `src/` itself
only tests call it. Left out: descendants of descendants (a walk finds them all at
once), platforms without `/proc`, where an identity is empty and every PID matches.

### Wire

The mutex of `Conn` is held for a whole request, so there is one request at a time, numbered
in order; `req`, `step`, `got` are its kind, its step and the frames it has taken. A
link is one connection: `up` and `down` its unread frames. Frames carry the number of
the request they answer, for the property only. The hub reads, dispatches and answers
on the link's goroutine; each dispatched request has a STATUS ticker of its own that
is not waited for (`ticker`), so that a STATUS frame may come after the answer, and into
the next request. `late` is the deadline: passed by time or by `interruptActive`, renewed by
each frame that keeps a request going.

### HubServer, ResilientConn, SubprocessServer

In `HubServer`, `cs` is where a connection is, from the listener's backlog through
`Connection.Handle` to its deferred cleanup, and `spc` where the Stop is that won the CAS.
`Range` over the `sync.Map` sees what was in the map all along (`must`) and may see what is
stored meanwhile. `replaced` is history: the sessions that a further REGISTER of their
connection has replaced. The process manager and the router are calls that return.

In `ResilientConn`, a `Conn` is a number; `link` says whether it is connected, broken
without anybody having noticed, or closed. Requests (`rpc`), heartbeats (`hpc`, named by
the Conn for which they were started), the reconnect loop and the owner run freely
except where `connMu` is held over a dial. A plain `Conn` dials again by itself when a
command finds it without a link (`Exchange`). `triggerReconnect` reads the flags in one step and
takes `reconnecting` by CAS in another (`RequestSwaps`, `HeartbeatSwaps`), so that a caller who read them
before the loop gave up may start another loop after OnReconnectFailed.

In `SubprocessServer`, an epoch is what one `Start` makes: listener, shutdown channel,
WaitGroup. A connection's goroutine looks at the channel of the epoch that is current
when it first runs (`sees`), not of the one whose loop accepted it (`cepoch`). The Range of `Stop`
over the connections is one step here (`CloseConns`): the run has one connection, and a connection
stored while it walks is as good as one stored before or after.

### OutputCapture

A byte is its place in the stream or a newline, so that a byte that is lost, doubled or
moved shows. `Write` is one call of the line writer up to the end of the ring buffer's critical
section (`RingWrite`); then the goroutine that copies the stream cuts what is `pending` into lines,
one delivery a step (`CutLine`), keeps or delivers the rest (`KeepPartial`), and delivers the line in
progress when the stream is over (`Flush`). Between these steps others may reset the ring
(`Reset`) or mark a restart in the history (`AddRestartMarker`). The callback appends to the
script's history, as the integration test `script_integration_test.go` wires it. `given` and `log`
remember everything written and appended, `log` with how many bytes of the stream are in the lines
so far; `OutputIsKept` compares what readers get (`Snapshot`, `OutputLines`, the overflow
flag) with the plain definition, the last so many of them, and the lines with the stream.
Left out: the two readers of a single counter (`Len`, `Truncated` apart from its flag), and the
width of `int`, since the positions are reduced in 64 bits.

### Side by side

`MCHubSafety` holds five components that share no state, `MCHubLiveness` three, `MCManagers`
two. Their initial states settle, by `part`, which of them runs; the others do not move.
The state count of such a run is the sum of its parts, not the product, and a
property of one component holds trivially in the behaviours of the others.

## What the runs show

| Run | Instance | States | Question and answer |
|---|---|---|---|
| `pm_core` | 3 callers of Start, Stop or Shutdown, 2 objects under one key, health loop | 563 377 | tickets of `wg`, registry, PID entries, state machine, refinement of `ProcessLife`: all hold |
| `pm_calls` | StartOrReuse against Restart or StopAll against RunSync, StopByPath or Shutdown; the first and third context may be cancelled | 973 595 | `done` closed once and only when over, a clean Shutdown has drained everything: hold |
| `managers_live` | StartOrReuse or Stop, Start, Stop or Shutdown, no context ever cancelled; or 1 job, 1 cancellation, 2 deliveries, 2 starts per process, crashes | 85 540 | every stop ends, Shutdown and all other calls return; no two deliveries of a job at once, Stop drains, every job resolves: hold |
| `pm_idempotent` | 3 callers of StartOrReuse, one key | | two Running processes under one key: the code violates its comment |
| `pm_stale_waiter` | 2 callers of StartOrReuse, one key | | a Running process missing from the PID file |
| `sched_jobs` | 2 jobs, 1 cancellation, 2 deliveries, crashes at any point | 1 361 470 | no accepted job is lost, attempts within MaxRetries, a final status stays, refinement of `JobQueue`: hold |
| `sched_cancel` | 1 job, 1 cancellation | | a cancelled task is written back to the file |
| `sub_restart` | 1 starter, 1 stop or unregister, limit 1, crashes and failing PINGs | 153 084 | one child, no leaked connection, Unregister final, a settled Stop leaves nothing, Stopping ends, a restart resolves: hold |
| `sub_stop` | 1 starter, 1 stop, limit 1 | | a subprocess stopped by the user is resurrected |
| `hub_safety` | see below | 946 207 | a settled hub is found; a lone daemon starts, unless it has the stale file's PID; recorded orphans are gone; no cleanup kills a program outside the hub, but for what a walk found below a reused PID; answers match; readers get the end of the output; sessions end with their connection: hold |
| `pid_stranger` | 1 key, 3 PIDs, 4 births, no crash | | the cleanup after an exit kills a child of a program that got the PID of the process |
| `hub_liveness` | see below | 155 019 | Stop returns, stopped epochs are quiet, one heartbeat, Close cleans up, a lost link recovers: hold |

### Bounds, and why they are enough

- Process manager: the hazards need two objects under one key (a predecessor and a
  successor) and at most three calls (start, stop or replace, shutdown). A third
  object is needed only in `pm_idempotent`. One key: keys meet only in StopAll and
  Shutdown, which treat each object alone; that one ID in two project paths makes
  `Get` ambiguous is in the model and not exercised. Each caller makes one call.
- Scheduler: two jobs for colliding IDs; two delivery goroutines are the most that
  can meet at one job; one restart within a process and any number of crashes;
  `MaxRetries` 2 lets a failure be retried once and then exhausted.
- Subprocess: a start, a restart and one call against both; `MaxLives` 2 is as many lives as
  that can make, and a life too few would show as a deadlock. The invariants were also
  checked with a limit of 2 and four lives, in which a failed restart repeats itself
  (914 885 states), with a limit of 3 and six lives (2 263 337), and with a third user who
  stops or unregisters (5 040 307); liveness at those sizes takes too long for a routine run.
- Socket (`hub_safety`): two clients and two daemons, the least for every race between
  starting, cleaning and serving; three PIDs so that one daemon may get another's; one
  crash, one stop, one foreign program, one further call of Connect.
- Sessions (`hub_safety`): two clients, one admitted at a time, two sessions, so that a connection
  may register twice.
- Tracking file (`hub_safety`): one key, since operations on different keys meet only in
  the file that each rewrites whole; five births give a daemon, its process, a child, a
  second daemon and a stranger that gets a used PID; two crashes, so that a cleanup is
  itself interrupted.
- Wire (`hub_safety`): two requests of any kinds, two links, one STATUS tick, one closer, one
  fault: the earlier request, what it leaves, and the later one that must not take it. `AnswersMatch`
  was also checked with three requests and two ticks (1 715 629 states).
- Output (`hub_safety`): six bytes in writes of every size over a ring of three, so that the
  ring fills, wraps and is overrun by one write; lines limited to three bytes, two lines of
  history, one restart marker, a Reset between any two of these.
- Hub (`hub_liveness`): two clients, one admitted at a time (`MaxClients` 1), one session, since
  Stop and its liveness do not look at sessions.
- ResilientConn (`hub_liveness`): three Conns (first, reconnected, reconnected again or by a
  second Connect), two attempts before giving up, two missed heartbeats.
- SubprocessServer (`hub_liveness`): two epochs, three callers, one connection, one command,
  one fault.

Symmetry is used in `pm_core` (objects and callers), `pm_calls` (objects),
`sched_jobs` (jobs, deliveries) and `hub_safety` (clients, daemons, PIDs); none of them
checks liveness.

### Fairness

The Go scheduler runs every goroutine that can run, timers fire, and SIGKILL
works: weak fairness of the steps of each call, each waiter and each killed child.
Where a goroutine selects among channels that are ready again and again, Go chooses
at random: strong fairness of the exit of the health loops against their tickers.
Nothing makes a child exit by itself, a context end, or a user make a call; that is
why `CallsReturn` leaves RunSync out, which waits for the child, and why `ShutdownReturns`
is conditional on every Running object being registered. Nobody promises to start
the scheduler or that it survives: `TasksResolve` speaks of behaviours in which a
scheduler is up for good from some moment on.

In `hub_liveness` goroutines run on, commands and handlers end, timers fire, and a read or an
Accept on something that is closed returns. Nothing makes a client send or hang up, a
listener fail, a hub come up, or an application call. A heartbeat that has been
told to stop and ticks at the same moment chooses at random (strong fairness of
`HeartbeatStops`). `StopsReturn` is about a Stop whose context has no end: SHUTDOWN, a broken
listener, a failed registration; the ten seconds of the signal handler end by themselves.

### Where the code does not do what its text says

1. `pm_idempotent`: `failStart` removes from the registry by key, whatever the key
   holds by then, so concurrent StartOrReuse calls may run two processes
   (`lifecycle.go:172`).
2. `pm_stale_waiter`: a waiter untracks by key after its object is final, and may
   remove its successor's PID entry (`lifecycle.go:297`).
3. `sched_cancel`: `persistTask` writes its snapshot after releasing `task.mu`
   (`scheduler.go:361`).
4. `sub_stop`: `stop` of a Failed subprocess returns nil without setting `stopped`,
   although a restart is in flight (`router.go:1015`).
5. `pid_stranger`: between `cmd.Wait` and Remove the scan walks below whoever has the PID by
   then, and the cleanup after the exit kills what it found as verified descendants
   (`pidtracker.go:455`), against the comment at `lifecycle_unix.go:135`.

The runs of `ManagedSubprocess` have one starting user. Two starting users reach
three more behaviours that its properties would reject: a start of a Failed
subprocess beside a restart gives two health loops and a connection that nobody
closes. And even with one, the health loop that `start` launches after its store of
Running may outlive a restart that came in between, if `RestartWait` passes in that
gap; `OneInstance` is therefore about children, not about loops. A child that crashes
after a restart has connected it, and before `restarting` is reset, loses its
trigger and stays Failed; no property of the runs claims otherwise. With a limit of 2 or
more that same late loop may restart the subprocess once more than the limit:
`triggerAutoRestart` reads the count before it claims the restart, and the loop may do the
first before one restart counts and the second after it has ended (`router.go:1158-1174`;
`commands.go:113` says "MaxRestarts limits restart attempts"). No run has that as a
finding, since the limit of 1 does not reach it.

The modules of the hub and its clients reach more, which their properties leave out
explicitly, by a condition, a history variable or the instance:

- two clients may start two hubs, one after the other has removed the lock file; with
  three clients even the startup lock is not exclusive, because `releaseStartupLock`
  unlinks a file that another client has open (`autostart.go:236-247`);
- the client that loses the startup lock fails: `acquireStartupLock` returns a new error
  (`autostart.go:215`) that `errors.Is` in `startHub` does not recognise, against the comment at
  `autostart.go:109`;
- a starting daemon whose own PID is in the stale PID file, and whose command line names the
  socket, sends SIGTERM to itself (`socket_unix.go:351`) and so ends in `Probe`: the file of a
  crashed hub then does keep a daemon from starting that nobody disturbs. `LoneStartNeverFails` leaves
  such a daemon out of `alone` by its PID, and says that every other one neither fails nor ends in
  Listen;
- a Listen whose chmod fails unlinks the socket at the path, which may be another daemon's by then;
- a hub that was stopped by SHUTDOWN removes its files and goes on as a process;
- `CleanupOrphans` does nothing when the new daemon has the PID of the old one
  (`pidtracker.go:259`; `skipped`);
- finding 5 is excepted from `OthersSurvive` by `FoundBelowStranger`, which holds of what a scan or a
  snapshot found below a PID that had changed hands;
- the signals of a stop go by number (`lifecycle.go:400`, `lifecycle.go:437`,
  `lifecycle_unix.go:38`): `signalProcessGroup` takes the identities it compares just before the kill, so
  a stop that began before the exit and signals after the reap may hit a program that has the number
  by then. `StopSignals` does so in the model, and `OthersSurvive` does not speak of it;
- a second REGISTER on a connection leaves the first session in the map for good (`replaced`);
- a stop between start's last check and its store of Running is overwritten: nothing of the subprocess
  is left (`StoppedIsGone`), but its state may say Running from then on;
- a waiter whose CAS from Stopping has failed stores Failed although a stop has begun since
  (`lifecycle.go:267-284`); `StopIsNoFailure` allows that window and no other;
- a reconnect sets `connected` after `connMu` is released, so that `IsConnected` may be true after
  Close; a Connect during a reconnect leaks a `Conn` (`overlapped`); a heartbeat's PING on a Conn
  without a link dials silently, and OnReconnect is not called;
- a Start of a subprocess's server that fails leaves its new shutdown channel open, and Wait
  then blocks for ever;
- `execute` used on a verb that answers in chunks returns the first chunk and leaves the other
  frames for the next request; the requests of `Wire` use the builder that fits their verb.

`RunningIsRegistered` and `RunningIsTracked` are checked, and proved, where only some calls
occur: StopAll removes an object that was starting when it looked, and findings 1 and 2
break them for StartOrReuse.

## What is proved

The theorems of a component are in its own module, or in that of the composition it belongs to;
`tlapm` checks them without any step left open. The models' constants are arbitrary: any sets of
goroutines, processes and keys, any limits. The assumptions are the `ASSUME`s of the component's
module (finite sets where something is counted, that the nil value is none of the values, that the kinds
of goroutines are disjoint, that limits are numbers) and the hypotheses named below. `RECURSIVE` is
used nowhere. Every inductive invariant was checked by TLC on a small instance before it was
proved; the states are given. Every safety invariant and action property that a passing run checks
is the statement of a theorem.

| Theorem | Hypothesis | States |
|---|---|---|
| **ProcessManagerProofs** | | |
| `Inductive`, `Typed` | | the invariant; `TypeOK` |
| `ClosedOnce` | | `DoneClosedOnce`: no `done` channel is closed twice |
| `WokenAfterTheEnd` | | `DoneMeansOver` |
| `FinalForGood` | | `TerminalIsFinal`: no step leaves a final state (no run of its own: `ImplementsLife` says so too) |
| `StopsAreNotFailures` | | `StopIsNoFailure` |
| `FailuresCounted` | | `FailedCountExact`: the counter is the number of failed objects (no run of its own: `ImplementsLife` counts failures too) |
| `TicketsBalance` | | `WgAccounting` |
| `ShutdownLeavesNothing` | | `ShutdownDrains` |
| `RunningRegistered` | `KeepsKeys`: calls are Start, RunSync, Stop, Shutdown | `RunningIsRegistered` |
| `RunningTracked` | `PlainCalls`: calls are Start, Stop, Shutdown | `RunningIsTracked` |
| `LifeIsImplemented` | | `ImplementsLife`: every step is a step of `ProcessLife` or stutters |
| **SchedulerProofs** | | |
| `Inductive`, `Typed` | | the invariant; `TypeOK` |
| `DrainsAtStop` | | `StopDrains` |
| `DeliversAlone` | | `NoConcurrentDelivery` |
| `LosesNothing` | | `NothingLost` |
| `StatusStands` | | `StatusIsFinal` |
| `QueueIsImplemented` | | `ImplementsQueue`: every step is a step of `JobQueue` or stutters |
| `QueueIsReliable` | | `QueueKeeps` of that queue: accepted jobs are stored or over, one delivery of a job at a time |
| **ManagedSubprocessProofs** | | |
| `Inductive`, `Typed` | `OneStarter`: one user at most may start it | the invariant; `TypeOK` |
| `OneLives` | `OneStarter` | `OneInstance` |
| `NothingLeaks` | `OneStarter` | `NoLeakedConn` |
| **PidTrackerProofs** | | |
| `Inductive`, `Typed` | `Bounds`: the limits are numbers | the invariant; `TypeOK` |
| `OrphansAreGone` | `Bounds` | `OrphansGone` |
| `OthersAreSpared` | `Bounds` | `OthersSurvive`, the other half of `NoStrangerKilled`: of the cleanups, not of a stop's signals |
| **WireProofs** | | |
| `Inductive`, `Typed` | `Bounds`: the limits are numbers | the invariant; `TypeOK` |
| `AnswersAreOwn` | `Bounds` | `AnswersMatch` |
| **HubSafetyProofs** | | of `HubSocket` alone: |
| `Inductive`, `Typed` | | the invariant; `TypeOK` |
| `HubIsFound` | | `SettledHubIsFound` |
| `StrangersSurvive` | | `ForeignSurvives`, one half of `NoStrangerKilled` |
| `LoneStartSucceeds` | | `LoneStartNeverFails`, for daemons whose PID is not the stale file's |
| | | of the specification that `hub_safety` checks: |
| `HubIsFoundBeside`, `LoneStartSucceedsBeside` | | `SettledHubIsFound`, `LoneStartNeverFails` |
| `OrphansAreGoneBeside`, `AnswersAreOwnBeside` | | `OrphansGone`, `AnswersMatch` |
| `NoStrangerIsKilled` | | `NoStrangerKilled`, both halves |
| `OutputIsKeptWhole` | | `OutputIsKept`: ring, lines and history |
| `PartsTyped` | | `TypesOK`, of the first four |
| **SubprocessServerProofs** | | |
| `Inductive`, `Typed` | `Constants`: the calls are those there are, the limits numbers | the invariant; `TypeOK` |
| `StopLeavesQuiet` | `Constants` | `StoppedIsQuiet` |
| **HubLivenessProofs** | | of the specification that `hub_liveness` checks: |
| `PartsInductive`, `PartsTyped` | | the invariants of the three; `TypesOK` |
| `EndedHasNoSession` | | `Hub!SessionsEnd`, which `hub_safety` checks with two sessions |
| `HubStopLeavesNothing` | | `HubQuiet`: a Stop that has waited leaves no connection, goroutine or map entry (no run of its own) |
| `ServerStopLeavesQuiet` | | `StoppedIsQuiet` |
| `HeartbeatIsOne` | | `OneHeartbeat` |

`Bounds` and `Constants` are hypotheses and no `ASSUME`s, because no run extends those modules: the
compositions instantiate them, and assume of their own constants what is needed to discharge the
hypothesis. A step of a composition is a step of one part and leaves the others alone, so its
behaviours are behaviours of each part, which carries the theorems over. `KeepsKeys`, `PlainCalls`
and `OneStarter` are no technicalities: without them the property is false, as findings 1 and 2
and the list above show.

### Process manager

None of the safety properties is inductive as it stands: that `CloseDone` finds an
open channel depends on who may still close it. `IInv` adds to the types

- `CallInv`: which operation a program point belongs to;
- `OwnInv`: an object has at most one Start between CAS and hand-over, and what
  its state, child and waiter are at each of that Start's program points;
- `ObjInv`: how state, child, waiter and `done` of one object go together, whatever
  the stops do;
- `StopInv`: what a stop in progress knows of its object.

Each is preserved by every action, one lemma per group of actions (`LifeStart`,
`LifeCall`, `LifeStop`, `LifeRest`); `Quiet` deals with those that touch no object.
The two counters need finite sets: `TicketStep` says how each step changes the sets of
ticket holders by at most one element each, and `WgStep` turns that into arithmetic;
`FailStep` does the same for failures. `DownInv`, on top of `IInv` and `WgAccounting`,
says that once Shutdown has seen a zero counter nothing can take a ticket that leads
to a spawn; `ShutdownDrains` follows.

For the two registry properties, `OpInv` says what each call may be doing, `KeyInv` that
an object between its claim of the key and its end holds that key in the registry
(`HoldsKey`): nobody removes a key but who failed to start under it, and with `KeepsKeys` that
is only the claimant. `TrackInv` then adds the file: a waiter of an earlier object of the key
has untracked it before the key could be claimed again (563 377 states of `pm_core`'s
instance; `OpInv` and `KeyInv` with RunSync and two callers, 281 527).

`LifeIsImplemented` goes through the steps once more, with `IInv` at hand: each is a step of `ProcessLife`
for one object, for several that are force-killed together, or for none (`LifeStutters`).

### Scheduler

`NameInv` is the centre of `IInv`: an ID stands for one job at a time, in the file, the tasks,
the snapshots and what a start has read, and a job stands under one ID. `FlightInv` has one
delivery per ID, which the `delivering` flag gives within a process, and the drain of Stop or the end
of the process across starts; with `NameInv` it gives one per job. `OverInv`: the job of a task that is
no longer pending is over. `NothingLost` is preserved on top of them:
`FileWrites` names the two actions that write the file, and `NameInv` says that what they write under the ID
of an accepted job is that job (1 361 470 states of `sched_jobs`, 83 395 with Stop and Start within a process).

`QueueIsImplemented` has one lemma per kind of step. Three need the invariant: `SaveRefines` and
`RemoveRefines` (by `NameInv` a write to the file adds or takes away one job, and by `OverInv` what is taken away
is over) and `DispatchBegins` (a second delivery of the job would be under the same ID, in the object the
map holds, whose mark the dispatch has found unset). `QueueIsReliable` follows from the abstract steps alone.

### Subprocess

`YoungInv`: until the start has stored Running, no restart, health loop or failed monitor exists, since
each reacts to Running. `DrainedInv`: from the end of its wait for `sp.wg` to its own spawn, a restart has no
monitor beside it; that needs `WgInv`, the counter against the set of loops and monitors, and
`InstInv`, by which a child that lives has a monitor or a start that holds it. `HeldInv`, one instance
held at a time, follows step by step, and so does `OneInstance`. `Moves` states once what all
steps but the four that connect may do (914 885 states with limit 2, 5 040 307 with three users).
The proof shows where `OneStarter` is used: `Alone`, that nobody else is between claim and
Running.

### Socket

`ProcInv` says what a goroutine that has read a PID may do with it: the process it polls is a daemon it
has signalled, or gone. `SettledInv` follows a settled hub: its inode stands at the path, its PID in the
file, no other daemon gets past `checkExisting`, and no client has begun to sweep the path (`Stays`).
`AloneInv` does the same for a daemon nobody disturbs (`Unhindered`). That `OpenLock` finds a free inode
is a pigeonhole over the clients (`FreeInode`), which is why `Clients` is finite (528 645 states up to
symmetry).

### Tracking file

`KernelInv` is what the kernel promises: a PID in use belongs to one birth, and stays while a group of
that ID is left. `FileInv`: an entry names a birth the hub started, with the PID it started under
(`Recorded`), so that `IdentityMatches` tells them apart. `NumberInv` says whom the numbers that a stop
signals can name: never the daemon that runs. `OrphanInv`: an orphan the cleanup may still kill is in the
file, and in its work list once that was read; the file is only cleared behind it, which makes a crash in
the middle harmless (146 474 states up to symmetry, with five births and two crashes).

### Wire

`LinkInv`: links not dialled yet are unused, and the client's current link is not shut. `ClientInv`:
outside a request the current link is clean (no frame unread, the hub at rest, no STATUS to come), since
every error drops the link under the same mutex; while the client reads, its request is either unread by
the hub, under way or answered on that link, and every frame collected so far carries its number.
`AnswersMatch` is part of the invariant, since a chunked answer is collected over several steps (1 715
629 states).

### Output

Three invariants, of the ring, the lines and the history, that meet only in the steps that deliver a line.
`RingInv` looks at the ring from a slot: a slot has an age, and holds the byte written so long ago, if the
Reset was before it; the overflow flag says that more than the capacity came since. `LineInv` looks at the
log from an entry: each stands in the stream where the one before it ended (`EntryOK`), and `partial` and `pending`
are the rest. `HistoryInv` says which entry each slot of the history holds. Lemmas on `SubSeq`, `AtMost` and
reduction modulo the capacity turn each into its third of `OutputIsKept`, so that nothing needs induction
over a sequence (48 837 states).

### Hub process

`HubInv`: the counters of connections and of the wait group are the sizes of the sets they count
(`CountInv`), one connection is being admitted at a time and everything open or in the map is being
admitted or has a goroutine (`AdmitInv`), a session code is given once and, unless replaced, gone with
its connection (`SessionInv`), and a Stop that has waited finds no goroutine (`StoppedInv`); with the
others that is `HubStopLeavesNothing` (483 939 states up to symmetry, with two clients at a time and two
sessions).

### Reconnecting client

`ClientInv`: the reconnect loop runs exactly while `reconnecting` is set, and the Conn it has dialled is
new to everybody (`LoopInv`); a heartbeat that will go on is the one that `heartbeatCancel` can end
(`BeatInv`), which gives "at most one"; Close is the owner's last step and a Connect its first
(`OwnerInv`); and, while no Connect has run during a reconnect (`overlapped`), a Conn there is between
two reconnects has its heartbeat (`ServiceInv`), which gives "at least one" (10 170 957 states up to
symmetry, with two requests and two faults).

### Subprocess server

`IInv`: `lifeMu` has one holder (`LockInv`); the listener there is is that of the current epoch, and what
has become of it at each of the holder's steps (`ListenerInv`); an accept loop admits connections of its
own epoch (`AdmitInv`); a Stop that has waited for its epoch left it closed and drained (`QuietInv`). The
last one is stable because a closed listener never opens again: a later Start makes a new one (2 079 751
states).

### Only model-checked

Liveness under fairness, which is out of the prover's reach: `StoppingEnds`, `ShutdownReturns` and
`CallsReturn`, `TasksResolve` (`managers_live`); `UnregisteredIsGone`, `StoppedIsGone`, `StoppingEnds` and
`RestartResolves` (`sub_restart`); `StopsReturn`, `CloseCleansUp` and `Recovers` (`hub_liveness`). They hold on the
instances of these runs, and nothing is claimed beyond.

## Not modelled

- The script registry but for its output history, the command registry, version comparison:
  sequential code under one mutex or none, which unit tests reach.
- Port lookup: parses the operating system's tables.
- The router's route table, StartAll, StopAll and socket transports; the stdio server and
  `SpawnSubprocess` of `client/subprocess.go`.
- Handlers that are one call of a manager and one answer (PROC, RUN, SCRIPT), read-only calls,
  statistics.
- The bytes of the protocol: parsing, base64, validation. A frame is whole or a failed read.
- The Windows files (system calls around the same control), `hubctl`, the examples.

## Plan

1. Done: `ProcessManager` with `ProcessLife`; `Scheduler` with `JobQueue`; `ManagedSubprocess`; `HubSocket`,
   `PidTracker`, `Wire`, `OutputCapture`; `HubServer`, `ResilientConn`, `SubprocessServer`.
2. Done: the theorems above, with both refinements.
3. Next: the router's route table with StartAll and StopAll over several `ManagedSubprocess`es, and the scan of
   several projects by the state manager.
4. An abstract session of a client (requests, answers, loss and recovery of the link) that `Wire` and
   `ResilientConn` implement together.
