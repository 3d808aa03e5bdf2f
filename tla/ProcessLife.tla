----------------------------- MODULE ProcessLife -----------------------------
(***************************************************************************)
(* What the process manager promises about its objects, without saying who  *)
(* does it: the states of a ManagedProcess, the done channel that others    *)
(* wait on, the failure counter, and that shutting down ends the spawning.  *)
(* ProcessManager implements it (ProcessManagerProofs).                     *)
(***************************************************************************)
EXTENDS Integers

CONSTANT Proc

VARIABLES
    state,     \* the state of each object
    over,      \* its done channel is closed
    failures,  \* the failure counter of the manager
    down       \* the manager is shutting down

lifeVars == <<state, over, failures, down>>

Final == {"stopped", "failed"}

LifeInit ==
    /\ state = [p \in Proc |-> "pending"]
    /\ over = [p \in Proc |-> FALSE]
    /\ failures = 0
    /\ down = FALSE

Move(p, from, to) ==
    /\ state[p] \in from
    /\ state' = [state EXCEPT ![p] = to]
    /\ UNCHANGED <<over, down>>

\* A Start claims the object, and gives it back when the key is taken.
Claim(p) == Move(p, {"pending"}, "starting") /\ UNCHANGED failures
GiveBack(p) == Move(p, {"starting"}, "pending") /\ UNCHANGED failures

\* It spawns the process, unless the manager is shutting down, or fails.
Run(p) == ~down /\ Move(p, {"starting"}, "running") /\ UNCHANGED failures
FailToStart(p) == Move(p, {"starting"}, "failed") /\ failures' = failures + 1

\* A stop marks what is running, one object or several at once.
MarkStopping(ps) ==
    /\ \A p \in ps : state[p] = "running"
    /\ state' = [p \in Proc |-> IF p \in ps THEN "stopping" ELSE state[p]]
    /\ UNCHANGED <<over, failures, down>>

\* The process ends: a stop, or a clean exit; or a failure, counted.
End(p) == Move(p, {"running", "stopping"}, "stopped") /\ UNCHANGED failures
Crash(p) ==
    Move(p, {"running", "stopping"}, "failed") /\ failures' = failures + 1

\* done is closed once, when the state is final.
Announce(p) ==
    /\ state[p] \in Final
    /\ ~over[p]
    /\ over' = [over EXCEPT ![p] = TRUE]
    /\ UNCHANGED <<state, failures, down>>

GoDown ==
    /\ ~down
    /\ down' = TRUE
    /\ UNCHANGED <<state, over, failures>>

LifeNext ==
    \/ \E p \in Proc : Claim(p) \/ GiveBack(p) \/ Run(p) \/ FailToStart(p)
                         \/ End(p) \/ Crash(p) \/ Announce(p)
    \/ \E ps \in SUBSET Proc : MarkStopping(ps)
    \/ GoDown

LifeSpec == LifeInit /\ [][LifeNext]_lifeVars
=============================================================================
