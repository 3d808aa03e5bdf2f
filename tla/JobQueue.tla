------------------------------- MODULE JobQueue -------------------------------
(***************************************************************************)
(* What the scheduler promises about its jobs, without saying how: a job    *)
(* that was accepted is in storage until it is over, whatever crashes, and  *)
(* no two deliveries of it are under way at once.  Scheduler implements it  *)
(* (SchedulerProofs).                                                       *)
(***************************************************************************)

CONSTANTS Job, Slot     \* Slot: how deliveries under way are told apart

VARIABLES
    given,      \* jobs that a caller has handed in
    accepted,   \* those of which it was told that they are in the queue
    stored,     \* jobs that a crash does not lose
    over,       \* jobs delivered, cancelled or given up
    flight      \* the deliveries under way: <<slot, job>>

queueVars == <<given, accepted, stored, over, flight>>

QueueInit ==
    /\ given = {} /\ accepted = {} /\ stored = {} /\ over = {}
    /\ flight = {}

\* A caller hands in a job, and is told so when it is in storage, or over by then.
Give(j) ==
    /\ j \notin given
    /\ given' = given \cup {j}
    /\ UNCHANGED <<accepted, stored, over, flight>>

Accept(j) ==
    /\ j \in given \ accepted
    /\ accepted' = accepted \cup {j}
    /\ stored' = stored \cup {j} \/ (j \in over /\ UNCHANGED stored)
    /\ UNCHANGED <<given, over, flight>>

\* Storage is written again after each attempt; only what is over is forgotten.
Store(j) ==
    /\ j \in given
    /\ stored' = stored \cup {j}
    /\ UNCHANGED <<given, accepted, over, flight>>

Forget(j) ==
    /\ j \in over
    /\ stored' = stored \ {j}
    /\ UNCHANGED <<given, accepted, over, flight>>

\* A delivery of a job begins when none is under way, and ends; the job is over
\* by its success, its last failure, or a cancellation.
Begin(w, j) ==
    /\ j \in given
    /\ \A d \in flight : d[1] # w /\ d[2] # j
    /\ flight' = flight \cup {<<w, j>>}
    /\ UNCHANGED <<given, accepted, stored, over>>

Resolve(j) ==
    /\ j \in given
    /\ over' = over \cup {j}
    /\ UNCHANGED <<given, accepted, stored, flight>>

End(w, j) ==
    /\ <<w, j>> \in flight
    /\ flight' = flight \ {<<w, j>>}
    /\ over' \in {over, over \cup {j}}
    /\ UNCHANGED <<given, accepted, stored>>

\* A crash ends the deliveries, and nothing else.
Crash ==
    /\ flight' = {}
    /\ UNCHANGED <<given, accepted, stored, over>>

QueueNext ==
    \/ \E j \in Job : Give(j) \/ Accept(j) \/ Store(j) \/ Forget(j) \/ Resolve(j)
    \/ \E w \in Slot, j \in Job : Begin(w, j) \/ End(w, j)
    \/ Crash

QueueSpec == QueueInit /\ [][QueueNext]_queueVars

\* What follows for whoever uses the queue: a job that was accepted can be found
\* until it is over, and no two deliveries of it are under way.
QueueKeeps ==
    /\ accepted \subseteq stored \cup over
    /\ \A d, e \in flight : d[2] = e[2] => d = e
=============================================================================
