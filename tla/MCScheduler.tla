---------------------------- MODULE MCScheduler ----------------------------
(* Small instances of Scheduler for TLC. *)
EXTENDS Scheduler, TLC

CONSTANTS s1, s2, c1, w1, w2

\* Jobs are interchangeable, and delivery goroutines are.
Symmetry == Permutations(Sender) \cup Permutations(Worker)
=============================================================================
