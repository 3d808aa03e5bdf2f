-------------------------- MODULE MCProcessManager --------------------------
(* Small instances of ProcessManager for TLC. *)
EXTENDS ProcessManager, TLC

CONSTANTS p1, p2, p3, c1, c2, c3

\* All objects under one key.
OneKey == [p \in Proc |-> <<"web", "A">>]

\* Start, Stop and Shutdown against each other, by any caller.
CoreOps == [c \in Caller |-> {"Start", "Stop", "Shutdown"}]

\* Every kind of call against the others.
AllOps == c1 :> {"StartOrReuse"}
       @@ c2 :> {"Restart", "StopAll"}
       @@ c3 :> {"RunSync", "StopByPath", "Shutdown"}

ReuseOps == [c \in Caller |-> {"StartOrReuse"}]

\* Objects and callers are interchangeable where nothing tells them apart.
ProcSymmetry == Permutations(Proc)
ProcCallerSymmetry == Permutations(Proc) \cup Permutations(Caller)
=============================================================================
