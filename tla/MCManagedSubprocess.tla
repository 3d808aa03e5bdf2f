------------------------- MODULE MCManagedSubprocess -------------------------
(* Small instances of ManagedSubprocess for TLC. *)
EXTENDS ManagedSubprocess, TLC

CONSTANTS u1, u2, r

\* One start against a stop or an unregister.
MixedOps == u1 :> {"Start"} @@ u2 :> {"Stop", "Unregister"}

\* One start, one stop.
StopOps == u1 :> {"Start"} @@ u2 :> {"Stop"}
=============================================================================
