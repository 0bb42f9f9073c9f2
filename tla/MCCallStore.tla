---------------------------- MODULE MCCallStore ----------------------------
(* Model-checking instances of CallStore. *)
EXTENDS CallStore, TLC

CONSTANTS a, b, small, large

OneSize == [p \in Payload |-> 1]

TwoSizes == small :> 1 @@ large :> 2

(* What internal/app asks of Transition. *)
AppTargets == {"working", "failed", "canceled"}

(* Everything the repository accepts besides completion. *)
AllTargets == State \ {"completed"}
=============================================================================
