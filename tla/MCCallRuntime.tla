--------------------------- MODULE MCCallRuntime ---------------------------
(* Model-checking instances of CallRuntime. *)
EXTENDS CallRuntime, TLC

CONSTANT shared   \* the integration of every run

OneIntegration == [x \in Call \cup Mutator |-> shared]

OwnIntegrations == [x \in Call \cup Mutator |-> IF x \in Mutator THEN x ELSE shared]
=============================================================================
