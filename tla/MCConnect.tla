----------------------------- MODULE MCConnect ------------------------------
(***************************************************************************)
(* The model-checking instance of Connect.  Nothing that happens to the    *)
(* Skill depends on what happens to the integration, so that not every     *)
(* trouble of the one is combined with every trouble of the other: each    *)
(* behavior has a scope.                                                   *)
(***************************************************************************)
EXTENDS Connect, TLC

CONSTANTS
  Operation,   \* what an HTTP source declares
  Skill,       \* what an agent offers
  Url          \* agents

(* As many versions of an HTTP source, as many agents. *)
Sources ==
  {[protocol |-> "api", endpoint |-> "declarative", declares |-> {o}] : o \in Operation}
    \cup {[protocol |-> "a2a", endpoint |-> u, declares |-> {Skill}] : u \in Url}

Symmetric == Permutations(Version) \cup Permutations(Operation) \cup Permutations(Url)

VARIABLE scope

ScopedInit == Init /\ scope \in {"integration", "skill"}

ScopedNext == Next /\ UNCHANGED scope

ScopedSpec == ScopedInit /\ [][ScopedNext]_<<vars, scope>>

(* The directory is left alone; an Attach fails at once if it fails. *)
IntegrationOnly ==
  /\ ~Meddle
  /\ client' # "doctor"
  /\ builtin' = builtin
  /\ step' = "failed" => step = "inspecting"

(* Connects of HTTP sources that nobody edits, with doctor --fix. *)
SkillOnly ==
  /\ request'.protocol # "a2a"
  /\ ~drifted'

Scoped ==
  /\ scope = "integration" => IntegrationOnly
  /\ scope = "skill" => SkillOnly
=============================================================================
