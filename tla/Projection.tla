----------------------------- MODULE Projection -----------------------------
(***************************************************************************)
(* The gateway Skill of a workspace (internal/projection, internal/mount/  *)
(* dir): Attach makes .agents/skills/using-ninea hold the built-in Skill   *)
(* of this daemon and records it in the database.  The directory is        *)
(* written beside its place and swapped in by renames, each of which may   *)
(* fail or be the last thing the daemon does.  The user, an agent or       *)
(* another program may change the directory at any time.                   *)
(*                                                                         *)
(* Manager.mu has no variable: it is held while step is not "idle".        *)
(***************************************************************************)
EXTENDS FiniteSets

CONSTANTS
  Version,     \* built-in Skills, one per digest
  Client,      \* who asks for Attach: a connect, doctor --fix
  None         \* nothing, nobody

ASSUME ProjectionAssumption == None \notin Version \cup Client

VARIABLES
  target,        \* the directory using-ninea
  backup,        \* the directory moved out of its place
  workspaceRow,  \* whether the workspace is in the database
  skillRow,      \* the digest in managed_skills, or None
  builtin,       \* Manager.builtin
  step,          \* where Attach is
  client,        \* who called it
  meddled        \* whether others changed target since it was called

projectionVars ==
  <<target, backup, workspaceRow, skillRow, builtin, step, client, meddled>>

(***************************************************************************)
(* A directory: its owner by the manifest in it (a user's has none, or one *)
(* that names something else), the version in the manifest, and whether it *)
(* is as that says.  "unsealed": all but the mode of the directory is.     *)
(***************************************************************************)
Missing == [owner |-> "nobody", version |-> None, state |-> "missing"]

Users == [owner |-> "user", version |-> None, state |-> "foreign"]

Published(v, s) == [owner |-> "ninea", version |-> v, state |-> s]

Directory == {Missing, Users}
  \cup {Published(v, s) : v \in Version, s \in {"healthy", "unsealed", "tampered"}}

Step == {"idle", "inspecting", "publishing", "staged", "swapped", "moved",
         "published", "entered", "recorded", "attached", "failed"}

ProjectionInit ==
  /\ target \in {Missing, Users}
  /\ backup = Missing
  /\ workspaceRow = FALSE
  /\ skillRow = None
  /\ builtin \in Version
  /\ step = "idle"
  /\ client = None
  /\ meddled = FALSE

Proceed(next) == step' = next /\ UNCHANGED <<builtin, client, meddled>>

rows == <<workspaceRow, skillRow>>

files == <<target, backup>>

----------------------------------------------------------------------------
(* Attach. *)

Attach(c) ==
  /\ step = "idle"
  /\ step' = "inspecting"
  /\ client' = c
  /\ meddled' = FALSE
  /\ UNCHANGED <<rows, files, builtin>>

(* Inspect finds the directory as the built-in Skill wants it. *)
Healthy == target = Published(builtin, "healthy")

(* Mutant: the digest in the database is believed. *)
UpToDateByRow == workspaceRow /\ skillRow = builtin

UpToDate == workspaceRow /\ skillRow = builtin /\ Healthy

(* What the database and, when both rows are there, the directory say. *)
Inspect ==
  /\ step = "inspecting"
  /\ Proceed(IF UpToDate THEN "recorded" ELSE "publishing")
  /\ UNCHANGED <<rows, files>>

(* Mutant: any directory is taken for an older version. *)
StageAnyway ==
  /\ step = "publishing"
  /\ Proceed("staged")
  /\ UNCHANGED <<rows, files>>

(***************************************************************************)
(* publish, to the second Lstat: a directory that is not NineA's is a      *)
(* conflict; the new one is written beside it.                             *)
(***************************************************************************)
Stage ==
  /\ step = "publishing"
  /\ Proceed(IF target.owner = "user" THEN "failed" ELSE "staged")
  /\ UNCHANGED <<rows, files>>

(***************************************************************************)
(* Before anything is changed: the context is canceled, the database or    *)
(* the file system fails, a parent is no real directory.                   *)
(***************************************************************************)
FailEarly ==
  /\ step \in {"inspecting", "publishing", "staged"}
  /\ Proceed("failed")
  /\ UNCHANGED <<rows, files>>

(* Whatever is there now makes room. *)
SwapOut ==
  /\ step = "staged"
  /\ backup' = target
  /\ target' = Missing
  /\ Proceed("swapped")
  /\ UNCHANGED rows

(* It is made writable to be moved, and that fails. *)
SwapOutFails ==
  /\ step = "staged"
  /\ target' = IF Healthy THEN Published(builtin, "unsealed") ELSE target
  /\ Proceed("failed")
  /\ UNCHANGED <<rows, backup>>

(* A directory renamed to a name that a user's has taken stays where it is. *)
MoveIn ==
  /\ step = "swapped"
  /\ target = Missing
  /\ target' = Published(builtin, "unsealed")
  /\ Proceed("moved")
  /\ UNCHANGED <<rows, backup>>

(* The old directory is moved back, if that does not fail too. *)
MoveInFails ==
  /\ step = "swapped"
  /\ \/ target' = IF target = Missing THEN backup ELSE target
     \/ UNCHANGED target
  /\ backup' = Missing
  /\ Proceed("failed")
  /\ UNCHANGED rows

(* chmod, then the old directory is removed. *)
Sealed(d) == IF d.state = "unsealed" THEN [d EXCEPT !.state = "healthy"] ELSE d

Seal ==
  /\ step = "moved"
  /\ target' = Sealed(target)
  /\ backup' = Missing
  /\ Proceed("published")
  /\ UNCHANGED rows

(* One of the two fails; the old directory stays as litter. *)
SealFails ==
  /\ step = "moved"
  /\ target' \in {target, Sealed(target)}
  /\ backup' = Missing
  /\ Proceed("failed")
  /\ UNCHANGED rows

(* A new workspace: its row first, then that of the Skill. *)
PutWorkspace ==
  /\ step = "published"
  /\ ~workspaceRow
  /\ workspaceRow' = TRUE
  /\ Proceed("entered")
  /\ UNCHANGED <<skillRow, files>>

(* The row of the Skill; a known workspace's own row is refreshed after it. *)
PutSkill ==
  /\ step \in {"published", "entered"}
  /\ step = "published" => workspaceRow
  /\ skillRow' = builtin
  /\ Proceed(IF step = "entered" THEN "attached" ELSE "recorded")
  /\ UNCHANGED <<workspaceRow, files>>

RefreshWorkspace ==
  /\ step = "recorded"
  /\ Proceed("attached")
  /\ UNCHANGED <<rows, files>>

(* Detach removes what is NineA's, as far as it gets. *)
Detached(d) ==
  IF d.owner = "ninea" THEN {Missing, d, Published(d.version, "tampered")} ELSE {d}

(***************************************************************************)
(* The database fails.  A new workspace is undone, its row if it can be; a *)
(* known one keeps what was published.                                     *)
(***************************************************************************)
RecordFails ==
  /\ step \in {"published", "entered", "recorded"}
  /\ IF step = "entered" \/ ~workspaceRow
       THEN /\ target' \in Detached(target)
            /\ workspaceRow' \in {FALSE, workspaceRow}
       ELSE UNCHANGED <<target, workspaceRow>>
  /\ Proceed("failed")
  /\ UNCHANGED <<skillRow, backup>>

AttachStep ==
  \/ Inspect \/ Stage \/ FailEarly \/ SwapOut \/ SwapOutFails \/ MoveIn \/ MoveInFails
  \/ Seal \/ SealFails
  \/ PutWorkspace \/ PutSkill \/ RefreshWorkspace \/ RecordFails

(* Attach returns to its caller. *)
Release(result) ==
  /\ step = result
  /\ step' = "idle"
  /\ client' = None
  /\ UNCHANGED <<rows, files, builtin, meddled>>

(* The user removes, replaces or edits the directory. *)
Meddle ==
  /\ target' \in {Missing, Users}
       \cup (IF target.owner = "ninea" THEN {Published(target.version, "tampered")} ELSE {})
  /\ target' # target
  /\ meddled' = (step # "idle")
  /\ UNCHANGED <<rows, backup, builtin, step, client>>

(* The daemon dies; the one that follows may be of another version. *)
CrashProjection ==
  /\ step' = "idle"
  /\ client' = None
  /\ backup' = Missing
  /\ meddled' = FALSE
  /\ builtin' \in Version
  /\ UNCHANGED <<rows, target>>

----------------------------------------------------------------------------
(* Properties. *)

ProjectionTypeOK ==
  /\ target \in Directory
  /\ backup \in Directory
  /\ workspaceRow \in BOOLEAN
  /\ skillRow \in Version \cup {None}
  /\ builtin \in Version
  /\ step \in Step
  /\ client \in Client \cup {None}
  /\ meddled \in BOOLEAN

(***************************************************************************)
(* However an Attach before it failed, or crashed between two renames, one *)
(* that succeeds leaves the Skill of this daemon in place, and the         *)
(* database says so, unless others changed the directory meanwhile.        *)
(***************************************************************************)
AttachMends ==
  step = "attached" =>
    /\ workspaceRow
    /\ skillRow = builtin
    /\ Healthy \/ meddled

(***************************************************************************)
(* NineA never removes a directory that is not its own, unless it appeared *)
(* while an Attach was replacing the Skill: Attach looks only once.        *)
(***************************************************************************)
UserDirectoryKept ==
  [][target = Users /\ ~Meddle => target' = target \/ meddled]_projectionVars
=============================================================================
