--------------------------- MODULE ConnectProofs ---------------------------
(***************************************************************************)
(* Proofs about Projection and Connect, for any sources an integration may *)
(* have, any versions of the Skill, and whoever attaches it.               *)
(***************************************************************************)
EXTENDS Connect, TLAPS

(***************************************************************************)
(* The Skill.  What an Attach has found or done is still so, unless others *)
(* changed the directory since it was called.                              *)
(***************************************************************************)
SkillKnows ==
  /\ ProjectionTypeOK
  /\ step = "staged" => target # Users \/ meddled
  /\ step = "moved" => target = Published(builtin, "unsealed") \/ meddled
  /\ step \in {"published", "entered", "recorded", "attached"} => Healthy \/ meddled
  /\ step \in {"entered", "recorded", "attached"} => workspaceRow
  /\ step \in {"recorded", "attached"} => skillRow = builtin

(***************************************************************************)
(* The integration.  What a run finds fits together: the file, the rows of *)
(* catalog and grants, the definition in the HTTP adapter, the provider in *)
(* use, and whether the file was changed since it was loaded.              *)
(***************************************************************************)
Fits(file, row, granted, definition, provider, changed) ==
  /\ provider = row.provider
  /\ row.caps \subseteq granted
  /\ definition # NoFile => ProviderOf(definition) = provider
  /\ provider.protocol = "api" /\ ~changed =>
       /\ definition.declares = row.caps
       /\ definition = IF file \in Source /\ file.protocol = "api" THEN file ELSE NoFile

(* The card in the A2A adapter, and the definition, are of the provider in use. *)
CardFits == cached # ProviderOf(NoFile) => cached = live

DefinitionFits == registered # NoFile => ProviderOf(registered) = live

(* Where a connect has written the source and has not given up. *)
Granting == {"granting", "granted", "attaching", "replacing"}

Undoing == {"revoking", "unregistering", "unwriting"}

Connecting == {"reading", "writing", "discovering"} \cup Granting \cup Undoing

(* Where the adapter holds, or may hold, what the connect has loaded. *)
Touched == Granting \cup {"revoking", "unregistering"}

(* Where a request has changed nothing for good. *)
Pending == Connecting \cup {"failed", "deleting"}

DaemonKnows ==
  /\ at # "idle" => daemon = "serving"
  /\ daemon \in {"down", "restoring"} => NotLoaded
  /\ daemon = "granting" =>
       /\ Fits(disk, catalog, grants \cup catalog.caps, registered, live, drifted)
       /\ cached = ProviderOf(NoFile)
  /\ daemon = "serving" /\ at \in {"idle", "connected", "disconnected"} =>
       Fits(disk, catalog, grants, registered, live, drifted) /\ CardFits
  /\ registered # NoFile => registered.protocol = "api"
  /\ cached.protocol \in {"none", "a2a"}
  /\ at = "idle" => spoiled = {}
  /\ "source" \in spoiled => drifted
  /\ at = "closing" => catalog = NoRow /\ live = ProviderOf(NoFile)

(* Nothing that a run needs is given up before the last step succeeds. *)
RowsKept ==
  at \in Pending =>
    /\ Fits(before.disk, before.catalog, before.grants, before.registered, before.live, drifted)
    /\ catalog = before.catalog /\ live = before.live
    /\ before.grants \subseteq grants

(* What the connect adds to the grants is known, so that it can be revoked. *)
GrantsKnown ==
  /\ at \in {"idle", "reading", "writing", "discovering"} => added = {}
  /\ at \in {"reading", "writing", "discovering", "deleting"} => grants = before.grants
  /\ at \in Granting \cup {"revoking"} =>
       grants = before.grants \cup added /\ added \cap before.grants = {}
  /\ at \in {"unregistering", "unwriting", "failed"} =>
       grants = before.grants \/ "grants" \in spoiled
  /\ at \in {"granted", "attaching", "replacing"} => found \subseteq grants

(* The source is the old one or the new one, unless it is edited. *)
SourceKnown ==
  \/ "source" \in spoiled
  \/ /\ at \in {"reading", "writing", "deleting", "failed"} => disk = before.disk
     /\ at \in {"discovering"} \cup Granting => disk = request
     /\ at \in Connecting \ {"reading"} => previous.source = before.disk

(* The integration that is replaced, if any, is of the same protocol. *)
PreviousKnown ==
  at \in Connecting =>
    /\ request \in Source
    /\ catalog # NoRow =>
         /\ catalog.provider.protocol = request.protocol
         /\ previous.config \in Source
         /\ previous.config.protocol = request.protocol
    /\ catalog = NoRow => previous.config = NoFile
    /\ request.protocol = "api" => previous.config = before.registered \/ drifted

(* The adapters hold what was there before or what is being put in place. *)
AdaptersKnown ==
  /\ at \in Pending /\ (at \in Touched => request.protocol # "api") =>
       DefinitionFits /\ (registered = before.registered \/ drifted)
  /\ at \in Pending /\ (at \in Touched => request.protocol # "a2a") => CardFits
  /\ at \in Granting =>
       /\ request.protocol = "api" => registered = request /\ found = request.declares
       /\ request.protocol = "a2a" => cached = ProviderOf(request)

(* A connect that attaches the Skill waits for its own Attach. *)
AttachKnown ==
  /\ client = "connect" => at = "attaching"
  /\ at \in {"replacing", "connected"} => workspaceRow /\ step # "entered"

(* What a connect that succeeded has put in place. *)
Replaced ==
  at = "connected" =>
    /\ catalog = [provider |-> ProviderOf(request), caps |-> found]
    /\ (before.catalog.caps \ found) \cap grants = {}
    /\ disk = request \/ "source" \in spoiled
    /\ request.protocol = "api" => registered = request
    /\ request.protocol = "a2a" => cached = live

Inductive ==
  /\ TypeOK
  /\ SkillKnows
  /\ DaemonKnows
  /\ RowsKept
  /\ GrantsKnown
  /\ SourceKnown
  /\ PreviousKnown
  /\ AdaptersKnown
  /\ AttachKnown
  /\ Replaced

----------------------------------------------------------------------------
(* The Skill. *)

(* Directories that are there, and whose they are. *)
LEMMA Special ==
  /\ Missing \in Directory /\ Users \in Directory /\ Missing # Users
  /\ Missing.owner = "nobody" /\ Missing.state = "missing"
  /\ Users.owner = "user" /\ Users.state = "foreign"
BY DEF Missing, Users, Directory

LEMMA OfNineA ==
  ASSUME NEW v \in Version, NEW s \in {"healthy", "unsealed", "tampered"}
  PROVE  /\ Published(v, s) \in Directory
         /\ Published(v, s) # Missing /\ Published(v, s) # Users
         /\ Published(v, s).owner = "ninea" /\ Published(v, s).version = v
         /\ Published(v, s).state = s
         /\ \A e \in {"healthy", "unsealed", "tampered"} :
              Published(v, s) = Published(v, e) => s = e
<1>1. /\ Published(v, s).owner = "ninea" /\ Published(v, s).version = v
      /\ \A e \in {"healthy", "unsealed", "tampered"} : Published(v, e).state = e
  BY DEF Published
<1>2. Published(v, s) \in Directory
  BY DEF Directory
<1>3. QED
  BY <1>1, <1>2, Special

LEMMA Directories ==
  ASSUME NEW d \in Directory
  PROVE  \/ d = Missing \/ d = Users
         \/ \E v \in Version, s \in {"healthy", "unsealed", "tampered"} : d = Published(v, s)
BY DEF Directory

(* chmod makes an unsealed directory healthy and leaves any other as it is. *)
LEMMA SealedMeans ==
  ASSUME NEW d \in Directory
  PROVE  /\ Sealed(d) \in Directory
         /\ d.state # "unsealed" => Sealed(d) = d
         /\ \A v \in Version : d = Published(v, "unsealed") => Sealed(d) = Published(v, "healthy")
<1>1. d.state # "unsealed" => Sealed(d) = d
  BY DEF Sealed
<1>2. ASSUME NEW v \in Version, d = Published(v, "unsealed")
      PROVE  Sealed(d) = Published(v, "healthy")
  BY <1>2 DEF Sealed, Published
<1>3. d.state = "unsealed" => \E v \in Version : d = Published(v, "unsealed")
  BY Directories, Special, OfNineA
<1>4. Sealed(d) \in Directory
  BY <1>1, <1>2, <1>3, OfNineA
<1>5. QED
  BY <1>1, <1>2, <1>4

(* Detach leaves a directory that is not NineA's as it is. *)
LEMMA DetachedMeans ==
  ASSUME NEW d \in Directory, NEW e \in Detached(d)
  PROVE  e \in Directory /\ (d = Users => e = Users)
<1>1. CASE d = Missing \/ d = Users
  BY <1>1, Special DEF Detached
<1>2. CASE \E v \in Version, s \in {"healthy", "unsealed", "tampered"} : d = Published(v, s)
  <2>1. PICK v \in Version, s \in {"healthy", "unsealed", "tampered"} : d = Published(v, s)
    BY <1>2
  <2>2. d.owner = "ninea" /\ d.version = v /\ d # Users
    BY <2>1, OfNineA
  <2>3. e \in {Missing, d, Published(v, "tampered")}
    BY <2>2 DEF Detached
  <2>4. QED
    BY <2>2, <2>3, Special, OfNineA
<1>3. QED
  BY <1>1, <1>2, Directories

LEMMA AttachStepKeeps ==
  ASSUME SkillKnows, AttachStep
  PROVE  SkillKnows' /\ client' = client
<1> USE DEF SkillKnows, ProjectionTypeOK, Proceed, rows, files, Healthy
<1>1. CASE Inspect \/ Stage \/ FailEarly
  <2>1. CASE Inspect
    BY <2>1 DEF Inspect, UpToDate, Step
  <2>2. CASE Stage
    BY <2>2, Special DEF Stage, Step
  <2>3. CASE FailEarly
    BY <2>3 DEF FailEarly, Step
  <2>4. QED
    BY <1>1, <2>1, <2>2, <2>3
<1>2. CASE SwapOut \/ SwapOutFails
  BY <1>2, Special, OfNineA DEF SwapOut, SwapOutFails, Step
<1>3. CASE MoveIn \/ MoveInFails
  BY <1>3, Special, OfNineA DEF MoveIn, MoveInFails, Step
<1>4. CASE Seal \/ SealFails
  <2>1. /\ step = "moved" /\ step' \in {"published", "failed"}
        /\ target' \in {target, Sealed(target)}
        /\ step' = "published" => target' = Sealed(target)
        /\ backup' = Missing
        /\ UNCHANGED <<rows, builtin, client, meddled>>
    BY <1>4 DEF Seal, SealFails
  <2>2. Sealed(target) \in Directory
    BY SealedMeans
  <2>3. Sealed(target) = Published(builtin, "healthy") \/ meddled
    BY <2>1, SealedMeans
  <2>4. QED
    BY <2>1, <2>2, <2>3, Special DEF Step
<1>5. CASE PutWorkspace \/ PutSkill \/ RefreshWorkspace
  BY <1>5 DEF PutWorkspace, PutSkill, RefreshWorkspace, Step
<1>6. CASE RecordFails
  BY <1>6, DetachedMeans DEF RecordFails, Step
<1>7. QED
  BY <1>1, <1>2, <1>3, <1>4, <1>5, <1>6 DEF AttachStep

LEMMA OthersKeepSkill ==
  ASSUME SkillKnows,
         \/ \E c \in Client : Attach(c)
         \/ \E result \in {"attached", "failed"} : Release(result)
         \/ Meddle \/ CrashProjection \/ UNCHANGED projectionVars
  PROVE  SkillKnows'
<1> USE DEF SkillKnows, ProjectionTypeOK, rows, files, Healthy
<1>1. CASE \E c \in Client : Attach(c)
  BY <1>1 DEF Attach, Step
<1>2. CASE \E result \in {"attached", "failed"} : Release(result)
  BY <1>2 DEF Release, Step
<1>3. CASE Meddle
  <2>1. target' \in Directory
    <3>1. CASE target.owner = "ninea"
      <4>1. PICK v \in Version, s \in {"healthy", "unsealed", "tampered"} :
              target = Published(v, s)
        BY <3>1, Directories, Special
      <4>2. target.version = v
        BY <4>1, OfNineA
      <4>3. Published(v, "tampered") \in Directory
        BY OfNineA
      <4>4. QED
        BY <1>3, <4>2, <4>3, Special DEF Meddle
    <3>2. CASE target.owner # "ninea"
      BY <1>3, <3>2, Special DEF Meddle
    <3>3. QED
      BY <3>1, <3>2
  <2>2. meddled' = (step # "idle") /\ UNCHANGED <<rows, backup, builtin, step, client>>
    BY <1>3 DEF Meddle
  <2>3. QED
    BY <2>1, <2>2
<1>4. CASE CrashProjection
  BY <1>4, Special DEF CrashProjection, Step
<1>5. CASE UNCHANGED projectionVars
  BY <1>5 DEF projectionVars
<1>6. QED
  BY <1>1, <1>2, <1>3, <1>4, <1>5

(* How the Skill may change in a step of the whole. *)
LEMMA SkillStep ==
  ASSUME [Next]_vars
  PROVE  \/ AttachStep
         \/ \E c \in Client : Attach(c)
         \/ \E result \in {"attached", "failed"} : Release(result)
         \/ Meddle \/ CrashProjection \/ UNCHANGED projectionVars
BY ConnectAssumption
   DEF Next, vars, ConnectAttach, ConnectAttached, DoctorAttach, DoctorAttached, Crash

LEMMA SkillKept == SkillKnows /\ [Next]_vars => SkillKnows'
BY SkillStep, AttachStepKeeps, OthersKeepSkill

LEMMA InitSkill == Init => SkillKnows
BY Special DEF Init, ProjectionInit, SkillKnows, ProjectionTypeOK, Step

THEOREM SkillKnown == Spec => []SkillKnows
BY InitSkill, SkillKept, PTL DEF Spec

(***************************************************************************)
(* Manager.Attach and dir.Backend.publish: an Attach that succeeds leaves  *)
(* the Skill of this daemon in place and recorded, whatever an earlier one *)
(* left behind, unless others changed the directory while it was at work.  *)
(***************************************************************************)
THEOREM AttachesMend == Spec => []AttachMends
<1>1. SkillKnows => AttachMends
  BY DEF SkillKnows, AttachMends
<1>2. QED
  BY <1>1, SkillKnown, PTL

(***************************************************************************)
(* publish and Detach: NineA leaves a directory that is not its own where  *)
(* it is, unless it appeared after publish had looked.                     *)
(***************************************************************************)
THEOREM UserDirectoriesKept == Spec => UserDirectoryKept
<1>1. SkillKnows /\ [Next]_vars =>
        [target = Users /\ ~Meddle => target' = target \/ meddled]_projectionVars
  <2> SUFFICES ASSUME SkillKnows, [Next]_vars, target = Users, ~Meddle, ~meddled
               PROVE  target' = target
    BY DEF projectionVars
  <2> USE DEF files
  <2>0. target \in Directory /\ target.state = "foreign"
    BY Special DEF SkillKnows, ProjectionTypeOK
  <2>1. CASE AttachStep
    <3>1. CASE SwapOut \/ MoveIn
      BY <3>1, Special, OfNineA DEF SwapOut, MoveIn, SkillKnows
    <3>2. CASE SwapOutFails
      BY <3>2, Special, OfNineA DEF SwapOutFails, SkillKnows
    <3>3. CASE Seal \/ SealFails
      BY <2>0, <3>3, SealedMeans DEF Seal, SealFails
    <3>4. CASE RecordFails
      BY <2>0, <3>4, DetachedMeans DEF RecordFails
    <3>5. CASE MoveInFails
      BY <3>5, Special, OfNineA DEF MoveInFails
    <3>6. CASE \/ Inspect \/ Stage \/ FailEarly
               \/ PutWorkspace \/ PutSkill \/ RefreshWorkspace
      BY <3>6 DEF Inspect, Stage, FailEarly, PutWorkspace, PutSkill, RefreshWorkspace
    <3>7. QED
      BY <2>1, <3>1, <3>2, <3>3, <3>4, <3>5, <3>6 DEF AttachStep
  <2>2. CASE \/ \E c \in Client : Attach(c)
             \/ \E result \in {"attached", "failed"} : Release(result)
             \/ CrashProjection \/ UNCHANGED projectionVars
    BY <2>2 DEF Attach, Release, CrashProjection, projectionVars
  <2>3. QED
    BY <2>1, <2>2, SkillStep
<1>2. QED
  BY <1>1, SkillKnown, PTL DEF Spec, UserDirectoryKept

----------------------------------------------------------------------------
(* The integration. *)

(* The places of a request apart, and what is no source. *)
LEMMA NoSource ==
  /\ NoFile \notin Source /\ Broken \notin Source /\ NoFile # Broken
  /\ NoFile.protocol = "none" /\ Broken.protocol = "broken" /\ NoFile.declares = {}
  /\ ProviderOf(NoFile).protocol = "none"
  /\ NoRow.provider = ProviderOf(NoFile) /\ NoRow.caps = {}
  /\ \A s \in Source : /\ s.protocol \in {"api", "mcp", "a2a"}
                       /\ ProviderOf(s).protocol = s.protocol
                       /\ ProviderOf(s) # ProviderOf(NoFile)
  /\ \A s, t \in Source : s.protocol = "api" /\ t.protocol = "api" => ProviderOf(s) = ProviderOf(t)
BY ConnectAssumption DEF NoFile, Broken, NoRow, ProviderOf

LEMMA Declared == \A s \in Source : s.declares \subseteq Capability
BY DEF Capability

LEMMA InitInductive == Init => Inductive
<1> SUFFICES ASSUME Init PROVE Inductive
  OBVIOUS
<1> USE NoSource DEF Init, NotLoaded
<1>1. TypeOK /\ SkillKnows
  BY InitSkill DEF TypeOK, SkillKnows, Place, NoPrevious, NoRow
<1>2. DaemonKnows /\ RowsKept /\ GrantsKnown /\ SourceKnown
  BY DEF DaemonKnows, RowsKept, GrantsKnown, SourceKnown, Fits, CardFits,
         Pending, Connecting, Granting, Undoing
<1>3. PreviousKnown /\ AdaptersKnown /\ Replaced
  BY DEF PreviousKnown, AdaptersKnown, Replaced, Pending, Connecting, Granting, Undoing
<1>4. AttachKnown
  BY ProjectionAssumption, ConnectAssumption DEF AttachKnown, ProjectionInit
<1>5. QED
  BY <1>1, <1>2, <1>3, <1>4 DEF Inductive

(* A connect begins: what it may replace is as the adapter has it. *)
LEMMA RequestConnectKeeps ==
  ASSUME Inductive, NEW s \in Source, RequestConnect(s), UNCHANGED projectionVars
  PROVE  Inductive'
<1> USE NoSource, Declared
    DEF Inductive, RequestConnect, Begin, CanReplace, NoPrevious, Goto, locals, runtime,
        Pending, Connecting, Granting, Undoing, Touched
<1>1. TypeOK'
  BY DEF TypeOK, ProjectionTypeOK, projectionVars, Place, Connected, NoRow
<1>2. SkillKnows'
  BY OthersKeepSkill
<1>3. DaemonKnows'
  BY DEF TypeOK, DaemonKnows, AdaptersKnown, RowsKept, Fits, CardFits, DefinitionFits, NotLoaded, Connected
<1>4. RowsKept'
  BY DEF TypeOK, RowsKept, DaemonKnows, Fits
<1>5. GrantsKnown'
  BY DEF TypeOK, GrantsKnown
<1>6. SourceKnown'
  BY DEF TypeOK, SourceKnown
<1>7. PreviousKnown'
  BY DEF TypeOK, PreviousKnown, RowsKept, DaemonKnows, Fits, Connected
<1>8. AdaptersKnown'
  BY DEF TypeOK, AdaptersKnown, DaemonKnows, RowsKept, Fits, CardFits, DefinitionFits
<1>9. AttachKnown' /\ Replaced'
  BY DEF TypeOK, AttachKnown, Replaced, projectionVars
<1>10. QED
  BY <1>1, <1>2, <1>3, <1>4, <1>5, <1>6, <1>7, <1>8, <1>9

(* The source is read, and replaced. *)
LEMMA ReadSourceKeeps ==
  ASSUME Inductive, ReadSource, UNCHANGED projectionVars
  PROVE  Inductive'
<1> USE NoSource, Declared
    DEF Inductive, ReadSource, Goto, locals, runtime,
        Pending, Connecting, Granting, Undoing, Touched
<1>1. TypeOK'
  BY DEF TypeOK, ProjectionTypeOK, projectionVars, Place, Connected, NoRow
<1>2. SkillKnows'
  BY OthersKeepSkill
<1>3. DaemonKnows'
  BY DEF TypeOK, DaemonKnows, AdaptersKnown, RowsKept, Fits, CardFits, DefinitionFits, NotLoaded, Connected
<1>4. RowsKept'
  BY DEF TypeOK, RowsKept, DaemonKnows, Fits
<1>5. GrantsKnown'
  BY DEF TypeOK, GrantsKnown
<1>6. SourceKnown'
  BY DEF TypeOK, SourceKnown
<1>7. PreviousKnown'
  BY DEF TypeOK, PreviousKnown, RowsKept, DaemonKnows, Fits, Connected
<1>8. AdaptersKnown'
  BY DEF TypeOK, AdaptersKnown, DaemonKnows, RowsKept, Fits, CardFits, DefinitionFits
<1>9. AttachKnown' /\ Replaced'
  BY DEF TypeOK, AttachKnown, Replaced, projectionVars
<1>10. QED
  BY <1>1, <1>2, <1>3, <1>4, <1>5, <1>6, <1>7, <1>8, <1>9

LEMMA WriteSourceKeeps ==
  ASSUME Inductive, WriteSource, UNCHANGED projectionVars
  PROVE  Inductive'
<1> USE NoSource, Declared
    DEF Inductive, WriteSource, Goto, locals, runtime,
        Pending, Connecting, Granting, Undoing, Touched
<1>1. TypeOK'
  BY DEF TypeOK, ProjectionTypeOK, projectionVars, Place, Connected, NoRow
<1>2. SkillKnows'
  BY OthersKeepSkill
<1>3. DaemonKnows'
  BY DEF TypeOK, DaemonKnows, AdaptersKnown, RowsKept, Fits, CardFits, DefinitionFits, NotLoaded, Connected
<1>4. RowsKept'
  BY DEF TypeOK, RowsKept, DaemonKnows, Fits
<1>5. GrantsKnown'
  BY DEF TypeOK, GrantsKnown
<1>6. SourceKnown'
  BY DEF TypeOK, SourceKnown
<1>7. PreviousKnown'
  BY DEF TypeOK, PreviousKnown, RowsKept, DaemonKnows, Fits, Connected
<1>8. AdaptersKnown'
  BY DEF TypeOK, AdaptersKnown, DaemonKnows, RowsKept, Fits, CardFits, DefinitionFits
<1>9. AttachKnown' /\ Replaced'
  BY DEF TypeOK, AttachKnown, Replaced, projectionVars
<1>10. QED
  BY <1>1, <1>2, <1>3, <1>4, <1>5, <1>6, <1>7, <1>8, <1>9

(* The capabilities are discovered, or are not. *)
LEMMA DiscoverKeeps ==
  ASSUME Inductive, DiscoverDeclared \/ DiscoverUpstream, UNCHANGED projectionVars
  PROVE  Inductive'
<1> USE NoSource, Declared
    DEF Inductive, DiscoverDeclared, DiscoverUpstream, CacheOf, Goto, locals, runtime,
        Pending, Connecting, Granting, Undoing, Touched
<1>1. TypeOK'
  BY DEF TypeOK, ProjectionTypeOK, projectionVars, Place, Connected, NoRow
<1>2. SkillKnows'
  BY OthersKeepSkill
<1>3. DaemonKnows'
  BY DEF TypeOK, DaemonKnows, AdaptersKnown, RowsKept, Fits, CardFits, DefinitionFits, NotLoaded, Connected
<1>4. RowsKept'
  BY DEF TypeOK, RowsKept, DaemonKnows, Fits
<1>5. GrantsKnown'
  BY DEF TypeOK, GrantsKnown
<1>6. SourceKnown'
  BY DEF TypeOK, SourceKnown
<1>7. PreviousKnown'
  BY DEF TypeOK, PreviousKnown, RowsKept, DaemonKnows, Fits, Connected
<1>8. AdaptersKnown'
  BY DEF TypeOK, AdaptersKnown, DaemonKnows, RowsKept, Fits, CardFits, DefinitionFits
<1>9. AttachKnown' /\ Replaced'
  BY DEF TypeOK, AttachKnown, Replaced, projectionVars
<1>10. QED
  BY <1>1, <1>2, <1>3, <1>4, <1>5, <1>6, <1>7, <1>8, <1>9

LEMMA DiscoverFailsKeeps ==
  ASSUME Inductive, DiscoverFails, UNCHANGED projectionVars
  PROVE  Inductive'
<1> USE NoSource, Declared
    DEF Inductive, DiscoverFails, CacheOf, Goto, locals, runtime,
        Pending, Connecting, Granting, Undoing, Touched
<1>1. TypeOK'
  BY DEF TypeOK, ProjectionTypeOK, projectionVars, Place, Connected, NoRow
<1>2. SkillKnows'
  BY OthersKeepSkill
<1>3. DaemonKnows'
  BY DEF TypeOK, DaemonKnows, AdaptersKnown, RowsKept, Fits, CardFits, DefinitionFits, NotLoaded, Connected
<1>4. RowsKept'
  BY DEF TypeOK, RowsKept, DaemonKnows, Fits
<1>5. GrantsKnown'
  BY DEF TypeOK, GrantsKnown
<1>6. SourceKnown'
  BY DEF TypeOK, SourceKnown
<1>7. PreviousKnown'
  BY DEF TypeOK, PreviousKnown, RowsKept, DaemonKnows, Fits, Connected
<1>8. AdaptersKnown'
  BY DEF TypeOK, AdaptersKnown, DaemonKnows, RowsKept, Fits, CardFits, DefinitionFits
<1>9. AttachKnown' /\ Replaced'
  BY DEF TypeOK, AttachKnown, Replaced, projectionVars
<1>10. QED
  BY <1>1, <1>2, <1>3, <1>4, <1>5, <1>6, <1>7, <1>8, <1>9

(* They are granted. *)
LEMMA GrantKeeps ==
  ASSUME Inductive, (\E c \in Capability : Grant(c)) \/ GrantsEnd, UNCHANGED projectionVars
  PROVE  Inductive'
<1> USE NoSource, Declared
    DEF Inductive, Grant, GrantsEnd, Goto, locals, runtime,
        Pending, Connecting, Granting, Undoing, Touched
<1>1. TypeOK'
  <2>1. grants' \in SUBSET Capability /\ added' \in SUBSET Capability
    <3>1. CASE \E c \in Capability : Grant(c)
      BY <3>1 DEF TypeOK
    <3>2. CASE GrantsEnd
      BY <3>2 DEF TypeOK
    <3>3. QED
      BY <3>1, <3>2
  <2>2. /\ UNCHANGED <<disk, catalog, daemon, runtime, request, previous, found,
                       before, drifted, spoiled>>
        /\ at' \in {"granting", "granted", "revoking"}
    OBVIOUS
  <2>3. ProjectionTypeOK'
    BY DEF TypeOK, ProjectionTypeOK, projectionVars
  <2>4. QED
    BY <2>1, <2>2, <2>3 DEF TypeOK, Place
<1>2. SkillKnows'
  BY OthersKeepSkill
<1>3. DaemonKnows'
  BY DEF TypeOK, DaemonKnows, AdaptersKnown, RowsKept, Fits, CardFits, DefinitionFits, NotLoaded, Connected
<1>4. RowsKept'
  BY DEF TypeOK, RowsKept, DaemonKnows, Fits
<1>5. GrantsKnown'
  BY DEF TypeOK, GrantsKnown
<1>6. SourceKnown'
  BY DEF TypeOK, SourceKnown
<1>7. PreviousKnown'
  BY DEF TypeOK, PreviousKnown, RowsKept, DaemonKnows, Fits, Connected
<1>8. AdaptersKnown'
  BY DEF TypeOK, AdaptersKnown, DaemonKnows, RowsKept, Fits, CardFits, DefinitionFits
<1>9. AttachKnown' /\ Replaced'
  BY DEF TypeOK, AttachKnown, Replaced, projectionVars
<1>10. QED
  BY <1>1, <1>2, <1>3, <1>4, <1>5, <1>6, <1>7, <1>8, <1>9

(* The integration is replaced: now is all that a run needs in place. *)
LEMMA ReplaceKeeps ==
  ASSUME Inductive, Replace, UNCHANGED projectionVars
  PROVE  Inductive'
<1> USE NoSource, Declared
    DEF Inductive, Replace, PutCatalog, Goto, locals, runtime,
        Pending, Connecting, Granting, Undoing, Touched
<1>1. TypeOK'
  BY DEF TypeOK, ProjectionTypeOK, projectionVars, Place, Connected, NoRow
<1>2. SkillKnows'
  BY OthersKeepSkill
<1>3. DaemonKnows'
  <2>0. /\ request \in Source /\ live' = ProviderOf(request)
        /\ catalog'.provider = ProviderOf(request) /\ catalog'.caps = found
        /\ found \subseteq grants'
    BY DEF PreviousKnown, GrantsKnown
  <2>1. CardFits'
    <3>1. CASE request.protocol = "a2a"
      BY <2>0, <3>1 DEF AdaptersKnown, CardFits
    <3>2. CASE request.protocol # "a2a"
      <4>1. cached # ProviderOf(NoFile) => live = ProviderOf(request)
        BY <3>2 DEF AdaptersKnown, CardFits, DaemonKnows, PreviousKnown, RowsKept, Fits, TypeOK
      <4>2. QED
        BY <3>2, <2>0, <4>1 DEF AdaptersKnown, CardFits
    <3>3. QED
      BY <3>1, <3>2
  <2>2. registered # NoFile => ProviderOf(registered) = ProviderOf(request)
    BY <2>0 DEF AdaptersKnown, DefinitionFits, DaemonKnows, PreviousKnown, RowsKept, Fits, TypeOK
  <2>3. ProviderOf(request).protocol = "api" /\ ~drifted' =>
          disk = request /\ registered = request /\ found = request.declares
    BY <2>0 DEF SourceKnown, AdaptersKnown
  <2>4. Fits(disk, catalog, grants, registered, live, drifted)'
    BY <2>0, <2>2, <2>3 DEF Fits
  <2>5. QED
    BY <2>1, <2>4 DEF DaemonKnows
<1>4. RowsKept'
  BY DEF TypeOK, RowsKept, DaemonKnows, Fits
<1>5. GrantsKnown'
  BY DEF TypeOK, GrantsKnown
<1>6. SourceKnown'
  BY DEF TypeOK, SourceKnown
<1>7. PreviousKnown'
  BY DEF TypeOK, PreviousKnown, RowsKept, DaemonKnows, Fits, Connected
<1>8. AdaptersKnown'
  BY DEF TypeOK, AdaptersKnown, DaemonKnows, RowsKept, Fits, CardFits, DefinitionFits
<1>9. AttachKnown' /\ Replaced'
  BY DEF TypeOK, AttachKnown, Replaced, projectionVars, SourceKnown, AdaptersKnown, RowsKept
<1>10. QED
  BY <1>1, <1>2, <1>3, <1>4, <1>5, <1>6, <1>7, <1>8, <1>9

LEMMA ReplaceFailsKeeps ==
  ASSUME Inductive, ReplaceFails, UNCHANGED projectionVars
  PROVE  Inductive'
<1> USE NoSource, Declared
    DEF Inductive, ReplaceFails, Goto, locals, runtime,
        Pending, Connecting, Granting, Undoing, Touched
<1>1. TypeOK'
  BY DEF TypeOK, ProjectionTypeOK, projectionVars, Place, Connected, NoRow
<1>2. SkillKnows'
  BY OthersKeepSkill
<1>3. DaemonKnows'
  BY DEF TypeOK, DaemonKnows, AdaptersKnown, RowsKept, Fits, CardFits, DefinitionFits, NotLoaded, Connected
<1>4. RowsKept'
  BY DEF TypeOK, RowsKept, DaemonKnows, Fits
<1>5. GrantsKnown'
  BY DEF TypeOK, GrantsKnown
<1>6. SourceKnown'
  BY DEF TypeOK, SourceKnown
<1>7. PreviousKnown'
  BY DEF TypeOK, PreviousKnown, RowsKept, DaemonKnows, Fits, Connected
<1>8. AdaptersKnown'
  BY DEF TypeOK, AdaptersKnown, DaemonKnows, RowsKept, Fits, CardFits, DefinitionFits
<1>9. AttachKnown' /\ Replaced'
  BY DEF TypeOK, AttachKnown, Replaced, projectionVars
<1>10. QED
  BY <1>1, <1>2, <1>3, <1>4, <1>5, <1>6, <1>7, <1>8, <1>9

(* Undoing. *)
LEMMA RevokeKeeps ==
  ASSUME Inductive, Revoke, UNCHANGED projectionVars
  PROVE  Inductive'
<1> USE NoSource, Declared
    DEF Inductive, Revoke, Goto, locals, runtime,
        Pending, Connecting, Granting, Undoing, Touched
<1>1. TypeOK'
  BY DEF TypeOK, ProjectionTypeOK, projectionVars, Place, Connected, NoRow
<1>2. SkillKnows'
  BY OthersKeepSkill
<1>3. DaemonKnows'
  <2>1. "source" \in spoiled' => "source" \in spoiled
    OBVIOUS
  <2>2. QED
    BY <2>1 DEF DaemonKnows, NotLoaded
<1>4. RowsKept'
  BY DEF TypeOK, RowsKept, GrantsKnown, Fits
<1>5. GrantsKnown'
  BY DEF TypeOK, GrantsKnown
<1>6. SourceKnown'
  BY DEF TypeOK, SourceKnown
<1>7. PreviousKnown'
  BY DEF TypeOK, PreviousKnown, RowsKept, DaemonKnows, Fits, Connected
<1>8. AdaptersKnown'
  BY DEF TypeOK, AdaptersKnown, DaemonKnows, RowsKept, Fits, CardFits, DefinitionFits
<1>9. AttachKnown' /\ Replaced'
  BY DEF TypeOK, AttachKnown, Replaced, projectionVars
<1>10. QED
  BY <1>1, <1>2, <1>3, <1>4, <1>5, <1>6, <1>7, <1>8, <1>9

LEMMA UnregisterKeeps ==
  ASSUME Inductive, Unregister, UNCHANGED projectionVars
  PROVE  Inductive'
<1> USE NoSource, Declared
    DEF Inductive, Unregister, Goto, locals, runtime,
        Pending, Connecting, Granting, Undoing, Touched
<1>1. TypeOK'
  BY DEF TypeOK, ProjectionTypeOK, projectionVars, Place, Connected, NoRow
<1>2. SkillKnows'
  BY OthersKeepSkill
<1>3. DaemonKnows'
  <2>1. registered' # NoFile => registered'.protocol = "api"
    BY DEF DaemonKnows, PreviousKnown
  <2>2. cached'.protocol \in {"none", "a2a"}
    BY DEF DaemonKnows, PreviousKnown
  <2>3. QED
    BY <2>1, <2>2 DEF DaemonKnows
<1>4. RowsKept'
  BY DEF TypeOK, RowsKept, DaemonKnows, Fits
<1>5. GrantsKnown'
  BY DEF TypeOK, GrantsKnown
<1>6. SourceKnown'
  BY DEF TypeOK, SourceKnown
<1>7. PreviousKnown'
  BY DEF TypeOK, PreviousKnown, RowsKept, DaemonKnows, Fits, Connected
<1>8. AdaptersKnown'
  <2>1. live = catalog.provider
    BY DEF RowsKept, Fits
  <2>2. CASE request.protocol = "api"
    <3>1. DefinitionFits'
      BY <2>1, <2>2 DEF PreviousKnown, DefinitionFits, TypeOK
    <3>2. QED
      BY <2>2, <3>1 DEF AdaptersKnown, PreviousKnown, CardFits
  <2>3. CASE request.protocol # "api"
    BY <2>1, <2>3 DEF AdaptersKnown, CardFits, DefinitionFits
  <2>4. QED
    BY <2>2, <2>3
<1>9. AttachKnown' /\ Replaced'
  BY DEF TypeOK, AttachKnown, Replaced, projectionVars
<1>10. QED
  BY <1>1, <1>2, <1>3, <1>4, <1>5, <1>6, <1>7, <1>8, <1>9

LEMMA UnwriteKeeps ==
  ASSUME Inductive, Unwrite, UNCHANGED projectionVars
  PROVE  Inductive'
<1> USE NoSource, Declared
    DEF Inductive, Unwrite, Goto, locals, runtime,
        Pending, Connecting, Granting, Undoing, Touched
<1>1. TypeOK'
  <2>1. previous.source \in Source \cup {NoFile, Broken}
    BY DEF TypeOK
  <2>2. disk' \in Source \cup {NoFile, Broken}
    BY <2>1 DEF TypeOK
  <2>3. ProjectionTypeOK'
    BY DEF TypeOK, ProjectionTypeOK, projectionVars
  <2>4. QED
    BY <2>2, <2>3 DEF TypeOK, Place
<1>2. SkillKnows'
  BY OthersKeepSkill
<1>3. DaemonKnows'
  BY DEF TypeOK, DaemonKnows, AdaptersKnown, RowsKept, Fits, CardFits, DefinitionFits, NotLoaded, Connected
<1>4. RowsKept'
  BY DEF TypeOK, RowsKept, DaemonKnows, Fits
<1>5. GrantsKnown'
  BY DEF TypeOK, GrantsKnown
<1>6. SourceKnown'
  BY DEF TypeOK, SourceKnown
<1>7. PreviousKnown'
  BY DEF TypeOK, PreviousKnown, RowsKept, DaemonKnows, Fits, Connected
<1>8. AdaptersKnown'
  BY DEF TypeOK, AdaptersKnown, DaemonKnows, RowsKept, Fits, CardFits, DefinitionFits
<1>9. AttachKnown' /\ Replaced'
  BY DEF TypeOK, AttachKnown, Replaced, projectionVars
<1>10. QED
  BY <1>1, <1>2, <1>3, <1>4, <1>5, <1>6, <1>7, <1>8, <1>9

(* The answer is given. *)
LEMMA FinishKeeps ==
  ASSUME Inductive, Finish, UNCHANGED projectionVars
  PROVE  Inductive'
<1> USE NoSource, Declared
    DEF Inductive, Finish, NoPrevious, NothingBefore, Goto, locals, runtime,
        Pending, Connecting, Granting, Undoing, Touched
<1>1. TypeOK'
  BY DEF TypeOK, ProjectionTypeOK, projectionVars, Place, Connected, NoRow
<1>2. SkillKnows'
  BY OthersKeepSkill
<1>3. DaemonKnows'
  <2>1. CASE at \in {"connected", "disconnected"}
    BY <2>1 DEF DaemonKnows, Fits, CardFits, NotLoaded
  <2>2. CASE at = "failed"
    <3>1. catalog = before.catalog /\ live = before.live /\ before.grants \subseteq grants
      BY <2>2 DEF RowsKept
    <3>2. ~drifted => disk = before.disk /\ registered = before.registered
      BY <2>2 DEF SourceKnown, AdaptersKnown, DaemonKnows
    <3>3. CardFits /\ DefinitionFits
      BY <2>2 DEF AdaptersKnown
    <3>4. Fits(disk, catalog, grants, registered, live, drifted)'
      BY <2>2, <3>1, <3>2, <3>3 DEF RowsKept, Fits, DefinitionFits
    <3>5. QED
      BY <2>2, <3>3, <3>4 DEF DaemonKnows, CardFits
  <2>3. QED
    BY <2>1, <2>2
<1>4. RowsKept'
  BY DEF TypeOK, RowsKept, DaemonKnows, Fits
<1>5. GrantsKnown'
  BY DEF TypeOK, GrantsKnown
<1>6. SourceKnown'
  BY DEF TypeOK, SourceKnown
<1>7. PreviousKnown'
  BY DEF TypeOK, PreviousKnown, RowsKept, DaemonKnows, Fits, Connected
<1>8. AdaptersKnown'
  BY DEF TypeOK, AdaptersKnown, DaemonKnows, RowsKept, Fits, CardFits, DefinitionFits
<1>9. AttachKnown' /\ Replaced'
  BY DEF TypeOK, AttachKnown, Replaced, projectionVars
<1>10. QED
  BY <1>1, <1>2, <1>3, <1>4, <1>5, <1>6, <1>7, <1>8, <1>9

(* Disconnect. *)
LEMMA RequestDisconnectKeeps ==
  ASSUME Inductive, RequestDisconnect, UNCHANGED projectionVars
  PROVE  Inductive'
<1> USE NoSource, Declared
    DEF Inductive, RequestDisconnect, Begin, Goto, locals, runtime,
        Pending, Connecting, Granting, Undoing, Touched
<1>1. TypeOK'
  BY DEF TypeOK, ProjectionTypeOK, projectionVars, Place, Connected, NoRow
<1>2. SkillKnows'
  BY OthersKeepSkill
<1>3. DaemonKnows'
  BY DEF TypeOK, DaemonKnows, AdaptersKnown, RowsKept, Fits, CardFits, DefinitionFits, NotLoaded, Connected
<1>4. RowsKept'
  BY DEF TypeOK, RowsKept, DaemonKnows, Fits
<1>5. GrantsKnown'
  BY DEF TypeOK, GrantsKnown
<1>6. SourceKnown'
  BY DEF TypeOK, SourceKnown
<1>7. PreviousKnown'
  BY DEF TypeOK, PreviousKnown, RowsKept, DaemonKnows, Fits, Connected
<1>8. AdaptersKnown'
  BY DEF TypeOK, AdaptersKnown, DaemonKnows, RowsKept, Fits, CardFits, DefinitionFits
<1>9. AttachKnown' /\ Replaced'
  BY DEF TypeOK, AttachKnown, Replaced, projectionVars
<1>10. QED
  BY <1>1, <1>2, <1>3, <1>4, <1>5, <1>6, <1>7, <1>8, <1>9

LEMMA DeleteKeeps ==
  ASSUME Inductive, Delete, UNCHANGED projectionVars
  PROVE  Inductive'
<1> USE NoSource, Declared
    DEF Inductive, Delete, Goto, locals, runtime,
        Pending, Connecting, Granting, Undoing, Touched
<1>1. TypeOK'
  BY DEF TypeOK, ProjectionTypeOK, projectionVars, Place, Connected, NoRow
<1>2. SkillKnows'
  BY OthersKeepSkill
<1>3. DaemonKnows'
  BY DEF TypeOK, DaemonKnows, AdaptersKnown, RowsKept, Fits, CardFits, DefinitionFits, NotLoaded, Connected
<1>4. RowsKept'
  BY DEF TypeOK, RowsKept, DaemonKnows, Fits
<1>5. GrantsKnown'
  BY DEF TypeOK, GrantsKnown
<1>6. SourceKnown'
  BY DEF TypeOK, SourceKnown
<1>7. PreviousKnown'
  BY DEF TypeOK, PreviousKnown, RowsKept, DaemonKnows, Fits, Connected
<1>8. AdaptersKnown'
  BY DEF TypeOK, AdaptersKnown, DaemonKnows, RowsKept, Fits, CardFits, DefinitionFits
<1>9. AttachKnown' /\ Replaced'
  BY DEF TypeOK, AttachKnown, Replaced, projectionVars
<1>10. QED
  BY <1>1, <1>2, <1>3, <1>4, <1>5, <1>6, <1>7, <1>8, <1>9

LEMMA CloseAdapterKeeps ==
  ASSUME Inductive, CloseAdapter, UNCHANGED projectionVars
  PROVE  Inductive'
<1> USE NoSource, Declared
    DEF Inductive, CloseAdapter, Goto, locals, runtime,
        Pending, Connecting, Granting, Undoing, Touched
<1>1. TypeOK'
  BY DEF TypeOK, ProjectionTypeOK, projectionVars, Place, Connected, NoRow
<1>2. SkillKnows'
  BY OthersKeepSkill
<1>3. DaemonKnows'
  BY DEF TypeOK, DaemonKnows, AdaptersKnown, RowsKept, Fits, CardFits, DefinitionFits, NotLoaded, Connected
<1>4. RowsKept'
  BY DEF TypeOK, RowsKept, DaemonKnows, Fits
<1>5. GrantsKnown'
  BY DEF TypeOK, GrantsKnown
<1>6. SourceKnown'
  BY DEF TypeOK, SourceKnown
<1>7. PreviousKnown'
  BY DEF TypeOK, PreviousKnown, RowsKept, DaemonKnows, Fits, Connected
<1>8. AdaptersKnown'
  BY DEF TypeOK, AdaptersKnown, DaemonKnows, RowsKept, Fits, CardFits, DefinitionFits
<1>9. AttachKnown' /\ Replaced'
  BY DEF TypeOK, AttachKnown, Replaced, projectionVars
<1>10. QED
  BY <1>1, <1>2, <1>3, <1>4, <1>5, <1>6, <1>7, <1>8, <1>9

(* The next daemon. *)
LEMMA StartKeeps ==
  ASSUME Inductive, Start, UNCHANGED projectionVars
  PROVE  Inductive'
<1> USE NoSource, Declared
    DEF Inductive, Start, NotLoaded, Goto, locals, runtime,
        Pending, Connecting, Granting, Undoing, Touched
<1>1. TypeOK'
  BY DEF TypeOK, ProjectionTypeOK, projectionVars, Place, Connected, NoRow
<1>2. SkillKnows'
  BY OthersKeepSkill
<1>3. DaemonKnows'
  BY DEF TypeOK, DaemonKnows, AdaptersKnown, RowsKept, Fits, CardFits, DefinitionFits, NotLoaded, Connected
<1>4. RowsKept'
  BY DEF TypeOK, RowsKept, DaemonKnows, Fits
<1>5. GrantsKnown'
  BY DEF TypeOK, GrantsKnown
<1>6. SourceKnown'
  BY DEF TypeOK, SourceKnown
<1>7. PreviousKnown'
  BY DEF TypeOK, PreviousKnown, RowsKept, DaemonKnows, Fits, Connected
<1>8. AdaptersKnown'
  BY DEF TypeOK, AdaptersKnown, DaemonKnows, RowsKept, Fits, CardFits, DefinitionFits
<1>9. AttachKnown' /\ Replaced'
  BY DEF TypeOK, AttachKnown, Replaced, projectionVars
<1>10. QED
  BY <1>1, <1>2, <1>3, <1>4, <1>5, <1>6, <1>7, <1>8, <1>9

LEMMA RestoreKeeps ==
  ASSUME Inductive, Restore, UNCHANGED projectionVars
  PROVE  Inductive'
<1> USE NoSource, Declared
    DEF Inductive, Restore, PutCatalog, Restorable, RestoredCaps, NotLoaded, Goto, locals, runtime,
        Pending, Connecting, Granting, Undoing, Touched
<1>0. at = "idle"
  BY DEF DaemonKnows
<1>1. TypeOK'
  <2>1. /\ catalog' \in [provider : {ProviderOf(s) : s \in Source \cup {NoFile}},
                         caps : SUBSET Capability]
        /\ live' \in {ProviderOf(s) : s \in Source \cup {NoFile}}
        /\ registered' \in Source \cup {NoFile}
        /\ grants' \in SUBSET Capability
    <3>1. CASE ~Connected
      BY <3>1 DEF TypeOK
    <3>2. CASE Connected /\ ~Restorable
      BY <3>2 DEF TypeOK
    <3>3. CASE Connected /\ Restorable
      <4>1. disk \in Source /\ RestoredCaps \in SUBSET Capability
        BY <3>3 DEF TypeOK
      <4>2. QED
        BY <3>3, <4>1 DEF TypeOK
    <3>4. QED
      BY <3>1, <3>2, <3>3
  <2>2. QED
    BY <1>0, <2>1 DEF TypeOK, ProjectionTypeOK, projectionVars
<1>2. SkillKnows'
  BY OthersKeepSkill
<1>3. DaemonKnows'
  <2>0. registered = NoFile /\ cached = ProviderOf(NoFile) /\ live = ProviderOf(NoFile)
    BY DEF DaemonKnows
  <2>1. Fits(disk, catalog, grants \cup catalog.caps, registered, live, drifted)'
    <3>1. CASE ~Connected
      BY <2>0, <3>1 DEF Connected, Fits
    <3>2. CASE Connected /\ ~Restorable
      <4>1. /\ live' = catalog'.provider /\ catalog'.provider = catalog.provider
            /\ catalog'.caps = {} /\ registered' = NoFile /\ disk' = disk
        BY <2>0, <3>2
      <4>2. ~(disk \in Source /\ disk.protocol = catalog.provider.protocol)
        BY <3>2
      <4>3. QED
        BY <4>1, <4>2 DEF Fits
    <3>3. CASE Connected /\ Restorable
      <4>1. disk.protocol = "api" => RestoredCaps = disk.declares
        OBVIOUS
      <4> HIDE DEF RestoredCaps
      <4>2. /\ disk \in Source /\ disk' = disk /\ live' = ProviderOf(disk)
            /\ catalog' = [provider |-> ProviderOf(disk), caps |-> RestoredCaps]
            /\ registered' = IF disk.protocol = "api" THEN disk ELSE NoFile
        BY <2>0, <3>3
      <4>3. QED
        BY <4>1, <4>2 DEF Fits
    <3>4. QED
      BY <3>1, <3>2, <3>3
  <2>2. registered' # NoFile => registered'.protocol = "api"
    BY <2>0
  <2>3. spoiled = {}
    BY <1>0 DEF DaemonKnows
  <2>4. QED
    BY <1>0, <2>0, <2>1, <2>2, <2>3 DEF DaemonKnows
<1>4. RowsKept'
  BY <1>0 DEF TypeOK, RowsKept, DaemonKnows, Fits
<1>5. GrantsKnown'
  BY <1>0 DEF TypeOK, GrantsKnown
<1>6. SourceKnown'
  BY <1>0 DEF TypeOK, SourceKnown
<1>7. PreviousKnown'
  BY <1>0 DEF TypeOK, PreviousKnown, RowsKept, DaemonKnows, Fits, Connected
<1>8. AdaptersKnown'
  BY <1>0 DEF TypeOK, AdaptersKnown, DaemonKnows, RowsKept, Fits, CardFits, DefinitionFits
<1>9. AttachKnown' /\ Replaced'
  BY <1>0 DEF TypeOK, AttachKnown, Replaced, projectionVars
<1>10. QED
  BY <1>1, <1>2, <1>3, <1>4, <1>5, <1>6, <1>7, <1>8, <1>9

LEMMA RestoreGrantKeeps ==
  ASSUME Inductive, (\E c \in Capability : RestoreGrant(c)) \/ Serve, UNCHANGED projectionVars
  PROVE  Inductive'
<1> USE NoSource, Declared
    DEF Inductive, RestoreGrant, Serve, Goto, locals, runtime,
        Pending, Connecting, Granting, Undoing, Touched
<1>0. at = "idle"
  BY DEF DaemonKnows
<1>1. TypeOK'
  <2>1. grants' \in SUBSET Capability
    <3>1. CASE \E c \in Capability : RestoreGrant(c)
      BY <3>1 DEF TypeOK
    <3>2. CASE Serve
      BY <3>2 DEF TypeOK
    <3>3. QED
      BY <3>1, <3>2
  <2>2. /\ UNCHANGED <<disk, catalog, runtime, at, locals, drifted, spoiled>>
        /\ daemon' \in {"granting", "serving"}
    OBVIOUS
  <2>3. ProjectionTypeOK'
    BY DEF TypeOK, ProjectionTypeOK, projectionVars
  <2>4. QED
    BY <2>1, <2>2, <2>3 DEF TypeOK
<1>2. SkillKnows'
  BY OthersKeepSkill
<1>3. DaemonKnows'
  BY <1>0 DEF TypeOK, DaemonKnows, AdaptersKnown, RowsKept, Fits, CardFits, DefinitionFits, NotLoaded, Connected
<1>4. RowsKept'
  BY <1>0 DEF TypeOK, RowsKept, DaemonKnows, Fits
<1>5. GrantsKnown'
  BY <1>0 DEF TypeOK, GrantsKnown
<1>6. SourceKnown'
  BY <1>0 DEF TypeOK, SourceKnown
<1>7. PreviousKnown'
  BY <1>0 DEF TypeOK, PreviousKnown, RowsKept, DaemonKnows, Fits, Connected
<1>8. AdaptersKnown'
  BY <1>0 DEF TypeOK, AdaptersKnown, DaemonKnows, RowsKept, Fits, CardFits, DefinitionFits
<1>9. AttachKnown' /\ Replaced'
  BY <1>0 DEF TypeOK, AttachKnown, Replaced, projectionVars
<1>10. QED
  BY <1>1, <1>2, <1>3, <1>4, <1>5, <1>6, <1>7, <1>8, <1>9

(* The user edits the source. *)
LEMMA EditKeeps ==
  ASSUME Inductive, Edit, UNCHANGED projectionVars
  PROVE  Inductive'
<1> USE NoSource, Declared
    DEF Inductive, Edit, Goto, locals, runtime,
        Pending, Connecting, Granting, Undoing, Touched
<1>1. TypeOK'
  BY DEF TypeOK, ProjectionTypeOK, projectionVars, Place, Connected, NoRow
<1>2. SkillKnows'
  BY OthersKeepSkill
<1>3. DaemonKnows'
  BY DEF TypeOK, DaemonKnows, AdaptersKnown, RowsKept, Fits, CardFits, DefinitionFits, NotLoaded, Connected
<1>4. RowsKept'
  BY DEF TypeOK, RowsKept, DaemonKnows, Fits
<1>5. GrantsKnown'
  BY DEF TypeOK, GrantsKnown
<1>6. SourceKnown'
  BY DEF TypeOK, SourceKnown
<1>7. PreviousKnown'
  BY DEF TypeOK, PreviousKnown, RowsKept, DaemonKnows, Fits, Connected
<1>8. AdaptersKnown'
  BY DEF TypeOK, AdaptersKnown, DaemonKnows, RowsKept, Fits, CardFits, DefinitionFits
<1>9. AttachKnown' /\ Replaced'
  BY DEF TypeOK, AttachKnown, Replaced, projectionVars
<1>10. QED
  BY <1>1, <1>2, <1>3, <1>4, <1>5, <1>6, <1>7, <1>8, <1>9

(* What happens to the Skill does not touch the integration. *)
LEMMA SkillAloneKeeps ==
  ASSUME Inductive, SkillKnows', AttachKnown', UNCHANGED connectVars
  PROVE  Inductive'
<1> USE DEF Inductive, connectVars, locals
<1>1. TypeOK'
  BY DEF TypeOK, SkillKnows
<1>2. DaemonKnows' /\ RowsKept'
  BY DEF DaemonKnows, RowsKept, Fits, CardFits, NotLoaded
<1>3. GrantsKnown' /\ SourceKnown' /\ PreviousKnown' /\ Replaced'
  BY DEF GrantsKnown, SourceKnown, PreviousKnown, Replaced
<1>4. AdaptersKnown'
  BY DEF AdaptersKnown, CardFits, DefinitionFits
<1>5. QED
  BY <1>1, <1>2, <1>3, <1>4

LEMMA SkillStepKeeps ==
  ASSUME Inductive,
         AttachStep \/ DoctorAttach \/ DoctorAttached \/ Meddle,
         UNCHANGED connectVars
  PROVE  Inductive'
<1> USE DEF rows, files, connectVars
<1>0. SkillKnows /\ AttachKnown
  BY DEF Inductive
<1>1. SkillKnows'
  BY <1>0, AttachStepKeeps, OthersKeepSkill, ConnectAssumption DEF DoctorAttach, DoctorAttached
<1>2. AttachKnown'
  <2>1. CASE AttachStep
    <3>1. client' = client
      BY <1>0, <2>1, AttachStepKeeps
    <3>2. workspaceRow /\ step # "entered" => workspaceRow' /\ step' # "entered"
      BY <2>1 DEF AttachStep, Inspect, Stage, FailEarly, SwapOut, SwapOutFails, MoveIn,
                  MoveInFails, Seal, SealFails, PutWorkspace, PutSkill, RefreshWorkspace,
                  RecordFails, Proceed
    <3>3. QED
      BY <1>0, <3>1, <3>2 DEF AttachKnown
  <2>2. CASE DoctorAttach
    BY <1>0, <2>2 DEF DoctorAttach, Attach, AttachKnown
  <2>3. CASE DoctorAttached
    BY <1>0, <2>3, ProjectionAssumption, ConnectAssumption
       DEF DoctorAttached, Release, AttachKnown
  <2>4. CASE Meddle
    BY <1>0, <2>4 DEF Meddle, AttachKnown
  <2>5. QED
    BY <2>1, <2>2, <2>3, <2>4
<1>3. QED
  BY <1>1, <1>2, SkillAloneKeeps

(* A connect attaches the Skill, and goes on or gives up. *)
LEMMA ConnectAttachKeeps ==
  ASSUME Inductive, ConnectAttach \/ ConnectAttached
  PROVE  Inductive'
<1> USE ProjectionAssumption, ConnectAssumption
    DEF Inductive, ConnectAttach, ConnectAttached, Goto, locals, runtime,
        Pending, Connecting, Granting, Undoing, Touched
<1>0. /\ at \in {"granted", "attaching"}
      /\ at' \in {"attaching", "replacing", "revoking"}
      /\ at = "granted" => at' = "attaching"
      /\ UNCHANGED <<disk, catalog, grants, daemon, registered, cached, live, request,
                     previous, found, added, before, drifted, spoiled>>
  BY DEF AttachKnown
<1>1. SkillKnows'
  BY OthersKeepSkill
<1>2. TypeOK'
  BY <1>0, <1>1 DEF TypeOK, SkillKnows, Place
<1>3. AttachKnown'
  <2>1. CASE ConnectAttach
    BY <2>1 DEF AttachKnown, Attach
  <2>2. CASE ConnectAttached
    BY <2>2 DEF AttachKnown, Release, SkillKnows, rows
  <2>3. QED
    BY <2>1, <2>2
<1> HIDE DEF ConnectAttach, ConnectAttached
<1>4. DaemonKnows'
  BY <1>0 DEF DaemonKnows, Fits, CardFits, NotLoaded
<1>5. RowsKept' /\ GrantsKnown' /\ SourceKnown' /\ PreviousKnown' /\ Replaced'
  BY <1>0 DEF RowsKept, Fits, GrantsKnown, SourceKnown, PreviousKnown, Replaced
<1>6. AdaptersKnown'
  BY <1>0 DEF AdaptersKnown, CardFits, DefinitionFits
<1>7. QED
  BY <1>1, <1>2, <1>3, <1>4, <1>5, <1>6

(* The daemon dies, with the request it works on. *)
LEMMA CrashKeeps ==
  ASSUME Inductive, Crash
  PROVE  Inductive'
<1> USE NoSource, ProjectionAssumption, ConnectAssumption
    DEF Inductive, Crash, Goto, locals, runtime,
        Pending, Connecting, Granting, Undoing, Touched
<1>1. SkillKnows'
  BY OthersKeepSkill
<1>2. TypeOK'
  BY <1>1 DEF TypeOK, SkillKnows, Place, NoPrevious
<1>3. AttachKnown'
  BY DEF AttachKnown, CrashProjection
<1>4. DaemonKnows'
  BY DEF DaemonKnows, NotLoaded
<1>5. RowsKept' /\ GrantsKnown' /\ SourceKnown' /\ PreviousKnown' /\ Replaced' /\ AdaptersKnown'
  BY DEF RowsKept, GrantsKnown, SourceKnown, PreviousKnown, Replaced, AdaptersKnown
<1>6. QED
  BY <1>1, <1>2, <1>3, <1>4, <1>5

----------------------------------------------------------------------------

LEMMA StepKeeps == Inductive /\ [Next]_vars => Inductive'
<1> SUFFICES ASSUME Inductive, [Next]_vars PROVE Inductive'
  OBVIOUS
<1>1. CASE ConnectStep /\ UNCHANGED projectionVars
  BY <1>1, ReadSourceKeeps, WriteSourceKeeps, DiscoverKeeps, DiscoverFailsKeeps, GrantKeeps,
     ReplaceKeeps, ReplaceFailsKeeps, RevokeKeeps, UnregisterKeeps, UnwriteKeeps, FinishKeeps
     DEF ConnectStep
<1>2. CASE /\ \/ \E s \in Source : RequestConnect(s)
              \/ RequestDisconnect \/ Delete \/ CloseAdapter
           /\ UNCHANGED projectionVars
  BY <1>2, RequestConnectKeeps, RequestDisconnectKeeps, DeleteKeeps, CloseAdapterKeeps
<1>3. CASE /\ \/ Start \/ Restore \/ (\E c \in Capability : RestoreGrant(c)) \/ Serve
              \/ Edit
           /\ UNCHANGED projectionVars
  BY <1>3, StartKeeps, RestoreKeeps, RestoreGrantKeeps, EditKeeps
<1>4. CASE (AttachStep \/ DoctorAttach \/ DoctorAttached \/ Meddle) /\ UNCHANGED connectVars
  BY <1>4, SkillStepKeeps
<1>5. CASE ConnectAttach \/ ConnectAttached \/ Crash
  BY <1>5, ConnectAttachKeeps, CrashKeeps
<1>6. CASE UNCHANGED vars
  <2>1. SkillKnows' /\ AttachKnown'
    BY <1>6, OthersKeepSkill DEF vars, connectVars, projectionVars, Inductive, AttachKnown
  <2>2. QED
    BY <1>6, <2>1, SkillAloneKeeps DEF vars
<1>7. QED
  BY <1>1, <1>2, <1>3, <1>4, <1>5, <1>6 DEF Next

(* Every step of a connect knows what it would have to undo, and where the  *)
(* integration is in use nothing of another is left in an adapter.          *)
THEOREM InductiveHolds == Spec => []Inductive
BY InitInductive, StepKeeps, PTL DEF Spec

(***************************************************************************)
(* Whenever no request is at work, catalog, grants, adapters and the live  *)
(* provider are of one integration (Connect, Disconnect and                *)
(* restoreDeclarativeProvider), through failed connects, failed undoing,   *)
(* edits of the source and crashes.                                        *)
(***************************************************************************)
THEOREM RuntimeInAgreement == Spec => []RuntimeAgrees
<1>1. Inductive => RuntimeAgrees
  BY DEF Inductive, DaemonKnows, Fits, CardFits, RuntimeAgrees
<1>2. QED
  BY <1>1, InductiveHolds, PTL

(***************************************************************************)
(* Connect does all or nothing: one that fails has undone what it did,     *)
(* unless the undoing failed or the source was edited, and one that        *)
(* succeeds has put in place what a run needs.                             *)
(***************************************************************************)
THEOREM ConnectsAllOrNothing == Spec => []AllOrNothing
<1>1. Inductive => AllOrNothing
  <2> SUFFICES ASSUME Inductive PROVE AllOrNothing
    OBVIOUS
  <2> USE DEF Inductive, Pending
  <2>1. CASE at = "failed"
    <3>1. catalog = before.catalog /\ live = before.live
      BY <2>1 DEF RowsKept
    <3>2. registered = before.registered \/ drifted
      BY <2>1 DEF AdaptersKnown, Touched, Granting
    <3>3. QED
      BY <2>1, <3>1, <3>2 DEF AllOrNothing, GrantsKnown, SourceKnown
  <2>2. CASE at = "connected"
    <3>1. daemon = "serving" /\ live = catalog.provider /\ catalog.caps \subseteq grants
      BY <2>2 DEF DaemonKnows, Fits
    <3>2. QED
      BY <2>2, <3>1 DEF AllOrNothing, Replaced, AttachKnown
  <2>3. CASE at \notin {"failed", "connected"}
    BY <2>3 DEF AllOrNothing
  <2>4. QED
    BY <2>1, <2>2, <2>3
<1>2. QED
  BY <1>1, InductiveHolds, PTL
=============================================================================
