------------------------------ MODULE Connect -------------------------------
(***************************************************************************)
(* Connect, disconnect and Restore (internal/app) for one integration name *)
(* of one workspace.  A connect writes the canonical source, loads it into *)
(* the adapter, discovers its capabilities, grants them, attaches the      *)
(* gateway Skill and replaces the integration in the catalog; when a step  *)
(* fails it undoes the earlier ones, and each of those may fail as well.   *)
(* The daemon may crash at any step; the next one restores from the        *)
(* catalog and the source.  Meanwhile the user edits the source, and       *)
(* doctor --fix attaches the Skill.                                        *)
(*                                                                         *)
(* The mutation lock and the gate have no variable: the request at work    *)
(* holds them (CallRuntime has those who wait for them, and the runs).     *)
(* Of an A2A integration the adapter caches the card, of an MCP one it     *)
(* keeps nothing between runs.                                             *)
(***************************************************************************)
EXTENDS Projection

CONSTANT
  Source   \* sources that parse: [protocol, endpoint, declares]

(* The endpoint of an HTTP source is made of its name, which is one here. *)
ASSUME ConnectAssumption ==
  /\ \A s \in Source : s.protocol \in {"api", "mcp", "a2a"}
  /\ \A s, t \in Source :
       s.protocol = "api" /\ t.protocol = "api" => s.endpoint = t.endpoint
  /\ {"connect", "doctor"} \subseteq Client

VARIABLES
  disk,        \* .9a/integrations/<name>.yaml: Source, NoFile or Broken
  catalog,     \* the rows of providers and capabilities, or NoRow
  grants,      \* the rows of acl
  daemon,      \* "down", "restoring", "granting", "serving"
  registered,  \* declarative.Adapter.sources
  cached,      \* a2a.Adapter.cache: the provider of the card
  live,        \* App.providers
  at,          \* where the request at work is
  request,     \* the source of the connect
  previous,    \* what it has read of the integration it replaces
  found,       \* the capabilities it has discovered
  added,       \* those it was the first to grant
  before,      \* everything as the request found it
  drifted,     \* whether disk was changed since it was loaded
  spoiled      \* what others changed, or could not be undone, since then

connectVars == <<disk, catalog, grants, daemon, registered, cached, live, at,
                 request, previous, found, added, before, drifted, spoiled>>

vars == <<connectVars, projectionVars>>

NoFile == [protocol |-> "none", endpoint |-> "none", declares |-> {}]

Broken == [protocol |-> "broken", endpoint |-> "none", declares |-> {}]

(* integrationProvider. *)
ProviderOf(s) == [protocol |-> s.protocol, endpoint |-> s.endpoint]

Capability == UNION {s.declares : s \in Source}

NoRow == [provider |-> ProviderOf(NoFile), caps |-> {}]

Connected == catalog # NoRow

Place == {"idle", "reading", "writing", "discovering", "granting", "granted",
          "attaching", "replacing", "connected",
          "revoking", "unregistering", "unwriting", "failed",
          "deleting", "closing", "disconnected"}

NoPrevious == [config |-> NoFile, source |-> NoFile]

NothingBefore == [disk |-> NoFile, catalog |-> NoRow, grants |-> {},
                  registered |-> NoFile, live |-> ProviderOf(NoFile)]

locals == <<request, previous, found, added, before>>

runtime == <<registered, cached, live>>

NotLoaded ==
  /\ registered = NoFile
  /\ cached = ProviderOf(NoFile)
  /\ live = ProviderOf(NoFile)

Init ==
  /\ ProjectionInit
  /\ disk \in Source \cup {NoFile, Broken}
  /\ catalog = NoRow
  /\ grants = {}
  /\ daemon = "serving"
  /\ NotLoaded
  /\ at = "idle"
  /\ request = NoFile
  /\ previous = NoPrevious
  /\ found = {}
  /\ added = {}
  /\ before = NothingBefore
  /\ drifted = FALSE
  /\ spoiled = {}

Goto(place) == at' = place

(***************************************************************************)
(* Connect up to the lookup of the integration it replaces, whose source   *)
(* must still be a valid one of the same type.                             *)
(***************************************************************************)
CanReplace(s) ==
  Connected => /\ catalog.provider.protocol = s.protocol
               /\ disk \in Source
               /\ disk.protocol = s.protocol

Begin(place) ==
  /\ daemon = "serving"
  /\ at = "idle"
  /\ Goto(place)
  /\ before' = [disk |-> disk, catalog |-> catalog, grants |-> grants,
                registered |-> registered, live |-> live]
  /\ spoiled' = {}

RequestConnect(s) ==
  /\ CanReplace(s)
  /\ Begin("reading")
  /\ request' = s
  /\ previous' = [NoPrevious EXCEPT !.config = IF Connected THEN disk ELSE NoFile]
  /\ UNCHANGED <<disk, catalog, grants, daemon, runtime, found, added, drifted>>

(* The source is read once more, to be put back. *)
ReadSource ==
  /\ at = "reading"
  /\ \/ Goto("writing") /\ previous' = [previous EXCEPT !.source = disk]
     \/ Goto("failed") /\ UNCHANGED previous
  /\ UNCHANGED <<disk, catalog, grants, daemon, runtime, request, found, added,
                 before, drifted, spoiled>>

(* writeDeclarativeSource replaces the file by a rename; it may fail after. *)
WriteSource ==
  /\ at = "writing"
  /\ \/ Goto("discovering") /\ disk' = request
     \/ Goto("unwriting") /\ disk' \in {disk, request}
  /\ UNCHANGED <<catalog, grants, daemon, runtime, locals, drifted, spoiled>>

(* Register and Discover of a declarative source need only the source. *)
DiscoverDeclared ==
  /\ at = "discovering"
  /\ request.protocol = "api"
  /\ registered' = request
  /\ found' = request.declares
  /\ Goto("granting")
  /\ UNCHANGED <<disk, catalog, grants, daemon, cached, live, request, previous,
                 added, before, drifted, spoiled>>

(* An A2A card that is fetched is cached. *)
CacheOf(s) == IF s.protocol = "a2a" THEN ProviderOf(s) ELSE cached

(* The upstream offers some of the capabilities. *)
DiscoverUpstream ==
  /\ at = "discovering"
  /\ request.protocol # "api"
  /\ cached' = CacheOf(request)
  /\ found' \in SUBSET request.declares
  /\ Goto("granting")
  /\ UNCHANGED <<disk, catalog, grants, daemon, registered, live, request,
                 previous, added, before, drifted, spoiled>>

(* No answer, or a card that is fetched and then found invalid. *)
DiscoverFails ==
  /\ at = "discovering"
  /\ request.protocol # "api"
  /\ cached' \in {CacheOf(request), cached}
  /\ Goto("unregistering")
  /\ UNCHANGED <<disk, catalog, grants, daemon, registered, live, locals,
                 drifted, spoiled>>

(* grantIntegrationCapabilities: GrantIfAbsent, capability by capability. *)
Grant(c) ==
  /\ at = "granting"
  /\ c \in found \ grants
  /\ grants' = grants \cup {c}
  /\ added' = added \cup {c}
  /\ UNCHANGED <<disk, catalog, daemon, runtime, at, request, previous, found,
                 before, drifted, spoiled>>

GrantsEnd ==
  /\ at = "granting"
  /\ \/ found \subseteq grants /\ Goto("granted")
     \/ Goto("revoking")
  /\ UNCHANGED <<disk, catalog, grants, daemon, runtime, locals, drifted, spoiled>>

(* Projection, called while the locks are held. *)
ConnectAttach ==
  /\ at = "granted"
  /\ Attach("connect")
  /\ Goto("attaching")
  /\ UNCHANGED <<disk, catalog, grants, daemon, runtime, locals, drifted, spoiled>>

ConnectAttached ==
  /\ client = "connect"
  /\ \/ Release("attached") /\ Goto("replacing")
     \/ Release("failed") /\ Goto("revoking")
  /\ UNCHANGED <<disk, catalog, grants, daemon, runtime, locals, drifted, spoiled>>

(* ReplaceProviderCapabilities: a transaction. *)
PutCatalog(provider, caps) ==
  /\ catalog' = [provider |-> provider, caps |-> caps]
  /\ grants' = grants \ (catalog.caps \ caps)

Replace ==
  /\ at = "replacing"
  /\ PutCatalog(ProviderOf(request), found)
  /\ live' = ProviderOf(request)
  /\ drifted' = ("source" \in spoiled)
  /\ Goto("connected")
  /\ UNCHANGED <<disk, daemon, registered, cached, locals, spoiled>>

ReplaceFails ==
  /\ at = "replacing"
  /\ Goto("revoking")
  /\ UNCHANGED <<disk, catalog, grants, daemon, runtime, locals, drifted, spoiled>>

----------------------------------------------------------------------------
(* Undoing: each step is tried, whatever became of the one before.  The    *)
(* database, the file system or an upstream may fail it, or the 30 seconds *)
(* from before discovery are over.                                         *)

(* Mutant: every grant of what was discovered is revoked. *)
RevokeFound ==
  /\ at = "revoking"
  /\ grants' = grants \ found
  /\ UNCHANGED spoiled
  /\ Goto("unregistering")
  /\ UNCHANGED <<disk, catalog, daemon, runtime, locals, drifted>>

(* revokeIntegrationGrants. *)
Revoke ==
  /\ at = "revoking"
  /\ \E kept \in SUBSET added :
       /\ grants' = grants \ (added \ kept)
       /\ spoiled' = spoiled \cup (IF kept = {} THEN {} ELSE {"grants"})
  /\ Goto("unregistering")
  /\ UNCHANGED <<disk, catalog, daemon, runtime, locals, drifted>>

(* Mutant: an A2A adapter keeps the card it has fetched. *)
UnregisterDeclared ==
  /\ at = "unregistering"
  /\ registered' = IF request.protocol = "api" THEN previous.config ELSE registered
  /\ UNCHANGED cached
  /\ Goto("unwriting")
  /\ UNCHANGED <<disk, catalog, grants, daemon, live, locals, drifted, spoiled>>

(***************************************************************************)
(* restoreIntegrationAdapter: the source there was before is registered    *)
(* again, or none; the card is dropped, and that of the provider before    *)
(* fetched, if the agent answers.                                          *)
(***************************************************************************)
Unregister ==
  /\ at = "unregistering"
  /\ IF request.protocol = "api"
       THEN registered' = previous.config /\ UNCHANGED cached
       ELSE /\ cached' \in {ProviderOf(NoFile)}
                 \cup (IF request.protocol = "a2a" THEN {catalog.provider} ELSE {})
            /\ UNCHANGED registered
  /\ Goto("unwriting")
  /\ UNCHANGED <<disk, catalog, grants, daemon, live, locals, drifted, spoiled>>

(* restoreDeclarativeSource, and Connect returns the error. *)
Unwrite ==
  /\ at = "unwriting"
  /\ \/ disk' = previous.source /\ UNCHANGED <<drifted, spoiled>>
     \/ /\ disk' \in {disk, previous.source}
        /\ drifted' = TRUE
        /\ spoiled' = spoiled \cup {"source"}
  /\ Goto("failed")
  /\ UNCHANGED <<catalog, grants, daemon, runtime, locals>>

(* The answer is given, the locks are released. *)
Finish ==
  /\ at \in {"connected", "failed", "disconnected"}
  /\ Goto("idle")
  /\ request' = NoFile
  /\ previous' = NoPrevious
  /\ found' = {}
  /\ added' = {}
  /\ before' = NothingBefore
  /\ spoiled' = {}
  /\ UNCHANGED <<disk, catalog, grants, daemon, runtime, drifted>>

----------------------------------------------------------------------------
(* disconnect: out of the catalog, then out of the adapter. *)

RequestDisconnect ==
  /\ Connected
  /\ Begin("deleting")
  /\ UNCHANGED <<disk, catalog, grants, daemon, runtime, request, previous,
                 found, added, drifted>>

(* DeleteProvider, a transaction, and App.providers. *)
Delete ==
  /\ at = "deleting"
  /\ \/ /\ catalog' = NoRow
        /\ grants' = grants \ catalog.caps
        /\ live' = ProviderOf(NoFile)
        /\ Goto("closing")
     \/ /\ Goto("failed")
        /\ UNCHANGED <<catalog, grants, live>>
  /\ UNCHANGED <<disk, daemon, registered, cached, locals, drifted, spoiled>>

(* Adapter.Close, of whatever type. *)
CloseAdapter ==
  /\ at = "closing"
  /\ registered' = NoFile
  /\ cached' = ProviderOf(NoFile)
  /\ Goto("disconnected")
  /\ UNCHANGED <<disk, catalog, grants, daemon, live, locals, drifted, spoiled>>

----------------------------------------------------------------------------
(* The daemon dies and the next one starts. *)

Crash ==
  /\ daemon # "down"
  /\ daemon' = "down"
  /\ registered' = NoFile
  /\ cached' = ProviderOf(NoFile)
  /\ live' = ProviderOf(NoFile)
  /\ Goto("idle")
  /\ request' = NoFile
  /\ previous' = NoPrevious
  /\ found' = {}
  /\ added' = {}
  /\ before' = NothingBefore
  /\ spoiled' = {}
  /\ UNCHANGED <<disk, catalog, grants, drifted>>
  /\ CrashProjection

Start ==
  /\ daemon = "down"
  /\ daemon' = "restoring"
  /\ UNCHANGED <<disk, catalog, grants, runtime, at, locals, drifted, spoiled>>

(* The source is there, valid and of the type in the catalog. *)
Restorable == disk \in Source /\ disk.protocol = catalog.provider.protocol

(* MCP and A2A keep what they have, if the source is of the same provider. *)
RestoredCaps ==
  IF disk.protocol = "api"
    THEN disk.declares
    ELSE IF ProviderOf(disk) = catalog.provider THEN catalog.caps ELSE {}

(* A source that cannot be used leaves the integration without capabilities. *)
Restore ==
  /\ daemon = "restoring"
  /\ daemon' = "granting"
  /\ IF ~Connected
       THEN UNCHANGED <<catalog, grants, registered, live>>
       ELSE IF ~Restorable
         THEN /\ PutCatalog(catalog.provider, {})
              /\ live' = catalog.provider
              /\ UNCHANGED registered
         ELSE /\ PutCatalog(ProviderOf(disk), RestoredCaps)
              /\ live' = ProviderOf(disk)
              /\ registered' = IF disk.protocol = "api" THEN disk ELSE registered
  /\ drifted' = FALSE
  /\ UNCHANGED <<disk, cached, at, locals, spoiled>>

RestoreGrant(c) ==
  /\ daemon = "granting"
  /\ c \in catalog.caps \ grants
  /\ grants' = grants \cup {c}
  /\ UNCHANGED <<disk, catalog, daemon, runtime, at, locals, drifted, spoiled>>

(* The calls are recovered (CallRuntime); the API is served. *)
Serve ==
  /\ daemon = "granting"
  /\ catalog.caps \subseteq grants
  /\ daemon' = "serving"
  /\ UNCHANGED <<disk, catalog, grants, runtime, at, locals, drifted, spoiled>>

----------------------------------------------------------------------------
(* The user edits, replaces or removes the source. *)
Edit ==
  /\ disk' \in (Source \cup {NoFile, Broken}) \ {disk}
  /\ drifted' = TRUE
  /\ spoiled' = IF at = "idle" THEN {} ELSE spoiled \cup {"source"}
  /\ UNCHANGED <<catalog, grants, daemon, runtime, at, locals>>

(* doctor --fix attaches the Skill without the mutation lock; when it also *)
(* reconnects a source, that is a connect like any other.                  *)
DoctorAttach == daemon = "serving" /\ Attach("doctor")

DoctorAttached == client = "doctor" /\ (Release("attached") \/ Release("failed"))

ConnectStep ==
  \/ ReadSource \/ WriteSource \/ DiscoverDeclared \/ DiscoverUpstream \/ DiscoverFails
  \/ (\E c \in Capability : Grant(c)) \/ GrantsEnd \/ Replace \/ ReplaceFails
  \/ Revoke \/ Unregister \/ Unwrite \/ Finish

Next ==
  \/ /\ \/ \E s \in Source : RequestConnect(s)
        \/ ConnectStep
        \/ RequestDisconnect \/ Delete \/ CloseAdapter
        \/ Start \/ Restore \/ (\E c \in Capability : RestoreGrant(c)) \/ Serve
        \/ Edit
     /\ UNCHANGED projectionVars
  \/ (AttachStep \/ DoctorAttach \/ DoctorAttached \/ Meddle) /\ UNCHANGED connectVars
  \/ ConnectAttach \/ ConnectAttached \/ Crash

Spec == Init /\ [][Next]_vars

----------------------------------------------------------------------------
(* Properties. *)

TypeOK ==
  /\ ProjectionTypeOK
  /\ disk \in Source \cup {NoFile, Broken}
  /\ catalog \in [provider : {ProviderOf(s) : s \in Source \cup {NoFile}},
                  caps : SUBSET Capability]
  /\ grants \in SUBSET Capability
  /\ daemon \in {"down", "restoring", "granting", "serving"}
  /\ registered \in Source \cup {NoFile}
  /\ {cached, live} \subseteq {ProviderOf(s) : s \in Source \cup {NoFile}}
  /\ at \in Place
  /\ request \in Source \cup {NoFile}
  /\ previous \in [config : Source \cup {NoFile}, source : Source \cup {NoFile, Broken}]
  /\ found \in SUBSET Capability
  /\ added \in SUBSET Capability
  /\ drifted \in BOOLEAN
  /\ spoiled \in SUBSET {"source", "grants"}

(***************************************************************************)
(* Whenever no request is at work, what a run finds fits together: a       *)
(* catalogued integration is the live one, no adapter holds anything of    *)
(* another, every capability in the catalog may be used, and an HTTP       *)
(* adapter has the definition of exactly those, unless the source was      *)
(* changed behind its back.                                                *)
(***************************************************************************)
RuntimeAgrees ==
  /\ TypeOK
  /\ daemon = "serving" /\ at = "idle" =>
       /\ live = catalog.provider
       /\ catalog.caps \subseteq grants
       /\ registered # NoFile => ProviderOf(registered) = live
       /\ cached # ProviderOf(NoFile) => cached = live
       /\ Connected /\ live.protocol = "api" /\ ~drifted =>
            registered.declares = catalog.caps

(***************************************************************************)
(* A connect does all or nothing.  A request that fails, at whatever step, *)
(* leaves the catalog and the live provider as it found them, and the      *)
(* grants, the source and the HTTP definition too, unless undoing them     *)
(* failed or the source was edited.  A connect that succeeds has put in    *)
(* place all that a run needs, and left no grant of a capability the       *)
(* integration no longer has.                                              *)
(***************************************************************************)
AllOrNothing ==
  /\ at = "failed" =>
       /\ catalog = before.catalog
       /\ live = before.live
       /\ grants = before.grants \/ "grants" \in spoiled
       /\ disk = before.disk \/ "source" \in spoiled
       /\ registered = before.registered \/ drifted
  /\ at = "connected" =>
       /\ catalog = [provider |-> ProviderOf(request), caps |-> found]
       /\ live = catalog.provider
       /\ found \subseteq grants
       /\ (before.catalog.caps \ found) \cap grants = {}
       /\ disk = request \/ "source" \in spoiled
       /\ request.protocol = "api" => registered = request
       /\ request.protocol = "a2a" => cached = live
       /\ workspaceRow
=============================================================================
