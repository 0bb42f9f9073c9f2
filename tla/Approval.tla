------------------------------ MODULE Approval ------------------------------
(***************************************************************************)
(* Approval of side-effecting runs (internal/app/run.go): a run of a       *)
(* capability that always requires approval is answered with a token, and  *)
(* only a second run that presents the token is started.  In between the   *)
(* token expires, is evicted, is presented by several runs at once, the    *)
(* capability is replaced or removed, and the daemon restarts.             *)
(*                                                                         *)
(* A run takes one step per lock it takes: resolving the capability, one   *)
(* critical section of approvalMu, and starting the call while it holds    *)
(* the provider gate for reading (Connect and disconnect hold it for       *)
(* writing around the change of the catalog).                              *)
(***************************************************************************)
EXTENDS FiniteSets, Functions, Integers, Sequences

CONSTANTS
  Identity,       \* authenticated callers
  Capability,     \* capabilities, each of an integration of its own
  Input,          \* JSON inputs; SHA-256 tells any two of them apart
  Token,          \* random approval tokens
  NoToken,        \* a run without --approve
  NoChallenge,    \* the lookup of a token that is not pending
  Run,            \* run requests
  MaxPending,     \* maxPendingApprovals
  TTL,            \* approvalTTL, in clock ticks
  MaxRevision, MaxClock   \* model bounds on catalog changes and time

VARIABLES
  revision,       \* metadata.catalog_revision
  catalog,        \* the capabilities: [a set of Capability -> Version]
  approvals,      \* App.approvals: [a set of Token -> Challenge]
  approvalOrder,  \* App.approvalOrder, oldest first
  runs,           \* requests received, what each has read and where it is
  clock

vars == <<revision, catalog, approvals, approvalOrder, runs, clock>>

Version == [revision : Nat, always : BOOLEAN]

Challenge == [identity : Identity, capability : Capability, revision : Nat,
              input : Input, expiresAt : Nat]

ASSUME ApprovalAssumption ==
  /\ NoToken \notin Token
  /\ NoChallenge \notin Challenge
  /\ MaxPending \in Nat \ {0}
  /\ TTL \in Nat
  /\ MaxRevision \in Nat
  /\ MaxClock \in Nat

Place == {"resolved",                   \* capability read, input validated
          "checking",                   \* token taken out of the table
          "cleared",                    \* may start the call
          "running", "ended",           \* call created, call finished
          "required",                   \* answered approval_required
          "mismatch", "changed",        \* answered so
          "refused"}                    \* any other error, or the daemon is gone

RunRecord == [at         : Place,
              identity   : Identity,
              capability : Capability,
              input      : Input,
              approval   : Token \cup {NoToken},       \* presented
              resolved   : Version,
              challenge  : Challenge \cup {NoChallenge},
              issued     : Token \cup {NoToken}]       \* answered

Received == DOMAIN runs

Started == {r \in Received : runs[r].at \in {"running", "ended"}}

----------------------------------------------------------------------------
Init ==
  /\ revision = 0
  /\ catalog = [c \in {} |-> 0]
  /\ approvals = [t \in {} |-> NoChallenge]
  /\ approvalOrder = <<>>
  /\ runs = [r \in {} |-> 0]
  /\ clock = 0

(***************************************************************************)
(* A request arrives; ResolveWorkspaceCapability reads the catalog without *)
(* any lock.  Any caller may present any token, or none.                   *)
(***************************************************************************)
Resolve(r, i, c, x, t) ==
  /\ r \notin Received
  /\ c \in DOMAIN catalog
  /\ runs' = [q \in Received \cup {r} |->
                IF q = r
                  THEN [at |-> "resolved", identity |-> i, capability |-> c,
                        input |-> x, approval |-> t, resolved |-> catalog[c],
                        challenge |-> NoChallenge, issued |-> NoToken]
                  ELSE runs[q]]
  /\ UNCHANGED <<revision, catalog, approvals, approvalOrder, clock>>

(***************************************************************************)
(* Errors that end the run early: permission, invalid input, the           *)
(* credential preflight, a full call store, an unavailable provider.       *)
(***************************************************************************)
Refuse(r) ==
  /\ r \in Received
  /\ runs[r].at \in {"resolved", "cleared"}
  /\ runs' = [runs EXCEPT ![r].at = "refused"]
  /\ UNCHANGED <<revision, catalog, approvals, approvalOrder, clock>>

SameRequest(ch, r) ==
  /\ ch.identity = runs[r].identity
  /\ ch.capability = runs[r].capability
  /\ ch.input = runs[r].input

----------------------------------------------------------------------------
(* issueApproval. *)

(* Mutant: a token reissued for the same request does not replace the old one. *)
StillPendingTwice(t, r) ==
  /\ t \in DOMAIN approvals
  /\ approvals[t].expiresAt > clock

StillPending(t, r) ==
  /\ t \in DOMAIN approvals
  /\ approvals[t].expiresAt > clock
  /\ ~(/\ SameRequest(approvals[t], r)
       /\ approvals[t].revision = runs[r].resolved.revision)

(***************************************************************************)
(* The tokens of a queue that are in S, in the order they have in it: the  *)
(* k-th of them is the one at the place that is the k-th of theirs.  This  *)
(* is SelectSeq without its recursion, so that it can be reasoned about.   *)
(***************************************************************************)
Kept(order, S) ==
  LET places  == {i \in DOMAIN order : order[i] \in S}
      Rank(i) == Cardinality({j \in places : j <= i})
  IN  [k \in 1..Cardinality(places) |-> order[CHOOSE i \in places : Rank(i) = k]]

(* Mutant: the new token is counted before it is stored. *)
IssueEvictsEarly(r, t) ==
  LET pending  == {u \in DOMAIN approvals : StillPending(u, r)}
      kept     == Kept(approvalOrder, pending)
      live     == pending \cup (DOMAIN approvals \ Range(approvalOrder))
      full     == Cardinality(live) + 1 >= MaxPending /\ kept # <<>>
      left     == IF full THEN live \ {Head(kept)} ELSE live
      new      == [identity |-> runs[r].identity, capability |-> runs[r].capability,
                   revision |-> runs[r].resolved.revision, input |-> runs[r].input,
                   expiresAt |-> clock + TTL]
  IN  /\ approvals' = [u \in left \cup {t} |-> IF u = t THEN new ELSE approvals[u]]
      /\ approvalOrder' = Append(IF full THEN Tail(kept) ELSE kept, t)

(* The table is purged; if it is still full the oldest challenge goes. *)
Issue(r, t) ==
  LET pending  == {u \in DOMAIN approvals : StillPending(u, r)}
      kept     == Kept(approvalOrder, pending)
      live     == pending \cup (DOMAIN approvals \ Range(approvalOrder))
      full     == Cardinality(live) >= MaxPending /\ kept # <<>>
      left     == IF full THEN live \ {Head(kept)} ELSE live
      new      == [identity |-> runs[r].identity, capability |-> runs[r].capability,
                   revision |-> runs[r].resolved.revision, input |-> runs[r].input,
                   expiresAt |-> clock + TTL]
  IN  /\ approvals' = [u \in left \cup {t} |-> IF u = t THEN new ELSE approvals[u]]
      /\ approvalOrder' = Append(IF full THEN Tail(kept) ELSE kept, t)

(* A random token, so one that was never issued before. *)
RequireApproval(r, t) ==
  /\ r \in Received
  /\ runs[r].at = "resolved"
  /\ runs[r].resolved.always
  /\ runs[r].approval = NoToken
  /\ \A q \in Received : runs[q].issued # t
  /\ Issue(r, t)
  /\ runs' = [runs EXCEPT ![r].at = "required", ![r].issued = t]
  /\ UNCHANGED <<revision, catalog, clock>>

NeedsNoApproval(r) ==
  /\ r \in Received
  /\ runs[r].at = "resolved"
  /\ ~runs[r].resolved.always
  /\ runs[r].approval = NoToken
  /\ runs' = [runs EXCEPT ![r].at = "cleared"]
  /\ UNCHANGED <<revision, catalog, approvals, approvalOrder, clock>>

----------------------------------------------------------------------------
(* consumeApproval: the token leaves the table whatever the checks say. *)

Lookup(t) == IF t \in DOMAIN approvals THEN approvals[t] ELSE NoChallenge

(* Mutant: the token is only read; a later issue purges it. *)
TakeTokenKept(r) ==
  /\ r \in Received
  /\ runs[r].at = "resolved"
  /\ runs[r].approval # NoToken
  /\ runs' = [runs EXCEPT ![r].at = "checking",
                          ![r].challenge = Lookup(runs[r].approval)]
  /\ UNCHANGED <<approvals, approvalOrder, revision, catalog, clock>>

TakeToken(r) ==
  /\ r \in Received
  /\ runs[r].at = "resolved"
  /\ runs[r].approval # NoToken
  /\ runs' = [runs EXCEPT ![r].at = "checking",
                          ![r].challenge = Lookup(runs[r].approval)]
  /\ approvals' = Restrict(approvals, DOMAIN approvals \ {runs[r].approval})
  /\ approvalOrder' = Kept(approvalOrder, Token \ {runs[r].approval})
  /\ UNCHANGED <<revision, catalog, clock>>

(* The checks of the challenge, after approvalMu was released. *)
Verdict(r) ==
  LET ch == runs[r].challenge
  IN  IF ch = NoChallenge \/ (ch # NoChallenge /\ ch.expiresAt <= clock)
        THEN "mismatch"
        ELSE IF ch.revision # runs[r].resolved.revision THEN "changed"
        ELSE IF SameRequest(ch, r) THEN "cleared" ELSE "mismatch"

CheckToken(r) ==
  /\ r \in Received
  /\ runs[r].at = "checking"
  /\ runs' = [runs EXCEPT ![r].at = Verdict(r)]
  /\ UNCHANGED <<revision, catalog, approvals, approvalOrder, clock>>

----------------------------------------------------------------------------
(* startCallAtRevision, while the provider gate is held for reading. *)

(* Mutant: the call is started without the expected revision. *)
StartAnyRevision(r) ==
  /\ r \in Received
  /\ runs[r].at = "cleared"
  /\ runs[r].capability \in DOMAIN catalog
  /\ runs' = [runs EXCEPT ![r].at = "running",
                          ![r].resolved = catalog[runs[r].capability]]
  /\ UNCHANGED <<revision, catalog, approvals, approvalOrder, clock>>

(* What the call runs is the capability read again under the gate. *)
Start(r) ==
  /\ r \in Received
  /\ runs[r].at = "cleared"
  /\ runs[r].capability \in DOMAIN catalog
  /\ LET current == catalog[runs[r].capability]
     IN  runs' = IF current.revision = runs[r].resolved.revision
                   THEN [runs EXCEPT ![r].at = "running", ![r].resolved = current]
                   ELSE [runs EXCEPT ![r].at = "changed"]
  /\ UNCHANGED <<revision, catalog, approvals, approvalOrder, clock>>

(* The call finishes and the gate is released. *)
Finish(r) ==
  /\ r \in Received
  /\ runs[r].at = "running"
  /\ runs' = [runs EXCEPT ![r].at = "ended"]
  /\ UNCHANGED <<revision, catalog, approvals, approvalOrder, clock>>

----------------------------------------------------------------------------
(* The environment of the runs. *)

(* Mutant: the catalog is changed without waiting for the calls in progress. *)
GateIgnored(c) == c \in Capability

(* The write lock of the gate: no call of the capability is in progress. *)
GateFree(c) == \A r \in Received : runs[r].at = "running" => runs[r].capability # c

(* ReplaceProviderCapabilities, called by Connect with the gate held. *)
Replace(c, always) ==
  /\ revision < MaxRevision
  /\ GateFree(c)
  /\ revision' = revision + 1
  /\ catalog' = [d \in DOMAIN catalog \cup {c} |->
                   IF d = c THEN [revision |-> revision + 1, always |-> always]
                            ELSE catalog[d]]
  /\ UNCHANGED <<approvals, approvalOrder, runs, clock>>

(* DeleteProvider, called by disconnect with the gate held. *)
Delete(c) ==
  /\ revision < MaxRevision
  /\ c \in DOMAIN catalog
  /\ GateFree(c)
  /\ revision' = revision + 1
  /\ catalog' = Restrict(catalog, DOMAIN catalog \ {c})
  /\ UNCHANGED <<approvals, approvalOrder, runs, clock>>

(* Challenges live in memory only; the catalog is in the database. *)
Restart ==
  /\ approvals' = [t \in {} |-> NoChallenge]
  /\ approvalOrder' = <<>>
  /\ runs' = [r \in Received |->
                CASE runs[r].at \in {"resolved", "checking", "cleared"}
                       -> [runs[r] EXCEPT !.at = "refused"]
                  [] runs[r].at = "running" -> [runs[r] EXCEPT !.at = "ended"]
                  [] OTHER                  -> runs[r]]
  /\ UNCHANGED <<revision, catalog, clock>>

Tick ==
  /\ clock < MaxClock
  /\ clock' = clock + 1
  /\ UNCHANGED <<revision, catalog, approvals, approvalOrder, runs>>

RunStep(r) ==
  \/ \E i \in Identity, c \in Capability, x \in Input, t \in Token \cup {NoToken} :
       Resolve(r, i, c, x, t)
  \/ Refuse(r)
  \/ \E t \in Token : RequireApproval(r, t)
  \/ NeedsNoApproval(r)
  \/ TakeToken(r)
  \/ CheckToken(r)
  \/ Start(r)
  \/ Finish(r)

Next ==
  \/ \E r \in Run : RunStep(r)
  \/ \E c \in Capability, always \in BOOLEAN : Replace(c, always)
  \/ \E c \in Capability : Delete(c)
  \/ Restart
  \/ Tick

Spec == Init /\ [][Next]_vars

----------------------------------------------------------------------------
(* Properties. *)

(* The tables hold challenges of known callers, and every request a place. *)
TypeOK ==
  /\ revision \in Nat
  /\ DOMAIN catalog \subseteq Capability
  /\ catalog \in [DOMAIN catalog -> Version]
  /\ DOMAIN approvals \subseteq Token
  /\ approvals \in [DOMAIN approvals -> Challenge]
  /\ approvalOrder \in Seq(Token)
  /\ Received \subseteq Run
  /\ runs \in [Received -> RunRecord]
  /\ clock \in Nat

(***************************************************************************)
(* A call of a capability that requires approval is started only with the  *)
(* token of a preflight by the same caller, for the same capability and    *)
(* input, that saw exactly the version of the capability the call runs:    *)
(* however the capability was replaced, removed and connected again        *)
(* between the preflight, the second request and the start, even when the  *)
(* second request itself read a version that needed no approval.           *)
(***************************************************************************)
StartsAreApproved ==
  \A r \in Started :
    runs[r].resolved.always =>
      \E q \in Received :
        /\ runs[q].at = "required"
        /\ runs[q].issued = runs[r].approval
        /\ runs[q].identity = runs[r].identity
        /\ runs[q].capability = runs[r].capability
        /\ runs[q].input = runs[r].input
        /\ runs[q].resolved = runs[r].resolved

(* One token starts at most one call, though requests present it at once,  *)
(* before and after a restart.                                             *)
TokenStartsOnce ==
  \A r, q \in Started :
    r # q /\ runs[r].approval # NoToken => runs[r].approval # runs[q].approval

(* A call in progress runs the version that is in the catalog: Connect and *)
(* disconnect wait for it, and a call waits for them.                      *)
RunsCurrentVersion ==
  \A r \in Received :
    runs[r].at = "running" =>
      /\ runs[r].capability \in DOMAIN catalog
      /\ catalog[runs[r].capability] = runs[r].resolved

(***************************************************************************)
(* The table and the queue of pending tokens name the same tokens, each    *)
(* once, within the limit, and one request has at most one pending token.  *)
(***************************************************************************)
PendingOrderly ==
  /\ TypeOK
  /\ Range(approvalOrder) = DOMAIN approvals
  /\ IsInjective(approvalOrder)
  /\ Len(approvalOrder) <= MaxPending
  /\ \A t, u \in DOMAIN approvals :
       t # u => \E field \in {"identity", "capability", "revision", "input"} :
                  approvals[t][field] # approvals[u][field]

(***************************************************************************)
(* A token the user was told to bring back is still there unless it        *)
(* expired, was presented, was replaced by a newer token for the same      *)
(* request, the daemon restarted, or MaxPending other live challenges      *)
(* crowded it out.                                                         *)
(***************************************************************************)
LiveOthers(t) == {u \in DOMAIN approvals \ {t} : approvals[u].expiresAt > clock}

TokensLostOnlyWhenFull ==
  [][\A t \in DOMAIN approvals \ DOMAIN approvals' :
       \/ approvals[t].expiresAt <= clock
       \/ \E r \in Received : runs[r].approval = t /\ runs[r].at = "resolved"
                                             /\ runs'[r].at = "checking"
       \/ \E u \in DOMAIN approvals' \ DOMAIN approvals :
            \/ [approvals'[u] EXCEPT !.expiresAt = 0] = [approvals[t] EXCEPT !.expiresAt = 0]
            \/ Cardinality(LiveOthers(t)) + 1 >= MaxPending
       \/ Restart]_vars
=============================================================================
