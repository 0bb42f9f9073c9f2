----------------------------- MODULE CallStore -----------------------------
(***************************************************************************)
(* The call repository (internal/call): the tables that hold every call    *)
(* with its input, result, events and usage counters, and the operations   *)
(* on them.  Each operation is one BEGIN IMMEDIATE transaction over one    *)
(* database connection, rolled back whole when it fails, so each is one    *)
(* action, enabled exactly when the transaction commits a change.          *)
(*                                                                         *)
(* The six tables are keyed by the call ID and cascade on delete: they are *)
(* one record per stored call here.                                        *)
(***************************************************************************)
EXTENDS FiniteSets, Integers, Sequences

CONSTANTS
  CallID,              \* call IDs; their order is the text order of the IDs
  Identity,            \* identities that own calls
  Payload,             \* JSON documents: inputs, results, event envelopes
  Size,                \* Size[p]: the length of payload p in bytes
  NoResult,            \* a call without a row in call_results
  Target,              \* states callers ask Transition for
  MaxIdentityActive, MaxGlobalActive,       \* quotas on active calls
  MaxIdentityRetained, MaxGlobalRetained,   \* quotas on stored calls
  MaxIdentityBytes, MaxGlobalBytes,         \* quotas on stored bytes
  MaxEvents, MaxEventBytes,                 \* limits on one call's events
  TicksPerSecond,      \* clock resolution: a timestamp has one fraction digit
  MaxClock             \* model bound on the wall clock

State == {"created", "submitted", "working", "input_required",
          "auth_required", "completed", "failed", "canceled", "rejected"}

Terminal == {"completed", "failed", "canceled", "rejected"}

(***************************************************************************)
(* The limits are constants of the code, of which the store only needs to  *)
(* know that the active calls fit among the retained ones (8 and 64 among  *)
(* 1000 and 10000, repository.go:21-24).                                   *)
(***************************************************************************)
ASSUME StoreAssumption ==
  /\ CallID \subseteq Nat
  /\ Size \in [Payload -> Nat]
  /\ NoResult \notin Payload
  /\ Target \subseteq State \ {"completed"}
  /\ MaxIdentityActive \in Nat \ {0}
  /\ MaxGlobalActive \in Nat \ {0}
  /\ MaxIdentityRetained \in Nat \ {0}
  /\ MaxGlobalRetained \in Nat \ {0}
  /\ MaxIdentityActive <= MaxIdentityRetained
  /\ MaxGlobalActive <= MaxGlobalRetained
  /\ MaxIdentityBytes \in Nat
  /\ MaxGlobalBytes \in Nat
  /\ MaxEvents \in Nat
  /\ MaxEventBytes \in Nat
  /\ TicksPerSecond \in Nat \ {0}
  /\ MaxClock \in Nat

VARIABLES
  calls,    \* the stored calls: [a set of CallID -> Row]
  clock     \* wall clock, in ticks

vars == <<calls, clock>>

Row == [identity     : Identity,
        state        : State,
        created      : Nat,
        updated      : Nat,
        input        : Payload,
        result       : Payload \cup {NoResult},
        events       : Seq(Payload),
        eventCount   : Nat,     \* call_event_usage.event_count
        eventBytes   : Nat,     \* call_event_usage.byte_count
        storageBytes : Nat]     \* call_storage_usage.byte_count

Stored == DOMAIN calls

----------------------------------------------------------------------------
(* The state machine of one call. *)

NextStates ==
  [s \in State |->
     CASE s = "created"   -> {"submitted", "failed", "rejected", "canceled"}
       [] s = "submitted" -> {"working", "failed", "canceled", "rejected"}
       [] s = "working"   -> {"input_required", "auth_required"} \cup Terminal
       [] s \in {"input_required", "auth_required"}
                          -> {"working", "canceled", "failed"}
       [] OTHER           -> {}]

CanTransition(from, to) == to \in NextStates[from]

----------------------------------------------------------------------------
(* Usage of a set S of stored calls. *)

OwnedBy(S, i) == {c \in S : calls[c].identity = i}

Active(S) == {c \in S : calls[c].state \notin Terminal}

(* The sum of the natural numbers f[x], as the number of marks if each x   *)
(* carries f[x] of them: a sum that needs no recursion.                    *)
Marks(f) == UNION {{x} \X (1..f[x]) : x \in DOMAIN f}

Total(f) == Cardinality(Marks(f))

StorageBytes(S) == Total([c \in S |-> calls[c].storageBytes])

(* Mutant: the active quotas are compared with > instead of >=. *)
ActiveRoomOffByOne(S, i) ==
  /\ Cardinality(Active(OwnedBy(S, i))) <= MaxIdentityActive
  /\ Cardinality(Active(S)) <= MaxGlobalActive

(***************************************************************************)
(* checkCreateQuota, one quota at a time: S still has room for a call of   *)
(* identity i with n bytes of input.                                       *)
(***************************************************************************)
ActiveRoom(S, i) ==
  /\ Cardinality(Active(OwnedBy(S, i))) < MaxIdentityActive
  /\ Cardinality(Active(S)) < MaxGlobalActive

(* Mutant: the retained quotas are compared with > instead of >=. *)
HasRoomOffByOne(q, S, i, n) ==
  CASE q = "identityCalls" -> Cardinality(OwnedBy(S, i)) <= MaxIdentityRetained
    [] q = "globalCalls"   -> Cardinality(S) <= MaxGlobalRetained
    [] q = "identityBytes" -> n <= MaxIdentityBytes - StorageBytes(OwnedBy(S, i))
    [] q = "globalBytes"   -> n <= MaxGlobalBytes - StorageBytes(S)

HasRoom(q, S, i, n) ==
  CASE q = "identityCalls" -> Cardinality(OwnedBy(S, i)) < MaxIdentityRetained
    [] q = "globalCalls"   -> Cardinality(S) < MaxGlobalRetained
    [] q = "identityBytes" -> n <= MaxIdentityBytes - StorageBytes(OwnedBy(S, i))
    [] q = "globalBytes"   -> n <= MaxGlobalBytes - StorageBytes(S)

----------------------------------------------------------------------------
(* Pruning. *)

(***************************************************************************)
(* Timestamps are compared as RFC3339Nano text.  The format drops trailing *)
(* zeros of the fraction, and "Z" sorts after ".": a whole second sorts    *)
(* after every fraction of that second.                                    *)
(***************************************************************************)
TextOrder(t) ==
  LET fraction == t % TicksPerSecond
  IN  (t \div TicksPerSecond) * (TicksPerSecond + 1)
        + (IF fraction = 0 THEN TicksPerSecond ELSE fraction)

(* ORDER BY updated_at, created_at, id. *)
SortsBefore(c, d) ==
  LET updated(x) == TextOrder(calls[x].updated)
      created(x) == TextOrder(calls[x].created)
  IN  \/ updated(c) < updated(d)
      \/ updated(c) = updated(d) /\ created(c) < created(d)
      \/ updated(c) = updated(d) /\ created(c) = created(d) /\ c < d

(* Mutants: the scope, or the state, is left out of the WHERE clause. *)
PrunableOwnOnly(q, S, i) == OwnedBy(S, i) \ Active(S)

PrunableAnyOwner(q, S, i) == S \ Active(S)

PrunableAnyState(q, S, i) ==
  IF q \in {"identityCalls", "identityBytes"} THEN OwnedBy(S, i) ELSE S

(* The terminal calls that may be deleted when quota q is exceeded. *)
Prunable(q, S, i) ==
  (IF q \in {"identityCalls", "identityBytes"} THEN OwnedBy(S, i) ELSE S)
    \ Active(S)

(***************************************************************************)
(* D is what the loop of pruneTerminalCallsForCreate deletes from S while  *)
(* q is the first quota exceeded: the prunable calls that sort first, and  *)
(* no more of them than it takes to make room.                             *)
(***************************************************************************)
Pruned(D, q, S, i, n) ==
  LET pool == Prunable(q, S, i)
  IN  /\ D \subseteq pool
      /\ \A d \in D, e \in pool \ D : SortsBefore(d, e)
      /\ HasRoom(q, S \ D, i, n)
      /\ \A d \in D : (\A e \in D \ {d} : SortsBefore(e, d))
                        => ~HasRoom(q, (S \ D) \cup {d}, i, n)

(* What may be left of each set in Ss once quota q has room. *)
Prune(q, Ss, i, n) ==
  UNION {{S \ D : D \in {E \in SUBSET Prunable(q, S, i) : Pruned(E, q, S, i, n)}}
           : S \in Ss}

(***************************************************************************)
(* The calls left after pruning for a call of identity i with n bytes of   *)
(* input: the quotas are satisfied one after the other, and deleting calls *)
(* never breaks one that already holds.  Empty when the loop gives up, and *)
(* the transaction is rolled back.                                         *)
(***************************************************************************)
AfterPruning(i, n) ==
  Prune("globalBytes",
    Prune("identityBytes",
      Prune("globalCalls",
        Prune("identityCalls", {Stored}, i, n), i, n), i, n), i, n)

(* Mutant: the identity's share is not checked. *)
FitsRetainedGlobally(c, n) == n <= MaxGlobalBytes - StorageBytes(Stored)

(* addRetainedBytes: n more bytes may be stored for call c. *)
FitsRetained(c, n) ==
  /\ n <= MaxIdentityBytes - StorageBytes(OwnedBy(Stored, calls[c].identity))
  /\ n <= MaxGlobalBytes - StorageBytes(Stored)

----------------------------------------------------------------------------
(* The operations. *)

Init ==
  /\ calls = [c \in {} |-> NoResult]
  /\ clock = 0

(* Mutant: UpdatedAt keeps the zero time, before every clock value. *)
NewCallZeroTime(i, p) ==
  [identity |-> i, state |-> "submitted", created |-> clock, updated |-> -1,
   input |-> p, result |-> NoResult, events |-> <<>>,
   eventCount |-> 0, eventBytes |-> 0, storageBytes |-> Size[p]]

NewCall(i, p) ==
  [identity |-> i, state |-> "submitted", created |-> clock, updated |-> clock,
   input |-> p, result |-> NoResult, events |-> <<>>,
   eventCount |-> 0, eventBytes |-> 0, storageBytes |-> Size[p]]

(* A random ID, so never that of a stored call; the app creates calls submitted. *)
Create(c, i, p) ==
  /\ c \notin Stored
  /\ ActiveRoom(Stored, i)
  /\ \E kept \in AfterPruning(i, Size[p]) :
       calls' = [d \in kept \cup {c} |-> IF d = c THEN NewCall(i, p) ELSE calls[d]]
  /\ UNCHANGED clock

Transition(c, to) ==
  /\ c \in Stored
  /\ CanTransition(calls[c].state, to)
  /\ calls' = [calls EXCEPT ![c].state = to, ![c].updated = clock]
  /\ UNCHANGED clock

(* Mutant: the result is stored without counting its bytes. *)
CompleteUncounted(c, r) ==
  /\ c \in Stored
  /\ CanTransition(calls[c].state, "completed")
  /\ calls' = [calls EXCEPT ![c].state = "completed", ![c].updated = clock,
                            ![c].result = r]
  /\ UNCHANGED clock

(* Mutant: a result that arrives after the call settled is stored anyway. *)
CompleteLate(c, r) ==
  /\ c \in Stored
  /\ calls[c].state # "completed"
  /\ FitsRetained(c, Size[r])
  /\ calls' = [calls EXCEPT
                 ![c].state = IF CanTransition(@, "completed") THEN "completed" ELSE @,
                 ![c].updated = clock,
                 ![c].result = r,
                 ![c].storageBytes = @ + Size[r]]
  /\ UNCHANGED clock

(***************************************************************************)
(* Repeating Complete with the stored result changes nothing and is not a  *)
(* step; any other repetition is refused.                                  *)
(***************************************************************************)
Complete(c, r) ==
  /\ c \in Stored
  /\ CanTransition(calls[c].state, "completed")
  /\ FitsRetained(c, Size[r])
  /\ calls' = [calls EXCEPT ![c].state = "completed",
                            ![c].updated = clock,
                            ![c].result = r,
                            ![c].storageBytes = @ + Size[r]]
  /\ UNCHANGED clock

(* The call may be in any state: the store does not refuse late events. *)
AppendEvent(c, p) ==
  /\ c \in Stored
  /\ calls[c].eventCount < MaxEvents
  /\ calls[c].eventBytes <= MaxEventBytes - Size[p]
  /\ FitsRetained(c, Size[p])
  /\ calls' = [calls EXCEPT ![c].events = Append(@, p),
                            ![c].eventCount = @ + 1,
                            ![c].eventBytes = @ + Size[p],
                            ![c].storageBytes = @ + Size[p]]
  /\ UNCHANGED clock

(* Mutant: the WHERE clause of recovery is lost. *)
RecoverEverything ==
  /\ Active(Stored) # {}
  /\ calls' = [c \in Stored |-> [calls[c] EXCEPT !.state = "failed", !.updated = clock]]
  /\ UNCHANGED clock

(* A starting daemon fails every call the previous one left unfinished. *)
RecoverInterrupted ==
  /\ Active(Stored) # {}
  /\ calls' = [c \in Stored |->
                 IF c \in Active(Stored)
                   THEN [calls[c] EXCEPT !.state = "failed", !.updated = clock]
                   ELSE calls[c]]
  /\ UNCHANGED clock

Tick ==
  /\ clock < MaxClock
  /\ clock' = clock + 1
  /\ UNCHANGED calls

Next ==
  \/ \E c \in CallID, i \in Identity, p \in Payload : Create(c, i, p)
  \/ \E c \in CallID, to \in Target : Transition(c, to)
  \/ \E c \in CallID, r \in Payload : Complete(c, r)
  \/ \E c \in CallID, p \in Payload : AppendEvent(c, p)
  \/ RecoverInterrupted
  \/ Tick

Spec == Init /\ [][Next]_vars

----------------------------------------------------------------------------
(* Properties. *)

(* Every stored row has the columns of its tables, keyed by known call IDs. *)
TypeOK ==
  /\ Stored \subseteq CallID
  /\ calls \in [Stored -> Row]
  /\ clock \in Nat

(***************************************************************************)
(* The active-call quotas of an identity and of the daemon hold however    *)
(* admissions, transitions and restarts interleave (Create counts before   *)
(* it inserts).                                                            *)
(***************************************************************************)
ActiveWithinQuota ==
  /\ Cardinality(Active(Stored)) <= MaxGlobalActive
  /\ \A i \in Identity :
       Cardinality(Active(OwnedBy(Stored, i))) <= MaxIdentityActive

(* The retained-call quotas hold after every admission, pruning included. *)
RetainedWithinQuota ==
  /\ Cardinality(Stored) <= MaxGlobalRetained
  /\ \A i \in Identity :
       Cardinality(OwnedBy(Stored, i)) <= MaxIdentityRetained

(***************************************************************************)
(* The payload bytes really stored, for an identity and in all, stay       *)
(* within the byte quotas although the code only ever sums the counters of *)
(* call_storage_usage.                                                     *)
(***************************************************************************)
PayloadBytes(c) ==
  Size[calls[c].input]
    + (IF calls[c].result = NoResult THEN 0 ELSE Size[calls[c].result])
    + Total([k \in DOMAIN calls[c].events |-> Size[calls[c].events[k]]])

BytesWithinQuota ==
  /\ Total([c \in Stored |-> PayloadBytes(c)]) <= MaxGlobalBytes
  /\ \A i \in Identity :
       Total([c \in OwnedBy(Stored, i) |-> PayloadBytes(c)]) <= MaxIdentityBytes

(***************************************************************************)
(* The two usage tables agree with each other and with the rows they       *)
(* summarise, after any mix of appends, completions and failures: a counter *)
(* that drifts would let a quota be exceeded or block a call for ever.     *)
(***************************************************************************)
UsageAgrees ==
  \A c \in Stored :
    /\ calls[c].eventCount = Len(calls[c].events)
    /\ calls[c].storageBytes =
         Size[calls[c].input] + calls[c].eventBytes
           + (IF calls[c].result = NoResult THEN 0 ELSE Size[calls[c].result])
    /\ calls[c].eventCount <= MaxEvents
    /\ calls[c].eventBytes <= MaxEventBytes

(* A call has a result exactly when it is completed. *)
ResultIffCompleted ==
  \A c \in Stored : calls[c].result # NoResult <=> calls[c].state = "completed"

(***************************************************************************)
(* Admission never gives up while pruning could help: a call is refused    *)
(* only if an active quota is reached or the active calls alone leave too  *)
(* few bytes.  In particular one identity's finished calls never keep      *)
(* another identity out.                                                   *)
(***************************************************************************)
AdmissionComplete ==
  \A i \in Identity, p \in Payload :
    /\ ActiveRoom(Stored, i)
    /\ Size[p] <= MaxIdentityBytes - StorageBytes(Active(OwnedBy(Stored, i)))
    /\ Size[p] <= MaxGlobalBytes - StorageBytes(Active(Stored))
    => AfterPruning(i, Size[p]) # {}

(***************************************************************************)
(* What a settled call says is final: as long as it is stored, its state,  *)
(* result, input and owner never change, whatever finishes late, whatever  *)
(* restarts.                                                               *)
(***************************************************************************)
Settlement(c) ==
  <<calls[c].identity, calls[c].state, calls[c].input, calls[c].result>>

TerminalIsFinal ==
  [][\A c \in Stored \cap Stored' :
       calls[c].state \in Terminal => Settlement(c)' = Settlement(c)]_vars

(***************************************************************************)
(* An identity that exhausts its own quotas pays with its own calls: a     *)
(* call of another identity goes only when the whole store is full.        *)
(***************************************************************************)
OthersPrunedOnlyWhenFull ==
  [][\A new \in Stored' \ Stored, gone \in Stored \ Stored' :
       calls'[new].identity # calls[gone].identity =>
         \/ Cardinality(Stored) >= MaxGlobalRetained
         \/ calls'[new].storageBytes > MaxGlobalBytes - StorageBytes(Stored)]_vars

(***************************************************************************)
(* docs/SECURITY.md:93-94, "pruning the oldest terminal calls when         *)
(* admitting new work": no call is pruned while one of the same owner that *)
(* finished earlier is kept.                                               *)
(***************************************************************************)
PrunesOldestFirst ==
  [][\A gone \in Stored \ Stored', left \in Stored \cap Stored' :
       /\ calls[left].state \in Terminal
       /\ calls[left].identity = calls[gone].identity
       => calls[gone].updated <= calls[left].updated]_vars

(***************************************************************************)
(* How far that goes wrong: timestamps as text sort by their seconds, so   *)
(* no call is pruned while one of the same owner that finished in an       *)
(* earlier second is kept.                                                 *)
(***************************************************************************)
PrunesOldestSecondFirst ==
  [][\A gone \in Stored \ Stored', left \in Stored \cap Stored' :
       /\ calls[left].state \in Terminal
       /\ calls[left].identity = calls[gone].identity
       => calls[gone].updated \div TicksPerSecond
            <= calls[left].updated \div TicksPerSecond]_vars

----------------------------------------------------------------------------
(* The store implements the abstract life of calls. *)

(* What the abstract specification sees of the stored calls. *)
Phase ==
  [c \in Stored |-> IF calls[c].state \in Terminal THEN calls[c].state ELSE "open"]

Lifecycle == INSTANCE CallLifecycle WITH
  Outcome  <- Terminal,
  Capacity <- MaxGlobalActive,
  phase    <- Phase

(* Every operation of the repository is an admission, a settlement or      *)
(* invisible at the level of the abstract lifecycle.                       *)
ImplementsLifecycle == Lifecycle!Spec
=============================================================================
