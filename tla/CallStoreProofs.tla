-------------------------- MODULE CallStoreProofs --------------------------
(***************************************************************************)
(* Proofs about CallStore: type correctness, the quotas on calls and on    *)
(* bytes, the usage counters, the finality of settled calls, when a call   *)
(* is admitted and what is deleted to make room for it, and that the store *)
(* implements CallLifecycle.                                               *)
(***************************************************************************)
EXTENDS CallStore, FiniteSetTheorems, WellFoundedInduction, TLAPS

----------------------------------------------------------------------------
(* What pruning leaves. *)

(***************************************************************************)
(* Pruning for one quota deletes only settled calls and ends with room     *)
(* under that quota.                                                       *)
(***************************************************************************)
LEMMA PruneOneQuota ==
  ASSUME NEW q, NEW Ss, NEW i, NEW n, NEW T \in Prune(q, Ss, i, n)
  PROVE  \E S \in Ss : T \subseteq S /\ Active(S) \subseteq T /\ HasRoom(q, T, i, n)
<1>1. PICK S \in Ss : \E D \in SUBSET Prunable(q, S, i) : T = S \ D /\ Pruned(D, q, S, i, n)
  BY DEF Prune
<1>2. PICK D \in SUBSET Prunable(q, S, i) :
         T = S \ D /\ Pruned(D, q, S, i, n)
  BY <1>1
<1>3. D \cap Active(S) = {}
  BY DEF Prunable
<1>4. Active(S) \subseteq S
  BY DEF Active
<1>5. HasRoom(q, T, i, n)
  BY <1>2 DEF Pruned
<1>6. QED
  BY <1>2, <1>3, <1>4, <1>5

(* The active calls of a smaller set are those of the larger one in it. *)
LEMMA ActiveOfSubset ==
  ASSUME NEW S, NEW T, T \subseteq S, Active(S) \subseteq T
  PROVE  Active(S) = Active(T)
BY DEF Active

(***************************************************************************)
(* Pruning for a new call keeps every active call and leaves room under    *)
(* both retained-call quotas: each quota that was satisfied stays so while *)
(* later ones are worked on.                                               *)
(***************************************************************************)
LEMMA PruneAllQuotas ==
  ASSUME IsFiniteSet(Stored), NEW i \in Identity, NEW n,
         NEW kept \in AfterPruning(i, n)
  PROVE  /\ kept \subseteq Stored
         /\ Active(kept) = Active(Stored)
         /\ Cardinality(OwnedBy(kept, i)) < MaxIdentityRetained
         /\ Cardinality(kept) < MaxGlobalRetained
<1> DEFINE P1 == Prune("identityCalls", {Stored}, i, n)
           P2 == Prune("globalCalls", P1, i, n)
           P3 == Prune("identityBytes", P2, i, n)
           P4 == Prune("globalBytes", P3, i, n)
<1>0. kept \in P4
  BY DEF AfterPruning
<1> HIDE DEF P1, P2, P3, P4
<1>1. PICK T3 \in P3 : kept \subseteq T3 /\ Active(T3) \subseteq kept
  BY <1>0, PruneOneQuota DEF P4
<1>2. PICK T2 \in P2 : T3 \subseteq T2 /\ Active(T2) \subseteq T3
  BY PruneOneQuota DEF P3
<1>3. PICK T1 \in P1 : /\ T2 \subseteq T1 /\ Active(T1) \subseteq T2
                       /\ HasRoom("globalCalls", T2, i, n)
  BY PruneOneQuota DEF P2
<1>4. /\ T1 \subseteq Stored /\ Active(Stored) \subseteq T1
      /\ HasRoom("identityCalls", T1, i, n)
  BY PruneOneQuota DEF P1
<1>5. Active(kept) = Active(Stored)
  BY <1>1, <1>2, <1>3, <1>4, ActiveOfSubset
<1>6. Cardinality(OwnedBy(kept, i)) < MaxIdentityRetained
  <2>1. Cardinality(OwnedBy(T1, i)) < MaxIdentityRetained
    BY <1>4 DEF HasRoom
  <2>2. OwnedBy(kept, i) \subseteq OwnedBy(T1, i) /\ OwnedBy(T1, i) \subseteq Stored
    BY <1>1, <1>2, <1>3, <1>4 DEF OwnedBy
  <2>3. IsFiniteSet(OwnedBy(T1, i))
    BY <2>2, FS_Subset
  <2>4. QED
    BY <2>1, <2>2, <2>3, FS_Subset, FS_CardinalityType, StoreAssumption
<1>7. Cardinality(kept) < MaxGlobalRetained
  <2>1. Cardinality(T2) < MaxGlobalRetained
    BY <1>3 DEF HasRoom
  <2>2. kept \subseteq T2 /\ T2 \subseteq Stored
    BY <1>1, <1>2, <1>3, <1>4
  <2>3. IsFiniteSet(T2)
    BY <2>2, FS_Subset
  <2>4. QED
    BY <2>1, <2>2, <2>3, FS_Subset, FS_CardinalityType, StoreAssumption
<1>8. QED
  BY <1>1, <1>2, <1>3, <1>4, <1>5, <1>6, <1>7

----------------------------------------------------------------------------
(* Every row of the store is well formed. *)

(* The stored calls are always finitely many: each admission adds one. *)
StoreFinite == IsFiniteSet(Stored)

(* A stored row is a row: the tables hold calls with all their columns. *)
LEMMA StoredRow ==
  ASSUME TypeOK, NEW c \in Stored
  PROVE  /\ calls[c] \in Row
         /\ calls[c].identity \in Identity
         /\ calls[c].state \in State
         /\ calls[c].created \in Nat
         /\ calls[c].updated \in Nat
         /\ calls[c].input \in Payload
         /\ calls[c].result \in Payload \cup {NoResult}
         /\ calls[c].events \in Seq(Payload)
         /\ calls[c].eventCount \in Nat
         /\ calls[c].eventBytes \in Nat
         /\ calls[c].storageBytes \in Nat
BY DEF TypeOK, Row

(***************************************************************************)
(* Creating a call keeps the store finite and every row well formed,       *)
(* whatever pruning deleted first.                                         *)
(***************************************************************************)
LEMMA CreateTyped ==
  ASSUME TypeOK, StoreFinite, NEW c \in CallID, NEW i \in Identity,
         NEW p \in Payload, Create(c, i, p)
  PROVE  TypeOK' /\ StoreFinite'
<1>1. PICK kept \in AfterPruning(i, Size[p]) :
        calls' = [d \in kept \cup {c} |-> IF d = c THEN NewCall(i, p) ELSE calls[d]]
  BY DEF Create
<1>2. kept \subseteq Stored
  BY PruneAllQuotas DEF StoreFinite
<1>3. Stored' = kept \cup {c}
  BY <1>1 DEF Stored
<1>4. NewCall(i, p) \in Row
  BY StoreAssumption DEF NewCall, Row, State, TypeOK
<1>5. \A d \in kept : calls[d] \in Row
  BY <1>2, StoredRow
<1>6. TypeOK'
  BY <1>1, <1>2, <1>3, <1>4, <1>5 DEF TypeOK, Create
<1>7. IsFiniteSet(kept)
  BY <1>2, FS_Subset DEF StoreFinite
<1>8. IsFiniteSet(kept \cup {c})
  BY <1>7, FS_AddElement
<1>9. QED
  BY <1>3, <1>6, <1>8 DEF StoreFinite

(* Every operation keeps the store finite and its rows well formed. *)
LEMMA NextTyped == TypeOK /\ StoreFinite /\ [Next]_vars => TypeOK' /\ StoreFinite'
<1> SUFFICES ASSUME TypeOK, StoreFinite, [Next]_vars
             PROVE  TypeOK' /\ StoreFinite'
  OBVIOUS
<1> USE DEF Stored
<1>1. ASSUME NEW c \in CallID, NEW i \in Identity, NEW p \in Payload, Create(c, i, p)
      PROVE  TypeOK' /\ StoreFinite'
  BY <1>1, CreateTyped
<1>2. ASSUME NEW c \in CallID, NEW to \in Target, Transition(c, to)
      PROVE  TypeOK' /\ StoreFinite'
  <2>1. c \in Stored /\ to \in State /\ clock \in Nat
    BY <1>2, StoreAssumption DEF Transition, TypeOK
  <2>2. [calls[c] EXCEPT !.state = to, !.updated = clock] \in Row
    BY <2>1, StoredRow DEF Row
  <2>3. Stored' = Stored
    BY <1>2 DEF Transition
  <2>4. QED
    BY <1>2, <2>1, <2>2, <2>3 DEF Transition, TypeOK, StoreFinite
<1>3. ASSUME NEW c \in CallID, NEW r \in Payload, Complete(c, r)
      PROVE  TypeOK' /\ StoreFinite'
  <2>1. c \in Stored /\ Size[r] \in Nat /\ clock \in Nat
    BY <1>3, StoreAssumption DEF Complete, TypeOK
  <2>2. [calls[c] EXCEPT !.state = "completed", !.updated = clock, !.result = r,
                         !.storageBytes = @ + Size[r]] \in Row
    <3>1. calls[c].storageBytes + Size[r] \in Nat
      BY <2>1, StoredRow
    <3>2. "completed" \in State
      BY DEF State
    <3>3. calls[c] \in Row
      BY <2>1, StoredRow
    <3>4. QED
      BY <2>1, <3>1, <3>2, <3>3 DEF Row
  <2>3. Stored' = Stored
    BY <1>3 DEF Complete
  <2>4. QED
    BY <1>3, <2>1, <2>2, <2>3 DEF Complete, TypeOK, StoreFinite
<1>4. ASSUME NEW c \in CallID, NEW p \in Payload, AppendEvent(c, p)
      PROVE  TypeOK' /\ StoreFinite'
  <2>1. c \in Stored /\ Size[p] \in Nat
    BY <1>4, StoreAssumption DEF AppendEvent
  <2>2. [calls[c] EXCEPT !.events = Append(@, p), !.eventCount = @ + 1,
                         !.eventBytes = @ + Size[p],
                         !.storageBytes = @ + Size[p]] \in Row
    <3>1. /\ calls[c].eventCount + 1 \in Nat
          /\ calls[c].eventBytes + Size[p] \in Nat
          /\ calls[c].storageBytes + Size[p] \in Nat
      BY <2>1, StoredRow
    <3>2. Append(calls[c].events, p) \in Seq(Payload)
      BY <2>1, StoredRow
    <3>3. calls[c] \in Row
      BY <2>1, StoredRow
    <3>4. QED
      BY <3>1, <3>2, <3>3 DEF Row
  <2>3. Stored' = Stored
    BY <1>4 DEF AppendEvent
  <2>4. QED
    BY <1>4, <2>1, <2>2, <2>3 DEF AppendEvent, TypeOK, StoreFinite
<1>5. ASSUME RecoverInterrupted
      PROVE  TypeOK' /\ StoreFinite'
  <2>1. clock \in Nat
    BY DEF TypeOK
  <2>2. \A c \in Stored :
          [calls[c] EXCEPT !.state = "failed", !.updated = clock] \in Row
    BY <2>1, StoredRow DEF Row, State
  <2>3. Stored' = Stored
    BY <1>5 DEF RecoverInterrupted
  <2>4. QED
    BY <1>5, <2>2, <2>3, StoredRow DEF RecoverInterrupted, TypeOK, StoreFinite
<1>6. ASSUME Tick
      PROVE  TypeOK' /\ StoreFinite'
  BY <1>6 DEF Tick, TypeOK, StoreFinite
<1>7. CASE UNCHANGED vars
  BY <1>7 DEF vars, TypeOK, StoreFinite
<1>8. QED
  BY <1>1, <1>2, <1>3, <1>4, <1>5, <1>6, <1>7 DEF Next

(* Type correctness of the store for every choice of its constants. *)
THEOREM TypeCorrect == Spec => [](TypeOK /\ StoreFinite)
<1>1. Init => TypeOK /\ StoreFinite
  BY FS_EmptySet DEF Init, TypeOK, StoreFinite, Stored
<1>2. QED
  BY <1>1, NextTyped, PTL DEF Spec

----------------------------------------------------------------------------
(* What a step does to the calls already stored. *)

(* The store keeps its calls, their owners and the facts of settled ones. *)
SameCalls ==
  /\ Stored' = Stored
  /\ \A d \in Stored :
       /\ calls'[d].identity = calls[d].identity
       /\ calls'[d].input = calls[d].input
       /\ calls[d].state \in Terminal =>
            calls'[d].state = calls[d].state /\ calls'[d].result = calls[d].result

(* A settled call has no next state. *)
LEMMA TerminalHasNoNext ==
  ASSUME NEW from \in State, NEW to, CanTransition(from, to)
  PROVE  from \notin Terminal
BY DEF CanTransition, NextStates, Terminal, State

(* Every step but an admission keeps the calls and leaves settled ones be. *)
LEMMA StepsKeepCalls ==
  ASSUME TypeOK, [Next]_vars,
         ~ \E c \in CallID, i \in Identity, p \in Payload : Create(c, i, p)
  PROVE  SameCalls
<1> USE DEF Stored
<1>1. ASSUME NEW c \in CallID, NEW to \in Target, Transition(c, to)
      PROVE  SameCalls
  <2>1. c \in Stored /\ calls[c].state \in State /\ calls[c] \in Row
    BY <1>1, StoredRow DEF Transition
  <2>2. calls[c].state \notin Terminal
    BY <1>1, <2>1, TerminalHasNoNext DEF Transition
  <2>3. QED
    BY <1>1, <2>1, <2>2 DEF Transition, SameCalls, Row, TypeOK
<1>2. ASSUME NEW c \in CallID, NEW r \in Payload, Complete(c, r)
      PROVE  SameCalls
  <2>1. c \in Stored /\ calls[c].state \in State /\ calls[c] \in Row
    BY <1>2, StoredRow DEF Complete
  <2>2. calls[c].state \notin Terminal
    BY <1>2, <2>1, TerminalHasNoNext DEF Complete
  <2>3. QED
    BY <1>2, <2>1, <2>2 DEF Complete, SameCalls, Row, TypeOK
<1>3. ASSUME NEW c \in CallID, NEW p \in Payload, AppendEvent(c, p)
      PROVE  SameCalls
  BY <1>3 DEF AppendEvent, SameCalls, Row, TypeOK
<1>4. ASSUME RecoverInterrupted
      PROVE  SameCalls
  BY <1>4 DEF RecoverInterrupted, SameCalls, Row, TypeOK, Active
<1>5. CASE UNCHANGED calls
  BY <1>5 DEF SameCalls
<1>6. QED
  BY <1>1, <1>2, <1>3, <1>4, <1>5 DEF Next, Tick, vars

(***************************************************************************)
(* An admission leaves the calls that survive pruning as they were, adds   *)
(* the new one, and starts from a store with room for it.                  *)
(***************************************************************************)
LEMMA CreateFacts ==
  ASSUME TypeOK, StoreFinite, NEW c \in CallID, NEW i \in Identity,
         NEW p \in Payload, Create(c, i, p)
  PROVE  \E kept \in SUBSET Stored :
           /\ c \notin Stored
           /\ calls' = [d \in kept \cup {c} |->
                          IF d = c THEN NewCall(i, p) ELSE calls[d]]
           /\ Stored' = kept \cup {c}
           /\ \A d \in kept : calls'[d] = calls[d]
           /\ calls'[c] = NewCall(i, p)
           /\ Active(kept) = Active(Stored)
           /\ Cardinality(OwnedBy(kept, i)) < MaxIdentityRetained
           /\ Cardinality(kept) < MaxGlobalRetained
           /\ ActiveRoom(Stored, i)
<1>1. PICK kept \in AfterPruning(i, Size[p]) :
        calls' = [d \in kept \cup {c} |-> IF d = c THEN NewCall(i, p) ELSE calls[d]]
  BY DEF Create
<1>2. /\ kept \subseteq Stored
      /\ Active(kept) = Active(Stored)
      /\ Cardinality(OwnedBy(kept, i)) < MaxIdentityRetained
      /\ Cardinality(kept) < MaxGlobalRetained
  BY PruneAllQuotas DEF StoreFinite
<1>3. c \notin Stored /\ ActiveRoom(Stored, i)
  BY DEF Create
<1>4. Stored' = kept \cup {c}
  BY <1>1 DEF Stored
<1>5. calls'[c] = NewCall(i, p) /\ \A d \in kept : calls'[d] = calls[d]
  BY <1>1, <1>2, <1>3
<1>6. QED
  BY <1>1, <1>2, <1>3, <1>4, <1>5

(* The size of a set that gains one element, or loses some. *)
LEMMA OneMore ==
  ASSUME NEW S, NEW T, NEW x, IsFiniteSet(S), T \subseteq S \cup {x}
  PROVE  IsFiniteSet(T) /\ Cardinality(T) <= Cardinality(S) + 1
<1> DEFINE U == S \cup {x}
<1>1. IsFiniteSet(U) /\ Cardinality(U) <= Cardinality(S) + 1
  <2>1. Cardinality(S) \in Nat
    BY FS_CardinalityType
  <2>2. IsFiniteSet(U) /\ Cardinality(U) =
          (IF x \in S THEN Cardinality(S) ELSE Cardinality(S) + 1)
    BY FS_AddElement
  <2>3. QED
    BY <2>1, <2>2
<1> HIDE DEF U
<1>2. IsFiniteSet(T) /\ Cardinality(T) <= Cardinality(U)
  BY <1>1, FS_Subset DEF U
<1>3. QED
  BY <1>1, <1>2, FS_CardinalityType

LEMMA NoMore ==
  ASSUME NEW S, NEW T, IsFiniteSet(S), T \subseteq S
  PROVE  IsFiniteSet(T) /\ Cardinality(T) <= Cardinality(S)
BY FS_Subset, FS_CardinalityType

----------------------------------------------------------------------------
(* The quotas on calls. *)

(* Nothing but an admission enlarges the calls, or the active ones. *)
LEMMA UsageShrinks ==
  ASSUME SameCalls, NEW i \in Identity
  PROVE  /\ Active(Stored)' \subseteq Active(Stored)
         /\ Active(OwnedBy(Stored, i))' \subseteq Active(OwnedBy(Stored, i))
         /\ OwnedBy(Stored, i)' = OwnedBy(Stored, i)
BY DEF SameCalls, Active, OwnedBy

(* An admission adds at most its own call to what its owner and the daemon use. *)
LEMMA UsageGrowsByOne ==
  ASSUME TypeOK, StoreFinite, NEW c \in CallID, NEW i \in Identity,
         NEW p \in Payload, Create(c, i, p), NEW j \in Identity
  PROVE  /\ Active(Stored)' \subseteq Active(Stored) \cup {c}
         /\ Active(OwnedBy(Stored, j))' \subseteq
              Active(OwnedBy(Stored, j)) \cup (IF j = i THEN {c} ELSE {})
         /\ j # i => OwnedBy(Stored, j)' \subseteq OwnedBy(Stored, j)
<1>1. PICK kept \in SUBSET Stored :
        /\ Stored' = kept \cup {c}
        /\ \A d \in kept : calls'[d] = calls[d]
        /\ calls'[c] = NewCall(i, p)
  BY CreateFacts
<1>2. calls'[c].identity = i
  BY <1>1 DEF NewCall
<1>3. QED
  BY <1>1, <1>2 DEF Active, OwnedBy

(***************************************************************************)
(* Active calls stay within the quotas of every identity and of the        *)
(* daemon, however operations interleave.                                  *)
(***************************************************************************)
THEOREM ActiveQuota == Spec => []ActiveWithinQuota
<1>1. Init => ActiveWithinQuota
  <2> SUFFICES ASSUME Init PROVE ActiveWithinQuota
    OBVIOUS
  <2>1. Active(Stored) = {} /\ \A i \in Identity : Active(OwnedBy(Stored, i)) = {}
    BY DEF Init, Stored, Active, OwnedBy
  <2>2. QED
    BY <2>1, FS_EmptySet, StoreAssumption DEF ActiveWithinQuota
<1>2. ASSUME TypeOK, StoreFinite, ActiveWithinQuota, [Next]_vars
      PROVE  ActiveWithinQuota'
  <2>1. /\ IsFiniteSet(Active(Stored))
        /\ \A i \in Identity : IsFiniteSet(Active(OwnedBy(Stored, i)))
    BY <1>2, FS_Subset DEF StoreFinite, Active, OwnedBy
  <2>2. ASSUME NEW c \in CallID, NEW i \in Identity, NEW p \in Payload,
               Create(c, i, p)
        PROVE  ActiveWithinQuota'
    <3>1. ActiveRoom(Stored, i)
      BY <2>2 DEF Create
    <3>2. Cardinality(Active(Stored)') <= MaxGlobalActive
      <4>1. Active(Stored)' \subseteq Active(Stored) \cup {c}
        BY <1>2, <2>2, UsageGrowsByOne
      <4>2. Cardinality(Active(Stored)') <= Cardinality(Active(Stored)) + 1
        BY <2>1, <4>1, OneMore
      <4>3. IsFiniteSet(Active(Stored)')
        BY <2>1, <4>1, OneMore
      <4>4. QED
        BY <2>1, <3>1, <4>2, <4>3, FS_CardinalityType, StoreAssumption DEF ActiveRoom
    <3>3. ASSUME NEW j \in Identity
          PROVE  Cardinality(Active(OwnedBy(Stored, j))') <= MaxIdentityActive
      <4>1. Active(OwnedBy(Stored, j))' \subseteq
              Active(OwnedBy(Stored, j)) \cup (IF j = i THEN {c} ELSE {})
        BY <1>2, <2>2, UsageGrowsByOne
      <4>2. CASE j = i
        <5>1. Active(OwnedBy(Stored, i))' \subseteq Active(OwnedBy(Stored, i)) \cup {c}
          BY <4>1, <4>2
        <5>2. /\ IsFiniteSet(Active(OwnedBy(Stored, i))')
              /\ Cardinality(Active(OwnedBy(Stored, i))')
                   <= Cardinality(Active(OwnedBy(Stored, i))) + 1
          BY <2>1, <5>1, OneMore
        <5>3. QED
          BY <2>1, <3>1, <4>2, <5>2, FS_CardinalityType, StoreAssumption DEF ActiveRoom
      <4>3. CASE j # i
        <5>1. Active(OwnedBy(Stored, j))' \subseteq Active(OwnedBy(Stored, j))
          BY <4>1, <4>3
        <5>2. /\ IsFiniteSet(Active(OwnedBy(Stored, j))')
              /\ Cardinality(Active(OwnedBy(Stored, j))')
                   <= Cardinality(Active(OwnedBy(Stored, j)))
          BY <2>1, <5>1, NoMore
        <5>3. QED
          BY <1>2, <2>1, <5>2, FS_CardinalityType, StoreAssumption DEF ActiveWithinQuota
      <4>4. QED
        BY <4>2, <4>3
    <3>4. QED
      BY <3>2, <3>3 DEF ActiveWithinQuota
  <2>3. CASE ~ \E c \in CallID, i \in Identity, p \in Payload : Create(c, i, p)
    <3>1. SameCalls
      BY <1>2, <2>3, StepsKeepCalls
    <3>2. Active(Stored)' \subseteq Active(Stored)
      BY <3>1 DEF SameCalls, Active
    <3>3. /\ IsFiniteSet(Active(Stored)')
          /\ Cardinality(Active(Stored)') <= Cardinality(Active(Stored))
      BY <2>1, <3>2, NoMore
    <3>4. ASSUME NEW j \in Identity
          PROVE  Cardinality(Active(OwnedBy(Stored, j))') <= MaxIdentityActive
      <4>1. Active(OwnedBy(Stored, j))' \subseteq Active(OwnedBy(Stored, j))
        BY <3>1, UsageShrinks
      <4>2. /\ IsFiniteSet(Active(OwnedBy(Stored, j))')
            /\ Cardinality(Active(OwnedBy(Stored, j))')
                 <= Cardinality(Active(OwnedBy(Stored, j)))
        BY <2>1, <4>1, NoMore
      <4>3. QED
        BY <1>2, <2>1, <4>2, FS_CardinalityType, StoreAssumption DEF ActiveWithinQuota
    <3>5. Cardinality(Active(Stored)') <= MaxGlobalActive
      BY <1>2, <2>1, <3>3, FS_CardinalityType, StoreAssumption DEF ActiveWithinQuota
    <3>6. QED
      BY <3>4, <3>5 DEF ActiveWithinQuota
  <2>4. QED
    BY <2>2, <2>3
<1>3. QED
  BY <1>1, <1>2, TypeCorrect, PTL DEF Spec

(***************************************************************************)
(* Retained calls stay within the quotas of every identity and of the      *)
(* daemon: pruning always makes the room an admission needs.               *)
(***************************************************************************)
THEOREM RetainedQuota == Spec => []RetainedWithinQuota
<1>1. Init => RetainedWithinQuota
  <2> SUFFICES ASSUME Init PROVE RetainedWithinQuota
    OBVIOUS
  <2>1. Stored = {} /\ \A i \in Identity : OwnedBy(Stored, i) = {}
    BY DEF Init, Stored, OwnedBy
  <2>2. QED
    BY <2>1, FS_EmptySet, StoreAssumption DEF RetainedWithinQuota
<1>2. ASSUME TypeOK, StoreFinite, RetainedWithinQuota, [Next]_vars
      PROVE  RetainedWithinQuota'
  <2>1. \A i \in Identity : IsFiniteSet(OwnedBy(Stored, i))
    BY <1>2, FS_Subset DEF StoreFinite, OwnedBy
  <2>2. ASSUME NEW c \in CallID, NEW i \in Identity, NEW p \in Payload,
               Create(c, i, p)
        PROVE  RetainedWithinQuota'
    <3>1. PICK kept \in SUBSET Stored :
            /\ Stored' = kept \cup {c}
            /\ \A d \in kept : calls'[d] = calls[d]
            /\ Cardinality(OwnedBy(kept, i)) < MaxIdentityRetained
            /\ Cardinality(kept) < MaxGlobalRetained
      BY <1>2, <2>2, CreateFacts
    <3>2. IsFiniteSet(kept) /\ IsFiniteSet(OwnedBy(kept, i))
      BY <1>2, FS_Subset DEF StoreFinite, OwnedBy
    <3>3. Cardinality(Stored') <= MaxGlobalRetained
      <4>1. IsFiniteSet(Stored') /\ Cardinality(Stored') <= Cardinality(kept) + 1
        BY <3>1, <3>2, OneMore
      <4>2. QED
        BY <3>1, <3>2, <4>1, FS_CardinalityType, StoreAssumption
    <3>4. ASSUME NEW j \in Identity
          PROVE  Cardinality(OwnedBy(Stored, j)') <= MaxIdentityRetained
      <4>1. CASE j = i
        <5>1. OwnedBy(Stored, i)' \subseteq OwnedBy(kept, i) \cup {c}
          BY <3>1 DEF OwnedBy
        <5>2. /\ IsFiniteSet(OwnedBy(Stored, i)')
              /\ Cardinality(OwnedBy(Stored, i)') <= Cardinality(OwnedBy(kept, i)) + 1
          BY <3>2, <5>1, OneMore
        <5>3. QED
          BY <3>1, <3>2, <4>1, <5>2, FS_CardinalityType, StoreAssumption
      <4>2. CASE j # i
        <5>1. OwnedBy(Stored, j)' \subseteq OwnedBy(Stored, j)
          BY <1>2, <2>2, <4>2, UsageGrowsByOne
        <5>2. /\ IsFiniteSet(OwnedBy(Stored, j)')
              /\ Cardinality(OwnedBy(Stored, j)') <= Cardinality(OwnedBy(Stored, j))
          BY <2>1, <5>1, NoMore
        <5>3. QED
          BY <1>2, <2>1, <5>2, FS_CardinalityType, StoreAssumption
          DEF RetainedWithinQuota
      <4>3. QED
        BY <4>1, <4>2
    <3>5. QED
      BY <3>3, <3>4 DEF RetainedWithinQuota
  <2>3. CASE ~ \E c \in CallID, i \in Identity, p \in Payload : Create(c, i, p)
    <3>1. SameCalls
      BY <1>2, <2>3, StepsKeepCalls
    <3>2. \A j \in Identity : OwnedBy(Stored, j)' = OwnedBy(Stored, j)
      BY <3>1, UsageShrinks
    <3>3. Stored' = Stored
      BY <3>1 DEF SameCalls
    <3>4. QED
      BY <1>2, <3>2, <3>3 DEF RetainedWithinQuota
  <2>4. QED
    BY <2>2, <2>3
<1>3. QED
  BY <1>1, <1>2, TypeCorrect, PTL DEF Spec

----------------------------------------------------------------------------
(* Usage counters, results and the finality of settled calls. *)

(* A call has a result exactly when it is completed. *)
THEOREM ResultsOfCompleted == Spec => []ResultIffCompleted
<1>1. Init => ResultIffCompleted
  BY DEF Init, ResultIffCompleted, Stored
<1>2. ASSUME TypeOK, StoreFinite, ResultIffCompleted, [Next]_vars
      PROVE  ResultIffCompleted'
  <2>1. ASSUME NEW c \in CallID, NEW i \in Identity, NEW p \in Payload,
               Create(c, i, p)
        PROVE  ResultIffCompleted'
    <3>1. PICK kept \in SUBSET Stored :
            /\ Stored' = kept \cup {c}
            /\ \A d \in kept : calls'[d] = calls[d]
            /\ calls'[c] = NewCall(i, p)
      BY <1>2, <2>1, CreateFacts
    <3>2. QED
      BY <1>2, <3>1 DEF ResultIffCompleted, NewCall
  <2>2. ASSUME NEW c \in CallID, NEW to \in Target, Transition(c, to)
        PROVE  ResultIffCompleted'
    <3>1. c \in Stored /\ calls[c] \in Row /\ calls[c].state # "completed"
      BY <1>2, <2>2, StoredRow, TerminalHasNoNext DEF Transition, Terminal
    <3>2. to # "completed"
      BY StoreAssumption
    <3>3. QED
      BY <1>2, <2>2, <3>1, <3>2 DEF Transition, ResultIffCompleted, TypeOK, Row, Stored
  <2>3. ASSUME NEW c \in CallID, NEW r \in Payload, Complete(c, r)
        PROVE  ResultIffCompleted'
    <3>1. c \in Stored /\ calls[c] \in Row /\ r # NoResult
      BY <1>2, <2>3, StoredRow, StoreAssumption DEF Complete
    <3>2. QED
      BY <1>2, <2>3, <3>1 DEF Complete, ResultIffCompleted, TypeOK, Row, Stored
  <2>4. ASSUME NEW c \in CallID, NEW p \in Payload, AppendEvent(c, p)
        PROVE  ResultIffCompleted'
    BY <1>2, <2>4 DEF AppendEvent, ResultIffCompleted, TypeOK, Row, Stored
  <2>5. ASSUME RecoverInterrupted
        PROVE  ResultIffCompleted'
    <3>1. \A c \in Active(Stored) : calls[c].state # "completed"
      BY DEF Active, Terminal
    <3>2. Stored' = Stored
      BY <2>5 DEF RecoverInterrupted, Stored
    <3>3. \A c \in Stored :
            /\ calls'[c].result = calls[c].result
            /\ calls'[c].state =
                 (IF c \in Active(Stored) THEN "failed" ELSE calls[c].state)
      BY <1>2, <2>5 DEF RecoverInterrupted, TypeOK, Row
    <3>4. QED
      BY <1>2, <3>1, <3>2, <3>3 DEF ResultIffCompleted
  <2>6. CASE UNCHANGED calls
    BY <1>2, <2>6 DEF ResultIffCompleted, Stored
  <2>7. QED
    BY <1>2, <2>1, <2>2, <2>3, <2>4, <2>5, <2>6 DEF Next, Tick, vars
<1>3. QED
  BY <1>1, <1>2, TypeCorrect, PTL DEF Spec

(***************************************************************************)
(* The usage tables always agree with each other and with the rows they    *)
(* summarise.                                                              *)
(***************************************************************************)
THEOREM UsageCorrect == Spec => []UsageAgrees
<1> DEFINE ResultBytes(c) == IF calls[c].result = NoResult THEN 0 ELSE Size[calls[c].result]
<1>1. Init => UsageAgrees
  BY DEF Init, UsageAgrees, Stored
<1>2. ASSUME TypeOK, StoreFinite, ResultIffCompleted, UsageAgrees, [Next]_vars
      PROVE  UsageAgrees'
  <2>1. ASSUME NEW c \in CallID, NEW i \in Identity, NEW p \in Payload,
               Create(c, i, p)
        PROVE  UsageAgrees'
    <3>1. PICK kept \in SUBSET Stored :
            /\ Stored' = kept \cup {c}
            /\ \A d \in kept : calls'[d] = calls[d]
            /\ calls'[c] = NewCall(i, p)
      BY <1>2, <2>1, CreateFacts
    <3>2. Size[p] \in Nat /\ Size[p] = Size[p] + 0 + 0
      BY StoreAssumption
    <3>3. QED
      BY <1>2, <3>1, <3>2, StoreAssumption DEF UsageAgrees, NewCall
  <2>2. ASSUME NEW c \in CallID, NEW to \in Target, Transition(c, to)
        PROVE  UsageAgrees'
    BY <1>2, <2>2 DEF Transition, UsageAgrees, TypeOK, Row, Stored
  <2>3. ASSUME NEW c \in CallID, NEW r \in Payload, Complete(c, r)
        PROVE  UsageAgrees'
    <3>1. c \in Stored /\ calls[c] \in Row /\ Size[r] \in Nat /\ r # NoResult
      BY <1>2, <2>3, StoredRow, StoreAssumption DEF Complete
    <3>2. calls[c].state # "completed"
      BY <1>2, <2>3, <3>1, StoredRow, TerminalHasNoNext DEF Complete, Terminal
    <3>3. calls[c].result = NoResult
      BY <1>2, <3>1, <3>2 DEF ResultIffCompleted
    <3>4. /\ Stored' = Stored
          /\ \A d \in Stored \ {c} : calls'[d] = calls[d]
          /\ calls'[c].result = r
          /\ calls'[c].storageBytes = calls[c].storageBytes + Size[r]
          /\ calls'[c].input = calls[c].input
          /\ calls'[c].events = calls[c].events
          /\ calls'[c].eventCount = calls[c].eventCount
          /\ calls'[c].eventBytes = calls[c].eventBytes
      BY <1>2, <2>3, <3>1 DEF Complete, TypeOK, Row, Stored
    <3>5. /\ Size[calls[c].input] \in Nat
          /\ calls[c].eventBytes \in Nat
          /\ calls[c].storageBytes = Size[calls[c].input] + calls[c].eventBytes + 0
      BY <1>2, <3>1, <3>3, StoredRow, StoreAssumption DEF UsageAgrees
    <3>6. calls'[c].storageBytes
            = Size[calls'[c].input] + calls'[c].eventBytes + Size[calls'[c].result]
      BY <3>1, <3>4, <3>5
    <3>7. QED
      BY <1>2, <3>1, <3>4, <3>6 DEF UsageAgrees
  <2>4. ASSUME NEW c \in CallID, NEW p \in Payload, AppendEvent(c, p)
        PROVE  UsageAgrees'
    <3>1. c \in Stored /\ calls[c] \in Row /\ Size[p] \in Nat
      BY <1>2, <2>4, StoredRow, StoreAssumption DEF AppendEvent
    <3>2. /\ Stored' = Stored
          /\ \A d \in Stored \ {c} : calls'[d] = calls[d]
          /\ calls'[c].result = calls[c].result
          /\ calls'[c].input = calls[c].input
          /\ calls'[c].events = Append(calls[c].events, p)
          /\ calls'[c].eventCount = calls[c].eventCount + 1
          /\ calls'[c].eventBytes = calls[c].eventBytes + Size[p]
          /\ calls'[c].storageBytes = calls[c].storageBytes + Size[p]
      BY <1>2, <2>4, <3>1 DEF AppendEvent, TypeOK, Row, Stored
    <3>3. Len(calls'[c].events) = Len(calls[c].events) + 1
      BY <1>2, <3>1, <3>2, StoredRow
    <3>4. calls'[c].eventCount <= MaxEvents /\ calls'[c].eventBytes <= MaxEventBytes
      <4>1. /\ calls[c].eventCount < MaxEvents
            /\ calls[c].eventBytes <= MaxEventBytes - Size[p]
        BY <2>4 DEF AppendEvent
      <4>2. calls[c].eventCount \in Nat /\ calls[c].eventBytes \in Nat
        BY <1>2, <3>1, StoredRow
      <4>3. QED
        BY <3>1, <3>2, <4>1, <4>2, StoreAssumption
    <3>5. /\ Size[calls[c].input] \in Nat
          /\ calls[c].eventBytes \in Nat
          /\ ResultBytes(c) \in Nat
      BY <1>2, <3>1, StoredRow, StoreAssumption
    <3>6. calls[c].storageBytes = Size[calls[c].input] + calls[c].eventBytes + ResultBytes(c)
      BY <1>2, <3>1 DEF UsageAgrees
    <3>7. calls'[c].storageBytes
            = Size[calls'[c].input] + calls'[c].eventBytes + ResultBytes(c)'
      <4>1. ResultBytes(c)' = ResultBytes(c)
        BY <3>2
      <4> HIDE DEF ResultBytes
      <4>2. QED
        BY <3>1, <3>2, <3>5, <3>6, <4>1
    <3>8. calls'[c].eventCount = Len(calls'[c].events)
      BY <1>2, <3>1, <3>2, <3>3 DEF UsageAgrees
    <3>9. QED
      BY <1>2, <3>2, <3>4, <3>7, <3>8 DEF UsageAgrees
  <2>5. ASSUME RecoverInterrupted
        PROVE  UsageAgrees'
    <3>1. Stored' = Stored
      BY <2>5 DEF RecoverInterrupted, Stored
    <3>2. \A c \in Stored :
            /\ calls'[c].input = calls[c].input
            /\ calls'[c].result = calls[c].result
            /\ calls'[c].events = calls[c].events
            /\ calls'[c].eventCount = calls[c].eventCount
            /\ calls'[c].eventBytes = calls[c].eventBytes
            /\ calls'[c].storageBytes = calls[c].storageBytes
      BY <1>2, <2>5 DEF RecoverInterrupted, TypeOK, Row
    <3>3. QED
      BY <1>2, <3>1, <3>2 DEF UsageAgrees
  <2>6. CASE UNCHANGED calls
    BY <1>2, <2>6 DEF UsageAgrees, Stored
  <2>7. QED
    BY <1>2, <2>1, <2>2, <2>3, <2>4, <2>5, <2>6 DEF Next, Tick, vars
<1>3. QED
  BY <1>1, <1>2, TypeCorrect, ResultsOfCompleted, PTL DEF Spec

(***************************************************************************)
(* The owner, input, state and result of a settled call never change while *)
(* it is stored: no late completion, transition, event or restart rewrites *)
(* what a client may already have read.                                    *)
(***************************************************************************)
THEOREM SettledIsFinal == Spec => TerminalIsFinal
<1>1. ASSUME TypeOK, StoreFinite, [Next]_vars
      PROVE  [\A c \in Stored \cap Stored' :
                calls[c].state \in Terminal => Settlement(c)' = Settlement(c)]_vars
  <2>1. ASSUME NEW c \in CallID, NEW i \in Identity, NEW p \in Payload,
               Create(c, i, p), NEW d \in Stored \cap Stored'
        PROVE  Settlement(d)' = Settlement(d)
    <3>1. PICK kept \in SUBSET Stored :
            /\ c \notin Stored
            /\ Stored' = kept \cup {c}
            /\ \A e \in kept : calls'[e] = calls[e]
      BY <1>1, <2>1, CreateFacts
    <3>2. calls'[d] = calls[d]
      BY <3>1
    <3>3. QED
      BY <3>2 DEF Settlement
  <2>2. CASE ~ \E c \in CallID, i \in Identity, p \in Payload : Create(c, i, p)
    <3>1. SameCalls
      BY <1>1, <2>2, StepsKeepCalls
    <3>2. QED
      BY <3>1 DEF SameCalls, Settlement
  <2>3. QED
    BY <2>1, <2>2
<1>2. QED
  BY <1>1, TypeCorrect, PTL DEF Spec, TerminalIsFinal

----------------------------------------------------------------------------
(* The store implements the abstract life of calls. *)

(* The calls that are open in the abstract specification are the active ones. *)
LEMMA OpenIsActive == Lifecycle!Remembered = Stored /\ Lifecycle!Open = Active(Stored)
BY DEF Lifecycle!Open, Lifecycle!Remembered, Phase, Active, Terminal

(* An admission is an abstract admission that forgets what was pruned. *)
LEMMA CreateImplements ==
  ASSUME TypeOK, StoreFinite, NEW c \in CallID, NEW i \in Identity,
         NEW p \in Payload, Create(c, i, p)
  PROVE  Lifecycle!Next
<1>1. PICK kept \in SUBSET Stored :
        /\ c \notin Stored
        /\ Stored' = kept \cup {c}
        /\ \A d \in kept : calls'[d] = calls[d]
        /\ calls'[c] = NewCall(i, p)
        /\ Active(kept) = Active(Stored)
        /\ ActiveRoom(Stored, i)
  BY CreateFacts
<1>2. calls'[c].state \notin Terminal
  BY <1>1 DEF NewCall, Terminal
<1>3. Phase' = [d \in kept \cup {c} |-> IF d = c THEN "open" ELSE Phase[d]]
  BY <1>1, <1>2 DEF Phase
<1>4. Stored \ kept \subseteq Stored \ Active(Stored)
  BY <1>1 DEF Active
<1>5. Stored \ (Stored \ kept) = kept
  BY <1>1
<1>6. Cardinality(Active(Stored)) < MaxGlobalActive
  BY <1>1 DEF ActiveRoom
<1>7. Lifecycle!Admit(c, Stored \ kept)
  <2>1. Phase' = [d \in (Lifecycle!Remembered \ (Stored \ kept)) \cup {c} |->
                   IF d = c THEN "open" ELSE Phase[d]]
    BY <1>3, <1>5, OpenIsActive, Zenon
  <2>2. c \notin Lifecycle!Remembered /\ Lifecycle!Cardinality(Lifecycle!Open) < MaxGlobalActive
    <3>1. Lifecycle!Cardinality(Active(Stored)) = Cardinality(Active(Stored))
      BY Zenon DEF Cardinality, Lifecycle!Cardinality
    <3>2. QED
      BY <1>1, <1>6, <3>1, OpenIsActive
  <2>3. Stored \ kept \subseteq Lifecycle!Remembered \ Lifecycle!Open
    BY <1>4, OpenIsActive
  <2>4. QED
    BY <2>1, <2>2, <2>3 DEF Lifecycle!Admit
<1>8. Stored \ kept \in SUBSET Lifecycle!Remembered
  BY OpenIsActive
<1>9. QED
  BY <1>7, <1>8 DEF Lifecycle!Next

(* Calls of a set that all get the same terminal state are settled by it. *)
LEMMA SettleImplements ==
  ASSUME SameCalls, NEW C \in SUBSET Active(Stored), C # {},
         NEW outcome \in Terminal,
         \A d \in C : calls'[d].state = outcome,
         \A d \in Stored \ C : calls'[d].state = calls[d].state
  PROVE  Lifecycle!Next
<1>1. Phase' = [d \in Stored |-> IF d \in C THEN outcome ELSE Phase[d]]
  BY DEF Phase, SameCalls
<1>2. Lifecycle!Settle(C, outcome)
  BY <1>1, OpenIsActive DEF Lifecycle!Settle
<1>3. C \in SUBSET Lifecycle!Open
  BY OpenIsActive
<1>4. QED
  BY <1>2, <1>3 DEF Lifecycle!Next

(* The phases stand when no call becomes settled and none comes or goes. *)
LEMMA PhaseStands ==
  ASSUME SameCalls,
         \A d \in Stored : calls[d].state \notin Terminal => calls'[d].state \notin Terminal
  PROVE  Phase' = Phase
BY DEF Phase, SameCalls

(***************************************************************************)
(* Every operation of the store admits a call, settles some, or does       *)
(* nothing that CallLifecycle can see.                                     *)
(***************************************************************************)
LEMMA StepImplements ==
  ASSUME TypeOK, StoreFinite, [Next]_vars
  PROVE  Lifecycle!Next \/ Phase' = Phase
<1>1. ASSUME NEW c \in CallID, NEW i \in Identity, NEW p \in Payload, Create(c, i, p)
      PROVE  Lifecycle!Next
  BY <1>1, CreateImplements
<1>2. CASE ~ \E c \in CallID, i \in Identity, p \in Payload : Create(c, i, p)
  <2>0. SameCalls
    BY <1>2, StepsKeepCalls
  <2>1. ASSUME NEW c \in CallID, NEW to \in Target, Transition(c, to)
        PROVE  Lifecycle!Next \/ Phase' = Phase
    <3>1. c \in Stored /\ calls[c] \in Row /\ calls[c].state \notin Terminal
      BY <2>1, StoredRow, TerminalHasNoNext DEF Transition
    <3>2. /\ calls'[c].state = to
          /\ \A d \in Stored \ {c} : calls'[d].state = calls[d].state
      BY <2>1, <3>1 DEF Transition, TypeOK, Row, Stored
    <3>3. CASE to \in Terminal
      <4>1. {c} \in SUBSET Active(Stored)
        BY <3>1 DEF Active
      <4>2. QED
        BY <2>0, <3>2, <3>3, <4>1, SettleImplements
    <3>4. CASE to \notin Terminal
      BY <2>0, <3>2, <3>4, PhaseStands
    <3>5. QED
      BY <3>3, <3>4
  <2>2. ASSUME NEW c \in CallID, NEW r \in Payload, Complete(c, r)
        PROVE  Lifecycle!Next
    <3>1. c \in Stored /\ calls[c] \in Row /\ calls[c].state \notin Terminal
      BY <2>2, StoredRow, TerminalHasNoNext DEF Complete
    <3>2. /\ calls'[c].state = "completed"
          /\ \A d \in Stored \ {c} : calls'[d].state = calls[d].state
      BY <2>2, <3>1 DEF Complete, TypeOK, Row, Stored
    <3>3. {c} \in SUBSET Active(Stored) /\ "completed" \in Terminal
      BY <3>1 DEF Active, Terminal
    <3>4. QED
      BY <2>0, <3>2, <3>3, SettleImplements
  <2>3. ASSUME NEW c \in CallID, NEW p \in Payload, AppendEvent(c, p)
        PROVE  Phase' = Phase
    <3>1. \A d \in Stored : calls'[d].state = calls[d].state
      BY <2>3 DEF AppendEvent, TypeOK, Row, Stored
    <3>2. QED
      BY <2>0, <3>1, PhaseStands
  <2>4. ASSUME RecoverInterrupted
        PROVE  Lifecycle!Next
    <3>1. Active(Stored) # {} /\ Active(Stored) \subseteq Stored
      BY <2>4 DEF RecoverInterrupted, Active
    <3>2. /\ \A d \in Active(Stored) : calls'[d].state = "failed"
          /\ \A d \in Stored \ Active(Stored) : calls'[d].state = calls[d].state
      BY <2>4, <3>1 DEF RecoverInterrupted, TypeOK, Row
    <3>3. "failed" \in Terminal
      BY DEF Terminal
    <3>4. QED
      BY <2>0, <3>1, <3>2, <3>3, SettleImplements
  <2>5. CASE UNCHANGED calls
    BY <2>0, <2>5, PhaseStands
  <2>6. QED
    BY <1>2, <2>1, <2>2, <2>3, <2>4, <2>5 DEF Next, Tick, vars
<1>3. QED
  BY <1>1, <1>2

(***************************************************************************)
(* The call repository keeps the promise of CallLifecycle: calls are       *)
(* admitted within capacity, settled once, forgotten only when settled.    *)
(***************************************************************************)
THEOREM StoreImplementsLifecycle == Spec => ImplementsLifecycle
<1>1. Init => Lifecycle!Init
  BY DEF Init, Lifecycle!Init, Phase, Stored
<1>2. TypeOK /\ StoreFinite /\ [Next]_vars => [Lifecycle!Next]_Phase
  BY StepImplements
<1>3. QED
  BY <1>1, <1>2, TypeCorrect, PTL DEF Spec, Lifecycle!Spec, ImplementsLifecycle

----------------------------------------------------------------------------
(* Sums. *)

LEMMA FiniteRange ==
  ASSUME NEW n \in Nat
  PROVE  IsFiniteSet(1..n) /\ Cardinality(1..n) = n
BY FS_Interval

LEMMA MarksFinite ==
  ASSUME NEW D, IsFiniteSet(D), NEW f \in [D -> Nat]
  PROVE  IsFiniteSet(Marks(f)) /\ Total(f) \in Nat
<1> DEFINE G == {{x} \X (1..f[x]) : x \in D}
           g == [x \in D |-> {x} \X (1..f[x])]
<1>1. IsFiniteSet(G)
  <2>1. g \in Surjection(D, G)
    BY DEF Surjection
  <2>2. QED
    BY <2>1, FS_Surjection
<1>2. ASSUME NEW x \in D
      PROVE  IsFiniteSet({x} \X (1..f[x]))
  <2>1. IsFiniteSet({x}) /\ IsFiniteSet(1..f[x])
    BY FS_Singleton, FiniteRange
  <2>2. QED
    BY <2>1, FS_Product
<1>3. IsFiniteSet(UNION G)
  BY <1>1, <1>2, FS_UNION
<1>4. QED
  BY <1>3, FS_CardinalityType DEF Marks, Total

(* A sum grows by the value of the element it is extended to. *)
LEMMA TotalExtends ==
  ASSUME NEW D, IsFiniteSet(D), NEW x, x \notin D, NEW f \in [D \cup {x} -> Nat],
         NEW g \in [D -> Nat], \A y \in D : g[y] = f[y]
  PROVE  Total(f) = Total(g) + f[x]
<1> DEFINE own == {x} \X (1..f[x])
<1>1. IsFiniteSet(own) /\ Cardinality(own) = f[x]
  <2>1. IsFiniteSet({x}) /\ Cardinality({x}) = 1
    BY FS_Singleton
  <2>2. f[x] \in Nat /\ IsFiniteSet(1..f[x]) /\ Cardinality(1..f[x]) = f[x]
    BY FiniteRange
  <2>3. IsFiniteSet(own) /\ Cardinality(own) = Cardinality({x}) * Cardinality(1..f[x])
    BY <2>1, <2>2, FS_Product
  <2>4. QED
    BY <2>1, <2>2, <2>3
<1>2. Marks(f) = Marks(g) \cup own
  BY DEF Marks
<1>3. Marks(g) \cap own = {}
  BY DEF Marks
<1> HIDE DEF own
<1>4. IsFiniteSet(Marks(g)) /\ Total(g) \in Nat
  BY MarksFinite
<1>5. Cardinality(Marks(g) \cup own)
        = Cardinality(Marks(g)) + Cardinality(own) - Cardinality(Marks(g) \cap own)
  BY <1>1, <1>4, FS_Union
<1>6. Cardinality(Marks(g) \cap own) = 0
  BY <1>3, FS_EmptySet
<1>7. QED
  BY <1>1, <1>2, <1>4, <1>5, <1>6 DEF Total

(* A sum grows by what one of its values grows by. *)
LEMMA TotalChanges ==
  ASSUME NEW D, IsFiniteSet(D), NEW x \in D, NEW n \in Nat,
         NEW f \in [D -> Nat], NEW g \in [D -> Nat],
         g[x] = f[x] + n, \A y \in D \ {x} : g[y] = f[y]
  PROVE  Total(g) = Total(f) + n
<1> DEFINE E == D \ {x}
           h == [y \in E |-> f[y]]
<1>1. IsFiniteSet(E) /\ x \notin E /\ D = E \cup {x}
  BY FS_RemoveElement
<1>2. h \in [E -> Nat] /\ \A y \in E : h[y] = f[y] /\ h[y] = g[y]
  OBVIOUS
<1> HIDE DEF E, h
<1>3. f \in [E \cup {x} -> Nat] /\ g \in [E \cup {x} -> Nat]
  BY <1>1
<1>4. Total(f) = Total(h) + f[x] /\ Total(g) = Total(h) + g[x]
  BY <1>1, <1>2, <1>3, TotalExtends
<1>5. Total(h) \in Nat /\ f[x] \in Nat
  BY <1>1, <1>2, MarksFinite
<1>6. QED
  BY <1>4, <1>5

(* Less of less is not more. *)
LEMMA TotalShrinks ==
  ASSUME NEW E, IsFiniteSet(E), NEW D \in SUBSET E, NEW f \in [D -> Nat],
         NEW g \in [E -> Nat], \A x \in D : f[x] <= g[x]
  PROVE  Total(f) <= Total(g)
<1>1. IsFiniteSet(Marks(g)) /\ Marks(f) \in SUBSET Marks(g)
  <2>1. ASSUME NEW x \in D
        PROVE  1..f[x] \subseteq 1..g[x]
    <3>1. f[x] \in Nat /\ g[x] \in Nat /\ f[x] <= g[x]
      OBVIOUS
    <3>2. QED
      BY <3>1
  <2>2. QED
    BY <2>1, MarksFinite DEF Marks
<1>2. QED
  BY <1>1, FS_Subset DEF Total
----------------------------------------------------------------------------
(* The quotas on bytes. *)

(* What the calls of a set take is a number, and less for fewer calls. *)
LEMMA StorageFacts ==
  ASSUME TypeOK, StoreFinite, NEW S \in SUBSET Stored, NEW T \in SUBSET S
  PROVE  /\ StorageBytes(S) \in Nat /\ StorageBytes(T) \in Nat
         /\ StorageBytes(T) <= StorageBytes(S)
<1> DEFINE bytes(U) == [c \in U |-> calls[c].storageBytes]
<1>1. IsFiniteSet(S) /\ IsFiniteSet(T)
  BY NoMore DEF StoreFinite
<1>2. bytes(S) \in [S -> Nat] /\ bytes(T) \in [T -> Nat]
  BY StoredRow
<1>3. \A c \in T : bytes(T)[c] <= bytes(S)[c]
  BY <1>2
<1> HIDE DEF bytes
<1>4. Total(bytes(S)) \in Nat /\ Total(bytes(T)) \in Nat
  BY <1>1, <1>2, MarksFinite
<1>5. Total(bytes(T)) <= Total(bytes(S))
  BY <1>1, <1>2, <1>3, TotalShrinks
<1>6. QED
  BY <1>4, <1>5 DEF StorageBytes, bytes

(* Pruning leaves room under the quotas on bytes, too. *)
LEMMA PruneMakesByteRoom ==
  ASSUME TypeOK, StoreFinite, NEW i \in Identity, NEW n \in Nat,
         NEW kept \in AfterPruning(i, n)
  PROVE  /\ kept \subseteq Stored
         /\ n <= MaxIdentityBytes - StorageBytes(OwnedBy(kept, i))
         /\ n <= MaxGlobalBytes - StorageBytes(kept)
<1> DEFINE P1 == Prune("identityCalls", {Stored}, i, n)
           P2 == Prune("globalCalls", P1, i, n)
           P3 == Prune("identityBytes", P2, i, n)
           P4 == Prune("globalBytes", P3, i, n)
<1>1. kept \in P4
  BY DEF AfterPruning
<1> HIDE DEF P1, P2, P3, P4
<1>2. PICK T3 \in P3 : kept \subseteq T3 /\ HasRoom("globalBytes", kept, i, n)
  BY <1>1, PruneOneQuota DEF P4
<1>3. PICK T2 \in P2 : T3 \subseteq T2 /\ HasRoom("identityBytes", T3, i, n)
  BY PruneOneQuota DEF P3
<1>4. PICK T1 \in P1 : T2 \subseteq T1
  BY PruneOneQuota DEF P2
<1>5. T1 \subseteq Stored
  BY PruneOneQuota DEF P1
<1>6. kept \subseteq Stored /\ T3 \subseteq Stored
  BY <1>2, <1>3, <1>4, <1>5
<1>7. n <= MaxGlobalBytes - StorageBytes(kept)
  BY <1>2 DEF HasRoom
<1>8. n <= MaxIdentityBytes - StorageBytes(OwnedBy(T3, i))
  BY <1>3 DEF HasRoom
<1>9. /\ OwnedBy(T3, i) \in SUBSET Stored
      /\ OwnedBy(kept, i) \in SUBSET OwnedBy(T3, i)
  BY <1>2, <1>6 DEF OwnedBy
<1>10. /\ StorageBytes(OwnedBy(T3, i)) \in Nat
       /\ StorageBytes(OwnedBy(kept, i)) \in Nat
       /\ StorageBytes(OwnedBy(kept, i)) <= StorageBytes(OwnedBy(T3, i))
  BY <1>9, StorageFacts
<1>11. n <= MaxIdentityBytes - StorageBytes(OwnedBy(kept, i))
  BY <1>8, <1>10, StoreAssumption
<1>12. QED
  BY <1>6, <1>7, <1>11

(* The counters add up to no more than the quotas. *)
StorageWithinQuota ==
  /\ StorageBytes(Stored) <= MaxGlobalBytes
  /\ \A i \in Identity : StorageBytes(OwnedBy(Stored, i)) <= MaxIdentityBytes

(* An admission: the room that pruning made is taken by the input. *)
LEMMA CreateKeepsBytes ==
  ASSUME TypeOK, StoreFinite, StorageWithinQuota, NEW c \in CallID,
         NEW i \in Identity, NEW p \in Payload, Create(c, i, p)
  PROVE  StorageWithinQuota'
<1>1. PICK kept \in AfterPruning(i, Size[p]) :
        calls' = [d \in kept \cup {c} |-> IF d = c THEN NewCall(i, p) ELSE calls[d]]
  BY DEF Create
<1>2. Size[p] \in Nat
  BY StoreAssumption
<1>3. /\ kept \in SUBSET Stored
      /\ Size[p] <= MaxIdentityBytes - StorageBytes(OwnedBy(kept, i))
      /\ Size[p] <= MaxGlobalBytes - StorageBytes(kept)
  BY <1>2, PruneMakesByteRoom
<1>4. /\ c \notin Stored
      /\ Stored' = kept \cup {c}
      /\ \A d \in kept : d # c /\ calls'[d] = calls[d]
      /\ calls'[c].identity = i
      /\ calls'[c].storageBytes = Size[p]
  BY <1>1, <1>3 DEF Create, NewCall, Stored
<1>5. ASSUME NEW S \in SUBSET kept
      PROVE  /\ StorageBytes(S) \in Nat
             /\ StorageBytes(S)' = StorageBytes(S)
             /\ StorageBytes(S \cup {c})' = StorageBytes(S) + Size[p]
  <2> DEFINE f == [d \in S \cup {c} |-> calls'[d].storageBytes]
             g == [d \in S |-> calls[d].storageBytes]
  <2>1. IsFiniteSet(S) /\ c \notin S
    BY <1>3, <1>4, NoMore DEF StoreFinite
  <2>2. g \in [S -> Nat] /\ \A d \in S : g[d] = f[d]
    BY <1>3, <1>4, StoredRow
  <2>3. f \in [S \cup {c} -> Nat] /\ f[c] = Size[p]
    BY <1>2, <1>4, <2>2
  <2>4. [d \in S |-> calls'[d].storageBytes] = g
    BY <1>4
  <2> HIDE DEF f, g
  <2>5. Total(f) = Total(g) + f[c]
    BY <2>1, <2>2, <2>3, TotalExtends
  <2>6. Total(g) \in Nat
    BY <2>1, <2>2, MarksFinite
  <2>7. StorageBytes(S) = Total(g) /\ StorageBytes(S \cup {c})' = Total(f)
    BY DEF StorageBytes, f, g
  <2>8. StorageBytes(S)' = Total(g)
    BY <2>4 DEF StorageBytes
  <2>9. QED
    BY <2>3, <2>5, <2>6, <2>7, <2>8
<1>6. StorageBytes(Stored)' <= MaxGlobalBytes
  <2>1. StorageBytes(Stored)' = StorageBytes(kept \cup {c})'
    BY <1>4
  <2>2. StorageBytes(kept) \in Nat /\ StorageBytes(kept \cup {c})' = StorageBytes(kept) + Size[p]
    BY <1>5
  <2>3. QED
    BY <1>2, <1>3, <2>1, <2>2, StoreAssumption
<1>7. ASSUME NEW j \in Identity
      PROVE  StorageBytes(OwnedBy(Stored, j))' <= MaxIdentityBytes
  <2>1. OwnedBy(kept, j) \in SUBSET kept
    BY DEF OwnedBy
  <2>2. CASE j = i
    <3>1. PICK S \in SUBSET kept : S = OwnedBy(kept, i)
      BY <2>1, <2>2
    <3>2. OwnedBy(Stored, j)' = S \cup {c}
      BY <1>4, <2>2, <3>1 DEF OwnedBy
    <3>3. StorageBytes(OwnedBy(Stored, j))' = StorageBytes(S \cup {c})'
      BY <3>2 DEF StorageBytes
    <3>4. StorageBytes(S) \in Nat /\ StorageBytes(S \cup {c})' = StorageBytes(S) + Size[p]
      BY <1>5
    <3>5. QED
      BY <1>2, <1>3, <3>1, <3>3, <3>4, StoreAssumption
  <2>3. CASE j # i
    <3>1. OwnedBy(Stored, j)' = OwnedBy(kept, j)
      BY <1>4, <2>3 DEF OwnedBy
    <3>2. StorageBytes(OwnedBy(Stored, j))' = StorageBytes(OwnedBy(kept, j))
      BY <1>5, <2>1, <3>1 DEF StorageBytes
    <3>3. /\ StorageBytes(OwnedBy(kept, j)) \in Nat
          /\ StorageBytes(OwnedBy(Stored, j)) \in Nat
          /\ StorageBytes(OwnedBy(kept, j)) <= StorageBytes(OwnedBy(Stored, j))
      <4>1. OwnedBy(Stored, j) \in SUBSET Stored
            /\ OwnedBy(kept, j) \in SUBSET OwnedBy(Stored, j)
        BY <1>3 DEF OwnedBy
      <4>2. QED
        BY <4>1, StorageFacts
    <3>4. QED
      BY <3>2, <3>3, StoreAssumption DEF StorageWithinQuota
  <2>4. QED
    BY <2>2, <2>3
<1>8. QED
  BY <1>6, <1>7 DEF StorageWithinQuota

(* A call that stores n more bytes: they were counted before. *)
LEMMA GrowthKeepsBytes ==
  ASSUME TypeOK, StoreFinite, StorageWithinQuota, NEW c \in Stored, NEW n \in Nat,
         FitsRetained(c, n), Stored' = Stored,
         \A d \in Stored : calls'[d].identity = calls[d].identity,
         \A d \in Stored \ {c} : calls'[d].storageBytes = calls[d].storageBytes,
         calls'[c].storageBytes = calls[c].storageBytes + n
  PROVE  StorageWithinQuota'
<1>1. ASSUME NEW S \in SUBSET Stored
      PROVE  /\ StorageBytes(S) \in Nat
             /\ StorageBytes(S)' = StorageBytes(S) + (IF c \in S THEN n ELSE 0)
  <2> DEFINE f == [d \in S |-> calls[d].storageBytes]
             g == [d \in S |-> calls'[d].storageBytes]
  <2>1. IsFiniteSet(S)
    BY NoMore DEF StoreFinite
  <2>2. f \in [S -> Nat]
    BY StoredRow
  <2>3. StorageBytes(S) = Total(f) /\ StorageBytes(S)' = Total(g)
    BY DEF StorageBytes
  <2>4. Total(f) \in Nat
    BY <2>1, <2>2, MarksFinite
  <2>5. CASE c \in S
    <3>1. /\ g \in [S -> Nat]
          /\ g[c] = f[c] + n
          /\ \A d \in S \ {c} : g[d] = f[d]
      BY <2>2, <2>5, StoredRow
    <3> HIDE DEF f, g
    <3>2. Total(g) = Total(f) + n
      BY <2>1, <2>2, <2>5, <3>1, TotalChanges
    <3>3. QED
      BY <2>3, <2>4, <2>5, <3>2
  <2>6. CASE c \notin S
    <3>1. g = f
      BY <2>6
    <3>2. QED
      BY <2>3, <2>4, <2>6, <3>1
  <2>7. QED
    BY <2>5, <2>6
<1>2. StorageBytes(Stored)' <= MaxGlobalBytes
  <2>1. StorageBytes(Stored) \in Nat /\ StorageBytes(Stored)' = StorageBytes(Stored) + n
    <3>1. PICK S \in SUBSET Stored : S = Stored
      OBVIOUS
    <3>2. StorageBytes(Stored)' = StorageBytes(S)'
      BY <3>1
    <3>3. QED
      BY <1>1, <3>1, <3>2
  <2>2. n <= MaxGlobalBytes - StorageBytes(Stored)
    BY DEF FitsRetained
  <2>3. QED
    BY <2>1, <2>2, StoreAssumption
<1>3. ASSUME NEW i \in Identity
      PROVE  StorageBytes(OwnedBy(Stored, i))' <= MaxIdentityBytes
  <2>1. PICK S \in SUBSET Stored : S = OwnedBy(Stored, i)
    BY DEF OwnedBy
  <2>2. OwnedBy(Stored, i)' = S
    BY <2>1 DEF OwnedBy
  <2>3. StorageBytes(OwnedBy(Stored, i))' = StorageBytes(S)'
    BY <2>2 DEF StorageBytes
  <2>4. StorageBytes(S) \in Nat
        /\ StorageBytes(S)' = StorageBytes(S) + (IF c \in S THEN n ELSE 0)
    BY <1>1
  <2>5. StorageBytes(S) <= MaxIdentityBytes
    BY <2>1 DEF StorageWithinQuota
  <2>6. c \in S => n <= MaxIdentityBytes - StorageBytes(S)
    BY <2>1 DEF FitsRetained, OwnedBy
  <2>7. QED
    BY <2>3, <2>4, <2>5, <2>6, StoreAssumption
<1>4. QED
  BY <1>2, <1>3 DEF StorageWithinQuota

(* The bytes of the events of a call, which its counter must agree with. *)
EventTotal(c) == Total([k \in DOMAIN calls[c].events |-> Size[calls[c].events[k]]])

EventsSummed == \A c \in Stored : calls[c].eventBytes = EventTotal(c)

(* One more event counts with its own bytes. *)
LEMMA EventTotalExtends ==
  ASSUME NEW events \in Seq(Payload), NEW p \in Payload
  PROVE  Total([k \in DOMAIN Append(events, p) |-> Size[Append(events, p)[k]]])
           = Total([k \in DOMAIN events |-> Size[events[k]]]) + Size[p]
<1> DEFINE longer == [k \in DOMAIN Append(events, p) |-> Size[Append(events, p)[k]]]
           sizes == [k \in DOMAIN events |-> Size[events[k]]]
<1>1. /\ Len(events) \in Nat
      /\ DOMAIN events = 1..Len(events)
      /\ DOMAIN Append(events, p) = 1..(Len(events) + 1)
      /\ \A k \in 1..Len(events) : /\ Append(events, p)[k] = events[k]
                                   /\ events[k] \in Payload
      /\ Append(events, p)[Len(events) + 1] = p
  OBVIOUS
<1>2. PICK E, z : E = 1..Len(events) /\ z = Len(events) + 1
  OBVIOUS
<1>3. IsFiniteSet(E) /\ z \notin E /\ 1..(Len(events) + 1) = E \cup {z}
  <2>1. IsFiniteSet(E)
    BY <1>1, <1>2, FiniteRange
  <2>2. QED
    BY <1>1, <1>2, <2>1
<1>4. sizes \in [E -> Nat]
  BY <1>1, <1>2, StoreAssumption
<1>5. longer \in [E \cup {z} -> Nat] /\ longer[z] = Size[p]
  BY <1>1, <1>2, <1>3, StoreAssumption
<1>6. \A y \in E : sizes[y] = longer[y]
  BY <1>1, <1>2
<1> HIDE DEF longer, sizes
<1>7. Total(longer) = Total(sizes) + longer[z]
  <2>1. IsFiniteSet(E) /\ z \notin E
    BY <1>3
  <2>2. QED
    <3>1. \A h \in [E \cup {z} -> Nat], k \in [E -> Nat] :
            (\A y \in E : k[y] = h[y]) => Total(h) = Total(k) + h[z]
      BY <2>1, TotalExtends
    <3>2. QED
      BY <1>4, <1>5, <1>6, <3>1
<1>8. QED
  BY <1>5, <1>7 DEF longer, sizes

(***************************************************************************)
(* The bytes that are stored stay within the quotas, for every identity    *)
(* and in all: the counters do, and they count just those bytes.           *)
(***************************************************************************)
THEOREM BytesQuota == Spec => []BytesWithinQuota
<1>1. Init => StorageWithinQuota /\ EventsSummed
  <2> SUFFICES ASSUME Init PROVE StorageWithinQuota /\ EventsSummed
    OBVIOUS
  <2>1. Stored = {}
    BY DEF Init, Stored
  <2>2. \A S \in SUBSET {} : StorageBytes(S) = 0
    <3>1. ASSUME NEW S \in SUBSET {}
          PROVE  Marks([c \in S |-> calls[c].storageBytes]) = {}
      BY DEF Marks
    <3>2. QED
      BY <3>1, FS_EmptySet DEF StorageBytes, Total
  <2>3. \A i \in Identity : OwnedBy(Stored, i) \in SUBSET {}
    BY <2>1 DEF OwnedBy
  <2>4. StorageBytes(Stored) = 0 /\ \A i \in Identity : StorageBytes(OwnedBy(Stored, i)) = 0
    BY <2>1, <2>2, <2>3
  <2>5. QED
    BY <2>1, <2>4, StoreAssumption DEF StorageWithinQuota, EventsSummed
<1>2. ASSUME TypeOK, StoreFinite, StorageWithinQuota, EventsSummed, [Next]_vars
      PROVE  StorageWithinQuota' /\ EventsSummed'
  <2> USE <1>2
  <2>1. ASSUME NEW c \in CallID, NEW i \in Identity, NEW p \in Payload, Create(c, i, p)
        PROVE  StorageWithinQuota' /\ EventsSummed'
    <3>1. StorageWithinQuota'
      BY <2>1, CreateKeepsBytes
    <3>2. PICK kept \in SUBSET Stored :
            /\ Stored' = kept \cup {c}
            /\ \A d \in kept : calls'[d] = calls[d]
            /\ calls'[c] = NewCall(i, p)
      BY <2>1, CreateFacts
    <3>3. calls'[c].events = <<>> /\ calls'[c].eventBytes = 0
      BY <3>2 DEF NewCall
    <3>4. EventTotal(c)' = 0
      <4>1. DOMAIN calls'[c].events = {}
        BY <3>3
      <4>2. Marks([k \in DOMAIN calls'[c].events |-> Size[calls'[c].events[k]]]) = {}
        BY <4>1 DEF Marks
      <4>3. QED
        BY <4>2, FS_EmptySet DEF EventTotal, Total
    <3>5. \A d \in kept : EventTotal(d)' = EventTotal(d)
      BY <3>2 DEF EventTotal
    <3>6. QED
      BY <3>1, <3>2, <3>3, <3>4, <3>5 DEF EventsSummed
  <2>2. ASSUME Stored' = Stored,
               \A d \in Stored : /\ calls'[d].identity = calls[d].identity
                                 /\ calls'[d].storageBytes = calls[d].storageBytes
                                 /\ calls'[d].eventBytes = calls[d].eventBytes
                                 /\ calls'[d].events = calls[d].events
        PROVE  StorageWithinQuota' /\ EventsSummed'
    <3>1. StorageBytes(Stored)' = StorageBytes(Stored)
      BY <2>2 DEF StorageBytes
    <3>2. \A i \in Identity : StorageBytes(OwnedBy(Stored, i))' = StorageBytes(OwnedBy(Stored, i))
      <4>1. ASSUME NEW i \in Identity
            PROVE  StorageBytes(OwnedBy(Stored, i))' = StorageBytes(OwnedBy(Stored, i))
        <5>1. OwnedBy(Stored, i)' = OwnedBy(Stored, i) /\ OwnedBy(Stored, i) \subseteq Stored
          BY <2>2 DEF OwnedBy
        <5>2. QED
          BY <2>2, <5>1 DEF StorageBytes
      <4>2. QED
        BY <4>1
    <3>3. \A d \in Stored : EventTotal(d)' = EventTotal(d)
      BY <2>2 DEF EventTotal
    <3>4. QED
      BY <2>2, <3>1, <3>2, <3>3 DEF StorageWithinQuota, EventsSummed
  <2>3. ASSUME NEW c \in CallID, NEW to \in Target, Transition(c, to)
        PROVE  StorageWithinQuota' /\ EventsSummed'
    BY <2>2, <2>3 DEF Transition, TypeOK, Row, Stored
  <2>4. ASSUME NEW c \in CallID, NEW r \in Payload, Complete(c, r)
        PROVE  StorageWithinQuota' /\ EventsSummed'
    <3>1. /\ c \in Stored /\ FitsRetained(c, Size[r]) /\ Size[r] \in Nat
          /\ Stored' = Stored
          /\ \A d \in Stored \ {c} : calls'[d] = calls[d]
          /\ calls'[c].identity = calls[c].identity
          /\ calls'[c].storageBytes = calls[c].storageBytes + Size[r]
          /\ calls'[c].eventBytes = calls[c].eventBytes
          /\ calls'[c].events = calls[c].events
      BY <2>4, StoreAssumption DEF Complete, TypeOK, Row, Stored
    <3>2. StorageWithinQuota'
      BY <3>1, GrowthKeepsBytes
    <3>3. \A d \in Stored : EventTotal(d)' = EventTotal(d)
      BY <3>1 DEF EventTotal
    <3>4. QED
      BY <3>1, <3>2, <3>3 DEF EventsSummed
  <2>5. ASSUME NEW c \in CallID, NEW p \in Payload, AppendEvent(c, p)
        PROVE  StorageWithinQuota' /\ EventsSummed'
    <3>1. /\ c \in Stored /\ FitsRetained(c, Size[p]) /\ Size[p] \in Nat
          /\ Stored' = Stored
          /\ \A d \in Stored \ {c} : calls'[d] = calls[d]
          /\ calls'[c].identity = calls[c].identity
          /\ calls'[c].storageBytes = calls[c].storageBytes + Size[p]
          /\ calls'[c].eventBytes = calls[c].eventBytes + Size[p]
          /\ calls'[c].events = Append(calls[c].events, p)
      BY <2>5, StoreAssumption DEF AppendEvent, TypeOK, Row, Stored
    <3>2. StorageWithinQuota'
      BY <3>1, GrowthKeepsBytes
    <3>3. \A d \in Stored \ {c} : EventTotal(d)' = EventTotal(d)
      BY <3>1 DEF EventTotal
    <3>4. EventTotal(c)' = EventTotal(c) + Size[p]
      <4>1. calls[c].events \in Seq(Payload)
        BY <3>1, StoredRow
      <4>2. QED
        BY <3>1, <4>1, EventTotalExtends DEF EventTotal
    <3>5. QED
      BY <3>1, <3>2, <3>3, <3>4 DEF EventsSummed
  <2>6. CASE RecoverInterrupted
    BY <2>2, <2>6 DEF RecoverInterrupted, TypeOK, Row, Stored
  <2>7. CASE UNCHANGED calls
    BY <2>2, <2>7 DEF Stored
  <2>8. QED
    BY <2>1, <2>3, <2>4, <2>5, <2>6, <2>7 DEF Next, Tick, vars
<1>3. ASSUME TypeOK, StoreFinite, UsageAgrees, StorageWithinQuota, EventsSummed
      PROVE  BytesWithinQuota
  <2>1. ASSUME NEW c \in Stored
        PROVE  PayloadBytes(c) = calls[c].storageBytes
    <3> DEFINE resultBytes == IF calls[c].result = NoResult THEN 0 ELSE Size[calls[c].result]
    <3>1. PayloadBytes(c) = Size[calls[c].input] + resultBytes + calls[c].eventBytes
      BY <1>3 DEF PayloadBytes, EventsSummed, EventTotal
    <3>2. calls[c].storageBytes = Size[calls[c].input] + calls[c].eventBytes + resultBytes
      BY <1>3 DEF UsageAgrees
    <3>3. Size[calls[c].input] \in Nat /\ calls[c].eventBytes \in Nat /\ resultBytes \in Nat
      BY <1>3, StoredRow, StoreAssumption
    <3> HIDE DEF resultBytes
    <3>4. QED
      BY <3>1, <3>2, <3>3
  <2>2. ASSUME NEW S \in SUBSET Stored
        PROVE  Total([c \in S |-> PayloadBytes(c)]) = StorageBytes(S)
    <3>1. [c \in S |-> PayloadBytes(c)] = [c \in S |-> calls[c].storageBytes]
      BY <2>1
    <3>2. QED
      BY <3>1 DEF StorageBytes
  <2>3. \A i \in Identity : OwnedBy(Stored, i) \in SUBSET Stored
    BY DEF OwnedBy
  <2>4. QED
    BY <1>3, <2>2, <2>3 DEF BytesWithinQuota, StorageWithinQuota
<1>4. Spec => [](StorageWithinQuota /\ EventsSummed)
  BY <1>1, <1>2, TypeCorrect, PTL DEF Spec
<1>5. QED
  BY <1>3, <1>4, TypeCorrect, UsageCorrect, PTL

----------------------------------------------------------------------------
(* What pruning can do, and what it spares. *)

(* A set of natural numbers has a least one. *)
LEMMA LeastNumber ==
  ASSUME NEW T \in SUBSET Nat, T # {}
  PROVE  \E n \in T : \A m \in T : n <= m
<1>1. PICK n \in T : \A m \in T : ~ (<<m, n>> \in OpToRel(<, Nat))
  BY NatLessThanWellFounded, WFMin, Zenon
<1>2. \A m \in T : ~(m < n)
  BY <1>1 DEF OpToRel
<1>3. QED
  BY <1>2

(***************************************************************************)
(* If deleting all prunable calls makes room then so does a deletion that  *)
(* the loop ends with: of the prefixes of the pool that make room, one     *)
(* with the fewest calls.                                                  *)
(***************************************************************************)
LEMMA PrunedExists ==
  ASSUME StoreFinite, NEW q, NEW S \in SUBSET Stored, NEW i, NEW n,
         HasRoom(q, S \ Prunable(q, S, i), i, n)
  PROVE  \E D \in SUBSET Prunable(q, S, i) : Pruned(D, q, S, i, n)
<1> DEFINE pool == Prunable(q, S, i)
           Prefix(D) == \A d \in D, e \in pool \ D : SortsBefore(d, e)
           Enough == {D \in SUBSET pool : HasRoom(q, S \ D, i, n) /\ Prefix(D)}
           sizes == {Cardinality(D) : D \in Enough}
<1>1. pool \subseteq S /\ S \subseteq Stored
  BY DEF Prunable, OwnedBy
<1>2. IsFiniteSet(pool)
  BY <1>1, NoMore DEF StoreFinite
<1> HIDE DEF pool
<1>3. \A D \in SUBSET pool : IsFiniteSet(D) /\ Cardinality(D) \in Nat
  BY <1>2, NoMore, FS_CardinalityType
<1>4. pool \in Enough
  BY DEF pool
<1>5. PICK D \in Enough : \A E \in Enough : Cardinality(D) <= Cardinality(E)
  <2>1. sizes \in SUBSET Nat /\ sizes # {}
    BY <1>3, <1>4
  <2>2. PICK m \in sizes : \A k \in sizes : m <= k
    BY <2>1, LeastNumber
  <2>3. QED
    BY <2>2
<1>6. ASSUME NEW d \in D, \A e \in D \ {d} : SortsBefore(e, d),
             HasRoom(q, (S \ D) \cup {d}, i, n)
      PROVE  FALSE
  <2>1. (S \ D) \cup {d} = S \ (D \ {d})
    BY <1>1
  <2>2. Prefix(D \ {d})
    BY <1>6
  <2>3. D \ {d} \in Enough
    BY <1>6, <2>1, <2>2
  <2>4. IsFiniteSet(D) /\ Cardinality(D) \in Nat /\ Cardinality(D \ {d}) = Cardinality(D) - 1
    BY <1>3, FS_RemoveElement
  <2>5. QED
    BY <1>5, <2>3, <2>4
<1>7. Pruned(D, q, S, i, n)
  BY <1>6 DEF Pruned, pool
<1>8. QED
  BY <1>7 DEF pool

(***************************************************************************)
(* So each quota in turn can be satisfied, if active calls alone do not    *)
(* exceed it, and all active calls are still there for the next.           *)
(***************************************************************************)
Reachable(Ss) == \E S \in Ss : S \subseteq Stored /\ Active(S) = Active(Stored)

LEMMA PruneReaches ==
  ASSUME StoreFinite, NEW q, NEW Ss, NEW i, NEW n, Reachable(Ss),
         \A S \in SUBSET Stored :
           Active(S) = Active(Stored) => HasRoom(q, S \ Prunable(q, S, i), i, n)
  PROVE  Reachable(Prune(q, Ss, i, n))
<1>1. PICK S \in Ss : S \subseteq Stored /\ Active(S) = Active(Stored)
  BY DEF Reachable
<1>2. PICK D \in SUBSET Prunable(q, S, i) : Pruned(D, q, S, i, n)
  BY <1>1, PrunedExists
<1>3. S \ D \in Prune(q, Ss, i, n)
  BY <1>2 DEF Prune
<1>4. S \ D \subseteq Stored /\ Active(S \ D) = Active(Stored)
  BY <1>1 DEF Prunable, Active
<1>5. QED
  BY <1>3, <1>4 DEF Reachable

(***************************************************************************)
(* An admission fails only for want of a place among the active calls, or  *)
(* because the active calls leave too few bytes.                           *)
(***************************************************************************)
THEOREM Admissions == Spec => []AdmissionComplete
<1>1. ASSUME TypeOK, StoreFinite, NEW i \in Identity, NEW n,
             ActiveRoom(Stored, i),
             n <= MaxIdentityBytes - StorageBytes(Active(OwnedBy(Stored, i))),
             n <= MaxGlobalBytes - StorageBytes(Active(Stored))
      PROVE  AfterPruning(i, n) # {}
  <2> DEFINE P1 == Prune("identityCalls", {Stored}, i, n)
             P2 == Prune("globalCalls", P1, i, n)
             P3 == Prune("identityBytes", P2, i, n)
             P4 == Prune("globalBytes", P3, i, n)
  <2>1. ASSUME NEW S \in SUBSET Stored, Active(S) = Active(Stored)
        PROVE  /\ \A q \in {"identityCalls", "identityBytes"} :
                    OwnedBy(S \ Prunable(q, S, i), i) = Active(OwnedBy(Stored, i))
               /\ \A q \in {"globalCalls", "globalBytes"} :
                    S \ Prunable(q, S, i) = Active(Stored)
    <3>1. OwnedBy(S \ (OwnedBy(S, i) \ Active(S)), i) = Active(OwnedBy(Stored, i))
      BY <2>1 DEF OwnedBy, Active
    <3>2. S \ (S \ Active(S)) = Active(Stored)
      BY <2>1 DEF Active
    <3>3. QED
      BY <3>1, <3>2 DEF Prunable
  <2>2. /\ Cardinality(Active(OwnedBy(Stored, i))) < MaxIdentityRetained
        /\ Cardinality(Active(Stored)) < MaxGlobalRetained
    <3>1. Active(OwnedBy(Stored, i)) \subseteq Stored /\ Active(Stored) \subseteq Stored
      BY DEF Active, OwnedBy
    <3>2. /\ Cardinality(Active(OwnedBy(Stored, i))) \in Nat
          /\ Cardinality(Active(Stored)) \in Nat
      BY <1>1, <3>1, NoMore, FS_CardinalityType DEF StoreFinite
    <3>3. QED
      BY <1>1, <3>2, StoreAssumption DEF ActiveRoom
  <2>3. ASSUME NEW S \in SUBSET Stored, Active(S) = Active(Stored),
               NEW q \in {"identityCalls", "globalCalls", "identityBytes", "globalBytes"}
        PROVE  HasRoom(q, S \ Prunable(q, S, i), i, n)
    BY <1>1, <2>1, <2>2, <2>3 DEF HasRoom
  <2>4. Reachable({Stored})
    BY DEF Reachable
  <2>5. Reachable(P1)
    BY <1>1, <2>3, <2>4, PruneReaches
  <2>6. Reachable(P2)
    <3> HIDE DEF P1
    <3>1. QED
      BY <1>1, <2>3, <2>5, PruneReaches
  <2>7. Reachable(P3)
    <3> HIDE DEF P2
    <3>1. QED
      BY <1>1, <2>3, <2>6, PruneReaches
  <2>8. Reachable(P4)
    <3> HIDE DEF P3
    <3>1. QED
      BY <1>1, <2>3, <2>7, PruneReaches
  <2>9. AfterPruning(i, n) = P4
    BY DEF AfterPruning
  <2> HIDE DEF P4
  <2>10. QED
    BY <2>8, <2>9 DEF Reachable
<1>2. TypeOK /\ StoreFinite => AdmissionComplete
  BY <1>1 DEF AdmissionComplete
<1>3. QED
  BY <1>2, TypeCorrect, PTL

(* The order of pruning is a strict order of all stored calls. *)
LEMMA PruningOrder ==
  ASSUME TypeOK, NEW c \in Stored, NEW d \in Stored, NEW e \in Stored
  PROVE  /\ c # d => SortsBefore(c, d) \/ SortsBefore(d, c)
         /\ ~ SortsBefore(c, c)
         /\ SortsBefore(c, d) /\ SortsBefore(d, e) => SortsBefore(c, e)
<1>1. \A t \in Nat : TextOrder(t) \in Int
  <2>1. ASSUME NEW t \in Nat
        PROVE  t \div TicksPerSecond \in Int /\ t % TicksPerSecond \in Int
    BY StoreAssumption
  <2>2. QED
    BY <2>1, StoreAssumption DEF TextOrder
<1>2. \A x \in {c, d, e} : /\ x \in Int
                           /\ TextOrder(calls[x].updated) \in Int
                           /\ TextOrder(calls[x].created) \in Int
  BY <1>1, StoredRow, StoreAssumption DEF TypeOK
<1>3. QED
  BY <1>2 DEF SortsBefore

(* Of finitely many calls one sorts last: it has the most others before it. *)
LEMMA LastExists ==
  ASSUME TypeOK, StoreFinite, NEW D \in SUBSET Stored, D # {}
  PROVE  \E d \in D : \A e \in D \ {d} : SortsBefore(e, d)
<1> DEFINE before(d) == {e \in D : SortsBefore(e, d)}
           behind == {Cardinality(D) - Cardinality(before(d)) : d \in D}
<1>1. IsFiniteSet(D) /\ Cardinality(D) \in Nat
  BY NoMore, FS_CardinalityType DEF StoreFinite
<1>2. ASSUME NEW d \in D
      PROVE  /\ IsFiniteSet(before(d))
             /\ Cardinality(before(d)) \in Nat
             /\ Cardinality(before(d)) <= Cardinality(D)
  <2>1. before(d) \subseteq D
    OBVIOUS
  <2> HIDE DEF before
  <2>2. QED
    BY <1>1, <2>1, NoMore, FS_CardinalityType
<1>3. PICK d \in D : \A e \in D : Cardinality(before(e)) <= Cardinality(before(d))
  <2>1. behind \in SUBSET Nat /\ behind # {}
    <3>1. ASSUME NEW d \in D
          PROVE  Cardinality(D) - Cardinality(before(d)) \in Nat
      <4> HIDE DEF before
      <4>1. QED
        BY <1>1, <1>2
    <3>2. QED
      BY <3>1
  <2>2. PICK m \in behind : \A k \in behind : m <= k
    BY <2>1, LeastNumber
  <2>3. PICK d \in D : m = Cardinality(D) - Cardinality(before(d))
    BY <2>2
  <2>4. ASSUME NEW e \in D
        PROVE  Cardinality(before(e)) <= Cardinality(before(d))
    <3>1. Cardinality(D) - Cardinality(before(d)) <= Cardinality(D) - Cardinality(before(e))
      BY <2>2, <2>3
    <3> HIDE DEF before
    <3>2. QED
      BY <1>1, <1>2, <3>1
  <2>5. QED
    BY <2>4
<1>4. ASSUME NEW e \in D \ {d}
      PROVE  SortsBefore(e, d)
  <2>1. SUFFICES ASSUME SortsBefore(d, e) PROVE FALSE
    BY PruningOrder
  <2>2. before(d) \cup {d} \subseteq before(e) /\ d \notin before(d)
    BY <2>1, PruningOrder
  <2> HIDE DEF before
  <2>3. Cardinality(before(d) \cup {d}) = Cardinality(before(d)) + 1
    BY <1>2, <2>2, FS_AddElement
  <2>4. Cardinality(before(d) \cup {d}) <= Cardinality(before(e))
    BY <1>2, <2>2, NoMore
  <2>5. QED
    BY <1>2, <1>3, <2>3, <2>4
<1>5. QED
  BY <1>4

(***************************************************************************)
(* What is deleted for a quota was prunable for it, and only because, with *)
(* some of the calls at hand, there was no room.                           *)
(***************************************************************************)
LEMMA PrunedInNeed ==
  ASSUME TypeOK, StoreFinite, NEW q, NEW Ss \in SUBSET (SUBSET Stored), NEW i, NEW n,
         NEW T \in Prune(q, Ss, i, n)
  PROVE  \E S \in Ss : /\ T \subseteq S
                       /\ S \ T \subseteq Prunable(q, S, i)
                       /\ S # T => \E X \in SUBSET S : ~ HasRoom(q, X, i, n)
<1>1. PICK S \in Ss : \E D \in SUBSET Prunable(q, S, i) : T = S \ D /\ Pruned(D, q, S, i, n)
  BY DEF Prune
<1>2. PICK D \in SUBSET Prunable(q, S, i) : T = S \ D /\ Pruned(D, q, S, i, n)
  BY <1>1
<1>3. Prunable(q, S, i) \subseteq S /\ S \subseteq Stored
  BY DEF Prunable, OwnedBy
<1>4. ASSUME S # T
      PROVE  \E X \in SUBSET S : ~ HasRoom(q, X, i, n)
  <2>1. D # {} /\ D \in SUBSET Stored
    BY <1>2, <1>3, <1>4
  <2>2. PICK d \in D : \A e \in D \ {d} : SortsBefore(e, d)
    BY <2>1, LastExists
  <2>3. ~ HasRoom(q, (S \ D) \cup {d}, i, n)
    BY <1>2, <2>2 DEF Pruned
  <2>4. (S \ D) \cup {d} \in SUBSET S
    BY <1>3
  <2>5. QED
    BY <2>3, <2>4
<1>5. QED
  BY <1>2, <1>4

(***************************************************************************)
(* Only its own calls go for an identity's quota; those of others go when  *)
(* the whole store has as many calls, or as many bytes, as it may.         *)
(***************************************************************************)
THEOREM OthersSpared == Spec => OthersPrunedOnlyWhenFull
<1>1. ASSUME TypeOK, StoreFinite, NEW i \in Identity, NEW n \in Nat,
             NEW kept \in AfterPruning(i, n), NEW gone \in Stored \ kept,
             calls[gone].identity # i
      PROVE  \/ Cardinality(Stored) >= MaxGlobalRetained
             \/ n > MaxGlobalBytes - StorageBytes(Stored)
  <2> DEFINE P1 == Prune("identityCalls", {Stored}, i, n)
             P2 == Prune("globalCalls", P1, i, n)
             P3 == Prune("identityBytes", P2, i, n)
             P4 == Prune("globalBytes", P3, i, n)
  <2>1. kept \in P4
    BY DEF AfterPruning
  <2>2. P1 \in SUBSET (SUBSET Stored)
    BY PruneOneQuota
  <2> HIDE DEF P1
  <2>3. P2 \in SUBSET (SUBSET Stored)
    BY <2>2, PruneOneQuota
  <2> HIDE DEF P2
  <2>4. P3 \in SUBSET (SUBSET Stored)
    BY <2>3, PruneOneQuota
  <2> HIDE DEF P3, P4
  <2>5. PICK T3 \in P3 : T3 # kept => \E X \in SUBSET T3 : ~ HasRoom("globalBytes", X, i, n)
    BY <1>1, <2>1, <2>4, PrunedInNeed DEF P4
  <2>6. PICK T2 \in P2 : T2 \ T3 \subseteq Prunable("identityBytes", T2, i)
    BY <1>1, <2>3, PrunedInNeed DEF P3
  <2>7. PICK T1 \in P1 : T1 # T2 => \E X \in SUBSET T1 : ~ HasRoom("globalCalls", X, i, n)
    BY <1>1, <2>2, PrunedInNeed DEF P2
  <2>8. Stored \ T1 \subseteq Prunable("identityCalls", Stored, i)
    <3>1. PICK D \in SUBSET Prunable("identityCalls", Stored, i) : T1 = Stored \ D
      BY DEF P1, Prune
    <3>2. QED
      BY <3>1
  <2>9. gone \in T1 /\ (gone \in T2 => gone \in T3)
    BY <1>1, <2>6, <2>8 DEF Prunable, OwnedBy
  <2>10. CASE gone \notin T2
    <3>1. PICK X \in SUBSET Stored : ~ HasRoom("globalCalls", X, i, n)
      BY <2>2, <2>7, <2>9, <2>10
    <3>2. ~ (Cardinality(X) < MaxGlobalRetained)
      BY <3>1 DEF HasRoom
    <3>3. /\ Cardinality(X) \in Nat /\ Cardinality(Stored) \in Nat
          /\ Cardinality(X) <= Cardinality(Stored)
      BY <1>1, NoMore, FS_CardinalityType DEF StoreFinite
    <3>4. QED
      BY <3>2, <3>3, StoreAssumption
  <2>11. CASE gone \in T3
    <3>1. PICK X \in SUBSET Stored : ~ HasRoom("globalBytes", X, i, n)
      BY <1>1, <2>4, <2>5, <2>11
    <3>2. ~ (n <= MaxGlobalBytes - StorageBytes(X))
      BY <3>1 DEF HasRoom
    <3>3. /\ StorageBytes(X) \in Nat /\ StorageBytes(Stored) \in Nat
          /\ StorageBytes(X) <= StorageBytes(Stored)
      BY <1>1, StorageFacts
    <3>4. QED
      BY <3>2, <3>3, StoreAssumption
  <2>12. QED
    BY <2>9, <2>10, <2>11
<1>2. ASSUME TypeOK, StoreFinite, [Next]_vars,
             NEW new \in Stored' \ Stored, NEW gone \in Stored \ Stored',
             calls'[new].identity # calls[gone].identity
      PROVE  \/ Cardinality(Stored) >= MaxGlobalRetained
             \/ calls'[new].storageBytes > MaxGlobalBytes - StorageBytes(Stored)
  <2>1. PICK c \in CallID, i \in Identity, p \in Payload : Create(c, i, p)
    BY <1>2 DEF Next, vars, Transition, Complete, AppendEvent, RecoverInterrupted, Tick, Stored
  <2>2. PICK kept \in AfterPruning(i, Size[p]) :
          calls' = [d \in kept \cup {c} |-> IF d = c THEN NewCall(i, p) ELSE calls[d]]
    BY <2>1 DEF Create
  <2>3. Stored' = kept \cup {c} /\ calls'[c] = NewCall(i, p)
    BY <2>2 DEF Stored
  <2>4. Size[p] \in Nat
    BY StoreAssumption
  <2>5. kept \subseteq Stored
    BY <1>2, <2>4, PruneMakesByteRoom
  <2>6. new = c
    BY <2>3, <2>5
  <2>7. calls'[new].identity = i /\ calls'[new].storageBytes = Size[p]
    BY <2>3, <2>6 DEF NewCall
  <2>8. gone \in Stored \ kept /\ calls[gone].identity # i
    BY <1>2, <2>3, <2>7
  <2>9. QED
    BY <1>1, <1>2, <2>4, <2>7, <2>8
<1>3. TypeOK /\ StoreFinite /\ [Next]_vars =>
        [\A new \in Stored' \ Stored, gone \in Stored \ Stored' :
           calls'[new].identity # calls[gone].identity =>
             \/ Cardinality(Stored) >= MaxGlobalRetained
             \/ calls'[new].storageBytes > MaxGlobalBytes - StorageBytes(Stored)]_vars
  BY <1>2
<1>4. QED
  BY <1>3, TypeCorrect, PTL DEF Spec, OthersPrunedOnlyWhenFull

----------------------------------------------------------------------------
(* Which calls are pruned first. *)

(* T is left of S, and of each owner the settled calls that sort first go. *)
FirstGone(S, T) ==
  /\ T \subseteq S
  /\ \A gone \in S \ T, left \in T :
       /\ calls[left].state \in Terminal
       /\ calls[left].identity = calls[gone].identity
       => SortsBefore(gone, left)

(* Pruning for one quota takes of each owner the calls that sort first. *)
LEMMA PrunedFirst ==
  ASSUME NEW q, NEW Ss, NEW i, NEW n, NEW T \in Prune(q, Ss, i, n)
  PROVE  \E S \in Ss : FirstGone(S, T)
<1>1. PICK S \in Ss : \E D \in SUBSET Prunable(q, S, i) : T = S \ D /\ Pruned(D, q, S, i, n)
  BY DEF Prune
<1>2. PICK D \in SUBSET Prunable(q, S, i) : T = S \ D /\ Pruned(D, q, S, i, n)
  BY <1>1
<1>3. ASSUME NEW gone \in S \ T, NEW left \in T,
             calls[left].state \in Terminal,
             calls[left].identity = calls[gone].identity
      PROVE  SortsBefore(gone, left)
  <2>1. gone \in D /\ left \in S \ D
    BY <1>2, <1>3
  <2>2. left \in Prunable(q, S, i)
    BY <1>2, <1>3, <2>1 DEF Prunable, OwnedBy, Active
  <2>3. QED
    BY <1>2, <2>1, <2>2 DEF Pruned
<1>4. QED
  BY <1>2, <1>3 DEF FirstGone

(* So does pruning for one quota after the other. *)
LEMMA AllPrunedFirst ==
  ASSUME NEW i, NEW n, NEW kept \in AfterPruning(i, n)
  PROVE  FirstGone(Stored, kept)
<1> DEFINE P1 == Prune("identityCalls", {Stored}, i, n)
           P2 == Prune("globalCalls", P1, i, n)
           P3 == Prune("identityBytes", P2, i, n)
           P4 == Prune("globalBytes", P3, i, n)
<1>1. kept \in P4
  BY DEF AfterPruning
<1>2. PICK T3 \in P3 : FirstGone(T3, kept)
  BY <1>1, PrunedFirst DEF P4
<1>3. PICK T2 \in P2 : FirstGone(T2, T3)
  BY <1>2, PrunedFirst DEF P3
<1>4. PICK T1 \in P1 : FirstGone(T1, T2)
  BY <1>3, PrunedFirst DEF P2
<1>5. \E S \in {Stored} : FirstGone(S, T1)
  BY <1>4, PrunedFirst DEF P1
<1> HIDE DEF P1, P2, P3, P4
<1>6. QED
  BY <1>2, <1>3, <1>4, <1>5 DEF FirstGone

(* Text that sorts no later is of no later second. *)
LEMMA TextBySeconds ==
  ASSUME NEW t \in Nat, NEW u \in Nat, TextOrder(t) <= TextOrder(u)
  PROVE  t \div TicksPerSecond <= u \div TicksPerSecond
<1> DEFINE place(x) == IF x % TicksPerSecond = 0 THEN TicksPerSecond ELSE x % TicksPerSecond
<1>1. \A x \in {t, u} : /\ x \div TicksPerSecond \in Int
                        /\ place(x) \in 1..TicksPerSecond
  <2>1. ASSUME NEW x \in {t, u}
        PROVE  x \div TicksPerSecond \in Int /\ x % TicksPerSecond \in 0..(TicksPerSecond - 1)
    BY StoreAssumption
  <2>2. QED
    BY <2>1, StoreAssumption
<1>2. \A x \in {t, u} :
        TextOrder(x) = (x \div TicksPerSecond) * (TicksPerSecond + 1) + place(x)
  BY DEF TextOrder
<1> HIDE DEF place
<1>3. ASSUME NEW k \in Nat, NEW m \in Int, NEW p \in Int, m < p
      PROVE  m * (k + 1) + k + 1 <= p * (k + 1)
  <2>1. p - m - 1 \in Nat /\ k + 1 \in Nat
    BY <1>3
  <2>2. (p - m - 1) * (k + 1) >= 0
    BY <2>1
  <2>3. (p - m - 1) * (k + 1) = p * (k + 1) - m * (k + 1) - (k + 1)
    BY <2>1
  <2>4. QED
    BY <2>2, <2>3
<1> DEFINE st == t \div TicksPerSecond
           su == u \div TicksPerSecond
<1>4. SUFFICES ASSUME su < st PROVE FALSE
  BY <1>1
<1>5. su * (TicksPerSecond + 1) + TicksPerSecond + 1 <= st * (TicksPerSecond + 1)
  BY <1>1, <1>3, <1>4, StoreAssumption
<1>6. /\ TextOrder(t) = st * (TicksPerSecond + 1) + place(t)
      /\ TextOrder(u) = su * (TicksPerSecond + 1) + place(u)
  BY <1>2
<1>7. /\ st * (TicksPerSecond + 1) \in Int
      /\ su * (TicksPerSecond + 1) \in Int
  BY <1>1, StoreAssumption
<1>8. place(t) \in 1..TicksPerSecond /\ place(u) \in 1..TicksPerSecond
  BY <1>1
<1> HIDE DEF st, su
<1>9. QED
  BY <1>5, <1>6, <1>7, <1>8, StoreAssumption

(***************************************************************************)
(* The order of pruning errs by less than a second: no call is pruned      *)
(* while one of its owner that finished in an earlier second is kept.      *)
(***************************************************************************)
THEOREM OldestSecondPruned == Spec => PrunesOldestSecondFirst
<1>1. ASSUME TypeOK, StoreFinite, [Next]_vars,
             NEW gone \in Stored \ Stored', NEW left \in Stored \cap Stored',
             calls[left].state \in Terminal,
             calls[left].identity = calls[gone].identity
      PROVE  calls[gone].updated \div TicksPerSecond
               <= calls[left].updated \div TicksPerSecond
  <2>1. PICK c \in CallID, i \in Identity, p \in Payload : Create(c, i, p)
    BY <1>1 DEF Next, vars, Transition, Complete, AppendEvent, RecoverInterrupted, Tick, Stored
  <2>2. PICK kept \in AfterPruning(i, Size[p]) :
          calls' = [d \in kept \cup {c} |-> IF d = c THEN NewCall(i, p) ELSE calls[d]]
    BY <2>1 DEF Create
  <2>3. Stored' = kept \cup {c} /\ c \notin Stored
    BY <2>1, <2>2 DEF Stored, Create
  <2>4. gone \in Stored \ kept /\ left \in kept
    BY <1>1, <2>3
  <2>5. SortsBefore(gone, left)
    BY <1>1, <2>2, <2>4, AllPrunedFirst DEF FirstGone
  <2>6. \A x \in {gone, left} : calls[x].updated \in Nat
    BY <1>1, StoredRow
  <2>7. TextOrder(calls[gone].updated) <= TextOrder(calls[left].updated)
    <3>1. \A x \in {gone, left} : TextOrder(calls[x].updated) \in Int
      <4>1. ASSUME NEW t \in Nat
            PROVE  t \div TicksPerSecond \in Int /\ t % TicksPerSecond \in Int
        BY StoreAssumption
      <4>2. QED
        BY <2>6, <4>1, StoreAssumption DEF TextOrder
    <3>2. QED
      BY <2>5, <3>1 DEF SortsBefore
  <2>8. QED
    BY <2>6, <2>7, TextBySeconds
<1>2. TypeOK /\ StoreFinite /\ [Next]_vars =>
        [\A gone \in Stored \ Stored', left \in Stored \cap Stored' :
           /\ calls[left].state \in Terminal
           /\ calls[left].identity = calls[gone].identity
           => calls[gone].updated \div TicksPerSecond
                <= calls[left].updated \div TicksPerSecond]_vars
  BY <1>1
<1>3. QED
  BY <1>2, TypeCorrect, PTL DEF Spec, PrunesOldestSecondFirst
=============================================================================
