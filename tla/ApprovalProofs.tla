--------------------------- MODULE ApprovalProofs ---------------------------
(***************************************************************************)
(* Proofs about Approval, for any number of callers, capabilities, inputs, *)
(* tokens and requests, any limit of pending tokens, and any lifetime of   *)
(* a token.  The eviction queue comes last: what may start a call does not *)
(* depend on it.                                                           *)
(***************************************************************************)
EXTENDS Approval, FiniteSetTheorems, TLAPS

(* The parts of TypeOK that do not speak of the queue. *)
TablesTyped ==
  /\ revision \in Nat
  /\ DOMAIN catalog \subseteq Capability
  /\ catalog \in [DOMAIN catalog -> Version]
  /\ DOMAIN approvals \subseteq Token
  /\ approvals \in [DOMAIN approvals -> Challenge]
  /\ Received \subseteq Run
  /\ runs \in [Received -> RunRecord]
  /\ clock \in Nat

(***************************************************************************)
(* A revision number names one version of a capability: what a request has *)
(* read with a given number is what any other request has read with it,    *)
(* and what the catalog holds if it still has that number.                 *)
(***************************************************************************)
VersionsAgree ==
  /\ \A c \in DOMAIN catalog : catalog[c].revision <= revision
  /\ \A r \in Received : runs[r].resolved.revision <= revision
  /\ \A r \in Received :
       /\ runs[r].capability \in DOMAIN catalog
       /\ runs[r].resolved.revision = catalog[runs[r].capability].revision
       => runs[r].resolved = catalog[runs[r].capability]
  /\ \A r, q \in Received :
       /\ runs[r].capability = runs[q].capability
       /\ runs[r].resolved.revision = runs[q].resolved.revision
       => runs[r].resolved = runs[q].resolved

(* Request q was answered with token t, and challenge ch says so. *)
IssuedAt(q, t, ch) ==
  /\ runs[q].at = "required"
  /\ runs[q].issued = t
  /\ SameRequest(ch, q)
  /\ runs[q].resolved.revision = ch.revision

(* Every challenge, pending or taken, is that of an answered request. *)
ChallengesIssued ==
  /\ \A t \in DOMAIN approvals : \E q \in Received : IssuedAt(q, t, approvals[t])
  /\ \A r \in Received :
       runs[r].at = "checking" =>
         /\ runs[r].approval \in Token
         /\ runs[r].challenge # NoChallenge =>
              \E q \in Received : IssuedAt(q, runs[r].approval, runs[r].challenge)

(* The run has the approval its version of the capability calls for. *)
Approved(r) ==
  IF runs[r].approval = NoToken
    THEN ~runs[r].resolved.always
    ELSE \E q \in Received :
           /\ runs[q].at = "required"
           /\ runs[q].issued = runs[r].approval
           /\ runs[q].identity = runs[r].identity
           /\ runs[q].capability = runs[r].capability
           /\ runs[q].input = runs[r].input
           /\ runs[q].resolved = runs[r].resolved

ClearedApproved ==
  \A r \in Received : runs[r].at \in {"cleared", "running", "ended"} => Approved(r)

(* Run r has taken its token out of the table. *)
Holds(r) ==
  /\ runs[r].approval # NoToken
  /\ \/ runs[r].at = "checking" /\ runs[r].challenge # NoChallenge
     \/ runs[r].at \in {"cleared", "running", "ended"}

(* A token is pending or held by one run, never both, never by two. *)
HeldOnce ==
  /\ \A r \in Received : Holds(r) => runs[r].approval \notin DOMAIN approvals
  /\ \A r, q \in Received :
       r # q /\ Holds(r) /\ Holds(q) => runs[r].approval # runs[q].approval

Inductive ==
  /\ TablesTyped
  /\ VersionsAgree
  /\ ChallengesIssued
  /\ ClearedApproved
  /\ HeldOnce
  /\ RunsCurrentVersion

LEMMA InitInductive == Init => Inductive
BY ApprovalAssumption
   DEF Init, Inductive, TablesTyped, VersionsAgree, ChallengesIssued, ClearedApproved,
       HeldOnce, RunsCurrentVersion, Received, Version

(***************************************************************************)
(* A run that only moves to another place keeps the invariant, provided it *)
(* is approved where it must be and starts what is in the catalog.         *)
(***************************************************************************)
LEMMA MoveKeeps ==
  ASSUME Inductive, NEW r \in Received,
         NEW p \in Place \ {"required", "checking"},
         runs' = [runs EXCEPT ![r].at = p],
         UNCHANGED <<revision, catalog, approvals, clock>>,
         runs[r].at # "required",
         p \in {"cleared", "running", "ended"} =>
           /\ Approved(r)
           /\ runs[r].approval = NoToken \/ Holds(r),
         p = "running" =>
           /\ runs[r].capability \in DOMAIN catalog
           /\ catalog[runs[r].capability] = runs[r].resolved
  PROVE  Inductive'
<1> USE DEF Inductive
<1>1. Received' = Received
  BY DEF Received, TablesTyped
<1>2. runs[r] \in RunRecord
  BY DEF TablesTyped
<1>3. /\ \A q \in Received \ {r} : runs'[q] = runs[q]
      /\ runs'[r] = [runs[r] EXCEPT !.at = p]
  BY DEF TablesTyped, Received
<1>4. /\ runs'[r].at = p
      /\ runs'[r].identity = runs[r].identity
      /\ runs'[r].capability = runs[r].capability
      /\ runs'[r].input = runs[r].input
      /\ runs'[r].approval = runs[r].approval
      /\ runs'[r].resolved = runs[r].resolved
      /\ runs'[r].challenge = runs[r].challenge
      /\ runs'[r].issued = runs[r].issued
  BY <1>2, <1>3 DEF RunRecord
<1>5. TablesTyped'
  <2>1. runs'[r] \in RunRecord
    BY <1>2, <1>3 DEF RunRecord
  <2>2. runs' \in [Received' -> RunRecord]
    BY <1>1, <1>3, <2>1 DEF TablesTyped, Received
  <2>3. QED
    BY <1>1, <2>2 DEF TablesTyped
<1>6. VersionsAgree'
  BY <1>1, <1>3, <1>4 DEF VersionsAgree
<1>7. ASSUME NEW q \in Received, NEW t, NEW ch, IssuedAt(q, t, ch)
      PROVE  IssuedAt(q, t, ch)'
  BY <1>3, <1>7 DEF IssuedAt, SameRequest
<1>8. ChallengesIssued'
  BY <1>1, <1>3, <1>4, <1>7 DEF ChallengesIssued
<1>9. ASSUME NEW q \in Received, Approved(q)
      PROVE  Approved(q)'
  BY <1>1, <1>3, <1>4, <1>9 DEF Approved
<1>10. ClearedApproved'
  BY <1>1, <1>3, <1>4, <1>9 DEF ClearedApproved
<1>11. HeldOnce'
  <2>1. ASSUME NEW q \in Received, Holds(q)'
        PROVE  Holds(q) /\ runs'[q].approval = runs[q].approval
    BY <1>3, <1>4, <2>1 DEF Holds
  <2>2. QED
    BY <1>1, <2>1 DEF HeldOnce
<1>12. RunsCurrentVersion'
  BY <1>1, <1>3, <1>4 DEF RunsCurrentVersion
<1>13. QED
  BY <1>5, <1>6, <1>8, <1>10, <1>11, <1>12

LEMMA ResolveKeeps ==
  ASSUME Inductive, NEW r \in Run, NEW i \in Identity, NEW c \in Capability,
         NEW x \in Input, NEW t \in Token \cup {NoToken}, Resolve(r, i, c, x, t)
  PROVE  Inductive'
<1> USE DEF Inductive
<1> DEFINE new == [at |-> "resolved", identity |-> i, capability |-> c,
                   input |-> x, approval |-> t, resolved |-> catalog[c],
                   challenge |-> NoChallenge, issued |-> NoToken]
<1>1. /\ Received' = Received \cup {r}
      /\ r \notin Received
      /\ c \in DOMAIN catalog
      /\ \A q \in Received : runs'[q] = runs[q]
      /\ runs'[r] = new
      /\ UNCHANGED <<revision, catalog, approvals, clock>>
  BY DEF Resolve, Received
<1>2. new \in RunRecord
  BY <1>1 DEF RunRecord, Place, TablesTyped
<1>3. TablesTyped'
  BY <1>1, <1>2 DEF TablesTyped, Received, Resolve
<1>4. VersionsAgree'
  BY <1>1 DEF VersionsAgree
<1>5. ASSUME NEW q \in Received, NEW u, NEW ch, IssuedAt(q, u, ch)
      PROVE  IssuedAt(q, u, ch)'
  BY <1>1, <1>5 DEF IssuedAt, SameRequest
<1>6. ChallengesIssued'
  BY <1>1, <1>5 DEF ChallengesIssued
<1>7. ClearedApproved'
  BY <1>1 DEF ClearedApproved, Approved
<1>8. HeldOnce'
  BY <1>1 DEF HeldOnce, Holds
<1>9. RunsCurrentVersion'
  BY <1>1 DEF RunsCurrentVersion
<1>10. QED
  BY <1>3, <1>4, <1>6, <1>7, <1>8, <1>9

(* The new token is fresh, and what it replaces or evicts is not missed. *)
LEMMA RequireKeeps ==
  ASSUME Inductive, NEW r \in Run, NEW t \in Token, RequireApproval(r, t)
  PROVE  Inductive'
<1> USE DEF Inductive
<1> DEFINE new == [identity |-> runs[r].identity, capability |-> runs[r].capability,
                   revision |-> runs[r].resolved.revision, input |-> runs[r].input,
                   expiresAt |-> clock + TTL]
<1>1. PICK left \in SUBSET DOMAIN approvals :
        approvals' = [u \in left \cup {t} |-> IF u = t THEN new ELSE approvals[u]]
  BY DEF RequireApproval, Issue
<1>2. /\ Received' = Received
      /\ r \in Received
      /\ runs[r].at = "resolved"
      /\ runs[r].approval = NoToken
      /\ \A q \in Received : runs[q].issued # t
      /\ UNCHANGED <<revision, catalog, clock>>
  BY DEF RequireApproval, Received, TablesTyped
<1>3. runs[r] \in RunRecord
  BY <1>2 DEF TablesTyped
<1>4. /\ \A q \in Received \ {r} : runs'[q] = runs[q]
      /\ runs'[r] = [runs[r] EXCEPT !.at = "required", !.issued = t]
  BY <1>2 DEF RequireApproval, TablesTyped, Received
<1>5. /\ runs'[r].at = "required"
      /\ runs'[r].issued = t
      /\ runs'[r].identity = runs[r].identity
      /\ runs'[r].capability = runs[r].capability
      /\ runs'[r].input = runs[r].input
      /\ runs'[r].approval = runs[r].approval
      /\ runs'[r].resolved = runs[r].resolved
      /\ runs'[r].challenge = runs[r].challenge
  BY <1>3, <1>4 DEF RunRecord
<1>6. TablesTyped'
  <2>1. runs'[r] \in RunRecord
    BY <1>3, <1>4 DEF RunRecord, Place
  <2>2. runs' \in [Received' -> RunRecord]
    BY <1>2, <1>4, <2>1 DEF TablesTyped, Received, RequireApproval
  <2>3. clock + TTL \in Nat
    BY ApprovalAssumption DEF TablesTyped
  <2>4. new \in Challenge
    BY <1>3, <2>3 DEF RunRecord, Version, Challenge
  <2>5. approvals' \in [DOMAIN approvals' -> Challenge] /\ DOMAIN approvals' \subseteq Token
    BY <1>1, <2>4 DEF TablesTyped
  <2>6. QED
    BY <1>2, <2>2, <2>5 DEF TablesTyped
<1>7. VersionsAgree'
  <2>1. \A q \in Received : /\ runs'[q].resolved = runs[q].resolved
                            /\ runs'[q].capability = runs[q].capability
    BY <1>4, <1>5
  <2>2. QED
    BY <1>2, <2>1 DEF VersionsAgree
<1>8. ASSUME NEW q \in Received, NEW u, NEW ch, IssuedAt(q, u, ch)
      PROVE  IssuedAt(q, u, ch)'
  BY <1>2, <1>4, <1>8 DEF IssuedAt, SameRequest
<1>9. ChallengesIssued'
  <2>2. ASSUME NEW u \in DOMAIN approvals'
        PROVE  \E q \in Received : IssuedAt(q, u, approvals[u])'
    <3>1. CASE u = t
      <4>1. approvals'[u] = new
        BY <1>1, <3>1
      <4>2. IssuedAt(r, u, approvals[u])'
        BY <1>5, <3>1, <4>1 DEF IssuedAt, SameRequest
      <4>3. QED
        BY <1>2, <4>2
    <3>2. CASE u # t
      BY <1>1, <1>8, <3>2 DEF ChallengesIssued
    <3>3. QED
      BY <3>1, <3>2
  <2>3. ASSUME NEW q \in Received, runs'[q].at = "checking"
        PROVE  q # r /\ runs'[q] = runs[q]
    BY <1>4, <1>5, <2>3
  <2>4. QED
    BY <1>2, <1>8, <2>2, <2>3 DEF ChallengesIssued
<1>10. ASSUME NEW q \in Received, q # r, Approved(q)
       PROVE  Approved(q)'
  BY <1>2, <1>4, <1>5, <1>10 DEF Approved
<1>11. ClearedApproved'
  BY <1>2, <1>4, <1>5, <1>10 DEF ClearedApproved
<1>12. ASSUME NEW q \in Received, Holds(q)
       PROVE  runs[q].approval # t
  BY <1>2, <1>12 DEF Holds, ChallengesIssued, IssuedAt, ClearedApproved, Approved
<1>13. HeldOnce'
  <2>1. ASSUME NEW q \in Received, Holds(q)'
        PROVE  Holds(q) /\ runs'[q].approval = runs[q].approval
    BY <1>4, <1>5, <2>1 DEF Holds
  <2>2. QED
    BY <1>1, <1>2, <1>12, <2>1 DEF HeldOnce
<1>14. RunsCurrentVersion'
  <2>1. ASSUME NEW q \in Received, runs'[q].at = "running"
        PROVE  runs'[q] = runs[q]
    BY ONLY <1>4, <1>5, <2>1
  <2>2. QED
    BY <1>2, <2>1 DEF RunsCurrentVersion
<1>15. QED
  BY <1>6, <1>7, <1>9, <1>11, <1>13, <1>14

(* The token moves from the table to the run that presents it. *)
LEMMA TakeKeeps ==
  ASSUME Inductive, NEW r \in Run, TakeToken(r)
  PROVE  Inductive'
<1> USE DEF Inductive
<1> DEFINE t == runs[r].approval
           ch == Lookup(runs[r].approval)
<1>1. /\ Received' = Received
      /\ r \in Received
      /\ runs[r].at = "resolved"
      /\ t # NoToken
      /\ approvals' = [u \in DOMAIN approvals \ {t} |-> approvals[u]]
      /\ UNCHANGED <<revision, catalog, clock>>
  BY DEF TakeToken, Received, TablesTyped, Restrict
<1>2. runs[r] \in RunRecord
  BY <1>1 DEF TablesTyped
<1>3. /\ \A q \in Received \ {r} : runs'[q] = runs[q]
      /\ runs'[r] = [runs[r] EXCEPT !.at = "checking", !.challenge = ch]
  BY <1>1 DEF TakeToken, TablesTyped, Received
<1>4. /\ runs'[r].at = "checking"
      /\ runs'[r].challenge = ch
      /\ runs'[r].capability = runs[r].capability
      /\ runs'[r].approval = runs[r].approval
      /\ runs'[r].resolved = runs[r].resolved
  BY <1>2, <1>3 DEF RunRecord
<1>5. t \in Token
  BY <1>1, <1>2 DEF RunRecord
<1>6. TablesTyped'
  <2>1. ch \in Challenge \cup {NoChallenge}
    BY DEF Lookup, TablesTyped
  <2>2. runs'[r] \in RunRecord
    BY <1>2, <1>3, <2>1 DEF RunRecord, Place
  <2>3. runs' \in [Received' -> RunRecord]
    BY <1>1, <1>3, <2>2 DEF TablesTyped, Received, TakeToken
  <2>4. QED
    BY <1>1, <2>3 DEF TablesTyped
<1>7. VersionsAgree'
  <2>1. \A q \in Received : /\ runs'[q].resolved = runs[q].resolved
                            /\ runs'[q].capability = runs[q].capability
    BY <1>3, <1>4
  <2>2. QED
    BY <1>1, <2>1 DEF VersionsAgree
<1>8. ASSUME NEW q \in Received, NEW u, NEW c, IssuedAt(q, u, c)
      PROVE  IssuedAt(q, u, c)'
  BY <1>1, <1>3, <1>8 DEF IssuedAt, SameRequest
<1>9. ChallengesIssued'
  <2>1. ch # NoChallenge => \E q \in Received : IssuedAt(q, t, ch)
    BY <1>1 DEF Lookup, ChallengesIssued
  <2>2. ASSUME NEW q \in Received, runs'[q].at = "checking"
        PROVE  /\ runs'[q].approval \in Token
               /\ runs'[q].challenge # NoChallenge =>
                    \E o \in Received : IssuedAt(o, runs'[q].approval, runs'[q].challenge)
    BY <1>3, <1>4, <1>5, <2>1, <2>2 DEF ChallengesIssued
  <2>3. ASSUME NEW u \in DOMAIN approvals'
        PROVE  \E q \in Received : IssuedAt(q, u, approvals'[u])
    BY <1>1, <2>3 DEF ChallengesIssued
  <2>4. ASSUME NEW q \in Received, runs'[q].at = "checking", runs'[q].challenge # NoChallenge
        PROVE  \E o \in Received : IssuedAt(o, runs[q].approval, runs[q].challenge)'
    BY <1>8, <2>2, <2>4
  <2>5. ASSUME NEW u \in DOMAIN approvals'
        PROVE  \E q \in Received : IssuedAt(q, u, approvals[u])'
    BY <1>8, <2>3, <2>5
  <2>6. QED
    BY <1>1, <2>2, <2>4, <2>5 DEF ChallengesIssued
<1>10. ASSUME NEW q \in Received, q # r, Approved(q)
       PROVE  Approved(q)'
  BY <1>1, <1>3, <1>10 DEF Approved
<1>11. ClearedApproved'
  BY <1>1, <1>3, <1>4, <1>10 DEF ClearedApproved
<1>12. HeldOnce'
  <2>1. \A q \in Received \ {r} : Holds(q)' = Holds(q) /\ runs'[q].approval = runs[q].approval
    BY <1>3 DEF Holds
  <2>2. Holds(r)' => t \in DOMAIN approvals
    BY <1>4 DEF Holds, Lookup
  <2>3. QED
    BY <1>1, <1>4, <2>1, <2>2 DEF HeldOnce
<1>13. RunsCurrentVersion'
  <2>1. \A q \in Received : runs'[q].at = "running" => runs'[q] = runs[q]
    BY <1>3, <1>4
  <2>2. QED
    BY <1>1, <2>1 DEF RunsCurrentVersion
<1>14. QED
  BY <1>6, <1>7, <1>9, <1>11, <1>12, <1>13

(* A run is cleared only when the challenge of its token is its own request. *)
LEMMA CheckKeeps ==
  ASSUME Inductive, NEW r \in Run, CheckToken(r)
  PROVE  Inductive'
<1> DEFINE ch == runs[r].challenge
<1>1. /\ r \in Received
      /\ runs[r].at = "checking"
      /\ runs' = [runs EXCEPT ![r].at = Verdict(r)]
      /\ UNCHANGED <<revision, catalog, approvals, clock>>
  BY DEF CheckToken
<1>2. Verdict(r) \in {"mismatch", "changed", "cleared"}
  BY DEF Verdict
<1>3. Verdict(r) = "cleared" =>
        /\ ch # NoChallenge
        /\ SameRequest(ch, r)
        /\ ch.revision = runs[r].resolved.revision
  BY DEF Verdict
<1>4. runs[r].approval \in Token
  BY <1>1 DEF Inductive, ChallengesIssued
<1>5. ASSUME Verdict(r) = "cleared"
      PROVE  Approved(r) /\ Holds(r)
  <2>1. PICK q \in Received : IssuedAt(q, runs[r].approval, ch)
    BY <1>1, <1>3, <1>5 DEF Inductive, ChallengesIssued
  <2>2. /\ runs[q].capability = runs[r].capability
        /\ runs[q].identity = runs[r].identity
        /\ runs[q].input = runs[r].input
        /\ runs[q].resolved.revision = runs[r].resolved.revision
    BY <1>3, <1>5, <2>1 DEF IssuedAt, SameRequest
  <2>3. runs[q].resolved = runs[r].resolved
    BY <1>1, <2>2 DEF Inductive, VersionsAgree
  <2>4. runs[r].approval # NoToken
    BY <1>4, ApprovalAssumption
  <2>5. QED
    BY <1>1, <1>3, <1>5, <2>1, <2>2, <2>3, <2>4 DEF Approved, Holds, IssuedAt
<1>6. Verdict(r) \in Place \ {"required", "checking"}
  BY <1>2 DEF Place
<1>7. QED
  BY <1>1, <1>2, <1>5, <1>6, MoveKeeps

(* The version read again under the gate is the one that was approved. *)
LEMMA StartKeeps ==
  ASSUME Inductive, NEW r \in Run, Start(r)
  PROVE  Inductive'
<1> DEFINE current == catalog[runs[r].capability]
<1>1. /\ r \in Received
      /\ runs[r].at = "cleared"
      /\ runs[r].capability \in DOMAIN catalog
      /\ UNCHANGED <<revision, catalog, approvals, clock>>
  BY DEF Start
<1>2. Approved(r) /\ (runs[r].approval = NoToken \/ Holds(r))
  BY <1>1 DEF Inductive, ClearedApproved, Holds
<1>3. CASE current.revision = runs[r].resolved.revision
  <2>1. current = runs[r].resolved
    BY <1>1, <1>3 DEF Inductive, VersionsAgree
  <2>2. runs[r] \in RunRecord /\ runs \in [Received -> RunRecord]
    BY <1>1 DEF Inductive, TablesTyped
  <2>3. runs' = [runs EXCEPT ![r].at = "running", ![r].resolved = current]
    BY <1>3 DEF Start
  <2>4. runs' = [runs EXCEPT ![r].at = "running"]
    BY <2>1, <2>2, <2>3 DEF RunRecord
  <2>5. QED
    BY <1>1, <1>2, <2>1, <2>4, MoveKeeps DEF Place
<1>4. CASE current.revision # runs[r].resolved.revision
  <2>1. runs' = [runs EXCEPT ![r].at = "changed"]
    BY <1>4 DEF Start
  <2>2. QED
    BY <1>1, <2>1, MoveKeeps DEF Place
<1>5. QED
  BY <1>3, <1>4

LEMMA OtherMovesKeep ==
  ASSUME Inductive, NEW r \in Run, Refuse(r) \/ NeedsNoApproval(r) \/ Finish(r)
  PROVE  Inductive'
<1>1. CASE Refuse(r)
  BY <1>1, MoveKeeps DEF Refuse, Place
<1>2. CASE NeedsNoApproval(r)
  BY <1>2, MoveKeeps DEF NeedsNoApproval, Place, Approved
<1>3. CASE Finish(r)
  BY <1>3, MoveKeeps DEF Finish, Place, Inductive, ClearedApproved, Holds
<1>4. QED
  BY <1>1, <1>2, <1>3

(* A new version has a number no request has seen. *)
LEMMA CatalogKeeps ==
  ASSUME Inductive, NEW c \in Capability,
         Delete(c) \/ \E always \in BOOLEAN : Replace(c, always)
  PROVE  Inductive'
<1> USE DEF Inductive
<1>1. /\ revision \in Nat /\ revision' = revision + 1
      /\ GateFree(c)
      /\ UNCHANGED <<approvals, runs, clock>>
      /\ Received' = Received
  BY DEF Delete, Replace, TablesTyped, Received
<1>2. /\ DOMAIN catalog' \subseteq Capability
      /\ \A d \in DOMAIN catalog' \ {c} : d \in DOMAIN catalog /\ catalog'[d] = catalog[d]
      /\ c \in DOMAIN catalog' => catalog'[c].revision = revision + 1
      /\ \A d \in DOMAIN catalog : d = c \/ d \in DOMAIN catalog'
      /\ catalog' \in [DOMAIN catalog' -> Version]
  <2>1. CASE Delete(c)
    BY <2>1 DEF Delete, Restrict, TablesTyped
  <2>2. ASSUME NEW always \in BOOLEAN, Replace(c, always)
        PROVE  <1>2!:
    <3>1. [revision |-> revision + 1, always |-> always] \in Version
      BY <1>1 DEF Version
    <3>2. QED
      BY <2>2, <3>1 DEF Replace, TablesTyped
  <2>3. QED
    BY <2>1, <2>2
<1>3. TablesTyped'
  BY <1>1, <1>2 DEF TablesTyped
<1>4. VersionsAgree'
  <2>1. \A d \in DOMAIN catalog : catalog[d].revision \in Nat
    BY DEF TablesTyped, Version
  <2>2. \A r \in Received : runs[r].resolved.revision \in Nat
    BY DEF TablesTyped, RunRecord, Version
  <2>3. QED
    BY <1>1, <1>2, <2>1, <2>2 DEF VersionsAgree
<1>5. ChallengesIssued'
  BY <1>1 DEF ChallengesIssued, IssuedAt, SameRequest
<1>6. ClearedApproved'
  BY <1>1 DEF ClearedApproved, Approved
<1>7. HeldOnce'
  BY <1>1 DEF HeldOnce, Holds
<1>8. RunsCurrentVersion'
  <2>1. ASSUME NEW r \in Received, runs[r].at = "running"
        PROVE  runs[r].capability # c /\ runs[r].capability \in DOMAIN catalog
                 /\ catalog[runs[r].capability] = runs[r].resolved
    BY <1>1, <2>1 DEF GateFree, RunsCurrentVersion
  <2>2. ASSUME NEW r \in Received, runs[r].at = "running"
        PROVE  /\ runs[r].capability \in DOMAIN catalog'
               /\ catalog'[runs[r].capability] = runs[r].resolved
    BY <1>2, <2>1, <2>2
  <2>3. QED
    BY <1>1, <2>2 DEF RunsCurrentVersion
<1>9. QED
  BY <1>3, <1>4, <1>5, <1>6, <1>7, <1>8

(* A restart keeps the catalog and forgets every token and unfinished request. *)
LEMMA RestartKeeps ==
  ASSUME Inductive, Restart
  PROVE  Inductive'
<1> USE DEF Inductive
<1>1. /\ Received' = Received
      /\ DOMAIN approvals' = {}
      /\ UNCHANGED <<revision, catalog, clock>>
  BY DEF Restart, Received
<1>2. ASSUME NEW r \in Received
      PROVE  \/ runs'[r] = [runs[r] EXCEPT !.at = "refused"]
             \/ runs'[r] = [runs[r] EXCEPT !.at = "ended"] /\ runs[r].at = "running"
             \/ runs'[r] = runs[r] /\ runs[r].at \notin {"checking", "running"}
  BY <1>2 DEF Restart, Received
<1>3. ASSUME NEW r \in Received
      PROVE  /\ runs'[r] \in RunRecord
             /\ runs'[r].identity = runs[r].identity
             /\ runs'[r].capability = runs[r].capability
             /\ runs'[r].input = runs[r].input
             /\ runs'[r].approval = runs[r].approval
             /\ runs'[r].resolved = runs[r].resolved
             /\ runs'[r].issued = runs[r].issued
  <2>1. runs[r] \in RunRecord
    BY DEF TablesTyped
  <2>2. ASSUME NEW place \in Place, runs'[r] = [runs[r] EXCEPT !.at = place]
        PROVE  /\ runs'[r] \in RunRecord
               /\ runs'[r].identity = runs[r].identity
               /\ runs'[r].capability = runs[r].capability
               /\ runs'[r].input = runs[r].input
               /\ runs'[r].approval = runs[r].approval
               /\ runs'[r].resolved = runs[r].resolved
               /\ runs'[r].issued = runs[r].issued
    BY ONLY <2>1, <2>2 DEF RunRecord
  <2>3. CASE runs'[r] = runs[r]
    BY <2>1, <2>3
  <2>4. "refused" \in Place /\ "ended" \in Place
    BY DEF Place
  <2>5. QED
    BY <1>2, <2>2, <2>3, <2>4
<1>4. ASSUME NEW r \in Received
      PROVE  /\ runs'[r].at \notin {"checking", "running"}
             /\ runs'[r].at = "cleared" => runs[r].at = "cleared"
             /\ runs'[r].at = "ended" => runs[r].at \in {"running", "ended"}
             /\ runs[r].at = "required" => runs'[r].at = "required"
  <2>1. runs[r] \in RunRecord
    BY DEF TablesTyped
  <2>2. runs[r].at = "required" => runs'[r].at = "required"
    BY <1>1 DEF Restart, Received
  <2>3. QED
    BY <1>2, <2>1, <2>2 DEF RunRecord
<1>5. TablesTyped'
  <2>1. runs' \in [Received' -> RunRecord]
    BY <1>1, <1>3 DEF Restart, Received
  <2>2. approvals' \in [DOMAIN approvals' -> Challenge]
    BY DEF Restart
  <2>3. QED
    BY <1>1, <2>1, <2>2 DEF TablesTyped
<1>6. VersionsAgree'
  BY <1>1, <1>3 DEF VersionsAgree
<1>7. ChallengesIssued'
  BY <1>1, <1>4 DEF ChallengesIssued
<1>8. ASSUME NEW r \in Received, Approved(r)
      PROVE  Approved(r)'
  BY <1>1, <1>3, <1>4, <1>8 DEF Approved
<1>9. ClearedApproved'
  BY <1>1, <1>4, <1>8 DEF ClearedApproved
<1>10. HeldOnce'
  <2>1. ASSUME NEW r \in Received, Holds(r)'
        PROVE  Holds(r) /\ runs'[r].approval = runs[r].approval
    BY <1>3, <1>4, <2>1 DEF Holds
  <2>2. QED
    BY <1>1, <2>1 DEF HeldOnce
<1>11. RunsCurrentVersion'
  BY <1>1, <1>4 DEF RunsCurrentVersion
<1>12. QED
  BY <1>5, <1>6, <1>7, <1>9, <1>10, <1>11

LEMMA TickKeeps ==
  ASSUME Inductive, Tick \/ UNCHANGED vars
  PROVE  Inductive'
<1>1. /\ UNCHANGED <<revision, catalog, approvals, runs>>
      /\ Received' = Received
      /\ clock' \in Nat
  BY DEF Inductive, TablesTyped, Tick, vars, Received
<1>2. QED
  BY <1>1 DEF Inductive, TablesTyped, VersionsAgree, ChallengesIssued, IssuedAt,
              SameRequest, ClearedApproved, Approved, HeldOnce, Holds, RunsCurrentVersion

(* The invariant from which the theorems follow. *)
THEOREM InductiveHolds == Spec => []Inductive
<1>1. ASSUME Inductive, [Next]_vars
      PROVE  Inductive'
  <2>1. ASSUME NEW r \in Run, RunStep(r)
        PROVE  Inductive'
    BY <1>1, <2>1, ResolveKeeps, RequireKeeps, TakeKeeps, CheckKeeps, StartKeeps,
       OtherMovesKeep DEF RunStep
  <2>2. CASE ~ \E r \in Run : RunStep(r)
    BY <1>1, <2>2, CatalogKeeps, RestartKeeps, TickKeeps DEF Next
  <2>3. QED
    BY <2>1, <2>2
<1>2. QED
  BY <1>1, InitInductive, PTL DEF Spec

(***************************************************************************)
(* Every call that needs approval was started with a token for exactly its *)
(* caller, capability version and input.  The invariant ties a token to    *)
(* the request it answered while it is pending and while it is checked,    *)
(* and a revision number to one version of the capability.                 *)
(***************************************************************************)
THEOREM ApprovedStarts == Spec => []StartsAreApproved
<1>1. Inductive => StartsAreApproved
  BY DEF Inductive, ClearedApproved, StartsAreApproved, Started, Approved
<1>2. QED
  BY <1>1, InductiveHolds, PTL

(* A token starts at most one call. *)
THEOREM SingleUse == Spec => []TokenStartsOnce
<1>1. Inductive => TokenStartsOnce
  BY DEF Inductive, HeldOnce, Holds, TokenStartsOnce, Started
<1>2. QED
  BY <1>1, InductiveHolds, PTL

(* A call in progress runs the version of the capability in the catalog. *)
THEOREM CurrentVersion == Spec => []RunsCurrentVersion
BY InductiveHolds, PTL DEF Inductive

----------------------------------------------------------------------------
(* The queue of pending tokens. *)

(* The places of a finite set of places are numbered from 1, in their order. *)
LEMMA RanksOfPlaces ==
  ASSUME NEW P \in SUBSET Nat, IsFiniteSet(P)
  PROVE  /\ \A i, j \in P : i < j =>
              Cardinality({k \in P : k <= i}) < Cardinality({k \in P : k <= j})
         /\ \A i \in P : Cardinality({k \in P : k <= i}) \in 1..Cardinality(P)
         /\ \A n \in 1..Cardinality(P) : \E i \in P : Cardinality({k \in P : k <= i}) = n
<1> DEFINE upTo(i) == {j \in P : j <= i}
           f == [i \in P |-> Cardinality(upTo(i))]
<1>1. ASSUME NEW i \in P
      PROVE  /\ IsFiniteSet(upTo(i))
             /\ Cardinality(upTo(i)) \in 1..Cardinality(P)
  <2>1. IsFiniteSet(upTo(i)) /\ Cardinality(upTo(i)) <= Cardinality(P)
    BY FS_Subset
  <2>2. upTo(i) # {} /\ Cardinality(upTo(i)) \in Nat /\ Cardinality(P) \in Nat
    BY <2>1, FS_CardinalityType
  <2>3. QED
    BY <2>1, <2>2, FS_EmptySet
<1>2. ASSUME NEW i \in P, NEW j \in P, i < j
      PROVE  Cardinality(upTo(i)) < Cardinality(upTo(j))
  <2>1. upTo(i) \in SUBSET upTo(j) /\ upTo(i) # upTo(j)
    <3>1. \A k \in P : k \in Nat
      OBVIOUS
    <3>2. \A k \in P : k <= i => k <= j
      BY <1>2, <3>1
    <3>3. j \notin upTo(i) /\ j \in upTo(j)
      BY <1>2, <3>1
    <3>4. QED
      BY <3>2, <3>3
  <2>2. /\ Cardinality(upTo(i)) <= Cardinality(upTo(j))
        /\ Cardinality(upTo(j)) = Cardinality(upTo(i)) => upTo(j) = upTo(i)
    BY <1>1, <2>1, FS_Subset
  <2>3. Cardinality(upTo(i)) \in Nat /\ Cardinality(upTo(j)) \in Nat
    BY <1>1, FS_CardinalityType
  <2>4. QED
    BY <2>1, <2>2, <2>3
<1>3. Cardinality(P) \in Nat
  BY FS_CardinalityType
<1>4. f \in Injection(P, 1..Cardinality(P))
  <2>1. f \in [P -> 1..Cardinality(P)]
    BY <1>1
  <2>2. ASSUME NEW i \in P, NEW j \in P, f[i] = f[j]
        PROVE  i = j
    <3>1. ~(i < j) /\ ~(j < i)
      BY <1>1, <1>2, <2>2
    <3>2. QED
      BY <3>1
  <2>3. QED
    BY <2>1, <2>2 DEF Injection, IsInjective
<1>5. f \in Surjection(P, 1..Cardinality(P))
  <2>1. IsFiniteSet(1..Cardinality(P)) /\ Cardinality(1..Cardinality(P)) = Cardinality(P)
    BY <1>3, FS_Interval
  <2>2. QED
    BY <1>4, <2>1, FS_Injection
<1>6. \A n \in 1..Cardinality(P) : \E i \in P : f[i] = n
  BY <1>5 DEF Surjection
<1>7. QED
  BY <1>1, <1>2, <1>6

(***************************************************************************)
(* What Kept keeps: the elements that are in S, in the order they had; and *)
(* if none was there twice, then as many elements as places.               *)
(***************************************************************************)
LEMMA KeptFacts ==
  ASSUME NEW T, NEW order \in Seq(T), NEW S
  PROVE  /\ Kept(order, S) \in Seq(T \cap S)
         /\ Range(Kept(order, S)) = Range(order) \cap S
         /\ \A m, n \in DOMAIN Kept(order, S) : m < n =>
              \E i, j \in DOMAIN order :
                i < j /\ Kept(order, S)[m] = order[i] /\ Kept(order, S)[n] = order[j]
         /\ IsInjective(order) =>
              /\ IsInjective(Kept(order, S))
              /\ IsFiniteSet(Range(order) \cap S)
              /\ Len(Kept(order, S)) = Cardinality(Range(order) \cap S)
         /\ Len(Kept(order, S)) <= Len(order)
<1> DEFINE P == {i \in DOMAIN order : order[i] \in S}
           rank(i) == Cardinality({j \in P : j <= i})
           at(k) == CHOOSE i \in P : rank(i) = k
           K == Kept(order, S)
<1>1. Len(order) \in Nat /\ DOMAIN order = 1..Len(order) /\ order \in [DOMAIN order -> T]
  OBVIOUS
<1>2. /\ P \in SUBSET Nat
      /\ IsFiniteSet(P)
      /\ Cardinality(P) \in Nat
      /\ Cardinality(P) <= Len(order)
  <2>1. IsFiniteSet(1..Len(order)) /\ Cardinality(1..Len(order)) = Len(order)
    <3>1. \A n \in Nat : IsFiniteSet(1..n) /\ Cardinality(1..n) = n
      BY FS_Interval
    <3>2. QED
      BY <1>1, <3>1
  <2>2. P \in SUBSET (1..Len(order))
    BY <1>1
  <2>3. IsFiniteSet(P) /\ Cardinality(P) <= Len(order)
    BY <2>1, <2>2, FS_Subset
  <2>4. QED
    BY <2>2, <2>3, FS_CardinalityType
<1>3. K = [k \in 1..Cardinality(P) |-> order[at(k)]]
  BY DEF Kept
<1>4. /\ \A i, j \in P : i < j => rank(i) < rank(j)
      /\ \A i \in P : rank(i) \in 1..Cardinality(P)
      /\ \A n \in 1..Cardinality(P) : \E i \in P : rank(i) = n
  BY <1>2, RanksOfPlaces
<1>5. \A k \in 1..Cardinality(P) : at(k) \in P /\ rank(at(k)) = k
  BY <1>4
<1> HIDE DEF P, rank, at, K
<1>6. \A i \in P : at(rank(i)) = i
  <2>1. ASSUME NEW i \in P
        PROVE  at(rank(i)) = i
    <3>1. rank(i) \in 1..Cardinality(P) /\ at(rank(i)) \in P /\ rank(at(rank(i))) = rank(i)
      BY <1>4, <1>5
    <3> DEFINE j == at(rank(i))
    <3> HIDE DEF j
    <3>2. rank(i) \in Int /\ j \in P /\ rank(j) = rank(i)
      BY <1>2, <3>1 DEF j
    <3>3. ~(i < j) /\ ~(j < i)
      BY <1>4, <3>2
    <3>4. i \in Nat /\ j \in Nat
      BY <1>2, <3>2
    <3>5. i = j
      BY <3>3, <3>4
    <3>6. QED
      BY <3>5 DEF j
  <2>2. QED
    BY <2>1
<1>7. /\ K \in Seq(T \cap S)
      /\ DOMAIN K = 1..Cardinality(P)
      /\ Len(K) = Cardinality(P)
  <2>1. \A k \in 1..Cardinality(P) : order[at(k)] \in T \cap S
    BY <1>1, <1>5 DEF P
  <2>2. QED
    BY <1>2, <1>3, <2>1
<1>8. Range(K) = Range(order) \cap S
  <2>1. ASSUME NEW k \in 1..Cardinality(P)
        PROVE  K[k] \in Range(order) \cap S
    BY <1>3, <1>5 DEF P, Range
  <2>2. ASSUME NEW i \in P
        PROVE  rank(i) \in 1..Cardinality(P) /\ K[rank(i)] = order[i]
    BY <1>3, <1>4, <1>6
  <2>3. QED
    BY <1>7, <2>1, <2>2 DEF P, Range
<1>9. ASSUME NEW m \in DOMAIN K, NEW n \in DOMAIN K, m < n
      PROVE  /\ at(m) \in DOMAIN order /\ at(n) \in DOMAIN order
             /\ at(m) < at(n) /\ K[m] = order[at(m)] /\ K[n] = order[at(n)]
  <2>1. at(m) \in P /\ at(n) \in P /\ rank(at(m)) = m /\ rank(at(n)) = n
    BY <1>5, <1>7
  <2>2. ~(at(n) < at(m)) /\ at(m) # at(n)
    BY <1>4, <1>7, <1>9, <2>1
  <2>3. QED
    BY <1>2, <1>3, <1>7, <2>1, <2>2 DEF P
<1>10. ASSUME IsInjective(order)
       PROVE  /\ IsInjective(K)
              /\ IsFiniteSet(Range(order) \cap S)
              /\ Cardinality(P) = Cardinality(Range(order) \cap S)
  <2>1. ASSUME NEW m \in DOMAIN K, NEW n \in DOMAIN K, K[m] = K[n]
        PROVE  m = n
    <3>1. ~(m < n) /\ ~(n < m)
      BY <1>1, <1>9, <1>10, <2>1 DEF IsInjective
    <3>2. QED
      BY <1>2, <1>7, <3>1
  <2>2. IsInjective(K)
    BY <2>1 DEF IsInjective
  <2>3. K \in Bijection(1..Cardinality(P), Range(order) \cap S)
    <3>1. K \in [1..Cardinality(P) -> Range(order) \cap S]
      BY <1>3, <1>7, <1>8 DEF Range
    <3>2. QED
      BY <1>7, <1>8, <2>2, <3>1 DEF Bijection, Injection, Surjection, Range
  <2>4. IsFiniteSet(1..Cardinality(P)) /\ Cardinality(1..Cardinality(P)) = Cardinality(P)
    BY <1>2, FS_Interval
  <2>5. QED
    BY <2>2, <2>3, <2>4, FS_Bijection DEF ExistsBijection
<1>11. QED
  BY <1>2, <1>7, <1>8, <1>9, <1>10 DEF K

LEMMA AppendFacts ==
  ASSUME NEW T, NEW s \in Seq(T), NEW x \in T
  PROVE  /\ Append(s, x) \in Seq(T)
         /\ Len(Append(s, x)) = Len(s) + 1
         /\ Range(Append(s, x)) = Range(s) \cup {x}
         /\ IsInjective(s) /\ x \notin Range(s) => IsInjective(Append(s, x))
<1>1. /\ Append(s, x) \in Seq(T)
      /\ Len(s) \in Nat
      /\ Len(Append(s, x)) = Len(s) + 1
      /\ DOMAIN s = 1..Len(s)
      /\ DOMAIN Append(s, x) = 1..(Len(s) + 1)
      /\ \A i \in 1..Len(s) : Append(s, x)[i] = s[i]
      /\ Append(s, x)[Len(s) + 1] = x
  OBVIOUS
<1>2. 1..(Len(s) + 1) = 1..Len(s) \cup {Len(s) + 1}
  BY <1>1
<1>3. Range(Append(s, x)) = Range(s) \cup {x}
  BY <1>1, <1>2 DEF Range
<1>4. IsInjective(s) /\ x \notin Range(s) => IsInjective(Append(s, x))
  BY <1>1, <1>2 DEF Range, IsInjective
<1>5. QED
  BY <1>1, <1>3, <1>4

LEMMA TailFacts ==
  ASSUME NEW T, NEW s \in Seq(T), s # <<>>, IsInjective(s)
  PROVE  /\ Tail(s) \in Seq(T)
         /\ Len(Tail(s)) = Len(s) - 1
         /\ IsInjective(Tail(s))
         /\ Range(Tail(s)) = Range(s) \ {Head(s)}
<1>1. /\ Tail(s) \in Seq(T)
      /\ Len(s) \in Nat /\ Len(s) > 0
      /\ Len(Tail(s)) = Len(s) - 1
      /\ DOMAIN s = 1..Len(s)
      /\ DOMAIN Tail(s) = 1..(Len(s) - 1)
      /\ \A i \in 1..(Len(s) - 1) : Tail(s)[i] = s[i + 1]
      /\ Head(s) = s[1]
  OBVIOUS
<1>2. IsInjective(Tail(s))
  BY <1>1 DEF IsInjective
<1>3. Range(Tail(s)) = Range(s) \ {Head(s)}
  <2>1. \A i \in DOMAIN Tail(s) : Tail(s)[i] \in Range(s) \ {Head(s)}
    BY <1>1 DEF Range, IsInjective
  <2>2. ASSUME NEW i \in DOMAIN s, s[i] # Head(s)
        PROVE  \E k \in DOMAIN Tail(s) : Tail(s)[k] = s[i]
    <3>1. i - 1 \in DOMAIN Tail(s) /\ Tail(s)[i - 1] = s[i]
      BY <1>1, <2>2
    <3>2. QED
      BY <3>1
  <2>3. Range(Tail(s)) \subseteq Range(s) \ {Head(s)}
    BY <2>1, Zenon DEF Range
  <2>4. Range(s) \ {Head(s)} \subseteq Range(Tail(s))
    BY <2>2, Zenon DEF Range
  <2>5. QED
    BY <2>3, <2>4, Zenon
<1>4. QED
  BY <1>1, <1>2, <1>3

(***************************************************************************)
(* What a challenge leaves in the table: those still pending for others,   *)
(* less the oldest if they fill it.  The queue names the same tokens, and  *)
(* has room for another.                                                   *)
(***************************************************************************)
Purged(r) == {u \in DOMAIN approvals : StillPending(u, r)}

NewChallenge(r) == [identity |-> runs[r].identity, capability |-> runs[r].capability,
                    revision |-> runs[r].resolved.revision, input |-> runs[r].input,
                    expiresAt |-> clock + TTL]

Issued(r, t, left, rest) ==
  /\ Range(rest) = left
  /\ IsInjective(rest)
  /\ Len(rest) < MaxPending
  /\ left # Purged(r) => /\ IsFiniteSet(Purged(r))
                         /\ Cardinality(Purged(r)) >= MaxPending
  /\ approvalOrder' = Append(rest, t)
  /\ approvals' = [u \in left \cup {t} |-> IF u = t THEN NewChallenge(r) ELSE approvals[u]]

LEMMA IssueFacts ==
  ASSUME PendingOrderly, NEW r \in Run, NEW t \in Token, Issue(r, t)
  PROVE  \E left \in SUBSET Purged(r), rest \in Seq(Token) : Issued(r, t, left, rest)
<1> DEFINE kept == Kept(approvalOrder, Purged(r))
           full == Cardinality(Purged(r)) >= MaxPending /\ kept # <<>>
           left == IF full THEN Purged(r) \ {Head(kept)} ELSE Purged(r)
           rest == IF full THEN Tail(kept) ELSE kept
<1>1. /\ approvalOrder \in Seq(Token)
      /\ Range(approvalOrder) = DOMAIN approvals
      /\ IsInjective(approvalOrder)
      /\ Len(approvalOrder) <= MaxPending
  BY DEF PendingOrderly, TypeOK
<1>2. /\ kept \in Seq(Token \cap Purged(r))
      /\ Range(kept) = Purged(r)
      /\ IsInjective(kept)
      /\ IsFiniteSet(Purged(r))
      /\ Len(kept) = Cardinality(Purged(r))
      /\ Len(kept) <= Len(approvalOrder)
  <2>1. Range(approvalOrder) \cap Purged(r) = Purged(r)
    BY <1>1 DEF Purged
  <2>2. QED
    BY <1>1, <2>1, KeptFacts
<1>3. kept \in Seq(Token)
  BY <1>2
<1>4. DOMAIN approvals \ Range(approvalOrder) = {}
  BY <1>1
<1>5. /\ approvalOrder' = Append(rest, t)
      /\ approvals' = [u \in left \cup {t} |-> IF u = t THEN NewChallenge(r) ELSE approvals[u]]
  BY <1>4, Zenon DEF Issue, Purged, NewChallenge
<1>6. Len(kept) \in Nat /\ Len(approvalOrder) \in Nat /\ (kept = <<>> => Len(kept) = 0)
  BY <1>1, <1>3
<1> HIDE DEF kept
<1>7. /\ rest \in Seq(Token)
      /\ Range(rest) = left
      /\ IsInjective(rest)
      /\ Len(rest) < MaxPending
  <2>1. CASE full
    BY <1>1, <1>2, <1>3, <1>6, <2>1, TailFacts, ApprovalAssumption
  <2>2. CASE ~full
    BY <1>1, <1>2, <1>3, <1>6, <2>2, ApprovalAssumption
  <2>3. QED
    BY <2>1, <2>2
<1>8. left # Purged(r) => Cardinality(Purged(r)) >= MaxPending
  OBVIOUS
<1>9. QED
  BY <1>2, <1>5, <1>7, <1>8 DEF Issued

(* Issuing a token: it replaces that of the same request, and none other   *)
(* has its identity, capability, revision and input.                       *)
LEMMA RequireOrderly ==
  ASSUME Inductive, PendingOrderly, NEW r \in Run, NEW t \in Token,
         RequireApproval(r, t), TablesTyped'
  PROVE  PendingOrderly'
<1> DEFINE new == NewChallenge(r)
<1>1. PICK left \in SUBSET Purged(r), rest \in Seq(Token) : Issued(r, t, left, rest)
  BY IssueFacts DEF RequireApproval
<1> USE <1>1 DEF Issued
<1>2. t \notin left
  BY <1>1 DEF Inductive, ChallengesIssued, IssuedAt, RequireApproval, Purged
<1>3. /\ approvalOrder' \in Seq(Token)
      /\ Range(approvalOrder') = DOMAIN approvals'
      /\ IsInjective(approvalOrder')
      /\ Len(approvalOrder') <= MaxPending
  <2>1. Len(rest) \in Nat /\ MaxPending \in Nat
    BY ApprovalAssumption
  <2>2. QED
    BY <1>1, <1>2, <2>1, AppendFacts
<1>4. ASSUME NEW u \in left
      PROVE  /\ approvals'[u] = approvals[u]
             /\ \E field \in {"identity", "capability", "revision", "input"} :
                  approvals[u][field] # new[field]
  <2>1. approvals'[u] = approvals[u]
    BY <1>1, <1>2
  <2>2. \/ approvals[u].identity # runs[r].identity
        \/ approvals[u].capability # runs[r].capability
        \/ approvals[u].revision # runs[r].resolved.revision
        \/ approvals[u].input # runs[r].input
    BY <1>1 DEF Purged, StillPending, SameRequest
  <2>3. QED
    BY <2>1, <2>2 DEF NewChallenge
<1>5. approvals'[t] = new /\ DOMAIN approvals' = left \cup {t}
  BY <1>1
<1>6. \A u, v \in DOMAIN approvals' :
        u # v => \E field \in {"identity", "capability", "revision", "input"} :
                   approvals'[u][field] # approvals'[v][field]
  <2>1. \A u, v \in left :
          u # v => \E field \in {"identity", "capability", "revision", "input"} :
                     approvals[u][field] # approvals[v][field]
    BY <1>1 DEF PendingOrderly, Purged
  <2> HIDE DEF new
  <2>2. QED
    BY <1>4, <1>5, <2>1
<1>7. TypeOK'
  BY <1>3 DEF TablesTyped, TypeOK
<1>8. QED
  BY <1>3, <1>6, <1>7 DEF PendingOrderly

(* A token that is presented leaves table and queue together. *)
LEMMA TakeOrderly ==
  ASSUME PendingOrderly, NEW r \in Run, TakeToken(r), TablesTyped'
  PROVE  PendingOrderly'
<1> DEFINE others == Token \ {runs[r].approval}
<1>1. /\ approvals' = [u \in DOMAIN approvals \ {runs[r].approval} |-> approvals[u]]
      /\ approvalOrder' = Kept(approvalOrder, others)
  BY DEF TakeToken, Restrict
<1>2. /\ approvalOrder \in Seq(Token)
      /\ Range(approvalOrder) = DOMAIN approvals
      /\ IsInjective(approvalOrder)
      /\ Len(approvalOrder) <= MaxPending
      /\ DOMAIN approvals \subseteq Token
  BY DEF PendingOrderly, TypeOK
<1>3. /\ approvalOrder' \in Seq(Token \cap others)
      /\ Range(approvalOrder') = DOMAIN approvals \cap others
      /\ IsInjective(approvalOrder')
      /\ Len(approvalOrder') <= Len(approvalOrder)
  <2> HIDE DEF others
  <2>1. /\ Kept(approvalOrder, others) \in Seq(Token \cap others)
        /\ Range(Kept(approvalOrder, others)) = Range(approvalOrder) \cap others
        /\ IsInjective(Kept(approvalOrder, others))
        /\ Len(Kept(approvalOrder, others)) <= Len(approvalOrder)
    BY <1>2, KeptFacts
  <2>2. QED
    BY <1>1, <1>2, <2>1
<1>4. DOMAIN approvals' = DOMAIN approvals \cap others /\ approvalOrder' \in Seq(Token)
  BY <1>1, <1>2, <1>3
<1>5. Len(approvalOrder') <= MaxPending
  <2>1. Len(approvalOrder) \in Nat /\ Len(approvalOrder') \in Nat /\ MaxPending \in Nat
    BY <1>2, <1>4, ApprovalAssumption
  <2>2. QED
    BY <1>2, <1>3, <2>1
<1>6. \A u, v \in DOMAIN approvals' :
        u # v => \E field \in {"identity", "capability", "revision", "input"} :
                   approvals'[u][field] # approvals'[v][field]
  BY <1>1 DEF PendingOrderly
<1>7. QED
  BY <1>3, <1>4, <1>5, <1>6 DEF TablesTyped, TypeOK, PendingOrderly

(***************************************************************************)
(* Table and queue name the same tokens, each once and within the limit,   *)
(* and one request has one pending token.                                  *)
(***************************************************************************)
THEOREM QueueOrderly == Spec => []PendingOrderly
<1>1. Init => PendingOrderly
  <2>1. ASSUME Init
        PROVE  /\ approvalOrder \in Seq(Token)
               /\ Range(approvalOrder) = DOMAIN approvals
               /\ IsInjective(approvalOrder)
               /\ Len(approvalOrder) <= MaxPending
    BY <2>1, ApprovalAssumption DEF Init, Range, IsInjective
  <2>2. QED
    BY <2>1, InitInductive DEF PendingOrderly, Inductive, TablesTyped, TypeOK, Init
<1>2. ASSUME Inductive, PendingOrderly, [Next]_vars, Inductive'
      PROVE  PendingOrderly'
  <2> USE <1>2 DEF Inductive
  <2>1. ASSUME NEW r \in Run, NEW t \in Token, RequireApproval(r, t)
        PROVE  PendingOrderly'
    BY <2>1, RequireOrderly
  <2>2. ASSUME NEW r \in Run, TakeToken(r)
        PROVE  PendingOrderly'
    BY <2>2, TakeOrderly
  <2>3. CASE Restart
    <3>1. approvalOrder' = <<>> /\ approvals' = [t \in {} |-> NoChallenge]
      BY <2>3 DEF Restart
    <3>2. /\ approvalOrder' \in Seq(Token)
          /\ Range(approvalOrder') = DOMAIN approvals'
          /\ IsInjective(approvalOrder')
          /\ Len(approvalOrder') <= MaxPending
      BY <3>1, ApprovalAssumption DEF Range, IsInjective
    <3>3. QED
      BY <3>1, <3>2 DEF PendingOrderly, TablesTyped, TypeOK
  <2>4. CASE UNCHANGED <<approvals, approvalOrder>>
    <3>1. TypeOK'
      BY <2>4 DEF PendingOrderly, TypeOK, TablesTyped
    <3>2. QED
      BY <2>4, <3>1 DEF PendingOrderly
  <2>5. QED
    BY <2>1, <2>2, <2>3, <2>4
       DEF Next, vars, RunStep, Resolve, Refuse, NeedsNoApproval, CheckToken, Start, Finish,
           Replace, Delete, Tick
<1>3. QED
  BY <1>1, <1>2, InductiveHolds, PTL DEF Spec

(***************************************************************************)
(* A pending token is lost only when it expired, was presented, was        *)
(* replaced for the same request, went with the daemon, or when as many    *)
(* others as may be pending crowd it out.                                  *)
(***************************************************************************)
THEOREM LostOnlyWhenFull == Spec => TokensLostOnlyWhenFull
<1> DEFINE Lost(t) ==
      \/ approvals[t].expiresAt <= clock
      \/ \E r \in Received : runs[r].approval = t /\ runs[r].at = "resolved"
                                            /\ runs'[r].at = "checking"
      \/ \E u \in DOMAIN approvals' \ DOMAIN approvals :
           \/ [approvals'[u] EXCEPT !.expiresAt = 0] = [approvals[t] EXCEPT !.expiresAt = 0]
           \/ Cardinality(LiveOthers(t)) + 1 >= MaxPending
      \/ Restart
<1>1. ASSUME Inductive, PendingOrderly, [Next]_vars,
             NEW t \in DOMAIN approvals \ DOMAIN approvals'
      PROVE  Lost(t)
  <2> USE <1>1
  <2>1. ASSUME NEW r \in Run, NEW n \in Token, RequireApproval(r, n)
        PROVE  Lost(t)
    <3> DEFINE new == NewChallenge(r)
    <3>1. Issue(r, n)
      BY <2>1 DEF RequireApproval
    <3>2. PICK left \in SUBSET Purged(r), rest \in Seq(Token) : Issued(r, n, left, rest)
      BY <3>1, IssueFacts
    <3>3. n \in DOMAIN approvals' \ DOMAIN approvals /\ approvals'[n] = new
      BY <2>1, <3>2 DEF Inductive, ChallengesIssued, IssuedAt, RequireApproval, Issued
    <3>4. approvals[t] \in Challenge /\ approvals[t].expiresAt \in Nat /\ clock \in Nat
      BY DEF Inductive, TablesTyped, Challenge
    <3>5. CASE t \notin Purged(r) /\ approvals[t].expiresAt > clock
      <4>1. /\ approvals[t].identity = runs[r].identity
            /\ approvals[t].capability = runs[r].capability
            /\ approvals[t].revision = runs[r].resolved.revision
            /\ approvals[t].input = runs[r].input
        BY <3>5 DEF Purged, StillPending, SameRequest
      <4>2. [approvals'[n] EXCEPT !.expiresAt = 0] = [approvals[t] EXCEPT !.expiresAt = 0]
        BY <3>3, <3>4, <4>1 DEF Challenge, NewChallenge
      <4>3. QED
        BY <3>3, <4>2
    <3>6. CASE t \in Purged(r)
      <4>1. IsFiniteSet(Purged(r)) /\ Cardinality(Purged(r)) >= MaxPending
        BY <3>2, <3>6 DEF Issued
      <4>2. IsFiniteSet(LiveOthers(t))
        <5>1. IsFiniteSet(DOMAIN approvals)
          <6>1. /\ approvalOrder \in Seq(Token) /\ Range(approvalOrder) = DOMAIN approvals
                /\ IsInjective(approvalOrder)
            BY DEF PendingOrderly, TypeOK
          <6>2. IsFiniteSet(Range(approvalOrder) \cap Token)
            BY <6>1, KeptFacts
          <6>3. DOMAIN approvals \cap Token = DOMAIN approvals
            BY DEF Inductive, TablesTyped
          <6>4. QED
            BY <6>1, <6>2, <6>3
        <5>2. QED
          BY <5>1, FS_Subset DEF LiveOthers
      <4>3. Purged(r) \in SUBSET (LiveOthers(t) \cup {t})
        BY DEF Purged, StillPending, LiveOthers
      <4>4. /\ IsFiniteSet(LiveOthers(t) \cup {t})
            /\ Cardinality(LiveOthers(t) \cup {t}) = Cardinality(LiveOthers(t)) + 1
        BY <4>2, FS_AddElement DEF LiveOthers
      <4>5. Cardinality(Purged(r)) <= Cardinality(LiveOthers(t)) + 1
        BY <4>3, <4>4, FS_Subset
      <4>6. Cardinality(Purged(r)) \in Nat /\ Cardinality(LiveOthers(t)) \in Nat
        BY <4>1, <4>2, FS_CardinalityType
      <4>7. Cardinality(LiveOthers(t)) + 1 >= MaxPending
        BY <4>1, <4>5, <4>6, ApprovalAssumption
      <4>8. QED
        BY <3>3, <4>7
    <3>7. QED
      BY <3>4, <3>5, <3>6
  <2>2. ASSUME NEW r \in Run, TakeToken(r)
        PROVE  Lost(t)
    <3>1. t = runs[r].approval /\ r \in Received
      BY <2>2 DEF TakeToken, Restrict
    <3>2. runs[r].at = "resolved" /\ runs'[r].at = "checking"
      <4>1. r \in DOMAIN runs /\ runs[r] \in RunRecord
        BY <3>1 DEF Inductive, TablesTyped, Received
      <4>2. QED
        BY <2>2, <4>1 DEF TakeToken, RunRecord
    <3>3. QED
      BY <3>1, <3>2
  <2>3. CASE UNCHANGED approvals
    BY <2>3
  <2>4. QED
    BY <2>1, <2>2, <2>3
       DEF Next, vars, RunStep, Resolve, Refuse, NeedsNoApproval, CheckToken, Start, Finish,
           Replace, Delete, Tick
<1>2. ASSUME Inductive, PendingOrderly, [Next]_vars
      PROVE  [\A t \in DOMAIN approvals \ DOMAIN approvals' : Lost(t)]_vars
  BY <1>1, <1>2
<1>3. QED
  BY <1>2, InductiveHolds, QueueOrderly, PTL DEF Spec, TokensLostOnlyWhenFull
=============================================================================
