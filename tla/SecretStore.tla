----------------------------- MODULE SecretStore -----------------------------
(***************************************************************************)
(* Integration credentials (internal/secret).  A value lives in the        *)
(* system's credential store, the name of the reference in the table       *)
(* secrets.  Set and Delete change both, under one lock: the row in a      *)
(* transaction, the value inside it, then the commit; when that fails the  *)
(* value is put back.  Every call of the credential store may fail, with   *)
(* or without effect, and the daemon may crash in between.                 *)
(*                                                                         *)
(* The lock has no variable: whoever changes a secret holds it.  A commit  *)
(* that reports an error is taken not to have happened.                    *)
(***************************************************************************)
EXTENDS FiniteSets

CONSTANTS
  Ref,       \* references, <integration>.<key> of one workspace
  Value,     \* secret values
  Writer,    \* requests to set or remove a secret
  None       \* no value, no reference

ASSUME SecretAssumption == None \notin Value \cup Ref

VARIABLES
  keyring,   \* the credential store: [Ref -> Value or None]
  table,     \* the committed rows of secrets
  step,      \* where each writer is
  request,   \* what it was asked: a reference, and the value or None to remove
  previous,  \* what backend.Get returned
  doubtful   \* references whose last change was cut short: see Doubt

secretVars == <<keyring, table, step, request, previous, doubtful>>

Step == {"idle", "reading", "changing", "committing", "restoring"}

Nothing == [ref |-> None, value |-> None]

SecretInit ==
  /\ keyring = [r \in Ref |-> None]
  /\ table = {}
  /\ step = [w \in Writer |-> "idle"]
  /\ request = [w \in Writer |-> Nothing]
  /\ previous = [w \in Writer |-> None]
  /\ doubtful = {}

Locked == \E w \in Writer : step[w] # "idle"

(* What Resolve finds, once no writer holds the lock. *)
Held(r) == keyring[r]

(* ListSecrets: the names in the table, each with what Resolve says of it. *)
Listing == [r \in table |-> IF Held(r) = None THEN "missing" ELSE "present"]

----------------------------------------------------------------------------
(* The steps of Set(ref, value), and of Delete(ref) where value = None. *)

(* Set takes the lock. *)
Lock(w, r, v) ==
  /\ ~Locked
  /\ step' = [step EXCEPT ![w] = "reading"]
  /\ request' = [request EXCEPT ![w] = [ref |-> r, value |-> v]]
  /\ UNCHANGED <<keyring, table, previous, doubtful>>

Return(w) ==
  /\ step' = [step EXCEPT ![w] = "idle"]
  /\ request' = [request EXCEPT ![w] = Nothing]
  /\ previous' = [previous EXCEPT ![w] = None]

(* The value before is read, the transaction begun and the row written. *)
Read(w) ==
  /\ step[w] = "reading"
  /\ step' = [step EXCEPT ![w] = "changing"]
  /\ previous' = [previous EXCEPT ![w] = keyring[request[w].ref]]
  /\ UNCHANGED <<keyring, table, request, doubtful>>

(* Any of this fails: the transaction, if there is one, is rolled back. *)
ReadFails(w) ==
  /\ step[w] = "reading"
  /\ Return(w)
  /\ UNCHANGED <<keyring, table, doubtful>>

Store(r, v) == keyring' = [keyring EXCEPT ![r] = v]

(* backend.Set or backend.Delete, inside the transaction. *)
Change(w) ==
  /\ step[w] = "changing"
  /\ Store(request[w].ref, request[w].value)
  /\ step' = [step EXCEPT ![w] = "committing"]
  /\ UNCHANGED <<table, request, previous, doubtful>>

(***************************************************************************)
(* Doubt: nobody will put back a change that may have been made, because   *)
(* the credential store reported an error, the daemon crashed, or putting  *)
(* it back failed.                                                         *)
(***************************************************************************)
Doubt(r) == doubtful' = doubtful \cup {r}

(* The credential store reports an error: nothing is put back. *)
ChangeFails(w) ==
  LET r == request[w].ref IN
  /\ step[w] = "changing"
  /\ Return(w)
  /\ \/ UNCHANGED <<keyring, doubtful>>
     \/ Store(r, request[w].value) /\ Doubt(r)
  /\ UNCHANGED table

Commit(w) ==
  LET r == request[w].ref IN
  /\ step[w] = "committing"
  /\ table' = IF request[w].value = None THEN table \ {r} ELSE table \cup {r}
  /\ doubtful' = doubtful \ {r}
  /\ Return(w)
  /\ UNCHANGED keyring

(* Mutant: the value stays when the commit fails. *)
CommitFailsQuietly(w) ==
  /\ step[w] = "committing"
  /\ Return(w)
  /\ UNCHANGED <<keyring, table, doubtful>>

(***************************************************************************)
(* The commit fails.  Set puts back the value, or that there was none;     *)
(* Delete has nothing to put back when there was none.                     *)
(***************************************************************************)
CommitFails(w) ==
  /\ step[w] = "committing"
  /\ IF request[w].value = None /\ previous[w] = None
       THEN Return(w)
       ELSE /\ step' = [step EXCEPT ![w] = "restoring"]
            /\ UNCHANGED <<request, previous>>
  /\ UNCHANGED <<keyring, table, doubtful>>

(* Mutant: a value there was before is not put back, only removed. *)
RestoreNothing(w) ==
  /\ step[w] = "restoring"
  /\ Store(request[w].ref, None)
  /\ Return(w)
  /\ UNCHANGED <<table, doubtful>>

(* The compensation. *)
Restore(w) ==
  /\ step[w] = "restoring"
  /\ Store(request[w].ref, previous[w])
  /\ Return(w)
  /\ UNCHANGED <<table, doubtful>>

RestoreFails(w) ==
  /\ step[w] = "restoring"
  /\ UNCHANGED keyring \/ Store(request[w].ref, previous[w])
  /\ Doubt(request[w].ref)
  /\ Return(w)
  /\ UNCHANGED table

WriterStep(w) ==
  \/ Read(w) \/ ReadFails(w) \/ Change(w) \/ ChangeFails(w)
  \/ Commit(w) \/ CommitFails(w) \/ Restore(w) \/ RestoreFails(w)

(* The daemon dies: an open transaction is lost, the credential store is not. *)
CrashSecrets ==
  /\ step' = [w \in Writer |-> "idle"]
  /\ doubtful' = doubtful \cup
       {request[w].ref : w \in {u \in Writer : step[u] \in {"committing", "restoring"}}}
  /\ request' = [w \in Writer |-> Nothing]
  /\ previous' = [w \in Writer |-> None]
  /\ UNCHANGED <<keyring, table>>

ChangeSecrets ==
  \E w \in Writer : \/ \E r \in Ref, v \in Value \cup {None} : Lock(w, r, v)
                    \/ WriterStep(w)

SecretNext == ChangeSecrets \/ CrashSecrets

SecretSpec == SecretInit /\ [][SecretNext]_secretVars

----------------------------------------------------------------------------
(* Properties. *)

SecretTypeOK ==
  /\ keyring \in [Ref -> Value \cup {None}]
  /\ table \in SUBSET Ref
  /\ step \in [Writer -> Step]
  /\ request \in [Writer -> [ref : Ref \cup {None}, value : Value \cup {None}]]
  /\ previous \in [Writer -> Value \cup {None}]
  /\ doubtful \in SUBSET Ref

(* The references a request is changing now. *)
Changing == {request[w].ref : w \in {u \in Writer : step[u] # "idle"}}

(***************************************************************************)
(* Only one request changes secrets at a time, and between the requests    *)
(* the two stores agree: what has a value is listed, what is listed has    *)
(* one.  Failures in any order leave no difference, except where a change  *)
(* was cut short; and the next request that succeeds mends it.             *)
(***************************************************************************)
SecretsConsistent ==
  /\ SecretTypeOK
  /\ \A w, u \in Writer : step[w] # "idle" /\ step[u] # "idle" => w = u
  /\ \A r \in Ref \ (doubtful \cup Changing) :
       r \in DOMAIN Listing <=> keyring[r] # None

(***************************************************************************)
(* A request that returns an error leaves the value as it was before it,   *)
(* unless its change was cut short.                                        *)
(***************************************************************************)
FailureKeepsValue ==
  [][\A w \in Writer :
       WriterStep(w) /\ step'[w] = "idle" /\ ~Commit(w) =>
         \/ request[w].ref \in doubtful'
         \/ step[w] = "reading" /\ UNCHANGED keyring
         \/ step[w] # "reading" /\ keyring'[request[w].ref] = previous[w]]_secretVars
=============================================================================
