-------------------------- MODULE HttpInvokeProofs --------------------------
(***************************************************************************)
(* Proofs about SecretStore and HttpInvoke: for any references, values,    *)
(* requests that change secrets, runs, hook slots, and any source.         *)
(***************************************************************************)
EXTENDS HttpInvoke, FiniteSetTheorems, TLAPS

----------------------------------------------------------------------------
(* Secrets. *)

(* One request holds the lock. *)
OneWriter == \A w, u \in Writer : step[w] # "idle" /\ step[u] # "idle" => w = u

(* The rows agree with value v of reference r, if anybody vouches for r. *)
Agrees(r, v) == r \notin doubtful => (r \in table <=> v # None)

(***************************************************************************)
(* What the request that holds the lock knows: until it changes the value  *)
(* it has read the present one, then what it wrote is there and what it    *)
(* read is what the rows still say.                                        *)
(***************************************************************************)
WriterKnows(w) ==
  /\ request[w].ref \in Ref
  /\ step[w] = "reading" => Agrees(request[w].ref, keyring[request[w].ref])
  /\ step[w] = "changing" => keyring[request[w].ref] = previous[w]
  /\ step[w] # "reading" => Agrees(request[w].ref, previous[w])
  /\ step[w] \in {"committing", "restoring"} =>
       keyring[request[w].ref] = request[w].value

SecretInductive ==
  /\ SecretTypeOK
  /\ OneWriter
  /\ \A w \in Writer : step[w] # "idle" => WriterKnows(w)
  /\ \A r \in Ref \ Changing : Agrees(r, keyring[r])

LEMMA SecretInitInductive == SecretInit => SecretInductive
BY SecretAssumption
   DEF SecretInit, SecretInductive, SecretTypeOK, OneWriter, Changing, Agrees, Step,
       Nothing

(* While a request holds the lock, only its reference is being changed. *)
LEMMA ChangingOne ==
  ASSUME OneWriter, NEW w \in Writer, step[w] # "idle"
  PROVE  Changing = {request[w].ref}
BY DEF OneWriter, Changing

(***************************************************************************)
(* A request that holds the lock and goes on holding it: only its own      *)
(* reference may change, in the credential store.                          *)
(***************************************************************************)
LEMMA StaysSecret ==
  ASSUME SecretInductive, NEW w \in Writer, step[w] # "idle",
         NEW to \in Step \ {"idle"}, NEW v \in Value \cup {None},
         step' = [step EXCEPT ![w] = to],
         keyring' = [keyring EXCEPT ![request[w].ref] = v],
         previous' \in [Writer -> Value \cup {None}],
         UNCHANGED <<table, request, doubtful>>,
         WriterKnows(w)'
  PROVE  SecretInductive'
<1> USE DEF SecretInductive
<1>1. SecretTypeOK' /\ OneWriter'
  BY DEF SecretTypeOK, OneWriter, Step
<1>2. /\ \A u \in Writer : step[u] # "idle" <=> u = w
      /\ \A u \in Writer : step'[u] # "idle" <=> u = w
  BY DEF SecretTypeOK, OneWriter
<1>3. Changing = {request[w].ref} /\ Changing' = {request[w].ref}
  BY <1>2 DEF Changing
<1>4. \A r \in Ref \ Changing' : Agrees(r, keyring[r])'
  BY <1>3 DEF Agrees, SecretTypeOK
<1>5. QED
  BY <1>1, <1>2, <1>4

(* A request that lets go of the lock, and leaves its reference in order. *)
LEMMA ReturnsSecret ==
  ASSUME SecretInductive, NEW w \in Writer, step[w] # "idle", Return(w),
         NEW v \in Value \cup {None},
         keyring' = [keyring EXCEPT ![request[w].ref] = v],
         table' \in SUBSET Ref, doubtful' \in SUBSET Ref,
         \A r \in Ref \ {request[w].ref} :
           (r \in table' <=> r \in table) /\ (r \in doubtful' <=> r \in doubtful),
         request[w].ref \notin doubtful' => (request[w].ref \in table' <=> v # None)
  PROVE  SecretInductive'
<1> USE DEF SecretInductive
<1>1. WriterKnows(w) /\ OneWriter
  OBVIOUS
<1>2. \A u \in Writer : step'[u] = "idle"
  BY DEF Return, OneWriter, SecretTypeOK
<1>3. SecretTypeOK' /\ OneWriter'
  BY <1>1, <1>2 DEF SecretTypeOK, OneWriter, Return, Step, Nothing
<1>4. Changing = {request[w].ref} /\ Changing' = {}
  BY <1>2, ChangingOne DEF Changing
<1>5. keyring'[request[w].ref] = v
  BY <1>1 DEF WriterKnows, SecretTypeOK
<1>6. \A r \in Ref : Agrees(r, keyring[r])'
  BY <1>4, <1>5 DEF Agrees, SecretTypeOK
<1>7. QED
  BY <1>2, <1>3, <1>6

LEMMA SecretStepKeeps == SecretInductive /\ [SecretNext]_secretVars => SecretInductive'
<1> SUFFICES ASSUME SecretInductive, [SecretNext]_secretVars
             PROVE  SecretInductive'
  OBVIOUS
<1>0. SecretTypeOK /\ OneWriter /\ None \notin Value \cup Ref
  BY SecretAssumption DEF SecretInductive
<1>1. ASSUME NEW w \in Writer, NEW r \in Ref, NEW v \in Value \cup {None}, Lock(w, r, v)
      PROVE  SecretInductive'
  <2>1. \A u \in Writer : step[u] = "idle" /\ (step'[u] # "idle" <=> u = w)
    BY <1>0, <1>1 DEF Lock, Locked, SecretTypeOK
  <2>2. request'[w].ref = r /\ step'[w] = "reading"
    BY <1>0, <1>1 DEF Lock, SecretTypeOK
  <2>3. Changing = {} /\ Changing' = {r}
    BY <2>1, <2>2 DEF Changing
  <2>4. SecretTypeOK' /\ OneWriter'
    BY <1>0, <1>1, <2>1 DEF Lock, SecretTypeOK, OneWriter, Step
  <2>5. \A q \in Ref : Agrees(q, keyring[q])'
    BY <1>1, <2>3 DEF Lock, SecretInductive, Agrees
  <2>6. WriterKnows(w)'
    BY <2>2, <2>5 DEF WriterKnows
  <2>7. QED
    BY <2>1, <2>4, <2>5, <2>6 DEF SecretInductive
<1>2. ASSUME NEW w \in Writer, WriterStep(w)
      PROVE  SecretInductive'
  <2>1. step[w] # "idle"
    BY <1>2 DEF WriterStep, Read, ReadFails, Change, ChangeFails, Commit, CommitFails,
                Restore, RestoreFails
  <2>2. WriterKnows(w) /\ request[w].ref \in Ref /\ request[w].value \in Value \cup {None}
    BY <1>0, <2>1 DEF SecretInductive, WriterKnows, SecretTypeOK
  <2>3. /\ keyring[request[w].ref] \in Value \cup {None}
        /\ previous[w] \in Value \cup {None}
        /\ keyring = [keyring EXCEPT ![request[w].ref] = keyring[request[w].ref]]
        /\ table \in SUBSET Ref /\ doubtful \in SUBSET Ref
    BY <1>0, <2>2 DEF SecretTypeOK
  <2>4. CASE Read(w)
    <3>1. WriterKnows(w)'
      BY <1>0, <2>2, <2>4 DEF Read, WriterKnows, Agrees, SecretTypeOK
    <3>2. previous' \in [Writer -> Value \cup {None}]
      BY <1>0, <2>3, <2>4 DEF Read, SecretTypeOK
    <3>3. QED
      BY <2>1, <2>3, <2>4, <3>1, <3>2, StaysSecret DEF Read, Step
  <2>5. CASE ReadFails(w)
    BY <2>1, <2>2, <2>3, <2>5, ReturnsSecret DEF ReadFails, WriterKnows, Agrees
  <2>6. CASE Change(w)
    <3>1. WriterKnows(w)'
      BY <1>0, <2>2, <2>6 DEF Change, Store, WriterKnows, Agrees, SecretTypeOK
    <3>2. previous' \in [Writer -> Value \cup {None}]
      BY <1>0, <2>6 DEF Change, SecretTypeOK
    <3>3. QED
      BY <2>1, <2>2, <2>6, <3>1, <3>2, StaysSecret DEF Change, Store, Step
  <2>7. CASE ChangeFails(w)
    <3>1. CASE UNCHANGED <<keyring, doubtful>>
      BY <2>1, <2>2, <2>3, <2>7, <3>1, ReturnsSecret DEF ChangeFails, WriterKnows, Agrees
    <3>2. CASE Store(request[w].ref, request[w].value) /\ Doubt(request[w].ref)
      BY <2>1, <2>2, <2>3, <2>7, <3>2, ReturnsSecret DEF ChangeFails, Store, Doubt
    <3>3. QED
      BY <2>7, <3>1, <3>2 DEF ChangeFails
  <2>8. CASE Commit(w)
    <3>1. keyring[request[w].ref] = request[w].value
      BY <2>2, <2>8 DEF Commit, WriterKnows
    <3>2. /\ table' \in SUBSET Ref
          /\ doubtful' \in SUBSET Ref
          /\ \A r \in Ref \ {request[w].ref} :
               (r \in table' <=> r \in table) /\ (r \in doubtful' <=> r \in doubtful)
          /\ request[w].ref \in table' <=> request[w].value # None
      BY <2>2, <2>3, <2>8 DEF Commit
    <3>3. QED
      BY <2>1, <2>2, <2>3, <2>8, <3>1, <3>2, ReturnsSecret DEF Commit
  <2>9. CASE CommitFails(w)
    <3>1. CASE request[w].value = None /\ previous[w] = None
      BY <2>1, <2>2, <2>3, <2>9, <3>1, ReturnsSecret DEF CommitFails, WriterKnows, Agrees
    <3>2. CASE ~(request[w].value = None /\ previous[w] = None)
      <4>1. /\ step' = [step EXCEPT ![w] = "restoring"]
            /\ UNCHANGED <<request, previous, keyring, table, doubtful>>
            /\ step[w] = "committing"
        BY <2>9, <3>2 DEF CommitFails
      <4>2. WriterKnows(w)'
        BY <1>0, <2>2, <4>1 DEF WriterKnows, Agrees, SecretTypeOK
      <4>3. previous' \in [Writer -> Value \cup {None}]
        BY <1>0, <4>1 DEF SecretTypeOK
      <4>4. QED
        BY <2>1, <2>3, <4>1, <4>2, <4>3, StaysSecret DEF Step
    <3>3. QED
      BY <3>1, <3>2
  <2>10. CASE Restore(w)
    BY <2>1, <2>2, <2>3, <2>10, ReturnsSecret DEF Restore, Store, WriterKnows, Agrees
  <2>11. CASE RestoreFails(w)
    BY <2>1, <2>2, <2>3, <2>11, ReturnsSecret DEF RestoreFails, Store, Doubt
  <2>12. QED
    BY <1>2, <2>4, <2>5, <2>6, <2>7, <2>8, <2>9, <2>10, <2>11 DEF WriterStep
<1>3. ASSUME CrashSecrets
      PROVE  SecretInductive'
  <2>1. \A u \in Writer : step'[u] = "idle"
    BY <1>3 DEF CrashSecrets
  <2>2. Changing' = {}
    BY <2>1 DEF Changing
  <2>3. SecretTypeOK' /\ OneWriter'
    <3>1. \A u \in Writer : step[u] # "idle" => request[u].ref \in Ref
      BY DEF SecretInductive, WriterKnows
    <3>2. doubtful' \in SUBSET Ref
      BY <1>0, <1>3, <3>1 DEF CrashSecrets, SecretTypeOK
    <3>3. QED
      BY <1>0, <1>3, <2>1, <3>2 DEF CrashSecrets, SecretTypeOK, OneWriter, Step, Nothing
  <2>4. ASSUME NEW r \in Ref
        PROVE  Agrees(r, keyring[r])'
    <3>1. CASE r \notin Changing
      BY <1>3, <3>1 DEF CrashSecrets, SecretInductive, Agrees
    <3>2. ASSUME NEW w \in Writer, step[w] # "idle", r = request[w].ref
          PROVE  Agrees(r, keyring[r])'
      <4>1. WriterKnows(w) /\ step[w] \in Step
        BY <1>0, <3>2 DEF SecretInductive, SecretTypeOK
      <4>2. CASE step[w] \in {"committing", "restoring"}
        BY <1>3, <3>2, <4>2 DEF CrashSecrets, Agrees
      <4>3. CASE step[w] \in {"reading", "changing"}
        BY <1>3, <3>2, <4>1, <4>3 DEF CrashSecrets, WriterKnows, Agrees
      <4>4. QED
        BY <3>2, <4>1, <4>2, <4>3 DEF Step
    <3>3. QED
      BY <3>1, <3>2 DEF Changing
  <2>5. QED
    BY <2>1, <2>3, <2>4 DEF SecretInductive
<1>4. CASE UNCHANGED secretVars
  BY <1>4 DEF secretVars, SecretInductive, SecretTypeOK, OneWriter, WriterKnows, Agrees,
              Changing
<1>5. QED
  BY <1>1, <1>2, <1>3, <1>4 DEF SecretNext, ChangeSecrets

(***************************************************************************)
(* A request that fails leaves the value as it was: from the invariant,    *)
(* what it read before the change is what it puts back.                    *)
(***************************************************************************)
LEMMA FailedStepKeepsValue ==
  ASSUME SecretInductive, NEW w \in Writer,
         WriterStep(w), step'[w] = "idle", ~Commit(w)
  PROVE  \/ request[w].ref \in doubtful'
         \/ step[w] = "reading" /\ UNCHANGED keyring
         \/ step[w] # "reading" /\ keyring'[request[w].ref] = previous[w]
<1>1. SecretTypeOK /\ step[w] # "idle"
  BY DEF SecretInductive, WriterStep, Read, ReadFails, Change, ChangeFails, Commit,
         CommitFails, Restore, RestoreFails
<1>2. WriterKnows(w) /\ request[w].ref \in Ref
  BY <1>1 DEF SecretInductive, WriterKnows
<1>3. ~Read(w) /\ ~Change(w)
  BY <1>1 DEF Read, Change, SecretTypeOK
<1>4. CASE ReadFails(w)
  BY <1>4 DEF ReadFails
<1>5. CASE ChangeFails(w)
  BY <1>2, <1>5 DEF ChangeFails, Doubt, WriterKnows
<1>6. CASE CommitFails(w)
  <2>1. request[w].value = None /\ previous[w] = None
    BY <1>1, <1>6 DEF CommitFails, SecretTypeOK
  <2>2. QED
    BY <1>2, <1>6, <2>1 DEF CommitFails, WriterKnows
<1>7. CASE Restore(w)
  BY <1>1, <1>2, <1>7 DEF Restore, Store, SecretTypeOK
<1>8. CASE RestoreFails(w)
  BY <1>8 DEF RestoreFails, Doubt
<1>9. QED
  BY <1>3, <1>4, <1>5, <1>6, <1>7, <1>8 DEF WriterStep

LEMMA SecretInductiveImplies == SecretInductive => SecretsConsistent
BY DEF SecretInductive, SecretsConsistent, OneWriter, Agrees, Listing

THEOREM SecretInductiveHolds == SecretSpec => []SecretInductive
BY SecretInitInductive, SecretStepKeeps, PTL DEF SecretSpec

----------------------------------------------------------------------------
(* Runs. *)

(* The operation a run is at uses the credential, so far as it has come. *)
CredentialResolved(r) ==
  /\ at[r] \in {"templates", "before", "executing_before"} /\ Operation(r).secretInput
       => value[r] # None
  /\ at[r] \in {"before", "executing_before"} =>
       /\ Operation(r).secret => value[r] # None
       /\ \A i \in 1..hook[r] :
            Operation(r).before[i] = "secret_headers" => value[r] # None

(* A run is at a step of its capability, and in a hook only at a command. *)
Placed(r) ==
  /\ capability[r] \in Capability /\ Valid(capability[r])
  /\ at[r] \in Place
  /\ op[r] \in DOMAIN capability[r].steps
  /\ hook[r] \in Nat
  /\ at[r] \notin {"before", "executing_before", "after", "executing_after"} => hook[r] = 0
  /\ at[r] = "executing_before" => Operation(r).before[hook[r] + 1] = "exec"

(* The requests of a run carry the one value it has resolved, if any. *)
CarriesOne(r) ==
  /\ value[r] \in Value \cup {None}
  /\ carried[r] \in SUBSET Value
  /\ at[r] # "done" => carried[r] \subseteq {value[r]} \ {None}
  /\ at[r] = "idle" => carried[r] = {}
  /\ \A u, v \in carried[r] : u = v

(* Before its first request a run has sent nothing. *)
SendsAnnounced(r) ==
  /\ sent[r] \in SUBSET STRING
  /\ answer[r] \in {"none", "completed", "failed", "missing_credential"}
  /\ sent[r] \ {"GET"} # {} \/ r \in executed => Announced(capability[r]).approval
  /\ carried[r] # {} => Announced(capability[r]).secret
  /\ answer[r] # "none" => at[r] = "done"
  /\ capability[r].kind = "operation" =>
       /\ answer[r] = "missing_credential" => sent[r] = {}
       /\ at[r] \in {"idle", "input", "templates", "before", "executing_before"}
            => sent[r] = {}

RunInductive(r) ==
  Placed(r) /\ CarriesOne(r) /\ CredentialResolved(r) /\ SendsAnnounced(r)

(* The variables are functions on the runs. *)
RunsShaped ==
  /\ capability = [r \in Run |-> capability[r]]
  /\ at = [r \in Run |-> at[r]]
  /\ op = [r \in Run |-> op[r]]
  /\ hook = [r \in Run |-> hook[r]]
  /\ value = [r \in Run |-> value[r]]
  /\ sent = [r \in Run |-> sent[r]]
  /\ carried = [r \in Run |-> carried[r]]
  /\ executed \in SUBSET Run
  /\ answer = [r \in Run |-> answer[r]]

Inductive ==
  /\ SecretInductive
  /\ RunsShaped
  /\ \A r \in Run : RunInductive(r)

(* Nothing of run q changes in a step. *)
Untouched(q) ==
  /\ capability'[q] = capability[q] /\ at'[q] = at[q] /\ op'[q] = op[q]
  /\ hook'[q] = hook[q] /\ value'[q] = value[q] /\ sent'[q] = sent[q]
  /\ carried'[q] = carried[q] /\ answer'[q] = answer[q]
  /\ q \in executed' <=> q \in executed

LEMMA UntouchedKeeps ==
  ASSUME NEW q \in Run, RunInductive(q), Untouched(q)
  PROVE  RunInductive(q)'
BY DEF Untouched, RunInductive, Placed, CarriesOne, CredentialResolved, SendsAnnounced,
       Operation

(* The operation of a run is one that Parse has accepted. *)
LEMMA OperationTyped ==
  ASSUME NEW r \in Run, Placed(r)
  PROVE  /\ capability[r] \in CapabilitySource
         /\ capability[r].steps \in Seq(OperationSource)
         /\ Operation(r) \in OperationSource
         /\ op[r] \in Nat /\ op[r] >= 1 /\ op[r] <= Len(capability[r].steps)
         /\ Operation(r).before \in Seq(STRING) /\ Operation(r).after \in Seq(STRING)
         /\ capability[r].kind = "operation" => op[r] = 1 /\ Len(capability[r].steps) = 1
<1>1. capability[r] \in CapabilitySource /\ capability[r].steps \in Seq(OperationSource)
  BY HttpAssumption DEF Placed, CapabilitySource
<1>2. /\ Len(capability[r].steps) \in Nat
      /\ op[r] \in 1..Len(capability[r].steps)
  BY <1>1 DEF Placed
<1>3. Operation(r) \in OperationSource
  BY <1>1, <1>2 DEF Operation
<1>4. capability[r].kind = "operation" => Len(capability[r].steps) = 1
  BY DEF Placed, Valid
<1>5. Operation(r).before \in Seq(STRING) /\ Operation(r).after \in Seq(STRING)
  BY <1>3 DEF OperationSource
<1>6. op[r] \in Nat /\ op[r] >= 1 /\ op[r] <= Len(capability[r].steps)
  BY <1>2
<1>7. ASSUME capability[r].kind = "operation"
      PROVE  op[r] = 1 /\ Len(capability[r].steps) = 1
  <2>1. Len(capability[r].steps) = 1
    BY <1>4, <1>7
  <2>2. op[r] <= 1
    BY <1>6, <2>1
  <2>3. QED
    BY <1>6, <2>1, <2>2
<1>8. QED
  BY <1>1, <1>3, <1>5, <1>6, <1>7

(* A command among the hooks of any step was announced. *)
LEMMA CommandAnnounced ==
  ASSUME NEW r \in Run, Placed(r), NEW h \in {"before", "after"},
         NEW i \in DOMAIN Operation(r)[h], Operation(r)[h][i] = "exec"
  PROVE  Announced(capability[r]).approval
BY DEF Placed, Operation, Announced, OperationRequiresApproval, RunsCommand

(* So were a request other than GET, and the use of a secret. *)
LEMMA RequestAnnounced ==
  ASSUME NEW r \in Run, Placed(r)
  PROVE  /\ Operation(r).method # "GET" => Announced(capability[r]).approval
         /\ Operation(r).secretInput \/ OperationUsesSecret(Operation(r)) =>
              Announced(capability[r]).secret
BY DEF Placed, Operation, Announced, OperationRequiresApproval

(* A step refers only to outputs of steps before it, which are there. *)
LEMMA NothingDangles ==
  ASSUME NEW r \in Run, Placed(r)
  PROVE  Resolvable(r)
<1>1. TemplatesValid(capability[r].steps, op[r])
  BY DEF Placed, Valid, StepsValid
<1>2. QED
  BY <1>1 DEF TemplatesValid, Resolvable, Operation

(* A step of one run touches no other. *)
LEMMA StepsAlone ==
  ASSUME RunsShaped, NEW r \in Run, Invoke(r) \/ RunStep(r)
  PROVE  RunsShaped' /\ \A q \in Run \ {r} : Untouched(q)
<1> USE DEF RunsShaped, Untouched
<1>1. CASE Invoke(r)
  BY <1>1 DEF Invoke, Goto
<1>2. CASE Fail(r)
  BY <1>2 DEF Fail, ReturnRun, Goto
<1>3. CASE StepInput(r)
  BY <1>3 DEF StepInput, Credential, ReturnRun, Goto
<1>4. CASE Templates(r)
  BY <1>4 DEF Templates, Credential, ReturnRun, Goto
<1>5. CASE PlainHook(r)
  BY <1>5 DEF PlainHook, Credential, ReturnRun, Goto
<1>6. CASE ExecHook(r)
  BY <1>6 DEF ExecHook, ReturnRun, Goto
<1>7. CASE HookEnds(r)
  BY <1>7 DEF HookEnds, Goto
<1>8. CASE Send(r)
  BY <1>8 DEF Send, Goto
<1>9. CASE Respond(r)
  BY <1>9 DEF Respond, Goto
<1>10. CASE StepOutput(r)
  BY <1>10 DEF StepOutput, Goto
<1>11. CASE Result(r)
  BY <1>11 DEF Result, ReturnRun, Goto
<1>12. QED
  BY <1>1, <1>2, <1>3, <1>4, <1>5, <1>6, <1>7, <1>8, <1>9, <1>10, <1>11 DEF RunStep

(* A run that returns. *)
LEMMA ReturnKeeps ==
  ASSUME RunsShaped, NEW r \in Run, RunInductive(r), at[r] \notin {"idle", "done"},
         NEW a \in {"completed", "failed", "missing_credential"},
         a = "missing_credential" /\ capability[r].kind = "operation" => sent[r] = {},
         ReturnRun(r, a), UNCHANGED <<capability, sent, carried, executed>>
  PROVE  RunInductive(r)'
<1>1. /\ at'[r] = "done" /\ answer'[r] = a /\ value'[r] = None
      /\ hook'[r] = 0 /\ op'[r] = 1
  BY DEF RunsShaped, ReturnRun, Goto
<1>2. Placed(r) /\ 1 \in DOMAIN capability[r].steps
  BY OperationTyped DEF RunInductive
<1>3. Placed(r)'
  BY <1>1, <1>2 DEF Placed, Place
<1>4. CarriesOne(r)'
  BY <1>1 DEF RunInductive, CarriesOne
<1>5. SendsAnnounced(r)'
  BY <1>1 DEF RunInductive, SendsAnnounced
<1>6. QED
  BY <1>1, <1>3, <1>4, <1>5 DEF RunInductive, CredentialResolved

(***************************************************************************)
(* A run that goes to another place of the same operation, before its      *)
(* request, perhaps with a credential just resolved.                       *)
(***************************************************************************)
LEMMA MoveKeeps ==
  ASSUME RunsShaped, NEW r \in Run, RunInductive(r),
         NEW p \in {"templates", "before"},
         at[r] \in {"input", "templates", "before"},
         p = "templates" => at[r] = "input",
         at'[r] = p, value'[r] \in Value \cup {None},
         value[r] # None => value'[r] = value[r],
         UNCHANGED <<capability, op, hook, sent, carried, executed, answer>>,
         CredentialResolved(r)'
  PROVE  RunInductive(r)'
<1>1. Placed(r)'
  BY DEF RunInductive, Placed, Place, Operation
<1>2. CarriesOne(r)'
  BY DEF RunInductive, CarriesOne
<1>3. SendsAnnounced(r)'
  BY DEF RunInductive, SendsAnnounced
<1>4. QED
  BY <1>1, <1>2, <1>3 DEF RunInductive

(***************************************************************************)
(* A use of the credential: the run has it already, resolves it, or        *)
(* returns because there is none; an operation by itself has sent nothing. *)
(***************************************************************************)
LEMMA CredentialKeeps ==
  ASSUME SecretTypeOK, RunsShaped, NEW r \in Run, RunInductive(r),
         NEW p \in {"templates", "before"},
         at[r] \in {"input", "templates", "before"},
         p = "templates" => at[r] = "input",
         Credential(r, p),
         UNCHANGED <<capability, sent, carried, executed>>
  PROVE  RunInductive(r)'
<1>1. CASE value[r] = None /\ Held(ref) = None
  <2>1. ReturnRun(r, "missing_credential")
    BY <1>1 DEF Credential
  <2>2. capability[r].kind = "operation" => sent[r] = {}
    BY DEF RunInductive, SendsAnnounced
  <2>3. QED
    BY <2>1, <2>2, ReturnKeeps
<1>2. CASE ~(value[r] = None /\ Held(ref) = None)
  <2>1. /\ at'[r] = p
        /\ UNCHANGED <<op, hook, answer>>
        /\ value'[r] # None /\ value'[r] \in Value \cup {None}
        /\ value[r] # None => value'[r] = value[r]
    BY <1>2, HttpAssumption
       DEF Credential, Goto, Held, SecretTypeOK, RunsShaped, RunInductive, CarriesOne
  <2>2. CredentialResolved(r)'
    BY <2>1 DEF CredentialResolved
  <2>3. QED
    BY <2>1, <2>2, MoveKeeps
<1>3. QED
  BY <1>1, <1>2

LEMMA StepInputKeeps ==
  ASSUME SecretTypeOK, RunsShaped, NEW r \in Run, RunInductive(r), StepInput(r)
  PROVE  RunInductive(r)'
<1>1. at[r] = "input" /\ Resolvable(r)
  BY NothingDangles DEF StepInput, RunInductive
<1>2. CASE Operation(r).secretInput
  BY <1>1, <1>2, CredentialKeeps DEF StepInput
<1>3. CASE ~Operation(r).secretInput
  <2>1. /\ at'[r] = "templates"
        /\ UNCHANGED <<capability, op, hook, value, sent, carried, executed, answer>>
    BY <1>1, <1>3 DEF StepInput, Goto, RunsShaped
  <2>2. CredentialResolved(r)'
    BY <1>3, <2>1 DEF CredentialResolved, Operation
  <2>3. value[r] \in Value \cup {None}
    BY DEF RunInductive, CarriesOne
  <2>4. QED
    BY <1>1, <2>1, <2>2, <2>3, MoveKeeps
<1>4. QED
  BY <1>2, <1>3

LEMMA TemplatesKeeps ==
  ASSUME SecretTypeOK, RunsShaped, NEW r \in Run, RunInductive(r), Templates(r)
  PROVE  RunInductive(r)'
<1>1. at[r] = "templates"
  BY DEF Templates
<1>2. CASE Operation(r).secret
  BY <1>1, <1>2, CredentialKeeps DEF Templates
<1>3. CASE ~Operation(r).secret
  <2>1. /\ at'[r] = "before"
        /\ UNCHANGED <<capability, op, hook, value, sent, carried, executed, answer>>
    BY <1>1, <1>3 DEF Templates, Goto, RunsShaped
  <2>2. hook[r] = 0
    BY <1>1 DEF RunInductive, Placed
  <2>3. CredentialResolved(r)'
    BY <1>1, <1>3, <2>1, <2>2 DEF CredentialResolved, Operation, RunInductive
  <2>4. value[r] \in Value \cup {None}
    BY DEF RunInductive, CarriesOne
  <2>5. QED
    BY <1>1, <2>1, <2>3, <2>4, MoveKeeps
<1>4. QED
  BY <1>2, <1>3

(***************************************************************************)
(* A hook of the phase has run.  If it was one before the request and used *)
(* the secret, the run has the credential.                                 *)
(***************************************************************************)
LEMMA HookRunKeeps ==
  ASSUME RunsShaped, NEW r \in Run, RunInductive(r), NEW p \in {"before", "after"},
         at[r] \in {p, IF p = "before" THEN "executing_before" ELSE "executing_after"},
         at'[r] = p,
         hook' = [hook EXCEPT ![r] = @ + 1],
         UNCHANGED <<capability, op, value, sent, carried, executed, answer>>,
         p = "before" => Operation(r).before[hook[r] + 1] # "secret_headers" \/ value[r] # None
  PROVE  RunInductive(r)'
<1>1. hook[r] \in Nat /\ hook'[r] = hook[r] + 1
  BY DEF RunInductive, Placed, RunsShaped
<1>2. Placed(r)'
  BY <1>1 DEF RunInductive, Placed, Place
<1>3. CarriesOne(r)' /\ SendsAnnounced(r)'
  BY DEF RunInductive, CarriesOne, SendsAnnounced
<1>4. CASE p = "after"
  BY <1>2, <1>3, <1>4 DEF RunInductive, CredentialResolved
<1>5. CASE p = "before"
  <2>1. Operation(r)' = Operation(r)
    BY DEF Operation
  <2>2. ASSUME NEW i \in 1..hook'[r], Operation(r).before[i] = "secret_headers"
        PROVE  value[r] # None
    <3>1. CASE i = hook[r] + 1
      BY <1>5, <2>2, <3>1
    <3>2. CASE i # hook[r] + 1
      BY <1>1, <1>5, <2>2, <3>2 DEF RunInductive, CredentialResolved
    <3>3. QED
      BY <3>1, <3>2
  <2>3. CredentialResolved(r)'
    BY <1>5, <2>1, <2>2 DEF RunInductive, CredentialResolved
  <2>4. QED
    BY <1>2, <1>3, <2>3 DEF RunInductive
<1>6. QED
  BY <1>4, <1>5

LEMMA PlainHookKeeps ==
  ASSUME SecretTypeOK, RunsShaped, NEW r \in Run, RunInductive(r), PlainHook(r)
  PROVE  RunInductive(r)'
<1>1. CASE NextHook(r) = "secret_headers" /\ value[r] = None
  <2>1. Credential(r, "before")
    BY <1>1 DEF PlainHook
  <2>2. at[r] # "after"
    <3>1. ASSUME at[r] = "after"
          PROVE  FALSE
      <4>1. Hooks(r) = Operation(r).after /\ hook[r] + 1 \in DOMAIN Operation(r).after
        BY <3>1, OperationTyped DEF PlainHook, Hooks, RunInductive, Placed
      <4>2. HooksValid(Operation(r))
        BY DEF RunInductive, Placed, Valid, StepsValid, Operation
      <4>3. QED
        BY <1>1, <4>1, <4>2 DEF HooksValid, NextHook
    <3>2. QED
      BY <3>1
  <2>3. QED
    BY <2>1, <2>2, CredentialKeeps DEF PlainHook
<1>2. CASE ~(NextHook(r) = "secret_headers" /\ value[r] = None)
  <2>1. at[r] = "before" => NextHook(r) = Operation(r).before[hook[r] + 1]
    BY DEF NextHook, Hooks
  <2>2. /\ at[r] \in {"before", "after"} /\ at'[r] = at[r]
        /\ hook' = [hook EXCEPT ![r] = @ + 1]
        /\ UNCHANGED <<capability, op, value, sent, carried, executed, answer>>
    BY <1>2 DEF PlainHook
  <2>3. QED
    BY <1>2, <2>1, <2>2, HookRunKeeps
<1>3. QED
  BY <1>1, <1>2

LEMMA ExecHookKeeps ==
  ASSUME RunsShaped, NEW r \in Run, RunInductive(r), ExecHook(r)
  PROVE  RunInductive(r)'
<1>1. CASE Cardinality(Executing) < Slots
  <2>1. /\ at'[r] = IF at[r] = "before" THEN "executing_before" ELSE "executing_after"
        /\ executed' = executed \cup {r}
        /\ UNCHANGED <<capability, op, hook, value, sent, carried, answer>>
    BY <1>1 DEF ExecHook, Goto, RunsShaped
  <2>2. at[r] \in {"before", "after"} /\ Placed(r)
    BY DEF ExecHook, RunInductive
  <2>3. /\ hook[r] + 1 \in DOMAIN Operation(r)[at[r]]
        /\ Operation(r)[at[r]][hook[r] + 1] = "exec"
    BY <2>2, OperationTyped DEF ExecHook, Hooks, NextHook, Placed
  <2>4. Announced(capability[r]).approval
    BY <2>2, <2>3, CommandAnnounced
  <2>5. Placed(r)'
    BY <2>1, <2>2, <2>3 DEF Placed, Place, Operation
  <2>6. CarriesOne(r)' /\ CredentialResolved(r)'
    BY <2>1, <2>2 DEF RunInductive, CarriesOne, CredentialResolved, Operation
  <2>7. SendsAnnounced(r)'
    BY <2>1, <2>2, <2>4 DEF RunInductive, SendsAnnounced
  <2>8. QED
    BY <2>5, <2>6, <2>7 DEF RunInductive
<1>2. CASE ~(Cardinality(Executing) < Slots)
  <2>1. ReturnRun(r, "failed") /\ UNCHANGED <<capability, sent, carried, executed>>
    BY <1>2 DEF ExecHook
  <2>2. at[r] \notin {"idle", "done"}
    BY DEF ExecHook
  <2>3. QED
    BY <2>1, <2>2, ReturnKeeps
<1>3. QED
  BY <1>1, <1>2

LEMMA HookEndsKeeps ==
  ASSUME RunsShaped, NEW r \in Run, RunInductive(r), HookEnds(r)
  PROVE  RunInductive(r)'
<1>1. /\ at[r] \in {"executing_before", "executing_after"}
      /\ at'[r] = IF at[r] = "executing_before" THEN "before" ELSE "after"
      /\ hook' = [hook EXCEPT ![r] = @ + 1]
      /\ UNCHANGED <<capability, op, value, sent, carried, executed, answer>>
  BY DEF HookEnds, Executing, Goto, RunsShaped
<1>2. at[r] = "executing_before" => Operation(r).before[hook[r] + 1] = "exec"
  BY DEF RunInductive, Placed
<1>3. QED
  BY <1>1, <1>2, HookRunKeeps

(* The request carries the credential if the operation uses it: it is there. *)
LEMMA SendKeeps ==
  ASSUME RunsShaped, NEW r \in Run, RunInductive(r), Send(r)
  PROVE  RunInductive(r)'
<1> DEFINE uses == Operation(r).secretInput \/ OperationUsesSecret(Operation(r))
<1>1. /\ at[r] = "before" /\ hook[r] = Len(Operation(r).before)
      /\ at'[r] = "waiting" /\ hook'[r] = 0
      /\ sent'[r] = sent[r] \cup {Operation(r).method}
      /\ carried'[r] = IF uses THEN carried[r] \cup {value[r]} ELSE carried[r]
      /\ UNCHANGED <<capability, op, value, executed, answer>>
  BY DEF Send, Goto, Hooks, RunsShaped
<1>2. Placed(r) /\ CarriesOne(r) /\ CredentialResolved(r) /\ SendsAnnounced(r)
  BY DEF RunInductive
<1>3. uses => value[r] # None
  <2>1. DOMAIN Operation(r).before = 1..hook[r]
    BY <1>1, <1>2, OperationTyped
  <2>2. QED
    BY <1>1, <1>2, <2>1 DEF CredentialResolved, OperationUsesSecret
<1>4. Operation(r).method \in STRING
  BY <1>2, OperationTyped DEF OperationSource
<1>5. Placed(r)'
  BY <1>1, <1>2 DEF Placed, Place
<1>6. CarriesOne(r)'
  BY <1>1, <1>2, <1>3 DEF CarriesOne
<1>7. SendsAnnounced(r)'
  <2>1. sent'[r] \in SUBSET STRING
    BY <1>1, <1>2, <1>4 DEF SendsAnnounced
  <2>2. sent'[r] \ {"GET"} # {} => Announced(capability[r]).approval
    BY <1>1, <1>2, RequestAnnounced DEF SendsAnnounced
  <2>3. carried'[r] # {} => Announced(capability[r]).secret
    BY <1>1, <1>2, RequestAnnounced DEF SendsAnnounced
  <2>4. answer[r] = "none"
    BY <1>1, <1>2 DEF SendsAnnounced
  <2>5. QED
    BY <1>1, <1>2, <2>1, <2>2, <2>3, <2>4 DEF SendsAnnounced
<1>8. QED
  BY <1>1, <1>5, <1>6, <1>7 DEF RunInductive, CredentialResolved

(* An operation by itself does not come back to its start: it has one step. *)
LEMMA StepOutputKeeps ==
  ASSUME RunsShaped, NEW r \in Run, RunInductive(r), StepOutput(r)
  PROVE  RunInductive(r)'
<1>1. /\ at[r] = "after" /\ hook'[r] = 0
      /\ UNCHANGED <<capability, value, sent, carried, executed, answer>>
  BY DEF StepOutput, RunsShaped
<1>2. Placed(r) /\ CarriesOne(r) /\ SendsAnnounced(r)
  BY DEF RunInductive
<1>3. CarriesOne(r)' /\ CredentialResolved(r)'
  BY <1>1, <1>2 DEF StepOutput, Goto, RunsShaped, CarriesOne, CredentialResolved
<1>4. CASE op[r] < Len(capability[r].steps)
  <2>1. at'[r] = "input" /\ op'[r] = op[r] + 1
    BY <1>4 DEF StepOutput, Goto, RunsShaped
  <2>2. op'[r] \in DOMAIN capability[r].steps /\ capability[r].kind # "operation"
    <3>1. op'[r] \in 1..Len(capability[r].steps)
      BY <1>2, <1>4, <2>1, OperationTyped
    <3>2. DOMAIN capability[r].steps = 1..Len(capability[r].steps)
      BY <1>2, OperationTyped
    <3>3. op[r] = 1 /\ Len(capability[r].steps) = 1 => ~(op[r] < Len(capability[r].steps))
      OBVIOUS
    <3>4. QED
      BY <1>2, <1>4, <3>1, <3>2, <3>3, OperationTyped
  <2>3. Placed(r)' /\ SendsAnnounced(r)'
    BY <1>1, <1>2, <2>1, <2>2 DEF Placed, Place, SendsAnnounced
  <2>4. QED
    BY <1>3, <2>3 DEF RunInductive
<1>5. CASE ~(op[r] < Len(capability[r].steps))
  <2>1. at'[r] = "result" /\ op' = op
    BY <1>5 DEF StepOutput, Goto, RunsShaped
  <2>2. Placed(r)' /\ SendsAnnounced(r)'
    BY <1>1, <1>2, <2>1 DEF Placed, Place, SendsAnnounced
  <2>3. QED
    BY <1>3, <2>2 DEF RunInductive
<1>6. QED
  BY <1>4, <1>5

LEMMA RunStepKeeps ==
  ASSUME SecretTypeOK, RunsShaped, NEW r \in Run, RunInductive(r),
         Invoke(r) \/ RunStep(r)
  PROVE  RunInductive(r)'
<1>1. CASE Invoke(r)
  <2>1. at[r] = "idle" /\ at'[r] = "input"
        /\ UNCHANGED <<capability, op, hook, value, sent, carried, executed, answer>>
    BY <1>1 DEF Invoke, Goto, RunsShaped
  <2>2. QED
    BY <2>1 DEF RunInductive, Placed, Place, CarriesOne, CredentialResolved,
                SendsAnnounced, Operation
<1>2. CASE Fail(r)
  BY <1>2, ReturnKeeps DEF Fail
<1>3. CASE Respond(r)
  <2>1. at[r] = "waiting" /\ at'[r] = "after"
        /\ UNCHANGED <<capability, op, hook, value, sent, carried, executed, answer>>
    BY <1>3 DEF Respond, Goto, RunsShaped
  <2>2. QED
    BY <2>1 DEF RunInductive, Placed, Place, CarriesOne, CredentialResolved,
                SendsAnnounced, Operation
<1>4. CASE Result(r)
  BY <1>4, ReturnKeeps DEF Result
<1>5. QED
  BY <1>1, <1>2, <1>3, <1>4, StepInputKeeps, TemplatesKeeps, PlainHookKeeps, ExecHookKeeps,
     HookEndsKeeps, SendKeeps, StepOutputKeeps DEF RunStep

LEMMA CrashKeeps ==
  ASSUME Crash, NEW r \in Run, RunInductive(r)
  PROVE  RunInductive(r)'
<1>1. /\ at'[r] = IF at[r] = "idle" THEN "idle" ELSE "done"
      /\ op'[r] = 1 /\ hook'[r] = 0 /\ value'[r] = None
      /\ UNCHANGED <<capability, sent, carried, executed, answer>>
  BY DEF Crash
<1>2. Placed(r) /\ CarriesOne(r) /\ SendsAnnounced(r)
  BY DEF RunInductive
<1>3. 1 \in DOMAIN capability[r].steps
  BY <1>2, OperationTyped
<1>4. Placed(r)'
  BY <1>1, <1>2, <1>3 DEF Placed, Place
<1>5. CarriesOne(r)' /\ SendsAnnounced(r)' /\ CredentialResolved(r)'
  BY <1>1, <1>2 DEF CarriesOne, SendsAnnounced, CredentialResolved
<1>6. QED
  BY <1>4, <1>5 DEF RunInductive

LEMMA InitInductive == Init => Inductive
<1> SUFFICES ASSUME Init PROVE Inductive
  OBVIOUS
<1>1. SecretInductive
  BY SecretInitInductive DEF Init
<1>2. RunsShaped
  BY DEF Init, RunsShaped
<1>3. ASSUME NEW r \in Run
      PROVE  RunInductive(r)
  <2>1. capability[r] \in Capability /\ Valid(capability[r])
    BY DEF Init
  <2>2. 1 \in DOMAIN capability[r].steps
    <3>1. capability[r].steps \in Seq(OperationSource) /\ Len(capability[r].steps) > 0
      BY <2>1, HttpAssumption DEF CapabilitySource, Valid
    <3>2. QED
      BY <3>1
  <2>3. Placed(r)
    BY <2>1, <2>2 DEF Init, Placed, Place
  <2>4. CarriesOne(r) /\ CredentialResolved(r) /\ SendsAnnounced(r)
    BY DEF Init, CarriesOne, CredentialResolved, SendsAnnounced
  <2>5. QED
    BY <2>3, <2>4 DEF RunInductive
<1>4. QED
  BY <1>1, <1>2, <1>3 DEF Inductive

LEMMA StepKeeps == Inductive /\ [Next]_vars => Inductive'
<1> SUFFICES ASSUME Inductive, [Next]_vars
             PROVE  Inductive'
  OBVIOUS
<1>1. [SecretNext]_secretVars
  BY DEF Next, Crash, SecretNext, vars
<1>2. SecretInductive /\ SecretInductive' /\ SecretTypeOK
  BY <1>1, SecretStepKeeps DEF Inductive, SecretInductive
<1>3. RunsShaped /\ \A r \in Run : RunInductive(r)
  BY DEF Inductive
<1>4. ASSUME NEW r \in Run, Invoke(r) \/ RunStep(r)
      PROVE  Inductive'
  <2>1. RunsShaped' /\ \A q \in Run \ {r} : RunInductive(q)'
    BY <1>3, <1>4, StepsAlone, UntouchedKeeps
  <2>2. RunInductive(r)'
    BY <1>2, <1>3, <1>4, RunStepKeeps
  <2>3. QED
    BY <1>2, <2>1, <2>2 DEF Inductive
<1>5. CASE UNCHANGED httpVars
  <2>1. RunsShaped' /\ \A r \in Run : Untouched(r)
    BY <1>3, <1>5 DEF httpVars, RunsShaped, Untouched
  <2>2. QED
    BY <1>2, <1>3, <2>1, UntouchedKeeps DEF Inductive
<1>6. CASE Crash
  <2>1. RunsShaped'
    BY <1>3, <1>6 DEF Crash, RunsShaped
  <2>2. QED
    BY <1>2, <1>3, <1>6, <2>1, CrashKeeps DEF Inductive
<1>7. QED
  BY <1>4, <1>5, <1>6 DEF Next, vars

THEOREM InductiveHolds == Spec => []Inductive
BY InitInductive, StepKeeps, PTL DEF Spec

(***************************************************************************)
(* The credential store and the table agree about every reference that no  *)
(* request is changing and no failure has left in doubt.                   *)
(***************************************************************************)
THEOREM SecretsAgree == Spec => []SecretsConsistent
<1>1. Inductive => SecretsConsistent
  BY SecretInductiveImplies DEF Inductive
<1>2. QED
  BY <1>1, InductiveHolds, PTL

(***************************************************************************)
(* A failed Set or Delete leaves the value as it was, unless its change    *)
(* was cut short.                                                          *)
(***************************************************************************)
THEOREM FailedSetKeepsValue == Spec => FailureKeepsValue
<1>1. Inductive /\ [Next]_vars =>
        [\A w \in Writer :
           WriterStep(w) /\ step'[w] = "idle" /\ ~Commit(w) =>
             \/ request[w].ref \in doubtful'
             \/ step[w] = "reading" /\ UNCHANGED keyring
             \/ step[w] # "reading" /\ keyring'[request[w].ref] = previous[w]]_secretVars
  BY FailedStepKeepsValue DEF Inductive
<1>2. QED
  BY <1>1, InductiveHolds, PTL DEF Spec, FailureKeepsValue

(* The requests of one invocation carry one value of the credential. *)
THEOREM OneCredential == Spec => []OneCredentialPerRun
<1>1. Inductive => OneCredentialPerRun
  <2> SUFFICES ASSUME Inductive PROVE OneCredentialPerRun
    OBVIOUS
  <2>1. SecretTypeOK /\ RunsShaped
    BY DEF Inductive, SecretInductive
  <2>2. \A r \in Run : /\ Placed(r) /\ CarriesOne(r) /\ SendsAnnounced(r)
                      /\ op[r] \in Nat \ {0}
    BY OperationTyped DEF Inductive, RunInductive
  <2>3. TypeOK
    <3>1. /\ capability \in [Run -> Capability] /\ at \in [Run -> Place]
          /\ op \in [Run -> Nat \ {0}] /\ hook \in [Run -> Nat]
      BY <2>1, <2>2 DEF RunsShaped, Placed
    <3>2. value \in [Run -> Value \cup {None}] /\ carried \in [Run -> SUBSET Value]
      BY <2>1, <2>2 DEF RunsShaped, CarriesOne
    <3>3. /\ sent \in [Run -> SUBSET STRING] /\ executed \in SUBSET Run
          /\ answer \in [Run -> {"none", "completed", "failed", "missing_credential", "dangling"}]
      BY <2>1, <2>2 DEF RunsShaped, SendsAnnounced
    <3>4. QED
      BY <2>1, <3>1, <3>2, <3>3 DEF TypeOK
  <2>4. ASSUME NEW r \in Run
        PROVE  Cardinality(carried[r]) <= 1
    <3>1. CASE carried[r] = {}
      BY <3>1, FS_EmptySet
    <3>2. ASSUME NEW v \in carried[r]
          PROVE  Cardinality(carried[r]) <= 1
      <4>1. carried[r] = {v}
        BY <2>2, <3>2 DEF CarriesOne
      <4>2. Cardinality({v}) = 1
        BY FS_Singleton
      <4>3. QED
        BY <4>1, <4>2
    <3>3. QED
      BY <3>1, <3>2
  <2>5. QED
    BY <2>3, <2>4 DEF OneCredentialPerRun
<1>2. QED
  BY <1>1, InductiveHolds, PTL

(***************************************************************************)
(* What a run does was announced by Discover, for every source that Parse  *)
(* accepts; and a run that reports no side effect has sent nothing.        *)
(***************************************************************************)
THEOREM AnnouncedEffects == Spec => []EffectsAnnounced
<1>1. Inductive => EffectsAnnounced
  <2> SUFFICES ASSUME Inductive, NEW r \in Run
               PROVE  /\ sent[r] \ {"GET"} # {} \/ r \in executed =>
                            Announced(capability[r]).approval
                      /\ carried[r] # {} => Announced(capability[r]).secret
                      /\ answer[r] # "none" /\ SideEffect(r) = "none" => sent[r] = {}
                      /\ answer[r] # "dangling"
    BY DEF EffectsAnnounced
  <2>1. Placed(r) /\ SendsAnnounced(r)
    BY DEF Inductive, RunInductive
  <2>2. capability[r].kind \in {"operation", "workflow"}
    BY <2>1, OperationTyped DEF CapabilitySource
  <2>3. QED
    BY <2>1, <2>2 DEF SendsAnnounced, SideEffect
<1>2. QED
  BY <1>1, InductiveHolds, PTL
=============================================================================
