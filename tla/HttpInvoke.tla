----------------------------- MODULE HttpInvoke -----------------------------
(***************************************************************************)
(* Invocations of a declarative HTTP integration (internal/declarative)    *)
(* while its credential is set and removed.  A capability is one operation *)
(* or a workflow of them; an operation resolves its templates, runs its    *)
(* request hooks, sends the request and runs its response hooks.           *)
(* Executable hooks run in a limited number of slots, which nobody waits   *)
(* for.                                                                    *)
(*                                                                         *)
(* An operation uses at most one credential, of one reference.  What the   *)
(* data are (jq, schemas, headers) is left out: any step may fail over it. *)
(***************************************************************************)
EXTENDS Integers, Sequences, SecretStore

CONSTANTS
  Run,             \* invocations
  Capability,      \* the capabilities of the integration's source
  ref,             \* the reference of its credential
  Slots            \* capacity of executableHookSlots

(* What a source says of an operation, and of a capability: see Valid. *)
OperationSource ==
  [id : STRING, refs : SUBSET STRING, secretInput : BOOLEAN, method : STRING,
   secret : BOOLEAN, before : Seq(STRING), after : Seq(STRING)]

CapabilitySource == [kind : {"operation", "workflow"}, steps : Seq(OperationSource)]

ASSUME HttpAssumption ==
  /\ IsFiniteSet(Run)
  /\ Capability \subseteq CapabilitySource
  /\ ref \in Ref
  /\ Slots \in Nat

VARIABLES
  capability,      \* which capability each run is about
  at,              \* where it is: see Place
  op,              \* the index of its operation
  hook,            \* how many hooks of the phase have run
  value,           \* credentialValues.values: what it resolved, or None
  sent,            \* the methods of the requests it sent
  carried,         \* the credential values they carried
  executed,        \* it ran a hook's command
  answer           \* what Invoke returned

httpVars == <<capability, at, op, hook, value, sent, carried, executed, answer>>
vars == <<secretVars, httpVars>>

Place == {"idle", "input", "templates", "before", "executing_before", "waiting",
          "after", "executing_after", "result", "done"}

(***************************************************************************)
(* The sources Parse accepts.  A capability is a record of its kind and    *)
(* its steps; the input of a step uses the outputs "refs" of other steps   *)
(* and perhaps the secret; the step is an operation: its method, whether   *)
(* its templates use the secret, and its hooks.  An operation by itself is *)
(* its own only step.                                                      *)
(***************************************************************************)
HooksValid(o) ==
  /\ \A i \in DOMAIN o.before : o.before[i] \in {"headers", "secret_headers", "transform", "exec"}
  /\ \A i \in DOMAIN o.after : o.after[i] \in {"transform", "exec"}

(* A template may name the steps before its own. *)
TemplatesValid(steps, i) == steps[i].refs \subseteq {steps[j].id : j \in 1..(i - 1)}

StepsValid(steps) ==
  \A i \in DOMAIN steps :
    /\ HooksValid(steps[i])
    /\ \A j \in DOMAIN steps : steps[j].id = steps[i].id => j = i
    /\ TemplatesValid(steps, i)

Valid(c) ==
  /\ Len(c.steps) > 0
  /\ StepsValid(c.steps)
  /\ c.kind = "operation" =>
       Len(c.steps) = 1 /\ c.steps[1].refs = {} /\ ~c.steps[1].secretInput

(***************************************************************************)
(* What Discover announces of a capability: that it must be approved, that *)
(* it uses a secret.                                                       *)
(***************************************************************************)
RunsCommand(o) == \E h \in {"before", "after"} : \E i \in DOMAIN o[h] : o[h][i] = "exec"

(* Mutant: only the hooks before the request are looked at. *)
OperationRequiresApprovalBefore(o) ==
  o.method # "GET" \/ \E i \in DOMAIN o.before : o.before[i] = "exec"

OperationRequiresApproval(o) == o.method # "GET" \/ RunsCommand(o)

OperationUsesSecret(o) ==
  o.secret \/ \E i \in DOMAIN o.before : o.before[i] = "secret_headers"

Announced(c) ==
  [approval |-> \E i \in DOMAIN c.steps : OperationRequiresApproval(c.steps[i]),
   secret |-> \E i \in DOMAIN c.steps :
                c.steps[i].secretInput \/ OperationUsesSecret(c.steps[i])]

----------------------------------------------------------------------------
Init ==
  /\ SecretInit
  /\ capability \in [Run -> {c \in Capability : Valid(c)}]
  /\ at = [r \in Run |-> "idle"]
  /\ op = [r \in Run |-> 1]
  /\ hook = [r \in Run |-> 0]
  /\ value = [r \in Run |-> None]
  /\ sent = [r \in Run |-> {}]
  /\ carried = [r \in Run |-> {}]
  /\ executed = {}
  /\ answer = [r \in Run |-> "none"]

(* The operation a run is at. *)
Operation(r) == capability[r].steps[op[r]]

Goto(r, place) == at' = [at EXCEPT ![r] = place]

(* Invoke returns; its credential values are gone. *)
ReturnRun(r, a) ==
  /\ Goto(r, "done")
  /\ answer' = [answer EXCEPT ![r] = a]
  /\ value' = [value EXCEPT ![r] = None]
  /\ hook' = [hook EXCEPT ![r] = 0]
  /\ op' = [op EXCEPT ![r] = 1]

Invoke(r) ==
  /\ at[r] = "idle"
  /\ Goto(r, "input")
  /\ UNCHANGED <<capability, op, hook, value, sent, carried, executed, answer>>

(***************************************************************************)
(* Anything but a credential fails: an input or output does not match its  *)
(* schema, a template or a jq program, the request, the response's status; *)
(* or the caller cancels.                                                  *)
(***************************************************************************)
Fail(r) ==
  /\ at[r] \notin {"idle", "done"}
  /\ ReturnRun(r, "failed")
  /\ UNCHANGED <<capability, sent, carried, executed>>

(***************************************************************************)
(* credentialValues.resolve: the first use in an invocation asks the       *)
(* secret store, which answers when nobody is changing a secret.           *)
(***************************************************************************)
Credential(r, place) ==
  IF value[r] # None
    THEN Goto(r, place) /\ UNCHANGED <<op, hook, value, answer>>
    ELSE /\ ~Locked
         /\ IF Held(ref) = None
              THEN ReturnRun(r, "missing_credential")
              ELSE /\ value' = [value EXCEPT ![r] = Held(ref)]
                   /\ Goto(r, place)
                   /\ UNCHANGED <<op, hook, answer>>

(* Every output a template names is there. *)
Resolvable(r) ==
  \A id \in Operation(r).refs : \E j \in 1..(op[r] - 1) : capability[r].steps[j].id = id

(* invokeWorkflow: the input of the step, from the outputs of earlier ones. *)
StepInput(r) ==
  /\ at[r] = "input"
  /\ CASE ~Resolvable(r) -> ReturnRun(r, "dangling")
       [] Resolvable(r) /\ Operation(r).secretInput -> Credential(r, "templates")
       [] OTHER -> Goto(r, "templates") /\ UNCHANGED <<op, hook, value, answer>>
  /\ UNCHANGED <<capability, sent, carried, executed>>

(* The templates of query, body and headers. *)
Templates(r) ==
  /\ at[r] = "templates"
  /\ IF Operation(r).secret THEN Credential(r, "before")
       ELSE Goto(r, "before") /\ UNCHANGED <<op, hook, value, answer>>
  /\ UNCHANGED <<capability, sent, carried, executed>>

(* The next hook of a phase, if there is one. *)
Hooks(r) == Operation(r)[at[r]]

NextHook(r) == Hooks(r)[hook[r] + 1]

(* A hook that runs no command; setHeaders may use the secret. *)
PlainHook(r) ==
  /\ at[r] \in {"before", "after"}
  /\ hook[r] < Len(Hooks(r))
  /\ NextHook(r) # "exec"
  /\ IF NextHook(r) = "secret_headers" /\ value[r] = None
       THEN Credential(r, "before")
       ELSE /\ hook' = [hook EXCEPT ![r] = @ + 1]
            /\ UNCHANGED <<at, op, value, answer>>
  /\ UNCHANGED <<capability, sent, carried, executed>>

(* Runs with a hook's command running. *)
Executing == {r \in Run : at[r] \in {"executing_before", "executing_after"}}

(* An executable hook needs a slot now. *)
ExecHook(r) ==
  /\ at[r] \in {"before", "after"}
  /\ hook[r] < Len(Hooks(r))
  /\ NextHook(r) = "exec"
  /\ IF Cardinality(Executing) < Slots
       THEN /\ Goto(r, IF at[r] = "before" THEN "executing_before" ELSE "executing_after")
            /\ executed' = executed \cup {r}
            /\ UNCHANGED <<op, hook, value, answer>>
       ELSE ReturnRun(r, "failed") /\ UNCHANGED executed
  /\ UNCHANGED <<capability, sent, carried>>

(* The command has ended well: its output is the new state. *)
HookEnds(r) ==
  /\ r \in Executing
  /\ Goto(r, IF at[r] = "executing_before" THEN "before" ELSE "after")
  /\ hook' = [hook EXCEPT ![r] = @ + 1]
  /\ UNCHANGED <<capability, op, value, sent, carried, executed, answer>>

Send(r) ==
  /\ at[r] = "before"
  /\ hook[r] = Len(Hooks(r))
  /\ Goto(r, "waiting")
  /\ hook' = [hook EXCEPT ![r] = 0]
  /\ sent' = [sent EXCEPT ![r] = @ \cup {Operation(r).method}]
  /\ carried' = IF Operation(r).secretInput \/ OperationUsesSecret(Operation(r))
                  THEN [carried EXCEPT ![r] = @ \cup {value[r]}] ELSE carried
  /\ UNCHANGED <<capability, op, value, executed, answer>>

(* A response with a 2xx status. *)
Respond(r) ==
  /\ at[r] = "waiting"
  /\ Goto(r, "after")
  /\ UNCHANGED <<capability, op, hook, value, sent, carried, executed, answer>>

(* Mutant: every operation of a workflow resolves the credential anew. *)
StepOutputForgets(r) ==
  /\ at[r] = "after"
  /\ hook[r] = Len(Hooks(r))
  /\ hook' = [hook EXCEPT ![r] = 0]
  /\ value' = [value EXCEPT ![r] = None]
  /\ IF op[r] < Len(capability[r].steps)
       THEN op' = [op EXCEPT ![r] = @ + 1] /\ Goto(r, "input")
       ELSE Goto(r, "result") /\ UNCHANGED op
  /\ UNCHANGED <<capability, sent, carried, executed, answer>>

(* The output of the operation is the step's; the next step follows. *)
StepOutput(r) ==
  /\ at[r] = "after"
  /\ hook[r] = Len(Hooks(r))
  /\ hook' = [hook EXCEPT ![r] = 0]
  /\ IF op[r] < Len(capability[r].steps)
       THEN op' = [op EXCEPT ![r] = @ + 1] /\ Goto(r, "input")
       ELSE Goto(r, "result") /\ UNCHANGED op
  /\ UNCHANGED <<capability, value, sent, carried, executed, answer>>

(* The result is persisted. *)
Result(r) ==
  /\ at[r] = "result"
  /\ ReturnRun(r, "completed")
  /\ UNCHANGED <<capability, sent, carried, executed>>

RunStep(r) ==
  \/ Fail(r) \/ StepInput(r) \/ Templates(r) \/ PlainHook(r) \/ ExecHook(r)
  \/ HookEnds(r) \/ Send(r) \/ Respond(r) \/ StepOutput(r) \/ Result(r)

(* The daemon dies: what was running is nowhere any more. *)
Crash ==
  /\ CrashSecrets
  /\ at' = [r \in Run |-> IF at[r] = "idle" THEN "idle" ELSE "done"]
  /\ op' = [r \in Run |-> 1]
  /\ hook' = [r \in Run |-> 0]
  /\ value' = [r \in Run |-> None]
  /\ UNCHANGED <<capability, sent, carried, executed, answer>>

Next ==
  \/ \E r \in Run : (Invoke(r) \/ RunStep(r)) /\ UNCHANGED secretVars
  \/ ChangeSecrets /\ UNCHANGED httpVars
  \/ Crash

Spec == Init /\ [][Next]_vars

----------------------------------------------------------------------------
(* Properties. *)

TypeOK ==
  /\ SecretTypeOK
  /\ capability \in [Run -> Capability]
  /\ at \in [Run -> Place]
  /\ op \in [Run -> Nat \ {0}]
  /\ hook \in [Run -> Nat]
  /\ value \in [Run -> Value \cup {None}]
  /\ sent \in [Run -> SUBSET STRING]
  /\ carried \in [Run -> SUBSET Value]
  /\ executed \in SUBSET Run
  /\ answer \in [Run -> {"none", "completed", "failed", "missing_credential", "dangling"}]

(***************************************************************************)
(* The requests of one invocation carry one value of the credential, even  *)
(* when it is set anew between two steps of a workflow.                    *)
(***************************************************************************)
OneCredentialPerRun ==
  /\ TypeOK
  /\ \A r \in Run : Cardinality(carried[r]) <= 1

(* The side effect RunInWorkspace reports with a failed call. *)
SideEffect(r) ==
  IF answer[r] = "missing_credential" /\ capability[r].kind # "workflow"
    THEN "none" ELSE "possible"

(***************************************************************************)
(* What a run does was announced: a request other than GET and a command   *)
(* need an approval, a value sent is a secret's; and a run that reports    *)
(* no side effect sent nothing.  No valid source makes a step refer to an  *)
(* output that is not there.                                               *)
(***************************************************************************)
EffectsAnnounced ==
  \A r \in Run :
    /\ sent[r] \ {"GET"} # {} \/ r \in executed => Announced(capability[r]).approval
    /\ carried[r] # {} => Announced(capability[r]).secret
    /\ answer[r] # "none" /\ SideEffect(r) = "none" => sent[r] = {}
    /\ answer[r] # "dangling"
=============================================================================
