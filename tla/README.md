# NineA in TLA+

NineA (`9a`) is a command-line program and a local daemon.  Users connect
integrations (HTTP, MCP processes, A2A agents) to a workspace, search the
capabilities they offer and run them; the daemon keeps every run as a call in a
SQLite database.  This directory holds specifications of the program's parts, the
TLC configurations that check them on small instances, and proofs for all
instances.

Run a check with `tlc -config runtime.cfg MCCallRuntime.tla`, a proof with
`tlapm CallRuntimeProofs.tla`.  `PROJECT.json` maps every definition to the lines
it models and lists runs, mutants, hazards and theorems.

## The system

| Part | State | Operations |
|---|---|---|
| call store, `internal/call` | calls, inputs, results, events, usage counters (SQLite) | Create with quotas and pruning, Transition, Complete, AppendEvent, Get, ListEventPage, RecoverInterrupted |
| app runtime, `internal/app` | App.state, leases, gates, mutation lock, activeCalls, callErrors, approvals | run (preflight, approval, start, wait), Connect, disconnect, Restore, Close |
| catalog, `internal/catalog` | providers, capabilities, the catalog revision | replace, delete, resolve |
| auth, `internal/authn`, `authz` | token hashes, access rows | authenticate, grant, revoke, allowed |
| secrets, `internal/secret` | system keyring and a metadata table | Set, Resolve, Delete, List |
| A2A, `internal/provider/a2a` | active invocations, owner of a task's terminal state, update channels | Discover, Invoke and poll, Cancel, Close |
| MCP, `internal/provider/mcp` | sessions (child processes), invocations, a session count | open, call, release, Cancel, Close |
| declarative HTTP, `internal/declarative` | registered configurations | Register, Unregister, Invoke |
| workspaces and projections, `internal/workspace`, `projection`, `mount` | rows of workspaces; skill directories on disk | Attach, publish, Detach |
| API and daemon, `internal/api`, `cmd/9a` | Unix socket, start-up lock, pid file | listen, serve, shutdown |

How they interact.  A request reaches the API, which authenticates it and calls the
App in a goroutine of its own.  A run resolves its capability in the catalog, may be
answered with an approval token, then takes a *lease* on the App and the read lock of
its integration's *gate*, inserts a call row and starts a goroutine that drives the
adapter.  The adapter calls back into a sink, which appends events to the store.
The request waits for the goroutine and reads the row.  Connect and disconnect hold
the App-wide mutation lock and the write lock of one gate.  Close cancels all leases,
closes the providers' sessions and waits for the leases; then the database is closed.
The next daemon restores the integrations and fails the calls it finds unfinished.

What is hard: requests interleave between the locks they take; what was read before
a lock is used after it; the wait for a gate ignores cancellation; every write to the
database can fail; the daemon can crash anywhere, and its shutdown has a deadline
that may pass while calls are being settled.  `PROJECT.json` lists these hazards, each
at its line.

What makes each part correct:

- *call store*: quotas hold after every operation, pruning removes settled calls only
  and only as many as needed, usage counters agree with the rows, what is settled is
  final, a result exists exactly for completed calls.
- *approval*: a run that needs approval starts only with a token given for the same
  caller, capability version and input; a token starts one call; tokens are lost only
  for a stated reason; a call in progress runs the version in the catalog.
- *runtime*: no unfinished call is forgotten while the daemon lives; the answer to a
  client is what the database says; shutdown ends; runs and connects do not block
  each other for ever.
- *Connect*: after a failure the source file, adapter registration, grants and catalog
  are those of before; a restart restores what the catalog holds.
- *secrets*: the metadata lists what the keyring holds, or an error said otherwise.
- *A2A*: one terminal state per task; Cancel and polling agree on it; every invocation ends.
- *HTTP*: a run does what its source announced, with one value of its credential.
- *MCP*: every process is counted or about to be killed, however its session is ended.
- *projection*: a successful Attach mends what earlier ones left; a user's directory stays.
- *daemon*: one daemon accepts requests, a request is received once, and no start takes
  calls from a daemon that still accepts requests.

## Modules

| Module | Models |
|---|---|
| `CallLifecycle` | abstract: a call is admitted open within a capacity, settled once, and forgotten only when settled |
| `CallStore` | `internal/call`: every operation of the repository as one action |
| `Approval` | `internal/app/run.go`: approval tokens, and the start of a call at the approved version |
| `CallRuntime` | `internal/app/calls.go`, `app.go`, the locks of `declarative.go`, the shutdown of `cmd/9a/daemon.go` |
| `A2ATask` | `internal/provider/a2a`: invocations, the poll loop, Cancel, credentials per request |
| `SecretStore` | `internal/secret`: the system's credential store and the table of names |
| `HttpInvoke` | `internal/declarative`: operations and workflows; extends `SecretStore` |
| `McpSessions` | `internal/provider/mcp`: sessions, their processes, Cancel, Close |
| `Projection` | `internal/projection`, `internal/mount/dir`: publication of the gateway Skill |
| `Connect` | `internal/app/declarative.go`, `Restore` of `app.go`: connect, disconnect, restore; extends `Projection` |
| `DaemonStart` | `cmd/9a`, `Listen` of `internal/api`: starting, sharing and leaving the daemon |
| `CallStoreProofs`, `ApprovalProofs`, `CallRuntimeProofs`, `A2ATaskProofs`, `HttpInvokeProofs`, `McpSessionsProofs`, `ConnectProofs`, `DaemonStartProofs` | theorems and proofs about each, with those about `SecretStore` in `HttpInvokeProofs` and about `Projection` in `ConnectProofs` |
| `MCCallStore`, `MCApproval`, `MCCallRuntime`, `MCHttpInvoke`, `MCConnect`, `MCDaemonStart` | constants and symmetry for TLC |

`CallStore` and `CallRuntime` both implement `CallLifecycle` (property
`ImplementsLifecycle`): the store with quotas and pruning, the runtime with crashes and
failing writes.  `CallRuntime` sees the store through the state column of each row.

### CallStore

`calls` maps a call ID to a record with the columns of the six tables, which are all
keyed by the ID and cascade on delete.  A repository operation is a `BEGIN IMMEDIATE`
transaction on the only connection and is rolled back whole when it fails, so it is one
action, enabled exactly when it commits a change; a failure is the absence of a step.
`RecoverInterrupted` is one UPDATE.  IDs are numbers whose order stands for the order of
the text of the IDs.  Payloads are values with a `Size`.  The clock may stand still between
operations.  `TextOrder` is the order of `RFC3339Nano` text, which is not that of time;
`TicksPerSecond = 2` gives each second one whole and one fractional timestamp, which is
where the two orders differ.  `Create` checks the quotas in the order of the code:
`AfterPruning` is the loop of `pruneTerminalCallsForCreate`, stated as the set of calls it
leaves; for each quota in turn, the shortest prefix of the prunable calls, in their order,
that makes room.  Sums of bytes (`Total`) count marks, as many for each call as it has bytes,
which needs no recursive definition and can be proved about.

### Approval

A run takes one step per lock: `Resolve` reads the catalog; `RequireApproval` or `TakeToken`
is one critical section of `approvalMu`; `CheckToken` comes after the unlock, when time may
have passed; `Start` reads the capability again under the gate and compares revisions;
`Finish` lets the gate go.  `Replace` and `Delete` are the catalog transactions of Connect
and disconnect, with the gate held.  `Restart` empties the in-memory table.  A token is a
random string, so a new one was never issued before; a request may present any token.  The
revision inside the token's text (`v1.<revision>.<random>`) is only a format check and is
left out.  SHA-256 is taken to tell inputs apart.  The purge filters the queue with `Kept`,
which is `SelectSeq` stated without its recursion.

### CallRuntime

`at` says where each run and each mutator (a connect or disconnect) is; the holders of a
lease, a gate and the mutation lock follow from it (`Leased`, `Readers`, `Writers`,
`Mutating`).  A waiting writer keeps new readers out, as in Go's RWMutex.  Every write to
the database may fail while it is open and always fails when it is not.  The request and
the goroutine of a call are separate: the client may stop waiting (`StopWaiting`) while the
call goes on under its canceled context.  The deferred part of `runCall` (done closed, gate
released, lease given back) is one step: nothing can be done between them that depends on
the order.  `Restart` is atomic because the daemon restores before it listens.  The answer
`unavailable` stands for a failed read, a read of a call that was pruned meanwhile, and
`ErrCallPersistence`: the code answers all three with internal_error.  Only one caller of
Close is modelled; a second waits for the first.

### A2ATask

`at` is where an invocation is; the places of `Polling` are the steps of `pollTask`, split
where it waits or where another goroutine can step in.  `owner`, `canceling` and `updates`
are the fields of `activeTask`; a Cancel that holds `terminalMu` over its request blocks
`Claim`.  The agent is a nondeterministic choice of every state and error at every answer.
`bearer` and `secret` say which requests need the token and whether it is there.  A select
with several cases ready may take any of them.

### SecretStore and HttpInvoke

Set and Delete are read, change, commit and, when the commit fails, restore, each of which
may fail; a change of the system's store that reports an error may have happened or not
(`Doubt`).  `doubtful` holds the references whose last change was cut short by a crash, by such
an error, or by a failed restore: the properties except them until a later change succeeds.
`HttpInvoke` runs capabilities given as records of steps, methods and hooks.  `Valid` is what
`Parse` accepts, `Announced` what the adapter tells of them; a run is one action per
operation phase and hook, and reads the credential when a template first uses it.

### McpSessions

The owner of a session steps from the reservation to the return; the process is alive, dead
or reaped.  Cancel and Close stop and release the sessions they find, at the same time.
Nothing is assumed of the server: it may answer, be silent or exit.  Its pipe ends with its
process group.  `late` records that a Cancel came after the run had looked for one, which the
code cannot heed.  In this repository Cancel is called by tests and by users of the provider
interface; the app itself cancels contexts and calls Close.

### Connect and Projection

`disk`, `catalog`, `grants`, `registered`, `cached` and `live` are the six places that must fit
together: source file, database rows, access rows, the HTTP registry, the card cache and
`App.providers`.  `at` is the request at work, which holds the mutation lock; every step may
fail, and so may every step of the rollback.  `before` is a history variable, and `spoiled`
records what the user edited or a rollback could not undo.  `Projection` gives Attach its
steps: a directory is what it is (missing, the user's, or published as healthy, tampered or
not yet sealed).  A crash loses what is in memory and keeps the rest; `Start` may be another
version of the program, with another built-in Skill.

### DaemonStart

A flock belongs to the open file that a client shares with the daemon it starts, so `lock` is
the set of those who have it open.  `socket` is the daemon that made the file at the path: the
path may outlive its daemon (a kill), and a dial succeeds when that daemon still accepts.
Bootstrap is made of the steps between which a kill matters: the file emptied or created,
the file written, the transaction.  `Stop` unlinks the path and stops listening; requests
already received go on, beside a new daemon.

## What the runs check

| Run | Question | Bounds |
|---|---|---|
| `call_quota` | do admissions, pruning and recovery keep the quotas and implement the lifecycle? | 2 identities, 4 IDs, at most 1 active and 2 stored per identity, 2 active and 3 stored in all, 2 clock values |
| `call_bytes` | do counters, results and byte quotas agree; is what is settled final; does admission prune what it should and give up only when it must? | 2 identities, 4 IDs, payloads of 1 and 2 bytes, 3 bytes per identity, 5 in all, 1 event per call, all nine states |
| `call_prune_order` | is the oldest finished call pruned first, as documented? (no) | 1 identity, 3 IDs, 3 clock values |
| `approval` | can a call start without the approval of its version, can a token be used twice, lost, or kept too long? | 3 requests, 2 callers, 2 inputs, 3 tokens with 2 pending, 2 catalog changes, 1 tick |
| `runtime` | are calls settled, answers true, shutdowns and waits finite? | 2 runs and a connect of one integration, a ring of 1 error |
| `a2a` | do the loop and Cancel agree who ends a task; is a confirmed Cancel kept; do invocations end? | 2 invocations, 2 Cancels, room for 1 |
| `a2a_missing_secret` | does side effect `none` mean that nothing was sent, as documented? (no) | 1 invocation |
| `http` | do keyring and table agree; does a run carry one credential and do only what was announced? | 2 runs of 10 sources (2 operations, 8 workflows, some invalid), 1 slot, 2 writers, 2 values |
| `mcp` | is every session counted, Cancel heeded, and does every session that is stopped end? | 1 run, 1 discovery, room for 1, Cancel or Close twice |
| `connect` | do the parts of an integration fit together; is a connect all or nothing; does Attach mend and spare a user's directory? | 2 versions of an HTTP source, 2 agents, 2 versions of the Skill, 1 request at a time and doctor --fix |
| `daemon` | are requests received once and kept from other starts; does the admin's token open the daemon? | 2 clients, 3 daemon processes, 2 tokens |
| `runtime_connects` | does a connect of another integration get its turn behind one that waits for a run? | 1 run, 2 connects of 2 integrations |

Why the bounds are enough.  Four IDs and at most three stored calls let an admission prune
while calls of both identities, active and finished, are stored; each quota is reached by
some admission and no two of them coincide in every state.  Three requests are one
preflight and two that race for its token, or a preflight whose token is replaced or
evicted by two others; two catalog changes allow a removal and a reconnection.  Two runs
and a connect give every order of reader, waiting writer and second reader at a gate; with
a ring of one error two failing calls make it evict.  The symmetry of `approval` permutes
callers, tokens, requests and inputs, which the actions only compare; it is used with
invariants and an action property, not with liveness.

Two Cancels and a loop are all who can want one task, and the second invocation waits for
its slot; a session likewise has its owner and two others who may end it, and the discovery
waits for the slot of the run.  Two writers of one reference are enough because a lock
admits one; the references do not meet.  Steps of a workflow differ only by what they carry
from one to the next, for which two suffice.  Of daemons there may be one that drains, one
that serves and one that starts; with a third client or a fourth daemon `daemon` passes too
(1.6 and 2.0 million states).

`connect` would multiply all that can happen to the integration with all that can happen to
the Skill.  What Attach does depends on nothing in `connectVars`, and Connect only looks
whether it succeeded, so `MCConnect` gives each behavior a scope: either the Skill is left
alone and an Attach fails at once or not at all, or sources are those of HTTP integrations that
nobody edits.  Each property speaks of one of the two groups, except that a successful
connect has the workspace row, which both scopes reach.

Each property has a mutant in `PROJECT.json`: a variant of one definition, written beside
it in the module, with a mistake a programmer could make, that violates the property.

### Fairness

`FairSpec` of `CallRuntime` assumes that goroutines run (`WF` of `RunStep`), that Go's
RWMutex and Mutex starve nobody (`SF` of the lock steps), that a run request is canceled at
the latest by the 30-minute timeout of `api.Listen` (`WF` of `CancelRun`), and that an
adapter and the change of an integration come to an end once their context is canceled.
It does not assume that an upstream answers, that a connect ends by itself, that the
deadline of the shutdown passes, or that a client leaves.  `RunsEnd` therefore has a premise:
a connect that never ends keeps the gate, and a run that waits for the gate does not notice
its cancellation.  MCP discovery has no timeout of its own, so the premise is a real one.
`ConnectsProceed` has the corresponding premise about the other connects.

The MCP sessions assume that goroutines run, that the system kills and reaps processes, and
that a stopper goes on; a server that lives need not answer, and nobody need cancel
(`SessionsEnd` therefore starts from a context that ended or somebody who stops the session).
A2A invocations assume that goroutines run and that a request is answered or times out after
its 30 seconds, and that the timer of a task fires; the agent need never finish a task.
The other modules state safety only.

### Findings

`a2a_missing_secret` shows that a failed run may report side effect `none` although its message
was sent: the credential of an A2A task is resolved for each request, and a poll that misses it
ends the run with `missing_credential` (`run.go:248`), against `docs/reference/errors.md:65`.

`call_prune_order` shows that pruning does not take the oldest call first.  Timestamps are
compared as text in which a whole second (`...:05Z`) sorts after each of its fractions
(`...:05.5Z`), against `docs/SECURITY.md:93-94`.

What the models reach and no property states:

- A connect restores the source it has read before writing.  `docs/architecture.md:34` and
  `docs/guides/connect-http.md:34-36` speak of the last working source; when the user has edited
  the canonical file in place, which the guide asks for, that is the edited source, also
  for the registration (`declarative.go:73` and `:82`).  `AllOrNothing` excepts it by `drifted`.
- A daemon killed while it writes the first admin token leaves an empty file, with which no
  later daemon or client starts (`daemon.go:115`).
- A request admitted by a draining daemon after the next one has recovered stays unfinished if
  that process is cut off, until a third start.
- Daemons of two sockets on one database do not exclude each other: the lock goes with the
  socket (`daemon.go:60`).

## What is proved

The theorems hold for all values of the constants, under the assumptions stated by name in
each module.  Most give types, positive limits, finite sets of runs, and null values
outside the sets they are added to.  Four say more, each because of the code:
`StoreAssumption`, that active quotas are no larger than the retained ones
(`repository.go:21-24`), without which a store full of active calls would refuse a call that
the active quotas admit;
`RuntimeAssumption`, that the app never asks Transition for `completed`; `HttpAssumption`,
that capabilities are sources of the declarative provider, well formed or not; and
`ConnectAssumption`, that all `api` sources of an integration have one endpoint, which the code
makes from its name (`declarative.go:276`).  Each theorem comes from an inductive
invariant, checked by TLC on the run's instance before it was proved; it is called
`Inductive` in each module, but for the store, where the types suffice or a theorem extends them.

- `CallStoreProofs`.  `TypeCorrect` comes first, together with the finiteness of the set of
  stored calls: cardinalities mean nothing without it.  `CreateFacts` says what an admission
  does, whatever pruning chose: it keeps the active calls and changes no call it keeps.  The
  quota theorems follow from it by counting.  `ResultsOfCompleted` is inductive with the
  types; `UsageCorrect` needs it, since a completion adds the bytes of a result the call
  must not have had before.  `SettledIsFinal` and `StoreImplementsLifecycle` are about steps:
  an admission is an abstract admission that forgets the pruned calls, a transition to
  a terminal state a settlement, recovery a settlement of all active calls at once.

  `BytesQuota` is about the sum of what the rows themselves hold.  It follows from
  the same bound on the usage counters (`StorageFacts`, `PruneMakesByteRoom`,
  `GrowthKeepsBytes`) because `UsageCorrect` says that the counters are the sizes.  The
  lemmas on `Total` give what a sum does when one member joins, changes or goes.
  `Admissions` needs that a shortest prefix that makes room exists: of the sets that pruning
  may delete, all of which include what sorts before their members, one with the least
  cardinality is taken (`PrunedExists`), and deleting every prunable call reaches the bound
  that the active calls leave (`PruneReaches`).  `OthersSpared` looks at the last of
  the deleted calls (`LastExists`): with it, there was no room yet (`PrunedInNeed`).
  `OldestSecondPruned` bounds the divergence that `call_prune_order` finds: the text of
  timestamps sorts by their seconds (`TextBySeconds`), so only calls that settled within one
  second are pruned in the wrong order.  No run checks it, since it is what `call_prune_order`
  would check with the property `PrunesOldestSecondFirst` in place of `PrunesOldestFirst`.
- `ApprovalProofs`.  The invariant `Inductive` ties each pending or taken challenge to the
  request that was answered with its token (`ChallengesIssued`), each revision number to one
  version of a capability (`VersionsAgree`), each cleared run to its approval
  (`ClearedApproved`), and each token to at most one run that may still start with it
  (`HeldOnce`).  `VersionsAgree` is why equal revisions at the start mean that the very version
  that was approved is run.  The queue comes apart from it: `KeptFacts` says what
  filtering a queue without repetition gives, by the ranks of the places it keeps, and
  `IssueFacts` what an issue makes of queue and table together, so that
  `PendingOrderly` is inductive together with `Inductive` (`QueueOrderly`).  `LostOnlyWhenFull` follows from it: when table and queue
  name the same live tokens, what is evicted leaves a full table of others.
- `CallRuntimeProofs`.  The invariant says what each place of a run implies about its row
  (`RowsPlaced`), that an unfinished row is being worked on or excused (`RowsAccounted`), that
  a final answer repeats the row of an ended run (`AnswersTrue`), and that nobody is left after
  a clean Close and between daemons (`Quiet`).  From it follow `NoOrphans`, `CleanCloses`, the
  action property `FinalAnswers` and the refinement of `CallLifecycle`.

- `A2ATaskProofs`.  `LoopKnows` and `CancelKnows` say for the two sides what their place implies
  about the owner of the task and its channel: once Cancel owns it, its update is in the channel
  or the loop has taken it and is about to persist it.  `OneCancel` is the exclusion that the
  `canceling` field gives, and `MarksAgree` ties the history of confirmations to the persisted
  end.  `HandoverAgreed` and `ConfirmedCancelKept` follow.
- `HttpInvokeProofs`.  `SecretInductive` lets keyring and table differ only for the reference
  that is being changed, and there says what its writer knows (`WriterKnows`): the value it
  read is what the rows still say.  `SecretsAgree` and `FailedSetKeepsValue` follow; they are
  stated with the runs at work beside the writers.  `RunInductive` says that every request of a
  run carried the value the run holds, and that what it has done so far was announced, for
  any source `Valid` accepts: `OneCredential`, `AnnouncedEffects`.
- `McpSessionsProofs`.  `Counted` states the counter as the sum of two disjoint finite sets,
  reservations and registered sessions, so that each step moves one member or none.  `Placed`
  says where a process may be for each place of its owner, `Aimed` that a process nobody
  owns has a stopper after it, `Heeded` that a cancellation seen in time decides the end:
  `SessionsCounted`, `CancelHeeded`.
- `ConnectProofs`.  `SkillKnows` states what Attach has found or done is still so, unless
  somebody meddled; `AttachesMend` and the action property `UserDirectoriesKept` need no more.
  The invariant for the integration says what each place of a request implies: which
  of the file, rows, registry, cache and live provider already belong to the new source
  (`AdaptersKnown`, `GrantsKnown`, `SourceKnown`), that the previous ones are known exactly for
  the rollback (`PreviousKnown`), and that idle parts fit (`DaemonKnows`, `Fits`).
  `RuntimeInAgreement` and `ConnectsAllOrNothing` are about `Spec`, in which sources and Skill
  change together; the run's `ScopedSpec` restricts it.
- `DaemonStartProofs`.  `LockHeld` and `LockShared` describe who has the startup lock open: one
  client, one daemon, or a client and the daemon it started.  With `OneServes` and
  `TokenKept` (the file is the table's token from the listening daemon on) they give
  `RequestsAreKept` and `AdminServed`.

Only model-checked: liveness, since the prover supports neither fairness nor `ENABLED`
(`ShutdownCompletes`, `RunsEnd`, `ConnectGetsGate`, `ConnectsProceed`, `TasksEnd`,
`SessionsEnd`), and the two findings, which are counterexamples.  Every invariant and action
property of the passing runs, and both refinements, are theorems.

## Not modelled

- Event paging (`ListEventPage`), listings, search and its ranking, status, the rest of doctor:
  reads, which change no state.
- Parsing and encoding (YAML, JSON, jq, templates), schema validation, and the HTTP mapping of
  requests and answers: transformations of data, of which the modules keep whether they succeed.
- Migrations of the database, which run once before anything else; file modes; the pid file,
  which no code reads; the resolution of a path to its workspace.
- Command-line arguments, prompts, output and the connect guide.
- A composition of `CallRuntime` with the quotas of `CallStore`, to say when a settled call is
  pruned before its client has read it: each is near the limit of TLC by itself.

## Plan

Done: `CallLifecycle`, `CallStore`, `Approval`, `CallRuntime` with their proofs; `A2ATask`,
`SecretStore`, `HttpInvoke`, `McpSessions`, `Projection`, `Connect`, `DaemonStart`.

The safety properties are all proved.  Left: the step from `FairSpec` to liveness, as far as it
can be had without `ENABLED` (what each waiting place waits for, as invariants); theorems about
what no run states, as `OldestSecondPruned` is one.
