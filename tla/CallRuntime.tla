---------------------------- MODULE CallRuntime ----------------------------
(***************************************************************************)
(* The runtime of calls (internal/app): a run takes a lease on the app and *)
(* the read lock of its integration's gate, creates the call row, and a    *)
(* goroutine takes the call through the adapter to a terminal state while  *)
(* the request waits for it.  Connect and disconnect take the mutation     *)
(* lock and the write lock of the gate; Close cancels every lease and      *)
(* waits for them; the daemon crashes or exits and the next one recovers   *)
(* the calls it finds unfinished.  Every write to the database may fail.   *)
(*                                                                         *)
(* Locks and leases have no variables of their own: who holds one follows  *)
(* from where everybody is.                                                *)
(***************************************************************************)
EXTENDS FiniteSets, Functions, Integers, Sequences

CONSTANTS
  Call,            \* call IDs, one per run request
  Mutator,         \* connect and disconnect requests
  Integration,     \* the integration each call and mutator is about
  MaxCallErrors    \* maxRuntimeCallErrors

ASSUME RuntimeAssumption ==
  /\ IsFiniteSet(Call)
  /\ Call \cap Mutator = {}
  /\ DOMAIN Integration = Call \cup Mutator
  /\ MaxCallErrors \in Nat \ {0}

Terminal == {"completed", "failed", "canceled"}

Open == {"submitted", "working"}

(* Where a run is, its lease and its gate lock held or not. *)
Ungated == {"begun"}
Gated == {"gated", "targeted", "created", "launched", "invoking", "returned",
          "fallback", "settled"}

CallPlace == {"idle", "ended"} \cup Ungated \cup Gated

MutatorPlace == {"idle", "begun", "locked", "writing"}

Answer == {"none", "waiting",             \* not yet answered
           "refused", "appClosed",        \* no call was started
           "waitCanceled", "unavailable", "lost"}
             \cup Terminal \cup Open

VARIABLES
  app,          \* App.state, or "down" when no daemon runs
  dbOpen,       \* the database handle of this daemon
  closing,      \* progress of Close: "no", "sessions", "draining", "clean", "error"
  row,          \* the calls table: [Call -> "absent" or a state]
  at,           \* where each run and each mutator is
  outcome,      \* what the adapter returned and is not persisted yet
  canceled,     \* whose request or lease context is canceled
  callErrors,   \* App.callErrors, oldest first
  answer        \* what the client of each run is told

(* What only Close, a crash and a restart change, and what runs never touch. *)
daemon == <<app, dbOpen, closing>>

vars == <<app, dbOpen, closing, row, at, outcome, canceled, callErrors, answer>>

(* Mutant: the lease is given back as soon as the adapter returns. *)
LeasedUntilReturn ==
  {x \in Call \cup Mutator : at[x] \notin {"idle", "ended", "returned", "fallback"}}

(* App.leases. *)
Leased == {x \in Call \cup Mutator : at[x] \notin {"idle", "ended"}}

(* Mutant: a refused run keeps the read lock. *)
ReadersLeaked(i) ==
  {c \in Call : Integration[c] = i /\ (at[c] \in Gated \/ answer[c] = "refused")}

(* Who holds the gate of integration i for reading. *)
Readers(i) == {c \in Call : Integration[c] = i /\ at[c] \in Gated}

(***************************************************************************)
(* Who holds the gate for writing or, holding the mutation lock, waits for *)
(* it: a waiting writer keeps new readers out.                             *)
(***************************************************************************)
Writers(i) == {m \in Mutator : Integration[m] = i /\ at[m] \in {"locked", "writing"}}

(* Whoever holds the mutation lock. *)
Mutating == {m \in Mutator : at[m] \in {"locked", "writing"}}

Init ==
  /\ app = "open"
  /\ dbOpen = TRUE
  /\ closing = "no"
  /\ row = [c \in Call |-> "absent"]
  /\ at = [x \in Call \cup Mutator |-> "idle"]
  /\ outcome = [c \in Call |-> "none"]
  /\ canceled = {}
  /\ callErrors = <<>>
  /\ answer = [c \in Call |-> "none"]

----------------------------------------------------------------------------
(* startCallAtRevision, in the goroutine of the request. *)

Begin(c) ==
  /\ app = "open"
  /\ at[c] = "idle"
  /\ at' = [at EXCEPT ![c] = "begun"]
  /\ UNCHANGED <<daemon, row, outcome, canceled, callErrors, answer>>

(* Blocks without regard to the context. *)
LockGate(c) ==
  /\ at[c] = "begun"
  /\ Writers(Integration[c]) = {}
  /\ at' = [at EXCEPT ![c] = "gated"]
  /\ UNCHANGED <<daemon, row, outcome, canceled, callErrors, answer>>

(***************************************************************************)
(* The early returns before the row exists: the app is closing, the        *)
(* context is canceled, permission, an unknown or changed capability, a    *)
(* quota, the database.  The checks that wait for nothing come first.      *)
(***************************************************************************)
Refuse(c) ==
  /\ at[c] \in {"begun", "gated", "targeted"}
  /\ at' = [at EXCEPT ![c] = "ended"]
  /\ answer' = [answer EXCEPT ![c] = "refused"]
  /\ UNCHANGED <<daemon, row, outcome, canceled, callErrors>>

(* setTarget finds the app open; Close may begin before the row is written. *)
SetTarget(c) ==
  /\ at[c] = "gated"
  /\ app = "open"
  /\ at' = [at EXCEPT ![c] = "targeted"]
  /\ UNCHANGED <<daemon, row, outcome, canceled, callErrors, answer>>

Create(c) ==
  /\ at[c] = "targeted"
  /\ dbOpen
  /\ c \notin canceled
  /\ row' = [row EXCEPT ![c] = "submitted"]
  /\ at' = [at EXCEPT ![c] = "created"]
  /\ UNCHANGED <<daemon, outcome, canceled, callErrors, answer>>

(* The goroutine of the call is started unless the app closed meanwhile. *)
Launch(c) ==
  /\ at[c] = "created"
  /\ app = "open"
  /\ at' = [at EXCEPT ![c] = "launched"]
  /\ answer' = [answer EXCEPT ![c] = "waiting"]
  /\ UNCHANGED <<daemon, row, outcome, canceled, callErrors>>

(* Then the row is failed, if the database still can. *)
RefuseCreated(c) ==
  /\ at[c] = "created"
  /\ app # "open"
  /\ \/ dbOpen /\ row' = [row EXCEPT ![c] = "failed"]
     \/ UNCHANGED row
  /\ at' = [at EXCEPT ![c] = "ended"]
  /\ answer' = [answer EXCEPT ![c] = "appClosed"]
  /\ UNCHANGED <<daemon, outcome, canceled, callErrors>>

----------------------------------------------------------------------------
(* runCall, in the goroutine of the call. *)

(* A transition of the row and the error path when it cannot be written. *)
SetWorking(c) ==
  /\ at[c] = "launched"
  /\ \/ /\ dbOpen
        /\ row' = [row EXCEPT ![c] = "working"]
        /\ at' = [at EXCEPT ![c] = "invoking"]
     \/ /\ at' = [at EXCEPT ![c] = "fallback"]
        /\ UNCHANGED row
  /\ UNCHANGED <<daemon, outcome, canceled, callErrors, answer>>

(* The adapter may fail, be canceled upstream or complete at any time. *)
InvokeReturns(c) ==
  /\ at[c] = "invoking"
  /\ \E result \in Terminal : outcome' = [outcome EXCEPT ![c] = result]
  /\ at' = [at EXCEPT ![c] = "returned"]
  /\ UNCHANGED <<daemon, row, canceled, callErrors, answer>>

(* persistTerminal; Complete may also be refused for its bytes. *)
Persist(c) ==
  /\ at[c] = "returned"
  /\ \/ /\ dbOpen
        /\ row' = [row EXCEPT ![c] = outcome[c]]
        /\ at' = [at EXCEPT ![c] = "settled"]
     \/ /\ at' = [at EXCEPT ![c] = "fallback"]
        /\ UNCHANGED row
  /\ outcome' = [outcome EXCEPT ![c] = "none"]
  /\ UNCHANGED <<daemon, canceled, callErrors, answer>>

(* Mutant: the ring of errors never evicts. *)
RecordCallErrorUnbounded(c) == callErrors' = Append(callErrors, c)

(* recordCallErrorLocked: a ring that forgets the oldest error. *)
RecordCallError(c) ==
  callErrors' = IF Len(callErrors) < MaxCallErrors
                  THEN Append(callErrors, c)
                  ELSE Append(Tail(callErrors), c)

FallbackTerminal(c) ==
  /\ at[c] = "fallback"
  /\ \/ /\ dbOpen
        /\ row' = [row EXCEPT ![c] = "failed"]
        /\ UNCHANGED callErrors
     \/ /\ RecordCallError(c)
        /\ UNCHANGED row
  /\ at' = [at EXCEPT ![c] = "settled"]
  /\ UNCHANGED <<daemon, outcome, canceled, answer>>

(* Mutant: the call is given up when the adapter returns. *)
FinishEarly(c) ==
  /\ at[c] \in {"returned", "settled"}
  /\ at' = [at EXCEPT ![c] = "ended"]
  /\ UNCHANGED <<daemon, row, outcome, canceled, callErrors, answer>>

(* The deferred part: done is closed, the gate and the lease are released. *)
Finish(c) ==
  /\ at[c] = "settled"
  /\ at' = [at EXCEPT ![c] = "ended"]
  /\ UNCHANGED <<daemon, row, outcome, canceled, callErrors, answer>>

----------------------------------------------------------------------------
(* runResolved after the call was started. *)

(* getCall reads the row, if it can and nothing says it could not be settled. *)
ReadCall(c) ==
  /\ answer[c] = "waiting"
  /\ at[c] = "ended"
  /\ \/ answer' = [answer EXCEPT ![c] = "unavailable"]
     \/ /\ dbOpen
        /\ c \notin Range(callErrors)
        /\ answer' = [answer EXCEPT ![c] = row[c]]
  /\ canceled' = canceled \ {c}
  /\ UNCHANGED <<daemon, row, at, outcome, callErrors>>

StopWaiting(c) ==
  /\ answer[c] = "waiting"
  /\ c \in canceled
  /\ answer' = [answer EXCEPT ![c] = "waitCanceled"]
  /\ UNCHANGED <<daemon, row, at, outcome, canceled, callErrors>>

(* Mutant: the lease context is not derived from that of the request. *)
CancelRunDetached(c) ==
  /\ at[c] \in {"begun", "gated"}
  /\ c \notin canceled
  /\ canceled' = canceled \cup {c}
  /\ UNCHANGED <<daemon, row, at, outcome, callErrors, answer>>

(* The request context ends: the client is gone, or 30 minutes have passed. *)
CancelRun(c) ==
  /\ c \in Leased \/ answer[c] = "waiting"
  /\ c \notin canceled
  /\ canceled' = canceled \cup {c}
  /\ UNCHANGED <<daemon, row, at, outcome, callErrors, answer>>

----------------------------------------------------------------------------
(* Connect and disconnect. *)

MutatorBegin(m) ==
  /\ app = "open"
  /\ at[m] = "idle"
  /\ at' = [at EXCEPT ![m] = "begun"]
  /\ UNCHANGED <<daemon, row, outcome, canceled, callErrors, answer>>

(* The mutation lock, and a place in the queue of the gate. *)
LockMutation(m) ==
  /\ at[m] = "begun"
  /\ Mutating = {}
  /\ at' = [at EXCEPT ![m] = "locked"]
  /\ UNCHANGED <<daemon, row, outcome, canceled, callErrors, answer>>

(* Disconnect checks the app and the name before it takes the gate. *)
MutatorRefuse(m) ==
  /\ at[m] = "begun"
  /\ Mutating = {}
  /\ at' = [at EXCEPT ![m] = "idle"]
  /\ canceled' = canceled \ {m}
  /\ UNCHANGED <<daemon, row, outcome, callErrors, answer>>

LockGateForWriting(m) ==
  /\ at[m] = "locked"
  /\ Readers(Integration[m]) = {}
  /\ at' = [at EXCEPT ![m] = "writing"]
  /\ UNCHANGED <<daemon, row, outcome, canceled, callErrors, answer>>

(* The change is made, or fails; the locks and the lease are released. *)
MutatorEnd(m) ==
  /\ at[m] = "writing"
  /\ at' = [at EXCEPT ![m] = "idle"]
  /\ canceled' = canceled \ {m}
  /\ UNCHANGED <<daemon, row, outcome, callErrors, answer>>

CancelMutator(m) ==
  /\ m \in Leased
  /\ m \notin canceled
  /\ canceled' = canceled \cup {m}
  /\ UNCHANGED <<daemon, row, at, outcome, callErrors, answer>>

----------------------------------------------------------------------------
(* Close, and the end and the beginning of the daemon. *)

(* Mutant: the leases are waited for without being canceled. *)
CloseBeginPatiently ==
  /\ app = "open"
  /\ app' = "closing"
  /\ closing' = "sessions"
  /\ UNCHANGED <<dbOpen, row, at, outcome, canceled, callErrors, answer>>

CloseBegin ==
  /\ app = "open"
  /\ app' = "closing"
  /\ closing' = "sessions"
  /\ canceled' = canceled \cup Leased
  /\ UNCHANGED <<dbOpen, row, at, outcome, callErrors, answer>>

(* The projections and every provider session are closed. *)
CloseSessions ==
  /\ closing = "sessions"
  /\ closing' = "draining"
  /\ UNCHANGED <<app, dbOpen, row, at, outcome, canceled, callErrors, answer>>

(* Either the app is idle, or the 10 seconds of the shutdown are over. *)
CloseEnd ==
  /\ closing = "draining"
  /\ \/ Leased = {} /\ closing' = "clean"
     \/ closing' = "error"
  /\ app' = "closed"
  /\ UNCHANGED <<dbOpen, row, at, outcome, canceled, callErrors, answer>>

CloseDB ==
  /\ app = "closed"
  /\ dbOpen
  /\ dbOpen' = FALSE
  /\ UNCHANGED <<app, closing, row, at, outcome, canceled, callErrors, answer>>

(* The process ends, at the end of main or at any other moment. *)
Exit ==
  /\ app # "down"
  /\ app' = "down"
  /\ dbOpen' = FALSE
  /\ closing' = "no"
  /\ at' = [x \in Call \cup Mutator |->
              IF x \in Mutator THEN "idle"
              ELSE IF at[x] = "idle" THEN "idle" ELSE "ended"]
  /\ canceled' = {}
  /\ callErrors' = <<>>
  /\ outcome' = [c \in Call |-> "none"]
  /\ answer' = [c \in Call |->
                  IF answer[c] = "waiting" \/ (answer[c] = "none" /\ at[c] # "idle")
                    THEN "lost" ELSE answer[c]]
  /\ UNCHANGED row

(* Mutants: recovery is left out, or fails every call. *)
RestartUnrecovered ==
  /\ app = "down"
  /\ app' = "open"
  /\ dbOpen' = TRUE
  /\ UNCHANGED <<closing, row, at, outcome, canceled, callErrors, answer>>

RestartFailsAll ==
  /\ app = "down"
  /\ app' = "open"
  /\ dbOpen' = TRUE
  /\ row' = [c \in Call |-> IF row[c] = "absent" THEN "absent" ELSE "failed"]
  /\ UNCHANGED <<closing, at, outcome, canceled, callErrors, answer>>

(* Restore fails the unfinished calls before the daemon listens. *)
Restart ==
  /\ app = "down"
  /\ app' = "open"
  /\ dbOpen' = TRUE
  /\ row' = [c \in Call |-> IF row[c] \in Open THEN "failed" ELSE row[c]]
  /\ UNCHANGED <<closing, at, outcome, canceled, callErrors, answer>>

----------------------------------------------------------------------------
(* The steps of the code itself, which it takes when it can. *)
RunStep(c) ==
  \/ SetTarget(c) \/ Create(c) \/ Launch(c) \/ RefuseCreated(c) \/ SetWorking(c)
  \/ Persist(c) \/ FallbackTerminal(c) \/ Finish(c)
  \/ ReadCall(c) \/ StopWaiting(c) \/ (at[c] # "begun" /\ Refuse(c))

Next ==
  \/ \E c \in Call :
       \/ Begin(c) \/ LockGate(c) \/ Refuse(c) \/ SetTarget(c) \/ Create(c)
       \/ Launch(c) \/ RefuseCreated(c) \/ SetWorking(c) \/ InvokeReturns(c)
       \/ Persist(c) \/ FallbackTerminal(c) \/ Finish(c)
       \/ ReadCall(c) \/ StopWaiting(c) \/ CancelRun(c)
  \/ \E m \in Mutator :
       \/ MutatorBegin(m) \/ LockMutation(m) \/ MutatorRefuse(m)
       \/ LockGateForWriting(m) \/ MutatorEnd(m)
       \/ CancelMutator(m)
  \/ CloseBegin \/ CloseSessions \/ CloseEnd \/ CloseDB \/ Exit \/ Restart

Spec == Init /\ [][Next]_vars

(***************************************************************************)
(* Fairness.  Goroutines run; Go's RWMutex lets neither readers nor        *)
(* writers starve; a run request is canceled after 30 minutes at the       *)
(* latest; an adapter returns once its context is canceled, and so does    *)
(* the change of an integration.  Nothing else is assumed: an upstream may *)
(* never answer, a connect may take for ever, the deadline of the shutdown *)
(* need not pass and no client need come or leave.                         *)
(***************************************************************************)
Fairness ==
  /\ \A c \in Call :
       /\ WF_vars(RunStep(c))
       /\ SF_vars(LockGate(c))
       /\ WF_vars(CancelRun(c))
       /\ WF_vars(c \in canceled /\ InvokeReturns(c))
  /\ \A m \in Mutator :
       /\ SF_vars(LockMutation(m) \/ MutatorRefuse(m))
       /\ SF_vars(LockGateForWriting(m))
       /\ WF_vars(m \in canceled /\ MutatorEnd(m))
  /\ WF_vars(CloseSessions)
  /\ WF_vars(Leased = {} /\ CloseEnd)

FairSpec == Spec /\ Fairness

----------------------------------------------------------------------------
(* Properties. *)

(* Every variable has the values its comment names. *)
TypeOK ==
  /\ app \in {"open", "closing", "closed", "down"}
  /\ dbOpen \in BOOLEAN
  /\ closing \in {"no", "sessions", "draining", "clean", "error"}
  /\ row \in [Call -> {"absent"} \cup Open \cup Terminal]
  /\ at \in [Call \cup Mutator -> CallPlace \cup MutatorPlace]
  /\ outcome \in [Call -> {"none"} \cup Terminal]
  /\ canceled \subseteq Call \cup Mutator
  /\ callErrors \in Seq(Call)
  /\ Len(callErrors) <= MaxCallErrors
  /\ answer \in [Call -> Answer]

(***************************************************************************)
(* While a daemon runs, an unfinished call in the database is one a        *)
(* goroutine is working on, or one whose failure to be settled is          *)
(* recorded (or was, until newer failures filled the ring), or one the     *)
(* client was told the app was closing for.                                *)
(***************************************************************************)
NoOrphanedCalls ==
  app # "down" =>
    \A c \in Call :
      row[c] \in Open =>
        \/ c \in Leased
        \/ c \in Range(callErrors)
        \/ Len(callErrors) = MaxCallErrors
        \/ answer[c] = "appClosed"

(***************************************************************************)
(* When Close returns without an error, nothing holds a lease or will      *)
(* touch the database, and every call is settled, unless the database      *)
(* failed it.                                                              *)
(***************************************************************************)
CleanCloseSettles ==
  closing = "clean" =>
    /\ Leased = {}
    /\ \A c \in Call : row[c] \in Open =>
         \/ c \in Range(callErrors)
         \/ Len(callErrors) = MaxCallErrors
         \/ answer[c] = "appClosed"

(***************************************************************************)
(* What a client is told about its call is what the database says from     *)
(* then on, across restarts: a terminal state, or, only when newer errors  *)
(* pushed out its own, the state that could not be settled.                *)
(***************************************************************************)
AnswersAreFinal ==
  [][\A c \in Call :
       /\ answer'[c] \in Terminal => row'[c] = answer'[c]
       /\ answer'[c] \in Open /\ answer[c] = "waiting" =>
            Len(callErrors) = MaxCallErrors]_vars

(* The runtime implements the abstract life of calls with one place each. *)
Phase ==
  [c \in {d \in Call : row[d] # "absent"} |-> IF row[c] \in Open THEN "open" ELSE row[c]]

Lifecycle == INSTANCE CallLifecycle WITH
  CallID   <- Call,
  Outcome  <- Terminal,
  Capacity <- Cardinality(Call),
  phase    <- Phase

(* Every step of the runtime admits a call, settles some, or touches none. *)
ImplementsLifecycle == Lifecycle!Spec

(* Close never needs its deadline: canceling the leases ends every run and *)
(* every connect, whoever waits for which lock.                            *)
ShutdownCompletes == app = "closing" ~> app \in {"closed", "down"}

(* A run ends, unless a connect that never finishes keeps the gate.        *)
RunsEnd ==
  \A c \in Call :
    ([]<>(Mutating = {})) => (at[c] \notin {"idle", "ended"} ~> at[c] = "ended")

(***************************************************************************)
(* A connect that waits for the calls in progress gets the gate: no run is *)
(* left holding it, and runs that come later wait behind the connect.      *)
(***************************************************************************)
ConnectGetsGate ==
  \A m \in Mutator : at[m] = "locked" ~> at[m] # "locked"

(***************************************************************************)
(* A connect that holds the mutation lock while it waits for the calls of  *)
(* its own integration keeps every other connect waiting, but not for      *)
(* ever: if no change of an integration takes for ever, each gets its turn. *)
(***************************************************************************)
ConnectsProceed ==
  \A m \in Mutator :
    (\A n \in Mutator : []<>(at[n] # "writing")) => (at[m] = "begun" ~> at[m] # "begun")
=============================================================================
