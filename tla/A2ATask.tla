------------------------------- MODULE A2ATask -------------------------------
(***************************************************************************)
(* Tasks of an A2A agent (internal/provider/a2a).  An invocation sends a   *)
(* message; when the agent answers with a task, a loop polls it until it   *)
(* reaches a terminal state, while Cancel may ask the agent to cancel it,  *)
(* the task may outlive its 30 minutes, the caller may give up and the     *)
(* provider may be closed.  Polling and Cancel race to be the one that     *)
(* settles the task: its owner.                                            *)
(*                                                                         *)
(* The agent is not trusted: every one of its answers may be any task      *)
(* state, or an error.  The secret store is a flag: is the token there.    *)
(***************************************************************************)
EXTENDS FiniteSets, Integers

CONSTANTS
  Run,             \* invocations, each under a call ID of its own
  Canceler,        \* calls of Cancel
  None,            \* no invocation
  Limit            \* maxActiveInvocations

ASSUME A2AAssumption ==
  /\ IsFiniteSet(Run)
  /\ None \notin Run
  /\ Limit \in Nat \ {0}

(***************************************************************************)
(* States of a task.  "failed" stands for every terminal state but         *)
(* completed and canceled: rejected, input required, unknown...            *)
(***************************************************************************)
TaskState == {"working", "completed", "canceled", "failed"}

Terminal(s) == s # "working"

(* Where an invocation is: without a task, with one, on its way out. *)
Before == {"reserved", "resolved", "sent", "direct"}
Polling == {"starting", "judging", "awaiting", "persisting", "result",
            "waiting", "getting"}
Place == {"idle"} \cup Before \cup Polling \cup {"leaving", "releasing", "done"}

(***************************************************************************)
(* What Invoke returns: "failed" is every error without a name of its own, *)
(* an invalid answer, an unreachable agent, an event that could not be     *)
(* persisted, a task in another terminal state...                          *)
(***************************************************************************)
Outcome == {"none", "completed", "canceled", "failed", "missing_credential",
            "timeout", "interrupted"}

VARIABLES
  at,          \* where each invocation is
  seen,        \* the state of its task, as last told by the agent
  local,       \* what Invoke returns, unless Cancel settled the task
  answer,      \* what Invoke returned
  active,      \* Adapter.active: the invocations Cancel can find
  owner,       \* activeTask.owner: "unclaimed", "poll", "cancel"
  canceling,   \* activeTask.canceling
  updates,     \* activeTask.updates: the answer to :cancel is in the channel
  ended,       \* taskCtx.Err(): "no", "timeout", "interrupted"
  bearer,      \* the requests of this invocation carry the token
  asked,       \* where each Cancel is: "idle", "claimed", "posting", "done"
  target,      \* the invocation it is about
  reply,       \* what it returned: "none", "ok", "error"
  cached,      \* Adapter.cache: has the agent's card
  secret,      \* the token is in the secret store
  upstream     \* the invocations the agent got a message of

poll == <<at, seen, local, answer>>
task == <<active, owner, canceling, updates, ended>>
cancelVars == <<asked, target, reply>>
world == <<cached, secret, upstream, bearer>>
vars == <<poll, task, cancelVars, world>>

Init ==
  /\ at = [r \in Run |-> "idle"]
  /\ seen = [r \in Run |-> "working"]
  /\ local = [r \in Run |-> "none"]
  /\ answer = [r \in Run |-> "none"]
  /\ active = {}
  /\ owner = [r \in Run |-> "unclaimed"]
  /\ canceling = {}
  /\ updates = {}
  /\ ended = [r \in Run |-> "no"]
  /\ bearer = {}
  /\ asked = [k \in Canceler |-> "idle"]
  /\ target = [k \in Canceler |-> None]
  /\ reply = [k \in Canceler |-> "none"]
  /\ cached \in BOOLEAN
  /\ secret \in BOOLEAN
  /\ upstream = {}

----------------------------------------------------------------------------
(* Invoke, up to the agent's first answer. *)

(* activeInvocations. *)
InUse == Cardinality({r \in Run : at[r] \notin {"idle", "done"}})

(* Invoke takes a slot or is refused. *)
Begin(r) ==
  /\ at[r] = "idle"
  /\ \/ InUse < Limit /\ at' = [at EXCEPT ![r] = "reserved"] /\ UNCHANGED answer
     \/ InUse >= Limit /\ at' = [at EXCEPT ![r] = "done"]
                       /\ answer' = [answer EXCEPT ![r] = "failed"]
  /\ UNCHANGED <<seen, local, task, cancelVars, world>>

(* Before there is a call, the run looks for the token the catalog asks for. *)
Preflight(r) ==
  /\ at[r] = "idle"
  /\ ~secret
  /\ at' = [at EXCEPT ![r] = "done"]
  /\ answer' = [answer EXCEPT ![r] = "missing_credential"]
  /\ UNCHANGED <<seen, local, task, cancelVars, world>>

(* Give up before there is a task. *)
Quit(r, problem) ==
  /\ at' = [at EXCEPT ![r] = "releasing"]
  /\ answer' = [answer EXCEPT ![r] = problem]

(***************************************************************************)
(* What a card asks of a request for one of its skills, given the security *)
(* alternatives of the skill or of the card: the token only when there is  *)
(* no public alternative.  A card whose alternatives are all of another    *)
(* kind is refused.                                                        *)
(***************************************************************************)
Acceptable == {a \in SUBSET {"public", "bearer", "other"} : a # {"other"}}

NeedsToken(alternatives) == alternatives # {} /\ "public" \notin alternatives

(* cachedOrResolve: without a card in the cache, fetch it. *)
Resolve(r) ==
  /\ at[r] = "reserved"
  /\ \E alternatives \in Acceptable :
       bearer' = IF NeedsToken(alternatives) THEN bearer \cup {r} ELSE bearer
  /\ cached' = TRUE
  /\ at' = [at EXCEPT ![r] = "resolved"]
  /\ UNCHANGED <<seen, local, answer, task, cancelVars, secret, upstream>>

(* The agent cannot be reached, or its card is not acceptable. *)
ResolveFails(r) ==
  /\ at[r] = "reserved"
  /\ ~cached
  /\ Quit(r, "failed")
  /\ UNCHANGED <<seen, local, task, cancelVars, world>>

(* operationJSON reads the token anew for every request. *)
CanAuthorize(r) == r \in bearer => secret

Send(r) ==
  /\ at[r] = "resolved"
  /\ IF CanAuthorize(r)
       THEN /\ at' = [at EXCEPT ![r] = "sent"]
            /\ upstream' = upstream \cup {r}
            /\ UNCHANGED answer
       ELSE Quit(r, "missing_credential") /\ UNCHANGED upstream
  /\ UNCHANGED <<seen, local, task, cancelVars, cached, secret, bearer>>

(* An error, an invalid answer, a message, or a task: pollTask registers it. *)
SendFails(r) ==
  /\ at[r] = "sent"
  /\ \E problem \in {"failed", "interrupted"} : Quit(r, problem)
  /\ UNCHANGED <<seen, local, task, cancelVars, world>>

GetsMessage(r) ==
  /\ at[r] = "sent"
  /\ at' = [at EXCEPT ![r] = "direct"]
  /\ UNCHANGED <<seen, local, answer, task, cancelVars, world>>

PersistMessage(r) ==
  /\ at[r] = "direct"
  /\ \E o \in {"completed", "failed"} : Quit(r, o)
  /\ UNCHANGED <<seen, local, task, cancelVars, world>>

GetsTask(r) ==
  /\ at[r] = "sent"
  /\ \E s \in TaskState : seen' = [seen EXCEPT ![r] = s]
  /\ at' = [at EXCEPT ![r] = "starting"]
  /\ active' = active \cup {r}
  /\ UNCHANGED <<local, answer, owner, canceling, updates, ended, cancelVars, world>>

----------------------------------------------------------------------------
(* The loop of pollTask. *)

Goto(r, place) == at' = [at EXCEPT ![r] = place] /\ UNCHANGED <<seen, local, answer>>

(* The loop returns an error; finishTaskExit has the last word. *)
Leave(r, o) ==
  /\ at' = [at EXCEPT ![r] = "leaving"]
  /\ local' = [local EXCEPT ![r] = o]
  /\ UNCHANGED <<seen, answer>>

(* Whoever holds terminalMu over a request: Cancel, while it posts. *)
Holding(r) == {k \in Canceler : asked[k] = "posting" /\ target[k] = r}

Started(r) ==
  /\ at[r] = "starting"
  /\ Goto(r, "judging") \/ Leave(r, "failed")
  /\ UNCHANGED <<task, cancelVars, world>>

(* Mutant: a terminal state the loop has seen is persisted whoever owns it. *)
ClaimAnyway(r) ==
  /\ at[r] = "judging"
  /\ Terminal(seen[r])
  /\ Holding(r) = {}
  /\ Goto(r, "persisting")
  /\ owner' = [owner EXCEPT ![r] = "poll"]
  /\ active' = active \ {r}
  /\ UNCHANGED <<canceling, updates, ended, cancelVars, world>>

(***************************************************************************)
(* claimPollTerminal.  The loop becomes the owner of a terminal state,     *)
(* unless Cancel is: then it persists Cancel's update and no other.        *)
(***************************************************************************)
Claim(r) ==
  /\ at[r] = "judging"
  /\ Terminal(seen[r])
  /\ Holding(r) = {}
  /\ IF owner[r] = "cancel"
       THEN /\ Goto(r, IF seen[r] = "canceled" THEN "persisting" ELSE "awaiting")
            /\ UNCHANGED <<active, owner>>
       ELSE /\ Goto(r, "persisting")
            /\ owner' = [owner EXCEPT ![r] = "poll"]
            /\ active' = active \ {r}
  /\ UNCHANGED <<canceling, updates, ended, cancelVars, world>>

NotTerminal(r) ==
  /\ at[r] = "judging"
  /\ ~Terminal(seen[r])
  /\ Goto(r, "persisting")
  /\ UNCHANGED <<task, cancelVars, world>>

(* The next state is the one Cancel was told. *)
TakeUpdate(r) ==
  /\ r \in updates
  /\ updates' = updates \ {r}
  /\ seen' = [seen EXCEPT ![r] = "canceled"]
  /\ at' = [at EXCEPT ![r] = "judging"]
  /\ UNCHANGED <<local, answer>>

(* Blocks without a timeout. *)
AwaitUpdate(r) ==
  /\ at[r] = "awaiting"
  /\ TakeUpdate(r)
  /\ UNCHANGED <<active, owner, canceling, ended, cancelVars, world>>

(* emitTaskUpdate, and what follows from the state it was about. *)
Persist(r) ==
  /\ at[r] = "persisting"
  /\ \/ Leave(r, "failed")
     \/ CASE seen[r] = "working" -> Goto(r, "waiting")
          [] seen[r] = "completed" -> Goto(r, "result")
          [] OTHER -> Leave(r, seen[r])
  /\ UNCHANGED <<task, cancelVars, world>>

PersistResult(r) ==
  /\ at[r] = "result"
  /\ Leave(r, "completed") \/ Leave(r, "failed")
  /\ UNCHANGED <<task, cancelVars, world>>

WaitUpdate(r) ==
  /\ at[r] = "waiting"
  /\ TakeUpdate(r)
  /\ UNCHANGED <<active, owner, canceling, ended, cancelVars, world>>

(* The poll timer fires; the request is sent if it can be. *)
WaitTimer(r) ==
  /\ at[r] = "waiting"
  /\ Goto(r, "getting")
  /\ UNCHANGED <<task, cancelVars, world>>

(* The context ends, or a request fails: an update is preferred to an error. *)
UpdateOr(r, problem) ==
  IF r \in updates THEN TakeUpdate(r) ELSE Leave(r, problem) /\ UNCHANGED updates

WaitContext(r) ==
  /\ at[r] = "waiting"
  /\ ended[r] # "no"
  /\ UpdateOr(r, ended[r])
  /\ UNCHANGED <<active, owner, canceling, ended, cancelVars, world>>

(* The token is gone, the context has ended, or the request fails. *)
PollProblem(r) ==
  CASE ended[r] = "timeout" -> "timeout"
    [] ended[r] # "timeout" /\ ~CanAuthorize(r) -> "missing_credential"
    [] ended[r] = "interrupted" /\ CanAuthorize(r) -> "interrupted"
    [] OTHER -> "failed"

PollFails(r) ==
  /\ at[r] = "getting"
  /\ UpdateOr(r, PollProblem(r))
  /\ UNCHANGED <<active, owner, canceling, ended, cancelVars, world>>

(* The agent answers, with a task or with something else. *)
PollAnswered(r) ==
  /\ at[r] = "getting"
  /\ ended[r] = "no"
  /\ CanAuthorize(r)
  /\ \/ Leave(r, "failed")
     \/ \E s \in TaskState :
          /\ seen' = [seen EXCEPT ![r] = s]
          /\ at' = [at EXCEPT ![r] = "judging"]
          /\ UNCHANGED <<local, answer>>
  /\ UNCHANGED <<task, cancelVars, world>>

(***************************************************************************)
(* finishTaskExit, after taskCtx is canceled.  What only the loop and the  *)
(* record of the task knew is gone with them.                              *)
(***************************************************************************)
Finish(r) ==
  /\ at[r] = "leaving"
  /\ Holding(r) = {}
  /\ IF owner[r] = "cancel"
       THEN /\ Quit(r, "canceled")
            /\ updates' = updates \ {r}
            /\ UNCHANGED <<active, owner>>
       ELSE /\ Quit(r, local[r])
            /\ owner' = [owner EXCEPT ![r] = "poll"]
            /\ active' = active \ {r}
            /\ UNCHANGED updates
  /\ seen' = [seen EXCEPT ![r] = "working"]
  /\ local' = [local EXCEPT ![r] = "none"]
  /\ ended' = [ended EXCEPT ![r] = "no"]
  /\ canceling' = canceling \ {r}
  /\ bearer' = bearer \ {r}
  /\ UNCHANGED <<cancelVars, cached, secret, upstream>>

Release(r) ==
  /\ at[r] = "releasing"
  /\ Goto(r, "done")
  /\ UNCHANGED <<task, cancelVars, world>>

RunStep(r) ==
  \/ Resolve(r) \/ ResolveFails(r) \/ Send(r) \/ SendFails(r) \/ GetsMessage(r)
  \/ PersistMessage(r) \/ GetsTask(r) \/ Started(r) \/ Claim(r) \/ NotTerminal(r) \/ AwaitUpdate(r)
  \/ Persist(r) \/ PersistResult(r) \/ WaitUpdate(r) \/ WaitTimer(r)
  \/ WaitContext(r) \/ PollFails(r) \/ PollAnswered(r) \/ Finish(r) \/ Release(r)

----------------------------------------------------------------------------
(* Cancel. *)

(* Nobody else cancels the task: this call may. *)
CancelBegin(k, r) ==
  /\ asked[k] = "idle"
  /\ r \in active \ canceling
  /\ asked' = [asked EXCEPT ![k] = "claimed"]
  /\ target' = [target EXCEPT ![k] = r]
  /\ canceling' = canceling \cup {r}
  /\ UNCHANGED <<poll, active, owner, updates, ended, reply, world>>

(* The task is not active, or another call cancels it. *)
CancelRefused(k, r) ==
  /\ asked[k] = "idle"
  /\ r \notin active \/ r \in canceling
  /\ asked' = [asked EXCEPT ![k] = "done"]
  /\ reply' = [reply EXCEPT ![k] = "error"]
  /\ UNCHANGED <<poll, task, target, world>>

(* Mutant: only a refusal before the request gives the task free again. *)
CancelFailsHolding(k) ==
  /\ asked' = [asked EXCEPT ![k] = "done"]
  /\ reply' = [reply EXCEPT ![k] = "error"]
  /\ canceling' = IF asked[k] = "claimed" THEN canceling \ {target[k]} ELSE canceling
  /\ target' = [target EXCEPT ![k] = None]

(* Return an error: the task may be canceled again, if it is still active. *)
CancelFails(k) ==
  /\ asked' = [asked EXCEPT ![k] = "done"]
  /\ reply' = [reply EXCEPT ![k] = "error"]
  /\ canceling' = IF target[k] \in active THEN canceling \ {target[k]} ELSE canceling
  /\ target' = [target EXCEPT ![k] = None]

(***************************************************************************)
(* With terminalMu in hand, until it returns: the provider must still be   *)
(* resolved and the task active, and the token be there.                   *)
(***************************************************************************)
CancelPost(k) ==
  /\ asked[k] = "claimed"
  /\ Holding(target[k]) = {}
  /\ IF cached /\ target[k] \in active /\ CanAuthorize(target[k])
       THEN asked' = [asked EXCEPT ![k] = "posting"] /\ UNCHANGED <<reply, canceling, target>>
       ELSE CancelFails(k)
  /\ UNCHANGED <<poll, active, owner, updates, ended, world>>

(* No answer, or one that does not say that the task is canceled. *)
CancelUnconfirmed(k) ==
  /\ asked[k] = "posting"
  /\ CancelFails(k)
  /\ UNCHANGED <<poll, active, owner, updates, ended, world>>

Interrupt(r) ==
  ended' = [ended EXCEPT ![r] = IF @ = "no" THEN "interrupted" ELSE @]

(* Mutant: the loop is woken, but told nothing. *)
CancelConfirmedSilently(k) ==
  LET r == target[k] IN
  /\ asked[k] = "posting"
  /\ r \in active /\ r \notin updates
  /\ owner' = [owner EXCEPT ![r] = "cancel"]
  /\ active' = active \ {r}
  /\ Interrupt(r)
  /\ asked' = [asked EXCEPT ![k] = "done"]
  /\ reply' = [reply EXCEPT ![k] = "ok"]
  /\ UNCHANGED <<poll, canceling, updates, target, world>>

(***************************************************************************)
(* The agent confirms.  Cancel becomes the owner, hands the answer to the  *)
(* loop and wakes it.  (The task is active and the channel empty: nobody   *)
(* removes the one or fills the other while terminalMu is held.)           *)
(***************************************************************************)
CancelConfirmed(k) ==
  LET r == target[k] IN
  /\ asked[k] = "posting"
  /\ r \in active /\ r \notin updates
  /\ owner' = [owner EXCEPT ![r] = "cancel"]
  /\ active' = active \ {r}
  /\ updates' = updates \cup {r}
  /\ Interrupt(r)
  /\ asked' = [asked EXCEPT ![k] = "done"]
  /\ reply' = [reply EXCEPT ![k] = "ok"]
  /\ UNCHANGED <<poll, canceling, target, world>>

CancelStep(k) == CancelPost(k) \/ CancelUnconfirmed(k) \/ CancelConfirmed(k)

----------------------------------------------------------------------------
(* Everything else. *)

(* The caller gives up. *)
CallerLeaves(r) ==
  /\ at[r] \in Polling
  /\ ended[r] = "no"
  /\ Interrupt(r)
  /\ UNCHANGED <<poll, active, owner, canceling, updates, cancelVars, world>>

(* taskTimeout has passed. *)
TimeOut(r) ==
  /\ at[r] \in Polling
  /\ ended[r] = "no"
  /\ ended' = [ended EXCEPT ![r] = "timeout"]
  /\ UNCHANGED <<poll, active, owner, canceling, updates, cancelVars, world>>

(* Close forgets the card and wakes the loops of the active tasks. *)
Close ==
  /\ cached' = FALSE
  /\ ended' = [r \in Run |-> IF r \in active /\ ended[r] = "no"
                              THEN "interrupted" ELSE ended[r]]
  /\ UNCHANGED <<poll, active, owner, canceling, updates, cancelVars, secret,
                 upstream, bearer>>

(* Discover, on a connect, and Health without a cached card, fetch the card. *)
Discover ==
  /\ cached' = TRUE
  /\ UNCHANGED <<poll, task, cancelVars, secret, upstream, bearer>>

(* secret set and secret remove. *)
ChangeSecret ==
  /\ secret' = ~secret
  /\ UNCHANGED <<poll, task, cancelVars, cached, upstream, bearer>>

Next ==
  \/ \E r \in Run : \/ Begin(r) \/ Preflight(r) \/ RunStep(r)
                     \/ CallerLeaves(r) \/ TimeOut(r)
  \/ \E k \in Canceler : \/ \E r \in Run : CancelBegin(k, r) \/ CancelRefused(k, r)
                          \/ CancelStep(k)
  \/ Close \/ Discover \/ ChangeSecret

Spec == Init /\ [][Next]_vars

(***************************************************************************)
(* The goroutines run, every request is answered or times out after 30     *)
(* seconds, and the timer of a task fires in the end.  Nothing makes the   *)
(* agent finish, the caller leave or anybody cancel.                       *)
(***************************************************************************)
Fairness ==
  /\ \A r \in Run : WF_vars(RunStep(r)) /\ WF_vars(TimeOut(r))
  /\ \A k \in Canceler : WF_vars(CancelStep(k))

FairSpec == Spec /\ Fairness

----------------------------------------------------------------------------
(* Properties. *)

TypeOK ==
  /\ at \in [Run -> Place]
  /\ seen \in [Run -> TaskState]
  /\ local \in [Run -> Outcome]
  /\ answer \in [Run -> Outcome]
  /\ active \in SUBSET Run
  /\ owner \in [Run -> {"unclaimed", "poll", "cancel"}]
  /\ canceling \in SUBSET Run
  /\ updates \in SUBSET Run
  /\ ended \in [Run -> {"no", "timeout", "interrupted"}]
  /\ bearer \in SUBSET Run
  /\ asked \in [Canceler -> {"idle", "claimed", "posting", "done"}]
  /\ target \in [Canceler -> Run \cup {None}]
  /\ reply \in [Canceler -> {"none", "ok", "error"}]
  /\ cached \in BOOLEAN
  /\ secret \in BOOLEAN
  /\ upstream \in SUBSET Run

(* The Cancel in charge of a task. *)
InCharge(r) == {k \in Canceler : target[k] = r /\ asked[k] \in {"claimed", "posting"}}

(* Whose Cancel was confirmed. *)
Confirmed == {target[k] : k \in {k \in Canceler : reply[k] = "ok"}}

(***************************************************************************)
(* The loop and Cancel agree on whose the task is: an active task is       *)
(* nobody's yet; one that Cancel owns was confirmed to some caller, and    *)
(* when the loop waits for the update it is in the channel (the wait has   *)
(* no timeout); the mark that keeps other Cancels out of an active task    *)
(* always belongs to exactly one of them, so that a failed Cancel can be   *)
(* repeated.                                                               *)
(***************************************************************************)
HandoverConsistent ==
  /\ TypeOK
  /\ \A r \in Run :
       /\ r \in active <=> at[r] \in Polling \cup {"leaving"} /\ owner[r] = "unclaimed"
       /\ owner[r] = "cancel" <=> r \in Confirmed
       /\ r \in updates => owner[r] = "cancel" /\ at[r] \in Polling \cup {"leaving"}
       /\ at[r] = "awaiting" => r \in updates
       /\ Cardinality(InCharge(r)) <= 1
       /\ r \in active => (r \in canceling <=> InCharge(r) # {})

(***************************************************************************)
(* Cancel tells the truth: when it returned without an error, the call     *)
(* ends as canceled and no result is persisted, whatever the loop was      *)
(* told, timed out on or failed with; and one Cancel of a task is          *)
(* confirmed at most.                                                      *)
(***************************************************************************)
CancelIsKept ==
  \A r \in Confirmed :
    /\ answer[r] \in {"none", "canceled"}
    /\ at[r] # "result" /\ local[r] # "completed"
    /\ \A k, m \in Canceler :
         reply[k] = "ok" /\ reply[m] = "ok" /\ target[k] = r /\ target[m] = r => k = m

(***************************************************************************)
(* Every invocation that began returns, even when the agent never finishes *)
(* the task and whatever Cancel does: holding terminalMu over a request,   *)
(* or making the loop wait for an update.                                  *)
(***************************************************************************)
TasksEnd == \A r \in Run : at[r] # "idle" ~> at[r] = "done"

(* The side effect RunInWorkspace reports with a failed call. *)
SideEffect(r) == IF answer[r] = "missing_credential" THEN "none" ELSE "possible"

(***************************************************************************)
(* docs/reference/errors.md: "`none` - NineA did not send a request        *)
(* upstream."                                                              *)
(***************************************************************************)
NoneMeansNothingSent ==
  \A r \in Run : SideEffect(r) = "none" => r \notin upstream
=============================================================================
