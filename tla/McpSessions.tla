----------------------------- MODULE McpSessions -----------------------------
(***************************************************************************)
(* Sessions of an MCP integration (internal/provider/mcp).  Each run and   *)
(* each discovery starts a server process of its own, talks to it over     *)
(* pipes and stops it.  The server may exit, or never answer; the caller's *)
(* context may end; Cancel and Close may stop the session from outside, at *)
(* the same time.  The sessions open at once are limited.                  *)
(*                                                                         *)
(* A run invokes under a call ID of its own, so that the branch for an     *)
(* invocation ID that is in use is never taken.  Killing the process group *)
(* closes the pipe: nothing else holds it open.                            *)
(***************************************************************************)
EXTENDS FiniteSets, Integers

CONSTANTS
  Run,         \* invocations
  Discovery,   \* discoveries, which Cancel cannot find
  Stopper,     \* calls of Cancel and of Close
  None,        \* no session
  Limit        \* maxActiveMCPSessions

Opener == Run \cup Discovery

ASSUME McpAssumption ==
  /\ IsFiniteSet(Opener)
  /\ None \notin Opener
  /\ Limit \in Nat \ {0}

Place == {"idle", "reserved", "started", "initializing", "ready", "calling",
          "answered", "errored", "delivering",
          "releasing", "stopping", "waiting", "done"}

(***************************************************************************)
(* The process: "dead" when it has exited or was killed, "reaped" when     *)
(* cmd.Wait has returned and session.done is closed.                       *)
(***************************************************************************)
Process == {"none", "alive", "dead", "reaped"}

(* What Invoke or Discover returns; "failed" is any other error. *)
Outcome == {"none", "completed", "canceled", "interrupted", "failed", "exhausted"}

VARIABLES
  at,         \* where each session's owner is
  process,
  outcome,    \* what it will return
  count,      \* Adapter.activeSessions
  sessions,   \* Adapter.sessions, and those of Run in Adapter.invocations
  canceled,   \* session.canceled
  ended,      \* whose context is done
  stop,       \* where each Cancel or Close is: "idle", "killing", "awaiting", "done"
  victims,    \* the sessions it has still to stop
  aim,        \* the one it is stopping
  late        \* runs that a Cancel accepted after they had looked for one

vars == <<at, process, outcome, count, sessions, canceled, ended, stop,
          victims, aim, late>>

outside == <<canceled, ended, stop, victims, aim, late>>

Init ==
  /\ at = [o \in Opener |-> "idle"]
  /\ process = [o \in Opener |-> "none"]
  /\ outcome = [o \in Opener |-> "none"]
  /\ count = 0
  /\ sessions = {}
  /\ canceled = {}
  /\ ended = {}
  /\ stop = [k \in Stopper |-> "idle"]
  /\ victims = [k \in Stopper |-> {}]
  /\ aim = [k \in Stopper |-> None]
  /\ late = {}

Goto(o, place) == at' = [at EXCEPT ![o] = place]

Return(o, result) == outcome' = [outcome EXCEPT ![o] = result]

(* An error of the transport is the context's, when that is done. *)
ErrorOf(o) == IF o \in ended THEN "interrupted" ELSE "failed"

----------------------------------------------------------------------------
(* open. *)

Acquire(o) ==
  /\ at[o] = "idle"
  /\ IF count < Limit
       THEN count' = count + 1 /\ Goto(o, "reserved") /\ UNCHANGED outcome
       ELSE Goto(o, "done") /\ Return(o, "exhausted") /\ UNCHANGED count
  /\ UNCHANGED <<process, sessions, outside>>

(* No process is started for a context that is done. *)
StartSession(o) ==
  /\ at[o] = "reserved"
  /\ o \notin ended
  /\ process' = [process EXCEPT ![o] = "alive"]
  /\ Goto(o, "started")
  /\ UNCHANGED <<outcome, count, sessions, outside>>

(* The executable or the workspace is not valid, the process not started. *)
StartFails(o) ==
  /\ at[o] = "reserved"
  /\ count' = count - 1
  /\ Goto(o, "done")
  /\ Return(o, "failed")
  /\ UNCHANGED <<process, sessions, outside>>

(* Mutant: the session is registered when the server has answered. *)
RegisterLater(o) ==
  /\ at[o] = "started"
  /\ Goto(o, "initializing")
  /\ UNCHANGED <<process, outcome, count, sessions, outside>>

Register(o) ==
  /\ at[o] = "started"
  /\ sessions' = sessions \cup {o}
  /\ Goto(o, "initializing")
  /\ UNCHANGED <<process, outcome, count, outside>>

(* An answer may be read from the pipe after the server has exited. *)
Initialized(o) ==
  /\ at[o] = "initializing"
  /\ Goto(o, "ready")
  /\ UNCHANGED <<process, outcome, count, sessions, outside>>

(* An error, another protocol version, or the end of the pipe. *)
InitializeFails(o) ==
  /\ at[o] = "initializing"
  /\ Goto(o, "releasing")
  /\ Return(o, ErrorOf(o))
  /\ UNCHANGED <<process, count, sessions, outside>>

----------------------------------------------------------------------------
(* tools/call, or tools/list, page by page. *)

Request(o) ==
  /\ at[o] = "ready"
  /\ Goto(o, "calling")
  /\ UNCHANGED <<process, outcome, count, sessions, outside>>

Answer(o) ==
  /\ at[o] = "calling"
  /\ Goto(o, "answered")
  /\ UNCHANGED <<process, outcome, count, sessions, outside>>

(* The request, sink.Started, or the answer fails; or the pipe ends. *)
CallFails(o) ==
  /\ at[o] \in {"ready", "calling"}
  /\ Goto(o, "errored")
  /\ UNCHANGED <<process, outcome, count, sessions, outside>>

(* Mutant: only an error makes Invoke look whether it was canceled. *)
JudgeErrors(o) ==
  /\ at[o] \in {"answered", "errored"}
  /\ IF at[o] = "answered"
       THEN Goto(o, "delivering") /\ UNCHANGED outcome
       ELSE /\ Goto(o, "releasing")
            /\ Return(o, IF o \in canceled THEN "canceled" ELSE ErrorOf(o))
  /\ UNCHANGED <<process, count, sessions, outside>>

(* A session that was canceled says so, whatever the server has answered. *)
Judge(o) ==
  /\ at[o] \in {"answered", "errored"}
  /\ CASE o \in canceled -> Goto(o, "releasing") /\ Return(o, "canceled")
       [] o \notin canceled /\ at[o] = "errored" ->
            Goto(o, "releasing") /\ Return(o, ErrorOf(o))
       [] OTHER -> Goto(o, "delivering") /\ UNCHANGED outcome
  /\ UNCHANGED <<process, count, sessions, outside>>

(* The result is invalid, a tool error, or not persisted; or all is well. *)
Deliver(o) ==
  /\ at[o] = "delivering"
  /\ Goto(o, "releasing")
  /\ Return(o, "completed") \/ Return(o, "failed")
  /\ UNCHANGED <<process, count, sessions, outside>>

----------------------------------------------------------------------------
(* What everybody does to end a session: release and stop. *)

(* Mutant: a session released twice is counted twice. *)
ReleaseTwice(o) ==
  /\ sessions' = sessions \ {o}
  /\ count' = count - 1

(* release: whoever comes first. *)
Release(o) ==
  /\ sessions' = sessions \ {o}
  /\ count' = IF o \in sessions THEN count - 1 ELSE count

Killed(o) ==
  process' = [process EXCEPT ![o] = IF @ = "alive" THEN "dead" ELSE @]

ReleaseSelf(o) ==
  /\ at[o] = "releasing"
  /\ Release(o)
  /\ Goto(o, "stopping")
  /\ UNCHANGED <<process, outcome, outside>>

StopSelf(o) ==
  /\ at[o] = "stopping"
  /\ Killed(o)
  /\ Goto(o, "waiting")
  /\ UNCHANGED <<outcome, count, sessions, outside>>

(* The process is reaped, or 5 seconds are over. *)
ReturnSelf(o) ==
  /\ at[o] = "waiting"
  /\ Goto(o, "done")
  /\ UNCHANGED <<process, outcome, count, sessions, outside>>

----------------------------------------------------------------------------
(* Cancel and Close. *)

Begin(k, some) ==
  /\ stop' = [stop EXCEPT ![k] = IF some = {} THEN "done" ELSE "killing"]
  /\ victims' = [victims EXCEPT ![k] = some]

(* A run that is open, and that no other Cancel was first to find. *)
Cancelable(r) == r \in sessions \ canceled

Cancel(k, r) ==
  /\ stop[k] = "idle"
  /\ IF Cancelable(r)
       THEN /\ canceled' = canceled \cup {r}
            /\ late' = late \cup (IF at[r] \in {"delivering", "releasing"} THEN {r} ELSE {})
            /\ Begin(k, {r})
       ELSE Begin(k, {}) /\ UNCHANGED <<canceled, late>>
  /\ UNCHANGED <<at, process, outcome, count, sessions, ended, aim>>

(* Close: the sessions there are now. *)
Close(k) ==
  /\ stop[k] = "idle"
  /\ Begin(k, sessions)
  /\ UNCHANGED <<at, process, outcome, count, sessions, canceled, ended, aim, late>>

(* Mutant: a discovery is left to end by itself. *)
StopRuns(k) ==
  /\ stop[k] = "killing"
  /\ stop' = [stop EXCEPT ![k] = "awaiting"]
  /\ \E o \in victims[k] : (IF o \in Run THEN Killed(o) ELSE UNCHANGED process)
                         /\ aim' = [aim EXCEPT ![k] = o]
  /\ UNCHANGED <<at, outcome, count, sessions, canceled, ended, victims, late>>

(* One after the other. *)
StopVictim(k) ==
  /\ stop[k] = "killing"
  /\ stop' = [stop EXCEPT ![k] = "awaiting"]
  /\ \E o \in victims[k] : Killed(o) /\ aim' = [aim EXCEPT ![k] = o]
  /\ UNCHANGED <<at, outcome, count, sessions, canceled, ended, victims, late>>

(* The process is reaped, or the time for it is up: the session is released. *)
ReleaseVictim(k) ==
  /\ stop[k] = "awaiting"
  /\ Release(aim[k])
  /\ Begin(k, victims[k] \ {aim[k]})
  /\ aim' = [aim EXCEPT ![k] = None]
  /\ UNCHANGED <<at, process, outcome, canceled, ended, late>>

----------------------------------------------------------------------------
(* The world. *)

(* The caller gives up, or the app closes. *)
End(o) ==
  /\ at[o] \notin {"idle", "done"}
  /\ o \notin ended
  /\ ended' = ended \cup {o}
  /\ UNCHANGED <<at, process, outcome, count, sessions, canceled, stop, victims,
                 aim, late>>

(* exec.CommandContext kills the process when its context is done. *)
KillEnded(o) ==
  /\ o \in ended
  /\ process[o] = "alive"
  /\ Killed(o)
  /\ UNCHANGED <<at, outcome, count, sessions, outside>>

Exit(o) ==
  /\ process[o] = "alive"
  /\ Killed(o)
  /\ UNCHANGED <<at, outcome, count, sessions, outside>>

(* cmd.Wait returns, and the rest of the process group is killed. *)
Reap(o) ==
  /\ process[o] = "dead"
  /\ process' = [process EXCEPT ![o] = "reaped"]
  /\ UNCHANGED <<at, outcome, count, sessions, outside>>

(* What an owner does without waiting for the server. *)
OwnStep(o) ==
  \/ StartSession(o) \/ StartFails(o) \/ Register(o) \/ Request(o)
  \/ Judge(o) \/ Deliver(o) \/ ReleaseSelf(o) \/ StopSelf(o) \/ ReturnSelf(o)

(* What it does when the server answers, or its pipe ends. *)
ServerStep(o) == Initialized(o) \/ InitializeFails(o) \/ Answer(o) \/ CallFails(o)

PipeEnds(o) == process[o] = "reaped" /\ ServerStep(o)

StopperStep(k) == StopVictim(k) \/ ReleaseVictim(k)

Next ==
  \/ \E o \in Opener : \/ Acquire(o) \/ OwnStep(o) \/ ServerStep(o)
                       \/ End(o) \/ KillEnded(o) \/ Exit(o) \/ Reap(o)
  \/ \E k \in Stopper : \/ \E r \in Run : Cancel(k, r)
                        \/ Close(k) \/ StopperStep(k)

(***************************************************************************)
(* The adapter's own steps and the system's are taken; a server that is    *)
(* alive need not answer, and nobody need cancel.                          *)
(***************************************************************************)
FairSpec ==
  /\ Init /\ [][Next]_vars
  /\ \A o \in Opener : /\ WF_vars(OwnStep(o)) /\ WF_vars(PipeEnds(o))
                       /\ WF_vars(KillEnded(o)) /\ WF_vars(Reap(o))
  /\ \A k \in Stopper : WF_vars(StopperStep(k))

----------------------------------------------------------------------------
(* Properties. *)

TypeOK ==
  /\ at \in [Opener -> Place]
  /\ process \in [Opener -> Process]
  /\ outcome \in [Opener -> Outcome]
  /\ count \in 0..Limit
  /\ sessions \in SUBSET Opener
  /\ canceled \in SUBSET Run
  /\ ended \in SUBSET Opener
  /\ stop \in [Stopper -> {"idle", "killing", "awaiting", "done"}]
  /\ victims \in [Stopper -> SUBSET Opener]
  /\ aim \in [Stopper -> Opener \cup {None}]
  /\ late \in SUBSET Run

(* Slots taken by sessions that are not registered yet. *)
Reserved == {o \in Opener : at[o] \in {"reserved", "started"}}

(***************************************************************************)
(* The count is that of the reservations and the sessions, whoever ended   *)
(* them, how often and in which order.  A process that lives without being *)
(* counted is about to be killed by its own run, and none outlives it.     *)
(***************************************************************************)
SessionsAccounted ==
  /\ TypeOK
  /\ count = Cardinality(Reserved) + Cardinality(sessions)
  /\ \A o \in Opener :
       process[o] = "alive" => o \in Reserved \cup sessions \/ at[o] = "stopping"

(***************************************************************************)
(* A run that Cancel found is not completed, unless Cancel came when the   *)
(* answer had been judged already; and only one Cancel stops a run.        *)
(***************************************************************************)
CancelIsHeeded ==
  /\ \A r \in canceled \ late : outcome[r] # "completed"
  /\ \A r \in Run : outcome[r] = "canceled" => r \in canceled

(***************************************************************************)
(* However the server behaves: a run or a discovery ends once its context  *)
(* is done, once Cancel has found it, or once Close has listed it.         *)
(***************************************************************************)
SessionsEnd ==
  \A o \in Opener :
    (o \in ended \cup canceled \cup UNION {victims[k] : k \in Stopper})
      ~> at[o] = "done"
=============================================================================
