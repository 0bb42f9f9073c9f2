---------------------------- MODULE A2ATaskProofs ----------------------------
(***************************************************************************)
(* Proofs about A2ATask, for any number of invocations and of calls of     *)
(* Cancel, any limit of invocations, and whatever the agent answers.       *)
(***************************************************************************)
EXTENDS A2ATask, FiniteSetTheorems, TLAPS

(* Before and while there is a task. *)
Early == {"idle"} \cup Before
WithTask == Polling \cup {"leaving"}

(***************************************************************************)
(* The loop's side.  Once Cancel owns the task its update is in the        *)
(* channel or has been taken, and then the loop is about to persist it; a  *)
(* result is only ever persisted by a loop that owns the task.             *)
(***************************************************************************)
LoopKnows(r) ==
  /\ r \in active <=> at[r] \in WithTask /\ owner[r] = "unclaimed"
  /\ r \in updates => owner[r] = "cancel" /\ at[r] \in WithTask
  /\ at[r] = "awaiting" => r \in updates
  /\ owner[r] = "cancel" /\ at[r] \in Polling /\ r \notin updates =>
       at[r] \in {"judging", "persisting"} /\ seen[r] = "canceled"
  /\ at[r] = "persisting" /\ owner[r] # "poll" => seen[r] \in {"working", "canceled"}
  /\ at[r] = "result" \/ local[r] = "completed" => owner[r] = "poll"
  /\ at[r] \in Early => owner[r] = "unclaimed" /\ r \notin canceling
  /\ at[r] \in Early \cup WithTask => answer[r] = "none"
  /\ owner[r] = "cancel" => answer[r] \in {"none", "canceled"}

(* Cancel's side: what it is about while it is at work, and afterwards. *)
CancelKnows(k) ==
  /\ asked[k] = "idle" => target[k] = None /\ reply[k] = "none"
  /\ asked[k] \in {"claimed", "posting"} => target[k] \in Run /\ reply[k] = "none"
  /\ asked[k] = "posting" => target[k] \in active
  /\ asked[k] = "done" => \/ reply[k] = "ok" /\ target[k] \in Run /\ owner[target[k]] = "cancel"
                          \/ reply[k] = "error" /\ target[k] = None
  /\ target[k] \in Run => at[target[k]] \notin Early

(* A task is one Cancel's: the one at work on it, then the confirmed one. *)
OneCancel ==
  \A k, m \in Canceler : target[k] \in Run /\ target[m] = target[k] => k = m

(* What the loop and Cancel know of each other's marks. *)
MarksAgree(r) ==
  /\ owner[r] = "cancel" => r \in Confirmed
  /\ r \in active => (r \in canceling <=> InCharge(r) # {})

Inductive ==
  /\ TypeOK
  /\ \A r \in Run : LoopKnows(r)
  /\ \A k \in Canceler : CancelKnows(k)
  /\ OneCancel
  /\ \A r \in Run : MarksAgree(r)

----------------------------------------------------------------------------

LEMMA InitInductive == Init => Inductive
<1> SUFFICES ASSUME Init PROVE Inductive
  OBVIOUS
<1>1. TypeOK
  BY DEF Init, TypeOK, Place, TaskState, Outcome
<1>2. \A r \in Run : LoopKnows(r)
  BY DEF Init, LoopKnows, WithTask, Polling, Early, Before
<1>3. (\A k \in Canceler : CancelKnows(k)) /\ OneCancel
  BY A2AAssumption DEF Init, CancelKnows, OneCancel
<1>4. \A r \in Run : MarksAgree(r)
  BY DEF Init, MarksAgree
<1>5. QED
  BY <1>1, <1>2, <1>3, <1>4 DEF Inductive

----------------------------------------------------------------------------
(* Steps of an invocation. *)

(* What a step leaves alone that is about other invocations, and Cancel. *)
OnlyAbout(r) ==
  /\ \A q \in Run \ {r} :
       /\ at'[q] = at[q] /\ seen'[q] = seen[q]
       /\ local'[q] = local[q] /\ answer'[q] = answer[q]
       /\ owner'[q] = owner[q]
       /\ q \in active' <=> q \in active
       /\ q \in canceling' <=> q \in canceling
       /\ q \in updates' <=> q \in updates
  /\ UNCHANGED cancelVars

(* What it may do to the marks that Cancel relies on. *)
RespectsCancel(r) ==
  /\ owner'[r] = "cancel" <=> owner[r] = "cancel"
  /\ r \in active /\ r \notin active' => Holding(r) = {}
  /\ r \in active' => r \in active \/ at[r] \in Early
  /\ r \in active' => (r \in canceling' <=> r \in canceling)
  /\ at'[r] \in Early => at[r] \in Early

(***************************************************************************)
(* A step of an invocation that keeps what its loop knows, and touches     *)
(* what Cancel relies on only when no Cancel is there.                     *)
(***************************************************************************)
LEMMA RunKeeps ==
  ASSUME Inductive, NEW r \in Run, TypeOK', LoopKnows(r)',
         OnlyAbout(r), RespectsCancel(r)
  PROVE  Inductive'
<1>0. /\ \A q \in Run : LoopKnows(q)
      /\ \A k \in Canceler : CancelKnows(k)
      /\ \A q \in Run : MarksAgree(q)
      /\ OneCancel
      /\ asked' = asked /\ target' = target /\ reply' = reply
  BY DEF Inductive, OnlyAbout, cancelVars
<1>1. ASSUME NEW q \in Run PROVE LoopKnows(q)'
  <2>1. CASE q = r
    BY <2>1
  <2>2. CASE q # r
    BY <1>0, <2>2 DEF LoopKnows, OnlyAbout
  <2>3. QED
    BY <2>1, <2>2
<1>2. ASSUME NEW k \in Canceler PROVE CancelKnows(k)'
  <2>0. CancelKnows(k)
    BY <1>0
  <2>1. asked[k] = "posting" => target[k] \in active'
    <3>1. SUFFICES ASSUME asked[k] = "posting" PROVE target[k] \in active'
      OBVIOUS
    <3>2. target[k] \in Run /\ target[k] \in active
      BY <2>0, <3>1 DEF CancelKnows
    <3>3. CASE target[k] = r
      BY <3>1, <3>2, <3>3 DEF RespectsCancel, Holding
    <3>4. CASE target[k] # r
      BY <3>2, <3>4 DEF OnlyAbout
    <3>5. QED
      BY <3>3, <3>4
  <2>2. ASSUME target[k] \in Run
        PROVE  /\ owner'[target[k]] = "cancel" <=> owner[target[k]] = "cancel"
               /\ at'[target[k]] \in Early => at[target[k]] \in Early
    BY <2>2 DEF RespectsCancel, OnlyAbout
  <2>3. QED
    BY <1>0, <2>0, <2>1, <2>2 DEF CancelKnows
<1>3. OneCancel'
  BY <1>0 DEF OneCancel
<1>4. ASSUME NEW q \in Run PROVE MarksAgree(q)'
  <2>0. MarksAgree(q) /\ Confirmed' = Confirmed /\ InCharge(q)' = InCharge(q)
    BY <1>0 DEF Confirmed, InCharge
  <2>1. CASE q # r
    BY <2>0, <2>1 DEF MarksAgree, OnlyAbout
  <2>2. CASE q = r /\ q \in active'
    <3>1. CASE q \in active
      BY <2>0, <2>2, <3>1 DEF MarksAgree, RespectsCancel
    <3>2. CASE at[q] \in Early
      <4>1. q \notin canceling /\ owner[q] = "unclaimed"
        BY <1>0, <3>2 DEF LoopKnows
      <4>2. InCharge(q) = {}
        BY <1>0, <3>2 DEF InCharge, CancelKnows
      <4>3. QED
        BY <2>0, <2>2, <4>1, <4>2 DEF MarksAgree, RespectsCancel
    <3>3. QED
      BY <2>2, <3>1, <3>2 DEF RespectsCancel
  <2>3. CASE q = r /\ q \notin active'
    BY <2>0, <2>3 DEF MarksAgree, RespectsCancel
  <2>4. QED
    BY <2>1, <2>2, <2>3
<1>5. QED
  BY <1>1, <1>2, <1>3, <1>4 DEF Inductive

(* Up to the agent's first answer, and after the loop. *)
LEMMA BeforeKeeps ==
  ASSUME Inductive, NEW r \in Run,
         \/ Begin(r) \/ Preflight(r) \/ Resolve(r) \/ ResolveFails(r) \/ Send(r)
         \/ SendFails(r) \/ GetsMessage(r) \/ PersistMessage(r) \/ Release(r)
  PROVE  Inductive'
<1> USE DEF Quit, Goto, poll, task, world
<1>0. TypeOK /\ LoopKnows(r)
  BY DEF Inductive
<1>1. /\ at[r] \in Early \cup {"releasing"}
      /\ UNCHANGED <<seen, local, task, cancelVars>>
      /\ \E p \in Place : /\ at' = [at EXCEPT ![r] = p]
                          /\ p \in Early \cup {"releasing", "done"}
                          /\ at[r] = "releasing" => p = "done" /\ answer' = answer
      /\ answer' = answer \/ \E o \in Outcome : answer' = [answer EXCEPT ![r] = o]
      /\ at'[r] \in Early => answer' = answer
      /\ cached' \in BOOLEAN /\ secret' \in BOOLEAN
      /\ upstream' \in SUBSET Run /\ bearer' \in SUBSET Run
  <2> USE <1>0 DEF TypeOK, Place, Early, Before, Polling, Outcome
  <2>1. CASE Begin(r) \/ Preflight(r)
    BY <2>1 DEF Begin, Preflight
  <2>2. CASE Resolve(r) \/ ResolveFails(r)
    BY <2>2 DEF Resolve, ResolveFails
  <2>3. CASE Send(r)
    BY <2>3 DEF Send
  <2>4. CASE SendFails(r) \/ GetsMessage(r)
    BY <2>4 DEF SendFails, GetsMessage
  <2>5. CASE PersistMessage(r) \/ Release(r)
    BY <2>5 DEF PersistMessage, Release
  <2>6. QED
    BY <2>1, <2>2, <2>3, <2>4, <2>5
<1>2. TypeOK'
  BY <1>0, <1>1 DEF TypeOK, cancelVars
<1>3. OnlyAbout(r)
  BY <1>0, <1>1 DEF TypeOK, OnlyAbout
<1>4. LoopKnows(r)'
  BY <1>0, <1>1 DEF TypeOK, LoopKnows, Early, Before, WithTask, Polling
<1>5. RespectsCancel(r)
  BY <1>0, <1>1 DEF TypeOK, RespectsCancel, LoopKnows, Early, Before, WithTask, Polling
<1>6. QED
  BY <1>2, <1>3, <1>4, <1>5, RunKeeps

(* The agent answers with a task, and pollTask registers it. *)
LEMMA GetsTaskKeeps ==
  ASSUME Inductive, NEW r \in Run, GetsTask(r)
  PROVE  Inductive'
<1> USE DEF GetsTask, world
<1>0. TypeOK /\ LoopKnows(r)
  BY DEF Inductive
<1>1. TypeOK'
  BY <1>0 DEF TypeOK, Place, Polling, cancelVars
<1>2. OnlyAbout(r)
  BY <1>0 DEF TypeOK, OnlyAbout
<1>3. LoopKnows(r)'
  BY <1>0 DEF TypeOK, LoopKnows, Early, Before, WithTask, Polling
<1>4. RespectsCancel(r)
  BY <1>0 DEF TypeOK, RespectsCancel, LoopKnows, Early, Before, WithTask, Polling
<1>5. QED
  BY <1>1, <1>2, <1>3, <1>4, RunKeeps

(* The three ways a step of the loop goes: with Cancel's update, out, on. *)
Took(r) ==
  /\ r \in updates /\ r \notin updates'
  /\ at'[r] = "judging" /\ seen'[r] = "canceled" /\ local'[r] = local[r]

Left(r) ==
  /\ at'[r] = "leaving" /\ seen'[r] = seen[r]
  /\ at[r] # "awaiting"
  /\ local'[r] = "completed" => at[r] = "result"
  /\ r \in updates' <=> r \in updates

Moved(r) ==
  /\ \/ at[r] = "starting" /\ at'[r] = "judging" /\ seen'[r] = seen[r]
     \/ at[r] = "judging" /\ at'[r] = "persisting" /\ seen[r] = "working" /\ seen'[r] = seen[r]
     \/ at[r] = "persisting" /\ at'[r] = "waiting" /\ seen[r] = "working"
     \/ at[r] = "persisting" /\ at'[r] = "result" /\ seen[r] = "completed"
     \/ at[r] = "waiting" /\ at'[r] = "getting"
     \/ at[r] = "getting" /\ at'[r] = "judging"
  /\ local'[r] = local[r]
  /\ r \in updates' <=> r \in updates

(***************************************************************************)
(* The steps of the loop that leave the owner, the marks and the context   *)
(* alone, and at most take Cancel's update.                                *)
(***************************************************************************)
LEMMA LoopKeeps ==
  ASSUME Inductive, NEW r \in Run,
         \/ Started(r) \/ NotTerminal(r) \/ AwaitUpdate(r) \/ Persist(r)
         \/ PersistResult(r) \/ WaitUpdate(r) \/ WaitTimer(r) \/ WaitContext(r)
         \/ PollFails(r) \/ PollAnswered(r)
  PROVE  Inductive'
<1> USE DEF Goto, Leave, TakeUpdate, UpdateOr, Polling
<1>0. TypeOK /\ LoopKnows(r)
  BY DEF Inductive
<1>1. /\ at[r] \in Polling
      /\ UNCHANGED <<answer, active, owner, canceling, ended, cancelVars, world>>
      /\ \E p \in Polling \cup {"leaving"} : at' = [at EXCEPT ![r] = p]
      /\ seen' = seen \/ \E s \in TaskState : seen' = [seen EXCEPT ![r] = s]
      /\ local' = local \/ \E o \in Outcome : local' = [local EXCEPT ![r] = o]
      /\ updates' = updates \/ updates' = updates \ {r}
  <2> USE <1>0 DEF TypeOK, TaskState, Outcome, task, world
  <2>1. CASE Started(r) \/ NotTerminal(r)
    BY <2>1 DEF Started, NotTerminal
  <2>2. CASE AwaitUpdate(r) \/ WaitUpdate(r)
    BY <2>2 DEF AwaitUpdate, WaitUpdate
  <2>3. CASE Persist(r)
    BY <2>3 DEF Persist
  <2>4. CASE PersistResult(r) \/ WaitTimer(r)
    BY <2>4 DEF PersistResult, WaitTimer
  <2>5. CASE WaitContext(r)
    BY <2>5 DEF WaitContext
  <2>6. CASE PollFails(r)
    <3>1. PollProblem(r) \in Outcome
      BY DEF PollProblem
    <3>2. QED
      BY <2>6, <3>1 DEF PollFails
  <2>7. CASE PollAnswered(r)
    BY <2>7 DEF PollAnswered
  <2>8. QED
    BY <2>1, <2>2, <2>3, <2>4, <2>5, <2>6, <2>7
<1>2. TypeOK'
  BY <1>0, <1>1 DEF TypeOK, Place, cancelVars, world
<1>3. OnlyAbout(r)
  BY <1>0, <1>1 DEF TypeOK, OnlyAbout
<1>4. RespectsCancel(r)
  BY <1>0, <1>1 DEF TypeOK, RespectsCancel, Early, Before
<1>5. \/ Took(r) \/ Left(r) \/ Moved(r)
  <2> USE <1>0 DEF TypeOK, task
  <2>1. CASE Started(r) \/ NotTerminal(r)
    BY <2>1 DEF Started, NotTerminal, Terminal, Left, Moved
  <2>2. CASE AwaitUpdate(r) \/ WaitUpdate(r)
    BY <2>2 DEF AwaitUpdate, WaitUpdate, Took
  <2>3. CASE Persist(r)
    BY <2>3 DEF Persist, Left, Moved
  <2>4. CASE PersistResult(r) \/ WaitTimer(r)
    BY <2>4 DEF PersistResult, WaitTimer, Left, Moved
  <2>5. CASE WaitContext(r)
    BY <2>5 DEF WaitContext, Took, Left
  <2>6. CASE PollFails(r)
    <3>1. PollProblem(r) # "completed"
      BY DEF PollProblem
    <3>2. QED
      BY <2>6, <3>1 DEF PollFails, Took, Left
  <2>7. CASE PollAnswered(r)
    BY <2>7 DEF PollAnswered, Left, Moved
  <2>8. QED
    BY <2>1, <2>2, <2>3, <2>4, <2>5, <2>6, <2>7
<1>6. /\ owner'[r] = owner[r] /\ answer'[r] = answer[r]
      /\ r \in active' <=> r \in active
      /\ at[r] \in Polling
  BY <1>1
<1>7. LoopKnows(r)'
  <2> USE <1>0, <1>6 DEF LoopKnows, Early, Before, WithTask
  <2>1. CASE Took(r)
    BY <2>1 DEF Took
  <2>2. CASE Left(r)
    BY <2>2 DEF Left
  <2>3. CASE Moved(r)
    BY <2>3 DEF Moved
  <2>4. QED
    BY <1>5, <2>1, <2>2, <2>3
<1>8. QED
  BY <1>2, <1>3, <1>4, <1>7, RunKeeps

(* The loop becomes the owner of a terminal state, or leaves. *)
LEMMA OwnerKeeps ==
  ASSUME Inductive, NEW r \in Run, Claim(r) \/ Finish(r)
  PROVE  Inductive'
<1> USE DEF Goto, Quit, world
<1>0. TypeOK /\ LoopKnows(r)
  BY DEF Inductive
<1>1. CASE Claim(r)
  <2> USE <1>1 DEF Claim
  <2>1. TypeOK'
    BY <1>0 DEF TypeOK, Place, Polling, cancelVars
  <2>2. OnlyAbout(r)
    BY <1>0 DEF TypeOK, OnlyAbout
  <2>3. LoopKnows(r)'
    BY <1>0 DEF TypeOK, LoopKnows, Early, Before, WithTask, Polling, Terminal
  <2>4. RespectsCancel(r)
    BY <1>0 DEF TypeOK, RespectsCancel, Early, Before
  <2>5. QED
    BY <2>1, <2>2, <2>3, <2>4, RunKeeps
<1>2. CASE Finish(r)
  <2> USE <1>2 DEF Finish
  <2>1. TypeOK'
    BY <1>0 DEF TypeOK, Place, TaskState, Outcome, cancelVars
  <2>2. OnlyAbout(r)
    BY <1>0 DEF TypeOK, OnlyAbout
  <2>3. LoopKnows(r)'
    BY <1>0 DEF TypeOK, LoopKnows, Early, Before, WithTask, Polling
  <2>4. RespectsCancel(r)
    BY <1>0 DEF TypeOK, RespectsCancel, LoopKnows, Early, Before, WithTask
  <2>5. QED
    BY <2>1, <2>2, <2>3, <2>4, RunKeeps
<1>3. QED
  BY <1>1, <1>2

(* The context of a task ends; the card, or the token, comes or goes. *)
LEMMA WorldKeeps ==
  ASSUME Inductive,
         \/ \E r \in Run : CallerLeaves(r) \/ TimeOut(r)
         \/ Close \/ Discover \/ ChangeSecret \/ UNCHANGED vars
  PROVE  Inductive'
<1> USE DEF poll, task, cancelVars, world, vars
<1>0. TypeOK
  BY DEF Inductive
<1>1. /\ UNCHANGED <<poll, active, owner, canceling, updates, cancelVars, upstream, bearer>>
      /\ cached' \in BOOLEAN /\ secret' \in BOOLEAN
      /\ ended' \in [Run -> {"no", "timeout", "interrupted"}]
  <2> USE <1>0 DEF TypeOK
  <2>1. CASE \E r \in Run : CallerLeaves(r) \/ TimeOut(r)
    BY <2>1 DEF CallerLeaves, TimeOut, Interrupt
  <2>2. CASE Close
    BY <2>2 DEF Close
  <2>3. CASE Discover \/ ChangeSecret \/ UNCHANGED vars
    BY <2>3 DEF Discover, ChangeSecret
  <2>4. QED
    BY <2>1, <2>2, <2>3
<1>2. TypeOK'
  BY <1>0, <1>1 DEF TypeOK
<1>3. \A r \in Run : LoopKnows(r)' /\ MarksAgree(r)'
  BY <1>1 DEF Inductive, LoopKnows, MarksAgree, Confirmed, InCharge
<1>4. (\A k \in Canceler : CancelKnows(k)') /\ OneCancel'
  BY <1>1 DEF Inductive, CancelKnows, OneCancel
<1>5. QED
  BY <1>2, <1>3, <1>4 DEF Inductive

----------------------------------------------------------------------------
(* Steps of Cancel. *)

(* A task that may be canceled is no other Cancel's. *)
LEMMA FreeTask ==
  ASSUME Inductive, NEW r \in active \ canceling, NEW k \in Canceler
  PROVE  target[k] # r
<1>1. /\ r \in Run /\ owner[r] # "cancel" /\ InCharge(r) = {}
      /\ CancelKnows(k) /\ asked[k] \in {"idle", "claimed", "posting", "done"}
  BY DEF Inductive, TypeOK, LoopKnows, MarksAgree
<1>2. QED
  BY <1>1, A2AAssumption DEF CancelKnows, InCharge

LEMMA CancelBeginKeeps ==
  ASSUME Inductive, NEW k \in Canceler, NEW r \in Run, CancelBegin(k, r)
  PROVE  Inductive'
<1> USE DEF CancelBegin, poll, world
<1>0. /\ TypeOK /\ LoopKnows(r) /\ CancelKnows(k) /\ OneCancel
      /\ \A q \in Run : LoopKnows(q) /\ MarksAgree(q)
      /\ \A m \in Canceler : CancelKnows(m)
  BY DEF Inductive
<1>1. \A m \in Canceler : target[m] # r
  BY FreeTask
<1>2. TypeOK'
  BY <1>0 DEF TypeOK
<1>3. \A q \in Run : LoopKnows(q)'
  BY <1>0 DEF LoopKnows, Early, Before, WithTask, Polling
<1>4. \A m \in Canceler : CancelKnows(m)'
  BY <1>0, A2AAssumption DEF TypeOK, CancelKnows, LoopKnows, Early, Before, WithTask, Polling
<1>5. OneCancel'
  BY <1>0, <1>1 DEF TypeOK, OneCancel
<1>6. ASSUME NEW q \in Run PROVE MarksAgree(q)'
  <2>0. MarksAgree(q)
    BY <1>0
  <2>1. q \in Confirmed => q \in Confirmed'
    BY <1>0 DEF TypeOK, Confirmed, CancelKnows
  <2>2. InCharge(q)' = IF q = r THEN {k} ELSE InCharge(q)
    BY <1>0, <1>1, A2AAssumption DEF TypeOK, InCharge, CancelKnows
  <2>3. QED
    BY <2>0, <2>1, <2>2 DEF MarksAgree
<1>7. QED
  BY <1>2, <1>3, <1>4, <1>5, <1>6 DEF Inductive

(* An error is returned: before the task is claimed, or instead of it. *)
LEMMA CancelErrs ==
  ASSUME Inductive, NEW k \in Canceler,
         \/ \E r \in Run : CancelRefused(k, r)
         \/ /\ asked[k] \in {"claimed", "posting"}
            /\ CancelFails(k)
            /\ UNCHANGED <<poll, active, owner, updates, ended, world>>
  PROVE  Inductive'
<1> USE DEF CancelRefused, CancelFails, poll, task, world
<1>0. /\ TypeOK /\ CancelKnows(k) /\ OneCancel
      /\ \A q \in Run : LoopKnows(q) /\ MarksAgree(q)
      /\ \A m \in Canceler : CancelKnows(m)
  BY DEF Inductive
<1>1. /\ asked[k] # "done" /\ reply[k] = "none"
      /\ asked' = [asked EXCEPT ![k] = "done"]
      /\ reply' = [reply EXCEPT ![k] = "error"]
      /\ target' = [target EXCEPT ![k] = None]
      /\ canceling' = IF target[k] \in active THEN canceling \ {target[k]} ELSE canceling
      /\ UNCHANGED <<poll, active, owner, updates, ended, world>>
  <2>1. CASE \E r \in Run : CancelRefused(k, r)
    <3>1. target[k] = None /\ None \notin active
      BY <1>0, <2>1, A2AAssumption DEF CancelKnows, TypeOK
    <3>2. target' = [target EXCEPT ![k] = None]
      BY <1>0, <2>1, <3>1 DEF TypeOK
    <3>3. QED
      BY <1>0, <2>1, <3>1, <3>2 DEF CancelKnows
  <2>2. CASE asked[k] \in {"claimed", "posting"} /\ CancelFails(k)
    BY <1>0, <2>2 DEF CancelKnows
  <2>3. QED
    BY <2>1, <2>2
<1>2. TypeOK'
  BY <1>0, <1>1 DEF TypeOK
<1>3. \A q \in Run : LoopKnows(q)'
  BY <1>0, <1>1 DEF LoopKnows
<1>4. \A m \in Canceler : CancelKnows(m)'
  BY <1>0, <1>1, A2AAssumption DEF TypeOK, CancelKnows
<1>5. OneCancel'
  BY <1>0, <1>1, A2AAssumption DEF TypeOK, OneCancel
<1>6. ASSUME NEW q \in Run PROVE MarksAgree(q)'
  <2>0. MarksAgree(q)
    BY <1>0
  <2>1. q \in Confirmed => q \in Confirmed'
    BY <1>0, <1>1 DEF TypeOK, Confirmed
  <2>2. q = target[k] => InCharge(q)' = {}
    BY <1>0, <1>1, A2AAssumption DEF TypeOK, InCharge, OneCancel
  <2>3. q # target[k] => InCharge(q)' = InCharge(q)
    BY <1>0, <1>1, A2AAssumption DEF TypeOK, InCharge
  <2>4. QED
    BY <1>1, <2>0, <2>1, <2>2, <2>3 DEF MarksAgree
<1>7. QED
  BY <1>2, <1>3, <1>4, <1>5, <1>6 DEF Inductive

(* The request is sent: the task is active, and stays so. *)
LEMMA CancelPostKeeps ==
  ASSUME Inductive, NEW k \in Canceler, CancelPost(k)
  PROVE  Inductive'
<1>0. /\ TypeOK /\ CancelKnows(k) /\ OneCancel
      /\ \A q \in Run : LoopKnows(q) /\ MarksAgree(q)
      /\ \A m \in Canceler : CancelKnows(m)
  BY DEF Inductive
<1>1. CASE CancelFails(k)
  BY <1>1, CancelErrs DEF CancelPost
<1>2. CASE /\ asked[k] = "claimed" /\ target[k] \in active
           /\ asked' = [asked EXCEPT ![k] = "posting"]
           /\ UNCHANGED <<poll, task, target, reply, world>>
  <2> USE <1>2 DEF poll, task, world
  <2>1. TypeOK'
    BY <1>0 DEF TypeOK
  <2>2. \A q \in Run : LoopKnows(q)'
    BY <1>0 DEF LoopKnows
  <2>3. \A m \in Canceler : CancelKnows(m)'
    BY <1>0 DEF TypeOK, CancelKnows
  <2>4. OneCancel'
    BY <1>0 DEF OneCancel
  <2>5. \A q \in Run : InCharge(q)' = InCharge(q) /\ Confirmed' = Confirmed
    BY <1>0 DEF TypeOK, InCharge, Confirmed
  <2>6. \A q \in Run : MarksAgree(q)'
    BY <1>0, <2>5 DEF MarksAgree
  <2>7. QED
    BY <2>1, <2>2, <2>3, <2>4, <2>6 DEF Inductive
<1>3. QED
  BY <1>1, <1>2 DEF CancelPost, task

LEMMA CancelConfirmedKeeps ==
  ASSUME Inductive, NEW k \in Canceler, CancelConfirmed(k)
  PROVE  Inductive'
<1> USE DEF CancelConfirmed, Interrupt, poll, world
<1>0. /\ TypeOK /\ CancelKnows(k) /\ OneCancel
      /\ \A q \in Run : LoopKnows(q) /\ MarksAgree(q)
      /\ \A m \in Canceler : CancelKnows(m)
      /\ target[k] \in Run
  BY DEF Inductive, CancelKnows
<1> DEFINE r == target[k]
<1>1. TypeOK'
  BY <1>0 DEF TypeOK
<1>2. ASSUME NEW q \in Run PROVE LoopKnows(q)'
  <2>0. LoopKnows(q)
    BY <1>0
  <2>1. CASE q = r
    BY <1>0, <2>0, <2>1 DEF TypeOK, LoopKnows, Early, Before, WithTask, Polling
  <2>2. CASE q # r
    BY <1>0, <2>0, <2>2 DEF TypeOK, LoopKnows
  <2>3. QED
    BY <2>1, <2>2
<1>3. ASSUME NEW m \in Canceler PROVE CancelKnows(m)'
  <2>0. CancelKnows(m) /\ (m # k => target[m] # r)
    BY <1>0 DEF OneCancel
  <2>1. CASE m = k
    BY <1>0, <2>0, <2>1, A2AAssumption DEF TypeOK, CancelKnows
  <2>2. CASE m # k
    BY <1>0, <2>0, <2>2 DEF TypeOK, CancelKnows
  <2>3. QED
    BY <2>1, <2>2
<1>4. OneCancel'
  BY <1>0 DEF OneCancel
<1>5. ASSUME NEW q \in Run PROVE MarksAgree(q)'
  <2>0. MarksAgree(q)
    BY <1>0
  <2>1. q \in Confirmed => q \in Confirmed'
    BY <1>0 DEF TypeOK, Confirmed
  <2>2. r \in Confirmed'
    BY <1>0 DEF TypeOK, Confirmed
  <2>3. CASE q = r
    BY <1>0, <2>2, <2>3 DEF TypeOK, MarksAgree
  <2>4. CASE q # r
    <3>1. InCharge(q)' = InCharge(q)
      BY <1>0, <2>4 DEF TypeOK, InCharge
    <3>2. QED
      BY <1>0, <2>0, <2>1, <2>4, <3>1 DEF TypeOK, MarksAgree
  <2>5. QED
    BY <2>3, <2>4
<1>6. QED
  BY <1>1, <1>2, <1>3, <1>4, <1>5 DEF Inductive

----------------------------------------------------------------------------

LEMMA StepKeeps == Inductive /\ [Next]_vars => Inductive'
<1> SUFFICES ASSUME Inductive, [Next]_vars PROVE Inductive'
  OBVIOUS
<1>1. CASE \E r \in Run : Begin(r) \/ Preflight(r) \/ RunStep(r)
  BY <1>1, BeforeKeeps, GetsTaskKeeps, LoopKeeps, OwnerKeeps DEF RunStep
<1>2. CASE \E k \in Canceler, r \in Run : CancelBegin(k, r) \/ CancelRefused(k, r)
  BY <1>2, CancelBeginKeeps, CancelErrs
<1>3. CASE \E k \in Canceler : CancelPost(k) \/ CancelConfirmed(k)
  BY <1>3, CancelPostKeeps, CancelConfirmedKeeps
<1>4. CASE \E k \in Canceler : CancelUnconfirmed(k)
  BY <1>4, CancelErrs DEF CancelUnconfirmed
<1>5. CASE \/ \E r \in Run : CallerLeaves(r) \/ TimeOut(r)
           \/ Close \/ Discover \/ ChangeSecret \/ UNCHANGED vars
  BY <1>5, WorldKeeps
<1>6. QED
  BY <1>1, <1>2, <1>3, <1>4, <1>5 DEF Next, CancelStep

(* The loop's and Cancel's views of a task fit together in every reachable *)
(* state, as far as the code relies on it (pollTask, claimPollTerminal,    *)
(* finishTaskExit and Adapter.Cancel).                                     *)
THEOREM InductiveHolds == FairSpec => []Inductive
BY InitInductive, StepKeeps, PTL DEF FairSpec, Spec

----------------------------------------------------------------------------
(* What it means for the properties. *)

(* Those in charge of a task are one Cancel at most. *)
LEMMA OneInCharge ==
  ASSUME OneCancel, NEW r \in Run
  PROVE  Cardinality(InCharge(r)) <= 1
<1>1. CASE InCharge(r) = {}
  BY <1>1, FS_EmptySet
<1>2. CASE InCharge(r) # {}
  <2>1. PICK k : k \in InCharge(r)
    BY <1>2
  <2>2. InCharge(r) = {k}
    BY <2>1 DEF InCharge, OneCancel
  <2>3. Cardinality({k}) = 1
    BY FS_Singleton
  <2>4. QED
    BY <2>2, <2>3
<1>3. QED
  BY <1>1, <1>2

(***************************************************************************)
(* Polling and Cancel agree on whose a task is (activeTask's owner,        *)
(* canceling and updates), the loop that awaits Cancel's update finds it   *)
(* in the channel, and at most one Cancel is in charge of a task.          *)
(***************************************************************************)
THEOREM HandoverAgreed == FairSpec => []HandoverConsistent
<1>1. Inductive => HandoverConsistent
  <2> SUFFICES ASSUME Inductive PROVE HandoverConsistent
    OBVIOUS
  <2>1. TypeOK /\ \A r \in Run : LoopKnows(r) /\ MarksAgree(r)
    BY DEF Inductive
  <2>2. \A r \in Run : Cardinality(InCharge(r)) <= 1
    BY OneInCharge DEF Inductive
  <2>3. ASSUME NEW r \in Run, r \in Confirmed PROVE owner[r] = "cancel"
    <3>1. PICK k \in Canceler : reply[k] = "ok" /\ target[k] = r
      BY <2>3 DEF Confirmed
    <3>2. CancelKnows(k) /\ asked[k] \in {"idle", "claimed", "posting", "done"}
      BY DEF Inductive, TypeOK
    <3>3. QED
      BY <3>1, <3>2 DEF CancelKnows
  <2>4. QED
    BY <2>1, <2>2, <2>3 DEF HandoverConsistent, LoopKnows, MarksAgree, WithTask
<1>2. QED
  BY <1>1, InductiveHolds, PTL

(***************************************************************************)
(* A Cancel that was confirmed is kept (finishTaskExit, claimPollTerminal):*)
(* the call ends as canceled, and no result of it is ever persisted.       *)
(***************************************************************************)
THEOREM ConfirmedCancelKept == FairSpec => []CancelIsKept
<1>1. Inductive => CancelIsKept
  <2> SUFFICES ASSUME Inductive, NEW r \in Confirmed
               PROVE  /\ answer[r] \in {"none", "canceled"}
                      /\ at[r] # "result" /\ local[r] # "completed"
                      /\ \A k, m \in Canceler :
                           reply[k] = "ok" /\ reply[m] = "ok"
                             /\ target[k] = r /\ target[m] = r => k = m
    BY DEF CancelIsKept
  <2>1. PICK c \in Canceler : reply[c] = "ok" /\ target[c] = r
    BY DEF Confirmed
  <2>2. CancelKnows(c) /\ asked[c] \in {"idle", "claimed", "posting", "done"}
    BY DEF Inductive, TypeOK
  <2>3. r \in Run /\ owner[r] = "cancel"
    BY <2>1, <2>2 DEF CancelKnows
  <2>4. LoopKnows(r) /\ OneCancel
    BY <2>3 DEF Inductive
  <2>5. QED
    BY <2>3, <2>4 DEF LoopKnows, OneCancel
<1>2. QED
  BY <1>1, InductiveHolds, PTL
=============================================================================
