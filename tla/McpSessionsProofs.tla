-------------------------- MODULE McpSessionsProofs --------------------------
(***************************************************************************)
(* Proofs about McpSessions, for any number of runs and discoveries, of    *)
(* calls of Cancel and Close, and any limit of sessions.                   *)
(***************************************************************************)
EXTENDS McpSessions, FiniteSetTheorems, TLAPS

(* Where a session may be registered. *)
Open == {"initializing", "ready", "calling", "answered", "errored", "delivering",
         "releasing"}

(* TypeOK, but for the bound of the count. *)
Typed ==
  /\ at \in [Opener -> Place]
  /\ process \in [Opener -> Process]
  /\ outcome \in [Opener -> Outcome]
  /\ sessions \in SUBSET Opener
  /\ canceled \in SUBSET Run
  /\ ended \in SUBSET Opener
  /\ stop \in [Stopper -> {"idle", "killing", "awaiting", "done"}]
  /\ victims \in [Stopper -> SUBSET Opener]
  /\ aim \in [Stopper -> Opener \cup {None}]
  /\ late \in SUBSET Run

Counted ==
  /\ count \in Nat /\ count <= Limit
  /\ count = Cardinality(Reserved) + Cardinality(sessions)

(***************************************************************************)
(* A session is registered only while its owner is at work on it, and a    *)
(* process lives only from its start until its session is stopped.         *)
(***************************************************************************)
Placed(o) ==
  /\ o \in sessions => at[o] \in Open
  /\ at[o] \in {"idle", "reserved"} => process[o] = "none"
  /\ process[o] = "alive" => at[o] \in {"started", "stopping"} \/ o \in sessions
  /\ outcome[o] = "completed" => at[o] \in {"releasing", "stopping", "waiting", "done"}

(* What a stopper is after was started, and what it aims at does not live. *)
Aimed(k) ==
  /\ \A o \in victims[k] : at[o] \notin {"idle", "reserved"}
  /\ stop[k] = "awaiting" => aim[k] \in victims[k] /\ process[aim[k]] # "alive"

(* A run that was canceled in time does not get to deliver its answer. *)
Heeded(r) ==
  /\ r \in canceled \ late => at[r] # "delivering" /\ outcome[r] # "completed"
  /\ outcome[r] = "canceled" => r \in canceled

Inductive ==
  /\ Typed
  /\ Counted
  /\ \A o \in Opener : Placed(o)
  /\ \A k \in Stopper : Aimed(k)
  /\ \A r \in Run : Heeded(r)

----------------------------------------------------------------------------
(* The count. *)

LEMMA ReservedFinite ==
  ASSUME Typed
  PROVE  /\ IsFiniteSet(Reserved) /\ IsFiniteSet(sessions)
         /\ Cardinality(Reserved) \in Nat /\ Cardinality(sessions) \in Nat
<1>1. Reserved \subseteq Opener /\ sessions \subseteq Opener
  BY DEF Reserved, Typed
<1>2. QED
  BY <1>1, McpAssumption, FS_Subset, FS_CardinalityType

(* A session that is reserved takes a slot, within the limit. *)
LEMMA AcquireCounts ==
  ASSUME Typed, Counted, NEW o \in Opener, at[o] = "idle", count < Limit,
         Goto(o, "reserved"), count' = count + 1, UNCHANGED sessions
  PROVE  Counted'
<1>1. Reserved' = Reserved \cup {o} /\ o \notin Reserved
  BY DEF Reserved, Goto, Typed
<1>2. Cardinality(Reserved') = Cardinality(Reserved) + 1
  BY <1>1, ReservedFinite, FS_AddElement
<1>3. QED
  BY <1>2, ReservedFinite, McpAssumption DEF Counted

(* One that is not to be gives it back. *)
LEMMA StartFailsCounts ==
  ASSUME Typed, Counted, NEW o \in Opener, at[o] = "reserved",
         Goto(o, "done"), count' = count - 1, UNCHANGED sessions
  PROVE  Counted'
<1>1. Reserved' = Reserved \ {o} /\ o \in Reserved
  BY DEF Reserved, Goto, Typed
<1>2. Cardinality(Reserved') = Cardinality(Reserved) - 1 /\ Cardinality(Reserved') \in Nat
  BY <1>1, ReservedFinite, FS_RemoveElement, FS_CardinalityType
<1>3. QED
  BY <1>2, ReservedFinite, McpAssumption DEF Counted

(* Register hands the slot of the reservation to the session. *)
LEMMA RegisterCounts ==
  ASSUME Typed, Counted, NEW o \in Opener, at[o] = "started", o \notin sessions,
         Goto(o, "initializing"), sessions' = sessions \cup {o}, UNCHANGED count
  PROVE  Counted'
<1>1. Reserved' = Reserved \ {o} /\ o \in Reserved
  BY DEF Reserved, Goto, Typed
<1>2. Cardinality(Reserved') = Cardinality(Reserved) - 1
  BY <1>1, ReservedFinite, FS_RemoveElement
<1>3. Cardinality(sessions') = Cardinality(sessions) + 1
  BY ReservedFinite, FS_AddElement
<1>4. QED
  BY <1>2, <1>3, ReservedFinite DEF Counted

(* Whoever comes first releases a session, and nobody a second time. *)
LEMMA ReleaseCounts ==
  ASSUME Typed, Counted, NEW o, Release(o), Reserved' = Reserved
  PROVE  Counted'
<1>1. CASE o \in sessions
  <2>1. /\ Cardinality(sessions') = Cardinality(sessions) - 1
        /\ Cardinality(sessions') \in Nat
    BY <1>1, ReservedFinite, FS_RemoveElement, FS_CardinalityType DEF Release
  <2>2. QED
    BY <1>1, <2>1, ReservedFinite, McpAssumption DEF Counted, Release
<1>2. CASE o \notin sessions
  <2>1. sessions' = sessions /\ count' = count
    BY <1>2 DEF Release
  <2>2. QED
    BY <2>1 DEF Counted
<1>3. QED
  BY <1>1, <1>2

(* Moves that neither take nor give back a slot. *)
LEMMA MoveReserves ==
  ASSUME Typed, NEW o \in Opener, NEW p,
         \/ at[o] = "reserved" /\ p = "started"
         \/ at[o] \notin {"reserved", "started"} /\ p \notin {"reserved", "started"},
         Goto(o, p)
  PROVE  Reserved' = Reserved
BY DEF Reserved, Goto, Typed

----------------------------------------------------------------------------
(* The steps. *)

(* The count does not change where nobody takes or gives back a slot. *)
LEMMA SameCount ==
  ASSUME Counted, Reserved' = Reserved, UNCHANGED <<sessions, count>>
  PROVE  Counted'
BY DEF Counted

LEMMA InitInductive == Init => Inductive
<1> SUFFICES ASSUME Init PROVE Inductive
  OBVIOUS
<1>1. Reserved = {} /\ sessions = {}
  BY DEF Init, Reserved
<1>2. Counted
  BY <1>1, FS_EmptySet, McpAssumption DEF Init, Counted
<1>3. Typed
  BY DEF Init, Typed, Place, Process, Outcome
<1>4. (\A o \in Opener : Placed(o)) /\ (\A k \in Stopper : Aimed(k))
  BY DEF Init, Placed, Aimed
<1>5. \A r \in Run : Heeded(r)
  BY DEF Init, Heeded, Opener
<1>6. QED
  BY <1>2, <1>3, <1>4, <1>5 DEF Inductive

(* Reservation and start. *)
LEMMA OpenKeeps ==
  ASSUME Inductive, NEW o \in Opener,
         Acquire(o) \/ StartSession(o) \/ StartFails(o) \/ Register(o)
  PROVE  Inductive'
<1> USE DEF outside, Goto, Return
<1>0. Typed /\ Counted /\ Placed(o) /\ Run \subseteq Opener
  BY DEF Inductive, Opener
<1>1. CASE Acquire(o)
  <2>1. Typed'
    BY <1>0, <1>1 DEF Acquire, Typed, Place, Outcome
  <2>2. Counted'
    <3>1. CASE count < Limit
      BY <1>0, <1>1, <3>1, AcquireCounts DEF Acquire
    <3>2. CASE ~(count < Limit)
      BY <1>0, <1>1, <3>2, MoveReserves, SameCount DEF Acquire
    <3>3. QED
      BY <3>1, <3>2
  <2>3. (\A q \in Opener : Placed(q))' /\ (\A r \in Run : Heeded(r))'
    BY <1>0, <1>1 DEF Acquire, Inductive, Typed, Placed, Heeded, Open
  <2>4. (\A k \in Stopper : Aimed(k))'
    BY <1>0, <1>1 DEF Acquire, Inductive, Typed, Aimed
  <2>5. QED
    BY <2>1, <2>2, <2>3, <2>4 DEF Inductive
<1>2. CASE StartSession(o)
  <2>1. Typed'
    BY <1>0, <1>2 DEF StartSession, Typed, Place, Process
  <2>2. Counted'
    BY <1>0, <1>2, MoveReserves, SameCount DEF StartSession
  <2>3. (\A q \in Opener : Placed(q))' /\ (\A r \in Run : Heeded(r))'
    BY <1>0, <1>2 DEF StartSession, Inductive, Typed, Placed, Heeded, Open
  <2>4. (\A k \in Stopper : Aimed(k))'
    BY <1>0, <1>2 DEF StartSession, Inductive, Typed, Aimed
  <2>5. QED
    BY <2>1, <2>2, <2>3, <2>4 DEF Inductive
<1>3. CASE StartFails(o)
  <2>1. Typed'
    BY <1>0, <1>3 DEF StartFails, Typed, Place, Outcome
  <2>2. Counted'
    BY <1>0, <1>3, StartFailsCounts DEF StartFails
  <2>3. (\A q \in Opener : Placed(q))' /\ (\A r \in Run : Heeded(r))'
    BY <1>0, <1>3 DEF StartFails, Inductive, Typed, Placed, Heeded, Open
  <2>4. (\A k \in Stopper : Aimed(k))'
    BY <1>0, <1>3 DEF StartFails, Inductive, Typed, Aimed
  <2>5. QED
    BY <2>1, <2>2, <2>3, <2>4 DEF Inductive
<1>4. CASE Register(o)
  <2>1. Typed'
    BY <1>0, <1>4 DEF Register, Typed, Place
  <2>2. Counted'
    <3>1. o \notin sessions
      BY <1>0, <1>4 DEF Register, Placed, Open
    <3>2. QED
      BY <1>0, <1>4, <3>1, RegisterCounts DEF Register
  <2>3. (\A q \in Opener : Placed(q))' /\ (\A r \in Run : Heeded(r))'
    BY <1>0, <1>4 DEF Register, Inductive, Typed, Placed, Heeded, Open
  <2>4. (\A k \in Stopper : Aimed(k))'
    BY <1>0, <1>4 DEF Register, Inductive, Typed, Aimed
  <2>5. QED
    BY <2>1, <2>2, <2>3, <2>4 DEF Inductive
<1>5. QED
  BY <1>1, <1>2, <1>3, <1>4

(***************************************************************************)
(* The conversation: the owner moves among the places where its session    *)
(* may be registered, and an answer is delivered only if nobody canceled.  *)
(***************************************************************************)
LEMMA TalkKeeps ==
  ASSUME Inductive, NEW o \in Opener,
         ServerStep(o) \/ Request(o) \/ Judge(o) \/ Deliver(o)
  PROVE  Inductive'
<1>0. Typed /\ Counted /\ Placed(o) /\ Run \subseteq Opener
  BY DEF Inductive, Opener
<1> DEFINE p == at'[o]
<1>1. /\ at[o] \in Open /\ p \in Open /\ Goto(o, p)
      /\ UNCHANGED <<process, count, sessions, canceled, ended, stop, victims, aim, late>>
      /\ outcome' \in [Opener -> Outcome]
      /\ \A q \in Opener \ {o} : outcome'[q] = outcome[q]
      /\ outcome'[o] = "completed" => p = "releasing" \/ outcome[o] = "completed"
      /\ o \in Run /\ outcome'[o] = "canceled" => o \in canceled
      /\ at[o] = "delivering" \/ outcome'[o] # "completed" \/ outcome[o] = "completed"
      /\ p = "delivering" => o \notin canceled
      /\ at[o] # "releasing"
  BY <1>0 DEF ServerStep, Initialized, InitializeFails, Request, Answer, CallFails, Judge,
              Deliver, Goto, Return, ErrorOf, Typed, Outcome, Open, outside, Inductive, Heeded
<1>2. Typed'
  BY <1>0, <1>1 DEF Typed, Goto, Open, Place
<1>3. Counted'
  BY <1>0, <1>1, MoveReserves, SameCount DEF Open
<1>4. (\A q \in Opener : Placed(q))'
  BY <1>0, <1>1 DEF Inductive, Typed, Placed, Open, Goto
<1>5. (\A r \in Run : Heeded(r))'
  BY <1>0, <1>1 DEF Inductive, Typed, Heeded, Goto
<1>6. (\A k \in Stopper : Aimed(k))'
  BY <1>0, <1>1 DEF Inductive, Typed, Aimed, Goto, Open
<1>7. QED
  BY <1>2, <1>3, <1>4, <1>5, <1>6 DEF Inductive

(* The end of a session by its owner. *)
LEMMA EndSelfKeeps ==
  ASSUME Inductive, NEW o \in Opener, ReleaseSelf(o) \/ StopSelf(o) \/ ReturnSelf(o)
  PROVE  Inductive'
<1> USE DEF outside, Goto
<1>0. Typed /\ Counted /\ Placed(o) /\ Run \subseteq Opener
  BY DEF Inductive, Opener
<1> DEFINE p == at'[o]
<1>1. /\ at[o] \in {"releasing", "stopping", "waiting"}
      /\ p \in {"stopping", "waiting", "done"} /\ Goto(o, p)
      /\ UNCHANGED <<outcome, canceled, ended, stop, victims, aim, late>>
      /\ process' \in [Opener -> Process]
      /\ \A q \in Opener : process'[q] = "alive" => process[q] = "alive"
      /\ \A q \in Opener \ {o} : process'[q] = process[q]
      /\ process'[o] = "alive" => p = "stopping" \/ at[o] = "waiting"
      /\ sessions' \in SUBSET sessions
      /\ \A q \in Opener \ {o} : q \in sessions' <=> q \in sessions
      /\ o \notin sessions'
  BY <1>0 DEF ReleaseSelf, StopSelf, ReturnSelf, Release, Killed, Typed, Process, Placed, Open
<1>2. Reserved' = Reserved
  BY <1>0, <1>1, MoveReserves
<1>3. Counted'
  BY <1>0, <1>2, ReleaseCounts, SameCount DEF ReleaseSelf, StopSelf, ReturnSelf
<1>4. Typed'
  BY <1>0, <1>1 DEF Typed, Place
<1>5. (\A q \in Opener : Placed(q))'
  BY <1>0, <1>1 DEF Inductive, Typed, Placed, Open
<1>6. (\A r \in Run : Heeded(r))'
  BY <1>0, <1>1 DEF Inductive, Typed, Heeded
<1>7. (\A k \in Stopper : Aimed(k))'
  BY <1>0, <1>1 DEF Inductive, Typed, Aimed
<1>8. QED
  BY <1>3, <1>4, <1>5, <1>6, <1>7 DEF Inductive

(* Cancel and Close, and what they do to the sessions they have found. *)
LEMMA StopperKeeps ==
  ASSUME Inductive, NEW k \in Stopper,
         (\E r \in Run : Cancel(k, r)) \/ Close(k) \/ StopVictim(k) \/ ReleaseVictim(k)
  PROVE  Inductive'
<1>0. Typed /\ Counted
  BY DEF Inductive
<1>1. UNCHANGED <<at, outcome, ended>> /\ Reserved' = Reserved
  BY DEF Cancel, Close, StopVictim, ReleaseVictim, Reserved
<1>2. ASSUME NEW r \in Run, Cancel(k, r)
      PROVE  Inductive'
  <2>1. /\ UNCHANGED <<process, count, sessions, aim>>
        /\ canceled' = IF Cancelable(r) THEN canceled \cup {r} ELSE canceled
        /\ late' = IF Cancelable(r) /\ at[r] \in {"delivering", "releasing"}
                     THEN late \cup {r} ELSE late
        /\ victims' = [victims EXCEPT ![k] = IF Cancelable(r) THEN {r} ELSE {}]
        /\ stop' = [stop EXCEPT ![k] = IF Cancelable(r) THEN "killing" ELSE "done"]
    BY <1>2 DEF Cancel, Begin
  <2>2. Cancelable(r) => at[r] \in Open /\ r \in Opener
    BY DEF Cancelable, Inductive, Placed, Opener
  <2>3. Typed'
    BY <1>0, <1>1, <2>1, <2>2 DEF Typed
  <2>4. Counted' /\ (\A o \in Opener : Placed(o))'
    BY <1>0, <1>1, <2>1, SameCount DEF Inductive, Placed
  <2>5. (\A q \in Run : Heeded(q))'
    BY <1>1, <2>1, <2>2 DEF Inductive, Heeded, Placed, Open
  <2>6. (\A j \in Stopper : Aimed(j))'
    BY <1>0, <1>1, <2>1, <2>2 DEF Inductive, Typed, Aimed, Open
  <2>7. QED
    BY <2>3, <2>4, <2>5, <2>6 DEF Inductive
<1>3. CASE Close(k)
  <2>1. Typed'
    BY <1>0, <1>3 DEF Close, Begin, Typed
  <2>2. Counted' /\ (\A o \in Opener : Placed(o))' /\ (\A q \in Run : Heeded(q))'
    BY <1>0, <1>1, <1>3, SameCount DEF Close, Inductive, Placed, Heeded
  <2>3. \A o \in sessions : at[o] \notin {"idle", "reserved"}
    BY <1>0 DEF Inductive, Placed, Open, Typed
  <2>4. (\A j \in Stopper : Aimed(j))'
    BY <1>0, <1>3, <2>3 DEF Close, Begin, Inductive, Typed, Aimed
  <2>5. QED
    BY <2>1, <2>2, <2>4 DEF Inductive
<1>4. CASE StopVictim(k)
  <2>1. PICK o \in victims[k] : Killed(o) /\ aim' = [aim EXCEPT ![k] = o]
    BY <1>4 DEF StopVictim
  <2>2. o \in Opener /\ UNCHANGED <<at, outcome, count, sessions, canceled, ended, victims, late>>
    BY <1>0, <1>4, <2>1 DEF StopVictim, Typed
  <2>3. Typed'
    BY <1>0, <1>4, <2>1, <2>2 DEF StopVictim, Killed, Typed, Process
  <2>4. Counted' /\ (\A q \in Opener : Placed(q))' /\ (\A r \in Run : Heeded(r))'
    BY <1>0, <1>1, <2>1, <2>2, SameCount DEF Inductive, Killed, Typed, Placed, Heeded
  <2>5. (\A j \in Stopper : Aimed(j))'
    BY <1>0, <1>4, <2>1, <2>2 DEF StopVictim, Killed, Inductive, Typed, Aimed
  <2>6. QED
    BY <2>3, <2>4, <2>5 DEF Inductive
<1>5. CASE ReleaseVictim(k)
  <2>1. aim[k] \in victims[k] /\ aim[k] \in Opener /\ process[aim[k]] # "alive"
    BY <1>0, <1>5 DEF ReleaseVictim, Inductive, Aimed, Typed
  <2>2. /\ UNCHANGED <<process, canceled, late>>
        /\ sessions' = sessions \ {aim[k]}
        /\ victims' = [victims EXCEPT ![k] = victims[k] \ {aim[k]}]
        /\ stop' = [stop EXCEPT ![k] = IF victims[k] \ {aim[k]} = {} THEN "done" ELSE "killing"]
        /\ aim' = [aim EXCEPT ![k] = None]
    BY <1>5 DEF ReleaseVictim, Release, Begin
  <2>3. Typed'
    BY <1>0, <1>1, <2>2 DEF Typed
  <2>4. Counted'
    BY <1>0, <1>1, <1>5, ReleaseCounts DEF ReleaseVictim
  <2>5. (\A q \in Opener : Placed(q))' /\ (\A r \in Run : Heeded(r))'
    BY <1>1, <2>1, <2>2 DEF Inductive, Placed, Heeded
  <2>6. (\A j \in Stopper : Aimed(j))'
    BY <1>0, <1>1, <2>2 DEF Inductive, Typed, Aimed
  <2>7. QED
    BY <2>3, <2>4, <2>5, <2>6 DEF Inductive
<1>6. QED
  BY <1>2, <1>3, <1>4, <1>5

(* The world. *)
LEMMA WorldKeeps ==
  ASSUME Inductive, NEW o \in Opener, End(o) \/ KillEnded(o) \/ Exit(o) \/ Reap(o)
  PROVE  Inductive'
<1>0. Typed /\ Counted
  BY DEF Inductive
<1>1. /\ UNCHANGED <<at, outcome, count, sessions, canceled, stop, victims, aim, late>>
      /\ ended' \in SUBSET Opener
      /\ process' \in [Opener -> Process]
      /\ \A q \in Opener : process'[q] = "alive" => process[q] = "alive"
      /\ \A q \in Opener : process'[q] = "none" <=> process[q] = "none"
  BY <1>0 DEF End, KillEnded, Exit, Reap, Killed, Typed, Process, outside
<1>2. Reserved' = Reserved
  BY <1>1 DEF Reserved
<1>3. Typed' /\ Counted'
  BY <1>0, <1>1, <1>2, SameCount DEF Typed
<1>4. (\A q \in Opener : Placed(q))' /\ (\A r \in Run : Heeded(r))'
  BY <1>1 DEF Inductive, Placed, Heeded
<1>5. (\A k \in Stopper : Aimed(k))'
  BY <1>0, <1>1 DEF Inductive, Typed, Aimed
<1>6. QED
  BY <1>3, <1>4, <1>5 DEF Inductive

LEMMA StepKeeps == Inductive /\ [Next]_vars => Inductive'
<1>1. CASE UNCHANGED vars
  <2>1. UNCHANGED Reserved
    BY <1>1 DEF vars, Reserved
  <2>2. QED
    BY <1>1, <2>1 DEF vars, Inductive, Typed, Counted, Placed, Aimed, Heeded
<1>2. QED
  BY <1>1, OpenKeeps, TalkKeeps, EndSelfKeeps, StopperKeeps, WorldKeeps
     DEF Next, OwnStep, StopperStep

THEOREM InductiveHolds == FairSpec => []Inductive
BY InitInductive, StepKeeps, PTL DEF FairSpec

(***************************************************************************)
(* The count of active sessions is right and within its limit, whoever     *)
(* ends them; and no server process lives without being counted, but one   *)
(* that its own run is about to kill.                                      *)
(***************************************************************************)
THEOREM SessionsCounted == FairSpec => []SessionsAccounted
<1>1. Inductive => SessionsAccounted
  <2> SUFFICES ASSUME Inductive PROVE SessionsAccounted
    OBVIOUS
  <2>1. TypeOK
    BY McpAssumption DEF Inductive, Typed, Counted, TypeOK
  <2>2. \A o \in Opener :
          process[o] = "alive" => o \in Reserved \cup sessions \/ at[o] = "stopping"
    BY DEF Inductive, Placed, Reserved
  <2>3. QED
    BY <2>1, <2>2 DEF Inductive, Counted, SessionsAccounted
<1>2. QED
  BY <1>1, InductiveHolds, PTL

(* A run that was canceled in time is not completed. *)
THEOREM CancelHeeded == FairSpec => []CancelIsHeeded
<1>1. Inductive => CancelIsHeeded
  BY DEF Inductive, Typed, Heeded, CancelIsHeeded
<1>2. QED
  BY <1>1, InductiveHolds, PTL
=============================================================================
