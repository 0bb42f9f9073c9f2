------------------------- MODULE CallRuntimeProofs -------------------------
(***************************************************************************)
(* Proofs about CallRuntime, for any finite set of runs, any set of        *)
(* connects, any assignment of integrations and any size of the ring of    *)
(* errors.  The locks play no part: which run or connect waits for which   *)
(* matters to liveness only.                                               *)
(***************************************************************************)
EXTENDS CallRuntime, FiniteSetTheorems, TLAPS

(* Every run is at a place of a run, every mutator at one of a mutator. *)
Placed ==
  /\ \A c \in Call : at[c] \in CallPlace
  /\ \A m \in Mutator : at[m] \in MutatorPlace

(* How far a run has come determines what the row of its call says. *)
RowsPlaced ==
  \A c \in Call :
    /\ at[c] \in {"idle", "begun", "gated", "targeted"} => row[c] = "absent"
    /\ at[c] \in {"created", "launched"} => row[c] = "submitted"
    /\ at[c] \in {"invoking", "returned"} => row[c] = "working"
    /\ at[c] = "fallback" => row[c] \in Open
    /\ at[c] = "returned" => outcome[c] \in Terminal

(* Why the row of a call nobody works on any more may be unfinished. *)
Excused(c) ==
  \/ c \in Range(callErrors)
  \/ Len(callErrors) = MaxCallErrors
  \/ answer[c] = "appClosed"

(* An unfinished row is worked on, excused, or waits for the next daemon. *)
RowsAccounted ==
  \A c \in Call :
    /\ app # "down" /\ at[c] \in {"idle", "ended"} => row[c] \notin Open \/ Excused(c)
    /\ at[c] = "settled" => row[c] \notin Open \/ Excused(c)

(* A client that waits has a row; an answer with a terminal state is given *)
(* after the run, and is true.                                             *)
AnswersTrue ==
  \A c \in Call :
    /\ answer[c] = "waiting" => row[c] # "absent"
    /\ answer[c] \in Terminal => at[c] = "ended" /\ row[c] = answer[c]

(* When Close returned without an error, and between daemons, nobody is     *)
(* left, and nobody can come.                                              *)
Quiet ==
  /\ closing = "clean" => app = "closed"
  /\ app = "down" => closing = "no" /\ ~dbOpen
  /\ closing = "clean" \/ app = "down" =>
       \A x \in Call \cup Mutator : at[x] \in {"idle", "ended"}

Inductive ==
  TypeOK /\ Placed /\ RowsPlaced /\ RowsAccounted /\ AnswersTrue /\ Quiet

----------------------------------------------------------------------------
(* The ring of errors stays within its size; a call leaves it only when it *)
(* is full, and then it stays full.                                        *)
LEMMA RingKeeps ==
  ASSUME callErrors \in Seq(Call), Len(callErrors) <= MaxCallErrors,
         NEW c \in Call, RecordCallError(c)
  PROVE  /\ callErrors' \in Seq(Call)
         /\ Len(callErrors') <= MaxCallErrors
         /\ Len(callErrors) = MaxCallErrors => Len(callErrors') = MaxCallErrors
         /\ \/ Len(callErrors') = MaxCallErrors
            \/ Range(callErrors') = Range(callErrors) \cup {c}
<1>1. CASE Len(callErrors) < MaxCallErrors
  <2>1. callErrors' = Append(callErrors, c)
    BY <1>1 DEF RecordCallError
  <2>2. /\ DOMAIN callErrors' = 1..(Len(callErrors) + 1)
        /\ callErrors'[Len(callErrors) + 1] = c
        /\ \A i \in 1..Len(callErrors) : callErrors'[i] = callErrors[i]
    BY <2>1
  <2>3. DOMAIN callErrors = 1..Len(callErrors)
    OBVIOUS
  <2>4. Range(callErrors') = Range(callErrors) \cup {c}
    BY <2>2, <2>3 DEF Range
  <2>5. callErrors' \in Seq(Call)
    BY <2>1
  <2>6. Len(callErrors') = Len(callErrors) + 1
    BY <2>1
  <2>7. MaxCallErrors \in Nat /\ Len(callErrors) \in Nat
    BY RuntimeAssumption
  <2>8. Len(callErrors') <= MaxCallErrors /\ Len(callErrors) # MaxCallErrors
    BY <1>1, <2>6, <2>7
  <2>9. QED
    BY <2>4, <2>5, <2>8
<1>2. CASE Len(callErrors) = MaxCallErrors
  <2>1. callErrors' = Append(Tail(callErrors), c)
    BY <1>2, RuntimeAssumption DEF RecordCallError
  <2>2. callErrors # <<>>
    BY <1>2, RuntimeAssumption
  <2>3. Tail(callErrors) \in Seq(Call) /\ Len(Tail(callErrors)) = Len(callErrors) - 1
    BY <2>2
  <2>4. QED
    BY <1>2, <2>1, <2>3, RuntimeAssumption
<1>3. QED
  BY <1>1, <1>2, RuntimeAssumption

LEMMA InitInductive == Init => Inductive
BY RuntimeAssumption
   DEF Init, Inductive, TypeOK, Placed, RowsPlaced, RowsAccounted, AnswersTrue, Quiet,
       Open, Terminal, Answer, CallPlace, MutatorPlace, Ungated, Gated

(* A client is told what the row says: the run has ended, so it stays so. *)
LEMMA ReadCallKeeps ==
  ASSUME Inductive, NEW c \in Call, ReadCall(c)
  PROVE  Inductive'
<1>1. answer' \in [Call -> Answer]
  <2>1. row[c] \in {"absent"} \cup Open \cup Terminal
    BY DEF Inductive, TypeOK
  <2>2. row[c] # "absent"
    BY DEF ReadCall, Inductive, AnswersTrue
  <2>3. row[c] \in Answer /\ "unavailable" \in Answer
    BY <2>1, <2>2 DEF Answer
  <2>4. QED
    BY <2>3 DEF ReadCall, Inductive, TypeOK
<1>2. TypeOK'
  BY <1>1 DEF ReadCall, Inductive, TypeOK, daemon
<1>3. AnswersTrue'
  BY DEF ReadCall, Inductive, TypeOK, AnswersTrue, Terminal
<1>4. RowsAccounted'
  BY DEF ReadCall, Inductive, TypeOK, RowsAccounted, Excused, daemon
<1>5. Placed' /\ RowsPlaced' /\ Quiet'
  BY DEF ReadCall, Inductive, Placed, RowsPlaced, Quiet, daemon
<1>6. QED
  BY <1>2, <1>3, <1>4, <1>5 DEF Inductive

(* Close returns, without an error only when every lease was given back. *)
LEMMA CloseEndKeeps ==
  ASSUME Inductive, CloseEnd
  PROVE  Inductive'
<1>1. TypeOK'
  BY DEF CloseEnd, Inductive, TypeOK
<1>2. RowsAccounted'
  BY DEF CloseEnd, Inductive, RowsAccounted, Excused, Quiet
<1>3. Quiet'
  BY DEF CloseEnd, Inductive, Quiet, Leased
<1>4. Placed' /\ RowsPlaced' /\ AnswersTrue'
  BY DEF CloseEnd, Inductive, Placed, RowsPlaced, AnswersTrue
<1>5. QED
  BY <1>1, <1>2, <1>3, <1>4 DEF Inductive

(* The process ends, and with it every run, answered or not. *)
LEMMA ExitKeeps ==
  ASSUME Inductive, Exit
  PROVE  Inductive'
<1>1. TypeOK'
  <2>1. at' \in [Call \cup Mutator -> CallPlace \cup MutatorPlace]
    BY DEF Exit, CallPlace, MutatorPlace
  <2>2. answer' \in [Call -> Answer]
    BY DEF Exit, Inductive, TypeOK, Answer
  <2>3. callErrors' \in Seq(Call) /\ Len(callErrors') <= MaxCallErrors
    BY RuntimeAssumption DEF Exit
  <2>4. QED
    BY <2>1, <2>2, <2>3 DEF Exit, Inductive, TypeOK
<1>2. Placed'
  BY RuntimeAssumption DEF Exit, CallPlace, MutatorPlace, Placed
<1>3. RowsPlaced'
  BY RuntimeAssumption DEF Exit, Inductive, RowsPlaced
<1>4. RowsAccounted'
  BY RuntimeAssumption DEF Exit, RowsAccounted
<1>5. AnswersTrue'
  BY RuntimeAssumption DEF Exit, Inductive, TypeOK, RowsPlaced, AnswersTrue, Terminal
<1>6. Quiet'
  BY DEF Exit, Quiet
<1>7. QED
  BY <1>1, <1>2, <1>3, <1>4, <1>5, <1>6 DEF Inductive

(* The next daemon fails the unfinished rows; no run is left to mind. *)
LEMMA RestartKeeps ==
  ASSUME Inductive, Restart
  PROVE  Inductive'
<1>1. \A c \in Call : at[c] \in {"idle", "ended"}
  BY DEF Inductive, Quiet, Restart
<1>2. TypeOK'
  BY DEF Restart, Inductive, TypeOK, Open, Terminal
<1>3. RowsPlaced'
  BY <1>1 DEF Restart, Inductive, RowsPlaced, Open
<1>4. RowsAccounted'
  BY <1>1 DEF Restart, RowsAccounted, Open
<1>5. AnswersTrue'
  BY DEF Restart, Inductive, AnswersTrue, Open, Terminal
<1>6. Placed' /\ Quiet'
  BY DEF Restart, Inductive, Placed, Quiet
<1>7. QED
  BY <1>2, <1>3, <1>4, <1>5, <1>6 DEF Inductive

(* Every other step of a run. *)
LEMMA RunKeeps ==
  ASSUME Inductive, NEW c \in Call,
         \/ Begin(c) \/ LockGate(c) \/ Refuse(c) \/ SetTarget(c) \/ Create(c)
         \/ Launch(c) \/ RefuseCreated(c) \/ SetWorking(c) \/ InvokeReturns(c)
         \/ Persist(c) \/ FallbackTerminal(c) \/ Finish(c)
         \/ StopWaiting(c) \/ CancelRun(c)
  PROVE  Inductive'
<1> USE RuntimeAssumption
    DEF Inductive, TypeOK, Placed, RowsPlaced, RowsAccounted, Excused, AnswersTrue, Quiet,
        Open, Terminal, Answer, CallPlace, MutatorPlace, Ungated, Gated, daemon
<1>1. CASE Begin(c)
  BY <1>1 DEF Begin
<1>2. CASE LockGate(c)
  BY <1>2 DEF LockGate
<1>3. CASE Refuse(c)
  BY <1>3 DEF Refuse
<1>4. CASE SetTarget(c)
  BY <1>4 DEF SetTarget
<1>5. CASE Create(c)
  BY <1>5 DEF Create
<1>6. CASE Launch(c)
  BY <1>6 DEF Launch
<1>7. CASE RefuseCreated(c)
  BY <1>7 DEF RefuseCreated
<1>8. CASE SetWorking(c)
  BY <1>8 DEF SetWorking
<1>9. CASE InvokeReturns(c)
  BY <1>9 DEF InvokeReturns
<1>10. CASE Persist(c)
  BY <1>10 DEF Persist
<1>11. CASE FallbackTerminal(c)
  BY <1>11, RingKeeps DEF FallbackTerminal
<1>12. CASE Finish(c)
  BY <1>12 DEF Finish
<1>13. CASE StopWaiting(c)
  BY <1>13 DEF StopWaiting
<1>14. CASE CancelRun(c)
  BY <1>14 DEF CancelRun
<1>15. QED
  BY <1>1, <1>2, <1>3, <1>4, <1>5, <1>6, <1>7, <1>8, <1>9, <1>10, <1>11,
     <1>12, <1>13, <1>14

(* The steps of connects, of Close, and of nobody. *)
LEMMA OthersKeep ==
  ASSUME Inductive,
         \/ \E m \in Mutator :
              \/ MutatorBegin(m) \/ LockMutation(m) \/ MutatorRefuse(m)
              \/ LockGateForWriting(m) \/ MutatorEnd(m) \/ CancelMutator(m)
         \/ CloseBegin \/ CloseSessions \/ CloseDB \/ UNCHANGED vars
  PROVE  Inductive'
<1> USE RuntimeAssumption
    DEF Inductive, TypeOK, Placed, RowsPlaced, RowsAccounted, Excused, AnswersTrue, Quiet,
        Open, Terminal, Answer, CallPlace, MutatorPlace, Ungated, Gated, daemon
<1>1. ASSUME NEW m \in Mutator, MutatorBegin(m)
      PROVE  Inductive'
  BY <1>1 DEF MutatorBegin
<1>2. ASSUME NEW m \in Mutator, LockMutation(m)
      PROVE  Inductive'
  BY <1>2 DEF LockMutation
<1>3. ASSUME NEW m \in Mutator, MutatorRefuse(m)
      PROVE  Inductive'
  BY <1>3 DEF MutatorRefuse
<1>4. ASSUME NEW m \in Mutator, LockGateForWriting(m)
      PROVE  Inductive'
  BY <1>4 DEF LockGateForWriting
<1>5. ASSUME NEW m \in Mutator, MutatorEnd(m)
      PROVE  Inductive'
  BY <1>5 DEF MutatorEnd
<1>6. ASSUME NEW m \in Mutator, CancelMutator(m)
      PROVE  Inductive'
  BY <1>6 DEF CancelMutator
<1>7. CASE CloseBegin
  BY <1>7 DEF CloseBegin, Leased
<1>8. CASE CloseSessions
  BY <1>8 DEF CloseSessions
<1>9. CASE CloseDB
  BY <1>9 DEF CloseDB
<1>10. CASE UNCHANGED vars
  BY <1>10 DEF vars
<1>11. QED
  BY <1>1, <1>2, <1>3, <1>4, <1>5, <1>6, <1>7, <1>8, <1>9, <1>10

----------------------------------------------------------------------------
(* The invariant from which the theorems follow. *)
THEOREM InductiveHolds == Spec => []Inductive
<1>1. Inductive /\ [Next]_vars => Inductive'
  BY RunKeeps, ReadCallKeeps, OthersKeep, CloseEndKeeps, ExitKeeps, RestartKeeps DEF Next
<1>2. QED
  BY <1>1, InitInductive, PTL DEF Spec

(* Every variable keeps its type. *)
THEOREM TypeCorrect == Spec => []TypeOK
BY InductiveHolds, PTL DEF Inductive

(***************************************************************************)
(* Whatever fails, closes, crashes and restarts, an unfinished row is      *)
(* worked on, or its failure is on record, or its client was told the app  *)
(* was closing.  The invariant follows a run's row from place to place.    *)
(***************************************************************************)
THEOREM NoOrphans == Spec => []NoOrphanedCalls
<1>1. Inductive => NoOrphanedCalls
  BY DEF Inductive, RowsAccounted, Excused, NoOrphanedCalls, Leased
<1>2. QED
  BY <1>1, InductiveHolds, PTL

(* A Close that returns without an error leaves nobody and nothing undone. *)
THEOREM CleanCloses == Spec => []CleanCloseSettles
<1>1. Inductive => CleanCloseSettles
  BY DEF Inductive, RowsAccounted, Excused, Quiet, CleanCloseSettles, Leased
<1>2. QED
  BY <1>1, InductiveHolds, PTL

(***************************************************************************)
(* What a client is told about its call stays what the database says.      *)
(***************************************************************************)
THEOREM FinalAnswers == Spec => AnswersAreFinal
<1>1. ASSUME Inductive, Inductive', [Next]_vars, NEW c \in Call
      PROVE  /\ answer'[c] \in Terminal => row'[c] = answer'[c]
             /\ answer'[c] \in Open /\ answer[c] = "waiting" =>
                  Len(callErrors) = MaxCallErrors
  <2>1. answer'[c] \in Terminal => row'[c] = answer'[c]
    BY <1>1 DEF Inductive, AnswersTrue
  <2>2. ASSUME answer'[c] \in Open, answer[c] = "waiting"
        PROVE  ReadCall(c)
    BY <1>1, <2>2
       DEF Inductive, TypeOK, Open, Next, vars,
           Begin, LockGate, Refuse, SetTarget, Create, Launch, RefuseCreated,
           SetWorking, InvokeReturns, Persist, FallbackTerminal, Finish,
           ReadCall, StopWaiting, CancelRun, MutatorBegin, LockMutation,
           MutatorRefuse, LockGateForWriting, MutatorEnd, CancelMutator,
           CloseBegin, CloseSessions, CloseEnd, CloseDB, Exit, Restart
  <2>3. ASSUME answer'[c] \in Open, answer[c] = "waiting"
        PROVE  Len(callErrors) = MaxCallErrors
    <3>1. /\ at[c] = "ended" /\ dbOpen /\ c \notin Range(callErrors)
          /\ row[c] \in Open
      BY <1>1, <2>2, <2>3 DEF ReadCall, Inductive, TypeOK, Open
    <3>2. QED
      BY <1>1, <2>3, <3>1 DEF Inductive, Quiet, RowsAccounted, Excused
  <2>4. QED
    BY <2>1, <2>3
<1>2. Inductive /\ Inductive' /\ [Next]_vars =>
        [\A c \in Call :
           /\ answer'[c] \in Terminal => row'[c] = answer'[c]
           /\ answer'[c] \in Open /\ answer[c] = "waiting" =>
                Len(callErrors) = MaxCallErrors]_vars
  BY <1>1
<1>3. QED
  BY <1>2, InductiveHolds, PTL DEF Spec, AnswersAreFinal

----------------------------------------------------------------------------
(* The runtime implements the abstract life of calls. *)

(* A step that gives a call its row admits it. *)
LEMMA CreateImplements ==
  ASSUME Inductive, NEW c \in Call, Create(c)
  PROVE  Lifecycle!Next
<1>1. row[c] = "absent" /\ row' = [row EXCEPT ![c] = "submitted"]
  BY DEF Inductive, RowsPlaced, Create
<1>2. Phase' = [d \in (Lifecycle!Remembered \ {}) \cup {c} |->
                  IF d = c THEN "open" ELSE Phase[d]]
  BY <1>1 DEF Inductive, TypeOK, Phase, Lifecycle!Remembered, Open, Terminal
<1>3. c \notin Lifecycle!Remembered /\ {} \subseteq Lifecycle!Remembered \ Lifecycle!Open
  BY <1>1 DEF Lifecycle!Remembered, Phase
<1>4. Lifecycle!Cardinality(Lifecycle!Open) < Cardinality(Call)
  <2>1. Lifecycle!Open \subseteq Call /\ c \in Call \ Lifecycle!Open
    BY <1>3 DEF Lifecycle!Open, Lifecycle!Remembered, Phase
  <2>2. Cardinality(Lifecycle!Open) < Cardinality(Call)
    BY <2>1, RuntimeAssumption, FS_Subset, FS_CardinalityType
  <2>3. Lifecycle!Cardinality(Lifecycle!Open) = Cardinality(Lifecycle!Open)
    BY Zenon DEF Cardinality, Lifecycle!Cardinality
  <2>4. QED
    BY <2>2, <2>3
<1>5. Lifecycle!Admit(c, {})
  BY <1>2, <1>3, <1>4 DEF Lifecycle!Admit
<1>6. QED
  BY <1>5 DEF Lifecycle!Next

(* A step that gives open calls the same terminal state settles them. *)
LEMMA SettleImplements ==
  ASSUME Inductive, NEW C \in SUBSET Call, C # {}, NEW outcomeOf \in Terminal,
         \A c \in C : row[c] \in Open,
         row' = [c \in Call |-> IF c \in C THEN outcomeOf ELSE row[c]]
  PROVE  Lifecycle!Next
<1>1. /\ Lifecycle!Remembered = {c \in Call : row[c] # "absent"}
      /\ Lifecycle!Open = {c \in Call : row[c] \in Open}
  BY DEF Lifecycle!Remembered, Lifecycle!Open, Phase, Open, Terminal, Inductive, TypeOK
<1>2. Phase' = [c \in Lifecycle!Remembered |-> IF c \in C THEN outcomeOf ELSE Phase[c]]
  BY <1>1 DEF Phase, Open, Terminal
<1>3. C \in SUBSET Lifecycle!Open
  BY <1>1
<1>4. Lifecycle!Settle(C, outcomeOf)
  BY <1>2, <1>3 DEF Lifecycle!Settle
<1>5. QED
  BY <1>3, <1>4 DEF Lifecycle!Next

(* The same for one call. *)
LEMMA SettleOneImplements ==
  ASSUME Inductive, NEW c \in Call, NEW outcomeOf \in Terminal, row[c] \in Open,
         row' = [row EXCEPT ![c] = outcomeOf]
  PROVE  Lifecycle!Next
<1>1. row' = [d \in Call |-> IF d \in {c} THEN outcomeOf ELSE row[d]]
  BY DEF Inductive, TypeOK
<1>2. QED
  BY <1>1, SettleImplements

(* Every step admits a call, settles some, or leaves their phases alone. *)
LEMMA StepImplements ==
  ASSUME Inductive, [Next]_vars
  PROVE  Lifecycle!Next \/ Phase' = Phase
<1>1. CASE UNCHANGED row
  BY <1>1 DEF Phase
<1>2. ASSUME NEW c \in Call, Create(c)
      PROVE  Lifecycle!Next
  BY <1>2, CreateImplements
<1>3. ASSUME NEW c \in Call, SetWorking(c)
      PROVE  Phase' = Phase
  BY <1>3 DEF SetWorking, Inductive, TypeOK, RowsPlaced, Phase, Open
<1>4. ASSUME NEW c \in Call, RefuseCreated(c) \/ FallbackTerminal(c), row' # row
      PROVE  Lifecycle!Next
  <2>1. row[c] \in Open /\ row' = [row EXCEPT ![c] = "failed"] /\ "failed" \in Terminal
    BY <1>4 DEF RefuseCreated, FallbackTerminal, Inductive, RowsPlaced, Open, Terminal
  <2>2. QED
    BY <2>1, SettleOneImplements
<1>5. ASSUME NEW c \in Call, Persist(c), row' # row
      PROVE  Lifecycle!Next
  <2>1. /\ row[c] \in Open /\ row' = [row EXCEPT ![c] = outcome[c]]
        /\ outcome[c] \in Terminal
    BY <1>5 DEF Persist, Inductive, RowsPlaced, Open
  <2>2. QED
    BY <2>1, SettleOneImplements
<1>6. ASSUME Restart, row' # row
      PROVE  Lifecycle!Next
  <2> DEFINE C == {c \in Call : row[c] \in Open}
  <2>1. row' = [c \in Call |-> IF c \in C THEN "failed" ELSE row[c]]
    BY <1>6 DEF Restart
  <2>2. C # {}
    BY <1>6, <2>1 DEF Inductive, TypeOK
  <2>3. "failed" \in Terminal
    BY DEF Terminal
  <2>4. QED
    BY <2>1, <2>2, <2>3, SettleImplements
<1>7. QED
  BY <1>1, <1>2, <1>3, <1>4, <1>5, <1>6
     DEF Next, vars, daemon,
         Begin, LockGate, Refuse, SetTarget, Launch, InvokeReturns, Finish,
         ReadCall, StopWaiting, CancelRun, MutatorBegin, LockMutation,
         MutatorRefuse, LockGateForWriting, MutatorEnd, CancelMutator,
         CloseBegin, CloseSessions, CloseEnd, CloseDB, Exit

(* The runtime, with crashes and failing writes, is a life of calls. *)
THEOREM RuntimeImplementsLifecycle == Spec => ImplementsLifecycle
<1>1. Init => Lifecycle!Init
  BY DEF Init, Lifecycle!Init, Phase
<1>2. Inductive /\ [Next]_vars => [Lifecycle!Next]_Phase
  BY StepImplements
<1>3. QED
  BY <1>1, <1>2, InductiveHolds, PTL DEF Spec, Lifecycle!Spec, ImplementsLifecycle
=============================================================================
