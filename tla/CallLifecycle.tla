--------------------------- MODULE CallLifecycle ---------------------------
(***************************************************************************)
(* What the call store promises about calls, without tables, bytes or      *)
(* timestamps: a call is admitted open while there is room, is settled     *)
(* exactly once with an outcome that never changes, and may be forgotten   *)
(* only after it was settled, when a new call is admitted.                 *)
(***************************************************************************)
EXTENDS FiniteSets, Naturals

CONSTANTS
  CallID,     \* identifiers a call may be given
  Outcome,    \* the outcomes a settled call may have
  Capacity    \* how many calls may be open at once

VARIABLE
  phase       \* what is remembered: [a set of CallID -> "open" or an outcome]

Remembered == DOMAIN phase

Open == {c \in Remembered : phase[c] = "open"}

Init == phase = [c \in {} |-> "open"]

(***************************************************************************)
(* Admit call c, forgetting settled calls to make room for it.             *)
(***************************************************************************)
Admit(c, forgotten) ==
  /\ c \notin Remembered
  /\ Cardinality(Open) < Capacity
  /\ forgotten \subseteq Remembered \ Open
  /\ phase' = [d \in (Remembered \ forgotten) \cup {c} |->
                 IF d = c THEN "open" ELSE phase[d]]

(***************************************************************************)
(* Give every call of a non-empty set of open calls the same outcome: one  *)
(* call when it finishes, all of them when a restart finds them abandoned. *)
(***************************************************************************)
Settle(calls, outcome) ==
  /\ calls # {}
  /\ calls \subseteq Open
  /\ phase' = [d \in Remembered |-> IF d \in calls THEN outcome ELSE phase[d]]

Next ==
  \/ \E c \in CallID, forgotten \in SUBSET Remembered : Admit(c, forgotten)
  \/ \E calls \in SUBSET Open, outcome \in Outcome : Settle(calls, outcome)

Spec == Init /\ [][Next]_phase
=============================================================================
