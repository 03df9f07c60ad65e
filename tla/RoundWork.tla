------------------------------ MODULE RoundWork ------------------------------
(***************************************************************************)
(* One round and the work in hand for it: the part of the program that     *)
(* PodRounds, RoundMessages and RoundTail have in common.  PodRounds says  *)
(* what its rounds do; the other two, whose subject lies elsewhere, let    *)
(* the round do no more than is allowed here.                              *)
(***************************************************************************)
CONSTANT Ticks

VARIABLES
  status,    \* pod_rounds.status, "NONE" before the row exists
  notified,  \* pod_rounds.fire_failure_notified
  firing,    \* fireRound runs on behalf of the claim
  trying,    \* ticks whose retry sweep has still to ask for a draft
  quitting   \* ticks whose retry sweep has still to give the round up

vars == <<status, notified, firing, trying, quitting>>

Init ==
  /\ status \in {"NONE", "COLLECTING"} /\ notified = FALSE
  /\ firing = FALSE /\ trying = {} /\ quitting = {}

Opens ==
  /\ status = "NONE" /\ status' = "COLLECTING"
  /\ UNCHANGED <<notified, firing, trying, quitting>>

\* Without an origin guild there is nothing to fire.
Claimed ==
  /\ status = "COLLECTING" /\ status' = "THRESHOLD_REACHED"
  /\ firing' \in BOOLEAN
  /\ UNCHANGED <<notified, trying, quitting>>

Ends ==
  /\ \/ status = "COLLECTING" /\ status' \in {"EXPIRED", "CANCELLED"}
     \/ status = "THRESHOLD_REACHED" /\ status' = "CANCELLED"
     \/ status = "POD_CREATED" /\ status' = "CONCLUDED"
  /\ UNCHANGED <<notified, firing, trying, quitting>>

\* An answer writes POD_CREATED whatever the status has become meanwhile.
Created == status' \in {status, "POD_CREATED"}

FiringEnds ==
  /\ firing /\ firing' = FALSE
  /\ Created
  /\ UNCHANGED <<notified, trying, quitting>>

Stuck == status = "THRESHOLD_REACHED" /\ ~notified

\* A tick works on the round once at a time, and reaches a candidate in the
\* turn that read it or in a later one.
RetryReads(t) ==
  /\ Stuck /\ t \notin trying \cup quitting
  /\ \/ trying' = trying \cup {t} /\ UNCHANGED <<notified, quitting>>
     \/ quitting' = quitting \cup {t} /\ UNCHANGED <<notified, trying>>
     \/ notified' = TRUE /\ UNCHANGED <<trying, quitting>>
  /\ UNCHANGED <<status, firing>>

RetryAnswered(t) ==
  /\ t \in trying /\ trying' = trying \ {t}
  /\ Created
  /\ UNCHANGED <<notified, firing, quitting>>

GivesUp(t) ==
  /\ t \in quitting /\ quitting' = quitting \ {t}
  /\ notified' = TRUE
  /\ UNCHANGED <<status, firing, trying>>

Evicted ==
  /\ firing' = FALSE /\ trying' = {} /\ quitting' = {}
  /\ UNCHANGED <<status, notified>>

Next ==
  \/ Opens \/ Claimed \/ Ends \/ FiringEnds
  \/ \E t \in Ticks : RetryReads(t) \/ RetryAnswered(t) \/ GivesUp(t)
  \/ Evicted

Spec == Init /\ [][Next]_vars
=============================================================================
