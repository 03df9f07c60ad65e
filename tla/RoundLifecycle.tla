--------------------------- MODULE RoundLifecycle ---------------------------
(***************************************************************************)
(* What a round promises its players, without sweeps, requests, clocks or  *)
(* crashes: which states it may pass through, and when its roster may      *)
(* still change.  PodRounds implements it.                                 *)
(***************************************************************************)
EXTENDS Integers, FiniteSets

CONSTANTS Rounds, Players, PodCapacity, Thresholds

VARIABLES
  state,   \* pod_rounds.status
  roster,  \* the players signed up
  needed   \* pod_rounds.threshold

vars == <<state, roster, needed>>

Init ==
  /\ state = [r \in Rounds |-> "NONE"]
  /\ roster = [r \in Rounds |-> {}]
  /\ needed = [r \in Rounds |-> PodCapacity]

Enough(r) == Cardinality(roster[r]) >= needed[r]

\* Every step below says what becomes of one round.
Moves(r, from, to) ==
  /\ state[r] \in from
  /\ state'[r] = to

Stays(r) == state'[r] = state[r] /\ roster'[r] = roster[r] /\ needed'[r] = needed[r]

\* The organizer confirms a round.
Opens(r) ==
  /\ Moves(r, {"NONE"}, "COLLECTING")
  /\ needed'[r] \in Thresholds
  /\ roster'[r] = roster[r]

\* Only an open round's roster changes, by one player, and the player who
\* completes the table closes it.
RosterChanges(r) ==
  /\ \E p \in Players : roster'[r] \in {roster[r] \cup {p}, roster[r] \ {p}}
  /\ Moves(r, {"COLLECTING"},
           IF Cardinality(roster'[r]) = PodCapacity
           THEN "THRESHOLD_REACHED" ELSE "COLLECTING")
  /\ needed'[r] = needed[r]

\* At its deadline an open round fires or expires, by its roster alone.
Closes(r) ==
  /\ Moves(r, {"COLLECTING"},
           IF Enough(r) THEN "THRESHOLD_REACHED" ELSE "EXPIRED")
  /\ UNCHANGED roster[r] /\ UNCHANGED needed[r]

\* The draft exists.  A late answer also finds rounds that were cancelled,
\* concluded or created meanwhile, but never one short of players.
IsCreated(r) ==
  /\ Moves(r, {"THRESHOLD_REACHED", "POD_CREATED", "CANCELLED", "CONCLUDED"},
           "POD_CREATED")
  /\ Enough(r)
  /\ UNCHANGED roster[r] /\ UNCHANGED needed[r]

IsCancelled(r) ==
  /\ Moves(r, {"COLLECTING", "THRESHOLD_REACHED"}, "CANCELLED")
  /\ UNCHANGED roster[r] /\ UNCHANGED needed[r]

IsConcluded(r) ==
  /\ Moves(r, {"POD_CREATED"}, "CONCLUDED")
  /\ UNCHANGED roster[r] /\ UNCHANGED needed[r]

\* A sweep may settle several rounds in one turn.
Next ==
  \A r \in Rounds :
    \/ Stays(r) \/ Opens(r) \/ RosterChanges(r) \/ Closes(r)
    \/ IsCreated(r) \/ IsCancelled(r) \/ IsConcluded(r)

Spec == Init /\ [][Next]_vars
=============================================================================
