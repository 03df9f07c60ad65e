----------------------------- MODULE MCPodRounds -----------------------------
(* Instances of PodRounds for TLC.                                         *)
EXTENDS PodRounds, TLC

\* Interchangeable identities; sound for the safety runs only.
Symmetry == Permutations(Rounds) \cup Permutations(Players)
            \cup Permutations(Ticks) \cup Permutations(Guilds)

\* No deadline, one already passed at creation, one a clock step away.
SomeLeads == {NoDeadline, 0, 1}
PastLeads == {0}
=============================================================================
