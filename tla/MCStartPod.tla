----------------------------- MODULE MCStartPod -----------------------------
(* Instances of StartPod for TLC.                                          *)
EXTENDS StartPod, TLC

\* Guilds differ: not all of them start rounds.
Symmetry == Permutations(Channels) \cup Permutations(Admins)
=============================================================================
