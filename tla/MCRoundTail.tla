---------------------------- MODULE MCRoundTail ----------------------------
(* Instances of RoundTail for TLC.                                         *)
EXTENDS RoundTail, TLC

Symmetry == Permutations(Players) \cup Permutations(Ticks)
=============================================================================
