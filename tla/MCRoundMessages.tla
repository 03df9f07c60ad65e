--------------------------- MODULE MCRoundMessages ---------------------------
(* Instances of RoundMessages for TLC.                                     *)
EXTENDS RoundMessages, TLC

\* Interchangeable guilds; sound for the safety runs only.
Symmetry == Permutations(Guilds)
=============================================================================
