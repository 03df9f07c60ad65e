--------------------------- MODULE MCRoundCommands ---------------------------
(* Instances of RoundCommands for TLC.                                     *)
EXTENDS RoundCommands, TLC

Symmetry == Permutations(Organizers)
=============================================================================
