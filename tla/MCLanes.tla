------------------------------- MODULE MCLanes -------------------------------
(* Small instances of Lanes for TLC.                                       *)
EXTENDS Lanes, TLC

Symmetry == Permutations(Client)
==============================================================================
