----------------------------- MODULE MCKvCaches -----------------------------
(* Two sessions of every kind of cache.                                      *)
EXTENDS KvCaches, TLC

Symmetry == Permutations(Session)
=============================================================================
