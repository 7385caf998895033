---------------------------- MODULE MCEfiMount -----------------------------
(* EfiMount on a small instance: two gets that are alike, and two upgrades. *)
EXTENDS EfiMount, TLC

Symmetry == Permutations(Gets) \cup Permutations(Upgrades)
=============================================================================
