---------------------------- MODULE MCPlacement -----------------------------
(* Small instances of Placement for TLC. *)
EXTENDS Placement, TLC

Symmetry == Permutations(Conns) \cup Permutations(Fds)
=============================================================================
