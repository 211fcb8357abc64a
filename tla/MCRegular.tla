------------------------------ MODULE MCRegular -----------------------------
(* Instances of Regular for TLC. *)
EXTENDS Regular, TLC

Symmetry == Permutations(Ids) \cup Permutations(Enemy)
=============================================================================
