----------------------------- MODULE MCContent -----------------------------
(* Constants of the run of Content. *)
EXTENDS Content, TLC

Symmetry ==
  Permutations(Users) \cup Permutations(Posts) \cup Permutations(Names)
    \cup Permutations(Places) \cup Permutations(Slots)
=============================================================================
