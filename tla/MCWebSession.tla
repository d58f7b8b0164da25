---------------------------- MODULE MCWebSession ----------------------------
(* Constants of the run of WebSession. *)
EXTENDS WebSession, TLC

Symmetry ==
  Permutations(Ids) \cup Permutations(Names) \cup Permutations(Browsers)
    \cup Permutations(Slots)
=============================================================================
