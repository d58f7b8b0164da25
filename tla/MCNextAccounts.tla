--------------------------- MODULE MCNextAccounts ---------------------------
(* Constants of the run of NextAccounts. *)
EXTENDS NextAccounts, TLC

Symmetry ==
  Permutations(Ids) \cup Permutations(Names) \cup Permutations(Emails)
    \cup Permutations(Browsers) \cup Permutations(Slots)
=============================================================================
