---------------------------- MODULE MCAccounts ----------------------------
(* Constants of the runs of Accounts. *)
EXTENDS Accounts, TLC

(* Ids, names, e-mails and requests are interchangeable. *)
Symmetry ==
  Permutations(Ids) \cup Permutations(Names) \cup Permutations(Emails)
    \cup Permutations(Requests)
=============================================================================
