---------------------------- MODULE AtomicExport ----------------------------
(***************************************************************************)
(* What one run of the pipeline promises about its SQLite file: the file   *)
(* holds nothing or the whole batch of records that were generated and     *)
(* not refused, whenever it is read and wherever the process dies, and the *)
(* result of Run tells which.                                              *)
(***************************************************************************)
CONSTANT Record

VARIABLES batch,   \* the records accepted so far
          file,    \* the records a reader of the file finds
          sealed,  \* the batch has been made durable
          result   \* what Run returned: "none" yet, "success" or "failure"

vars == <<batch, file, sealed, result>>

Init ==
    /\ batch = {}
    /\ file = {}
    /\ sealed = FALSE
    /\ result = "none"

Accept(r) ==
    /\ ~sealed
    /\ result = "none"
    /\ batch' = batch \cup {r}
    /\ UNCHANGED <<file, sealed, result>>

Seal ==
    /\ ~sealed
    /\ result = "none"
    /\ file' = batch
    /\ sealed' = TRUE
    /\ UNCHANGED <<batch, result>>

Report ==
    /\ result = "none"
    /\ result' = IF sealed THEN "success" ELSE "failure"
    /\ UNCHANGED <<batch, file, sealed>>

Next == (\E r \in Record : Accept(r)) \/ Seal \/ Report

Spec == Init /\ [][Next]_vars
=============================================================================
