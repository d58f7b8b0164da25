-------------------------- MODULE MCBoundedChannel --------------------------
(***************************************************************************)
(* An instance of BoundedChannel for TLC.  The run checks liveness too, so *)
(* it declares no symmetry among the threads.                              *)
(***************************************************************************)
EXTENDS BoundedChannel

CONSTANTS s1, s2, s3, r1, r2

ThreeSenders == {s1, s2, s3}
TwoReceivers == {r1, r2}
=============================================================================
