------------------------- MODULE MCBreweryDirectory -------------------------
(* Constants of the run of BreweryDirectory. *)
EXTENDS BreweryDirectory
=============================================================================
