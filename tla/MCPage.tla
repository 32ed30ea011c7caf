-------------------------------- MODULE MCPage --------------------------------
(***************************************************************************)
(* Page with two jobs and two batches, one of them with an error.          *)
(***************************************************************************)
EXTENDS Page, TLC

MCFaulty(j, b) == b = "more"

Symmetry == Permutations(Jobs)
===============================================================================
