----------------------------- MODULE MCKitQueue -----------------------------
(* KitQueue, for model checking.                                           *)
EXTENDS KitQueue, TLC

ViewSymmetry == Permutations(Views)
=============================================================================
