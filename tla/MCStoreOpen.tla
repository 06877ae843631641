---------------------------- MODULE MCStoreOpen ----------------------------
(***************************************************************************)
(* Instances of StoreOpen for TLC.                                         *)
(***************************************************************************)
EXTENDS StoreOpen, TLC

Symmetry == Permutations(Names)
=============================================================================
