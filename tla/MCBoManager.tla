---------------------------- MODULE MCBoManager ----------------------------
(***************************************************************************)
(* Small instances of BoManager for TLC.                                   *)
(***************************************************************************)
EXTENDS BoManager, TLC

Symmetry == Permutations(Threads) \cup Permutations(Slots) \cup Permutations(Bos)
=============================================================================
