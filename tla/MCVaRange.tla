----------------------------- MODULE MCVaRange -----------------------------
(***************************************************************************)
(* Small instances of VaRange for TLC.  One unit of address space is half  *)
(* of the alignment granule, so that sizes that ALIGN rounds up occur.     *)
(***************************************************************************)
EXTENDS VaRange, TLC

Symmetry == Permutations(Threads) \cup Permutations(Handles)

(* The flags a client of a device without a high range passes. *)
LowFlags == {{}, {"32_BIT"}, {"REPLAYABLE"}}

(* A client of a device that has one: both high managers, and HIGH with    *)
(* REPLAYABLE.                                                             *)
HighFlags == {{"HIGH"}, {"HIGH", "32_BIT"}, {"HIGH", "REPLAYABLE"}}
=============================================================================
