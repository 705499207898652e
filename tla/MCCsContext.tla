---------------------------- MODULE MCCsContext ----------------------------
(***************************************************************************)
(* Small instances of CsContext for TLC.                                   *)
(***************************************************************************)
EXTENDS CsContext, TLC

CONSTANTS
    c1,
    c2

(* The first ring of one context and the second of another. *)
TwoRings == {<<c1, 1>>, <<c2, 2>>}

FirstRing == {<<c1, 1>>}

Symmetry == Permutations(Threads) \cup Permutations(Sems)
=============================================================================
