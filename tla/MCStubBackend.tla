--------------------------- MODULE MCStubBackend ---------------------------
(***************************************************************************)
(* A small instance of StubBackend for TLC.                                *)
(***************************************************************************)
EXTENDS StubBackend, TLC

Symmetry == Permutations(Threads) \cup Permutations(Fds)

Numbers == [gem |-> 2, syncobj |-> 1]
=============================================================================
