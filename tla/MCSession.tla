----------------------------- MODULE MCSession -----------------------------
(***************************************************************************)
(* A small instance of Session for TLC: two cards, one of them with two    *)
(* functions, an entry that names a card the bus no longer has, and one    *)
(* that names none; a GPU of each kind of family.                          *)
(***************************************************************************)
EXTENDS Session, TLC

CONSTANTS card1, card2, second, gone, other

Bus == <<[slot |-> 1, func |-> 0], [slot |-> 1, func |-> 1], [slot |-> 2, func |-> 0]>>

Names == card1 :> Bus[1] @@ second :> Bus[2] @@ card2 :> Bus[3]
           @@ gone :> [slot |-> 3, func |-> 0] @@ other :> NoDevice

Tables == UNION {[1..n -> LineKinds] : n \in 0..4}
=============================================================================
