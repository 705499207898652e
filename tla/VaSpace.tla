------------------------------ MODULE VaSpace ------------------------------
(***************************************************************************)
(* What the range allocator of a device promises, without managers, holes  *)
(* or fallbacks: an owner that holds nothing may be given addresses nobody *)
(* else holds, an owner may pass its range on to another, and may drop it. *)
(***************************************************************************)
EXTENDS Integers

CONSTANTS
    Owners,     \* who can hold a range: the clients' handles, the calls at work
    Space       \* the addresses the device lets its clients use

VARIABLE
    owned       \* owned[o]: the range o holds, or Nothing

Nothing == [address |-> 0, size |-> 0]

Cells(r) == r.address .. r.address + r.size - 1

InUse == UNION {Cells(owned[o]) : o \in Owners}

SpaceInit == owned = [o \in Owners |-> Nothing]

(* o is given a range, any one that is free. *)
Claim(o) ==
    /\ owned[o] = Nothing
    /\ Cells(owned'[o]) \subseteq Space \ InUse
    /\ owned' = [owned EXCEPT ![o] = owned'[o]]

(* o passes its range on to p. *)
Transfer(o, p) ==
    /\ owned[p] = Nothing
    /\ owned' = [owned EXCEPT ![p] = owned[o], ![o] = Nothing]

Drop(o) == owned' = [owned EXCEPT ![o] = Nothing]

SpaceNext ==
    \E o \in Owners :
       \/ Claim(o)
       \/ \E p \in Owners \ {o} : Transfer(o, p)
       \/ Drop(o)

SpaceSpec == SpaceInit /\ [][SpaceNext]_owned
=============================================================================
