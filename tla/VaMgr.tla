------------------------------- MODULE VaMgr -------------------------------
(***************************************************************************)
(* The hole list of one virtual-address manager (struct amdgpu_bo_va_mgr)  *)
(* and the algorithms amdgpu_vamgr.c runs on it under bo_va_mutex.         *)
(*                                                                         *)
(* A hole list is the sequence of the holes in list order, head first; the *)
(* code keeps the highest hole at the head.  A hole is [offset, size].     *)
(* Addresses and sizes are uint64_t: sums and differences wrap at AddrMod. *)
(***************************************************************************)
EXTENDS Integers, SequencesExt

CONSTANTS
    AddrMod,    \* number of addresses a uint64_t can hold (2^64 in the code)
    VaAlign     \* dev_info.virtual_address_alignment, the va_alignment of every manager

ASSUME VaMgrAssumption ==
    /\ AddrMod \in Nat \ {0}
    /\ VaAlign \in 1 .. AddrMod - 1

Addr == 0 .. AddrMod - 1

Hole == [offset : Addr, size : Addr]

(* AMDGPU_INVALID_VA_ADDRESS, all bits set. *)
InvalidVa == AddrMod - 1

-----------------------------------------------------------------------------
(* Unsigned 64-bit arithmetic on operands that are already in Addr. *)

WAdd(a, b) == IF a + b < AddrMod THEN a + b ELSE a + b - AddrMod

WSub(a, b) == IF a >= b THEN a - b ELSE a - b + AddrMod

MAX2(a, b) == IF a > b THEN a ELSE b

MIN2(a, b) == IF a < b THEN a ELSE b

(* offset - offset % alignment *)
RoundDown(a, align) == a - (a % align)

(* ALIGN(size, mgr->va_alignment): the alignment is a power of two, so     *)
(* masking off the low bits subtracts the remainder.                       *)
AlignSize(size) == RoundDown(WAdd(size, VaAlign - 1), VaAlign)

-----------------------------------------------------------------------------
(* The search of amdgpu_vamgr_find_va.  A request is                       *)
(* [size, align, base, top]: base = 0 leaves the address to the library,   *)
(* top is AMDGPU_VA_RANGE_REPLAYABLE's search_from_top.                    *)

HoleEnd(h) == WAdd(h.offset, h.size)

RoundUp(a, align) ==
    IF a % align = 0 THEN a ELSE WAdd(a, align - (a % align))

(* The address the search would hand out from hole h. *)
Place(h, r) ==
    IF r.base # 0 THEN r.base
    ELSE IF ~r.top THEN RoundUp(h.offset, r.align)
    ELSE RoundDown(WSub(HoleEnd(h), r.size), r.align)

(* A bug the properties must see: an exact fit is passed over. *)
TakesStrictly(h, r) ==
    IF r.base # 0
    THEN h.offset <= r.base /\ HoleEnd(h) >= WAdd(r.base, r.size)
    ELSE IF ~r.top
    THEN Place(h, r) < HoleEnd(h) /\ r.size < WSub(HoleEnd(h), Place(h, r))
    ELSE r.size < h.size /\ Place(h, r) >= h.offset

(* The conditions under which the loop does not "continue" past hole h. *)
Takes(h, r) ==
    IF r.base # 0
    THEN /\ h.offset <= r.base
         /\ HoleEnd(h) >= WAdd(r.base, r.size)
    ELSE IF ~r.top
    THEN /\ Place(h, r) < HoleEnd(h)
         /\ r.size <= WSub(HoleEnd(h), Place(h, r))
    ELSE /\ r.size <= h.size
         /\ Place(h, r) >= h.offset

(* A bug: every search walks the list from its head. *)
FirstFitFromHead(hs, r, i) ==
    Takes(hs[i], r) /\ \A j \in DOMAIN hs : Takes(hs[j], r) => i <= j

(* The hole the loop stops at: the tail-most candidate going up from the   *)
(* tail, the head-most one going down from the head.                       *)
FirstFit(hs, r, i) ==
    /\ Takes(hs[i], r)
    /\ \A j \in DOMAIN hs :
          Takes(hs[j], r) => IF r.top THEN i <= j ELSE j <= i

NoFit(hs, r) == \A i \in DOMAIN hs : ~Takes(hs[i], r)

(* base_required % alignment: the EINVAL return before the lock is taken. *)
Misaligned(r) == r.base % r.align # 0

-----------------------------------------------------------------------------
(* amdgpu_vamgr_subtract_hole(hole, start_va, end_va). *)

CutsBelow(h, s) == s > h.offset

CutsAbove(h, e) == WSub(e, h.offset) < h.size

(* The branch that needs a second hole, hence a calloc that may fail. *)
Splits(h, s, e) == CutsBelow(h, s) /\ CutsAbove(h, e)

LowerPart(h, s) == [offset |-> h.offset, size |-> s - h.offset]

(* A bug: the hole loses end_va addresses instead of end_va - offset. *)
UpperPartAbsolute(h, e) == [offset |-> e, size |-> h.size - e]

UpperPart(h, e) == [offset |-> e, size |-> h.size - WSub(e, h.offset)]

SubtractHole(hs, i, s, e) ==
    LET h == hs[i] IN
    IF Splits(h, s, e)
    THEN InsertAt(ReplaceAt(hs, i, UpperPart(h, e)), i + 1, LowerPart(h, s))
    ELSE IF CutsBelow(h, s) THEN ReplaceAt(hs, i, LowerPart(h, s))
    ELSE IF CutsAbove(h, e) THEN ReplaceAt(hs, i, UpperPart(h, e))
    ELSE RemoveAt(hs, i)

-----------------------------------------------------------------------------
(* amdgpu_vamgr_free_va(mgr, va, size). *)

(* k is where the first loop of free_va stops: hole is entry k (the list   *)
(* head when k = 0), next is entry k + 1.                                  *)
StopsAt(hs, va, k) ==
    /\ k \in 0 .. Len(hs)
    /\ \A i \in 1 .. k : hs[i].offset >= va
    /\ k < Len(hs) => hs[k + 1].offset < va

UpperAdjacent(hs, k, va, size) ==
    k > 0 /\ hs[k].offset = WAdd(va, size)

LowerAdjacent(hs, k, va) ==
    k < Len(hs) /\ HoleEnd(hs[k + 1]) = va

(* The range joins no hole and needs a new one, hence a calloc. *)
NeedsHole(hs, k, va, size) ==
    ~UpperAdjacent(hs, k, va, size) /\ ~LowerAdjacent(hs, k, va)

GrowUpper(h, va, size) == [offset |-> va, size |-> WAdd(h.size, size)]

GrowLower(h, size) == [offset |-> h.offset, size |-> WAdd(h.size, size)]

(* Two bugs: the merged hole stays in the list; a range between two holes  *)
(* joins the upper one only.                                               *)
FreeVaKeepsUpper(hs, k, va, size) ==
    IF UpperAdjacent(hs, k, va, size) /\ LowerAdjacent(hs, k, va)
    THEN ReplaceAt(hs, k + 1, GrowLower(hs[k + 1], GrowUpper(hs[k], va, size).size))
    ELSE IF UpperAdjacent(hs, k, va, size)
    THEN ReplaceAt(hs, k, GrowUpper(hs[k], va, size))
    ELSE IF LowerAdjacent(hs, k, va)
    THEN ReplaceAt(hs, k + 1, GrowLower(hs[k + 1], size))
    ELSE InsertAt(hs, k + 1, [offset |-> va, size |-> size])

FreeVaMergesOne(hs, k, va, size) ==
    IF UpperAdjacent(hs, k, va, size)
    THEN ReplaceAt(hs, k, GrowUpper(hs[k], va, size))
    ELSE IF LowerAdjacent(hs, k, va)
    THEN ReplaceAt(hs, k + 1, GrowLower(hs[k + 1], size))
    ELSE InsertAt(hs, k + 1, [offset |-> va, size |-> size])

(* The list after the free, when the calloc it may need succeeds. *)
FreeVa(hs, k, va, size) ==
    IF UpperAdjacent(hs, k, va, size)
    THEN LET up == GrowUpper(hs[k], va, size) IN
         IF LowerAdjacent(hs, k, va)
         THEN RemoveAt(ReplaceAt(hs, k + 1, GrowLower(hs[k + 1], up.size)), k)
         ELSE ReplaceAt(hs, k, up)
    ELSE IF LowerAdjacent(hs, k, va)
    THEN ReplaceAt(hs, k + 1, GrowLower(hs[k + 1], size))
    ELSE InsertAt(hs, k + 1, [offset |-> va, size |-> size])

-----------------------------------------------------------------------------
(* Intervals of addresses, to say that holes and ranges keep clear of each *)
(* other.  A range of size 0 meets nothing, wherever it lies.              *)

Apart(a, m, b, n) == m = 0 \/ n = 0 \/ a + m <= b \/ b + n <= a

HolesApart(g, h) == Apart(g.offset, g.size, h.offset, h.size)

Within(h, lo, hi) == lo <= h.offset /\ h.offset + h.size <= hi

ListWithin(hs, lo, hi) == \A i \in DOMAIN hs : Within(hs[i], lo, hi)

ListApart(hs) == \A i, j \in DOMAIN hs : i # j => HolesApart(hs[i], hs[j])

ListAvoids(hs, a, n) ==
    \A i \in DOMAIN hs : Apart(hs[i].offset, hs[i].size, a, n)

(* What the list says of single addresses, and what keeps it from          *)
(* fragmenting: highest hole first, a gap between any two, none empty.     *)

Has(h, x) == h.offset <= x /\ x < h.offset + h.size

InHoles(hs, x) == \E i \in DOMAIN hs : Has(hs[i], x)

ListSorted(hs) ==
    \A i, j \in DOMAIN hs : i < j => hs[j].offset + hs[j].size < hs[i].offset

ListPositive(hs) == \A i \in DOMAIN hs : hs[i].size > 0
=============================================================================
