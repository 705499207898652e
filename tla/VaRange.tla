------------------------------ MODULE VaRange ------------------------------
(***************************************************************************)
(* The virtual-address ranges of one device: the four managers laid out by *)
(* amdgpu_device_initialize_haiku and the client calls                     *)
(* amdgpu_va_range_alloc / amdgpu_va_range_free made by several threads.   *)
(*                                                                         *)
(* bo_va_mutex is held for the whole of a search or a free, so each is one *)
(* step; between the critical sections of one allocation (the search of    *)
(* the first manager, the fallback search, the undo) other threads run.    *)
(***************************************************************************)
EXTENDS VaMgr, FiniteSets

CONSTANTS
    Threads,        \* threads that allocate and free
    Handles,        \* struct amdgpu_va objects (bounds the live ranges)
    VaOffset,       \* dev_info.virtual_address_offset
    VaMax,          \* dev_info.virtual_address_max
    HighOffset,     \* dev_info.high_va_offset
    HighMax,        \* dev_info.high_va_max
    Low32,          \* 2^32
    Sizes,          \* size arguments clients pass
    Alignments,     \* va_base_alignment arguments clients pass
    Bases,          \* va_base_required arguments clients pass
    FlagSets,       \* flag combinations clients pass
    CallocMayFail   \* whether memory may run out

Flags == {"HIGH", "32_BIT", "REPLAYABLE"}

Managers == {"vamgr_32", "vamgr", "vamgr_high_32", "vamgr_high"}

Owners == Threads \cup Handles

ASSUME VaRangeAssumption ==
    /\ Threads \cap Handles = {}
    /\ {VaOffset, VaMax, HighOffset, HighMax} \subseteq Addr
    /\ Low32 \in Addr \ {0}
    /\ Sizes \subseteq Addr
    /\ Alignments \subseteq Addr
    /\ Bases \subseteq Addr
    /\ FlagSets \subseteq SUBSET Flags
    /\ CallocMayFail \in BOOLEAN

VARIABLES
    holes,  \* holes[m]: the va_holes list of manager m
    held,   \* held[o]: the range a struct amdgpu_va, or the locals of a call, hold
    pc,     \* where the allocation call of each thread is
    req,    \* req[t]: its request and the manager it searched last
    lost    \* ghost: addresses of m that a failed calloc in free_va dropped

vars == <<holes, held, pc, req, lost>>

VaRec == [mgr : Managers \cup {"none"}, address : Addr, size : Addr]

NoRange == [mgr |-> "none", address |-> 0, size |-> 0]

Request == [size : Addr, align : Addr, base : Addr, top : BOOLEAN,
            mgr : Managers \cup {"none"}]

NoRequest == [size |-> 0, align |-> 1, base |-> 0, top |-> FALSE, mgr |-> "none"]

-----------------------------------------------------------------------------
(* The layout of the managers. *)

(* (start & ~0xffffffff) + 0x100000000 *)
Next4G(start) == WAdd(start - (start % Low32), Low32)

Max32 == MIN2(VaMax, Low32)

MaxHigh32 == MIN2(HighMax, Next4G(HighOffset))

(* A bug: the two high managers start at the same address. *)
StartUnsplit(m) == CASE m = "vamgr_32" -> VaOffset
                     [] m = "vamgr" -> Max32
                     [] OTHER -> HighOffset

Start(m) == CASE m = "vamgr_32" -> VaOffset
              [] m = "vamgr" -> Max32
              [] m = "vamgr_high_32" -> HighOffset
              [] m = "vamgr_high" -> MaxHigh32

VaMaxOf(m) == CASE m = "vamgr_32" -> Max32
                [] m = "vamgr" -> MAX2(VaMax, Low32)
                [] m = "vamgr_high_32" -> MaxHigh32
                [] m = "vamgr_high" -> MAX2(HighMax, Next4G(MaxHigh32))

(* The managers a call can reach: without a high range the HIGH flag is    *)
(* cleared.                                                                *)
HasHigh == VaMaxOf("vamgr_high_32") # 0

Reachable == IF HasHigh THEN Managers ELSE {"vamgr_32", "vamgr"}

(* amdgpu_vamgr_init: one hole, from start up to va_max. *)
FullHole(m) == [offset |-> Start(m), size |-> WSub(VaMaxOf(m), Start(m))]

Init ==
    /\ holes = [m \in Managers |-> <<FullHole(m)>>]
    /\ held = [o \in Owners |-> NoRange]
    /\ pc = [t \in Threads |-> "idle"]
    /\ req = [t \in Threads |-> NoRequest]
    /\ lost = [m \in Managers |-> {}]

-----------------------------------------------------------------------------
(* amdgpu_va_range_alloc. *)

(* The HIGH flag is cleared when the high manager is not initialized. *)
High(flags) == "HIGH" \in flags /\ HasHigh

MgrOf(flags) ==
    IF High(flags)
    THEN IF "32_BIT" \in flags THEN "vamgr_high_32" ELSE "vamgr_high"
    ELSE IF "32_BIT" \in flags THEN "vamgr_32" ELSE "vamgr"

(* The manager the fallback searches. *)
Sibling32(m) == IF m = "vamgr_high" THEN "vamgr_high_32" ELSE "vamgr_32"

(* The two lines both va_range_alloc and find_va apply to size and alignment. *)
Normalise(r) == [r EXCEPT !.size = AlignSize(@), !.align = MAX2(@, VaAlign)]

(* find_va takes a range out of manager m for thread t. *)
Take(t, m, r) ==
    \E i \in DOMAIN holes[m] :
       LET q == Normalise(r)
           va == Place(holes[m][i], q)
           end == WAdd(va, q.size)
       IN  /\ ~Misaligned(q)
           /\ FirstFit(holes[m], q, i)
           /\ holes' = [holes EXCEPT ![m] = SubtractHole(@, i, va, end)]
           /\ held' = [held EXCEPT ![t] = [mgr |-> m, address |-> va, size |-> r.size]]

(* find_va returns an error and changes nothing: EINVAL, ENOMEM, or the    *)
(* calloc of the second half of a split hole fails.                        *)
Refuse(m, r) ==
    LET q == Normalise(r) IN
    /\ \/ Misaligned(q)
       \/ NoFit(holes[m], q)
       \/ /\ CallocMayFail
          /\ \E i \in DOMAIN holes[m] :
                LET va == Place(holes[m][i], q) IN
                FirstFit(holes[m], q, i) /\ Splits(holes[m][i], va, WAdd(va, q.size))
    /\ UNCHANGED <<holes, held>>

(* Bound: a call starts only while a struct amdgpu_va is left for it. *)
HandleLeft ==
    Cardinality({t \in Threads : pc[t] # "idle"})
      < Cardinality({h \in Handles : held[h] = NoRange})

Alloc(t, size, align, base, flags) ==
    LET m == MgrOf(flags)
        r == Normalise([size |-> size, align |-> align, base |-> base,
                        top |-> "REPLAYABLE" \in flags, mgr |-> m])
    IN  /\ pc[t] = "idle"
        /\ HandleLeft
        /\ req' = [req EXCEPT ![t] = r]
        /\ \/ Take(t, m, r) /\ pc' = [pc EXCEPT ![t] = "publish"]
           \/ /\ Refuse(m, r)
              /\ pc' = [pc EXCEPT ![t] =
                           IF "32_BIT" \in flags THEN "failed" ELSE "fallback"]
        /\ UNCHANGED lost

Fallback(t) ==
    LET m == Sibling32(req[t].mgr)
        r == [req[t] EXCEPT !.mgr = m]
    IN  /\ pc[t] = "fallback"
        /\ req' = [req EXCEPT ![t] = r]
        /\ \/ Take(t, m, r) /\ pc' = [pc EXCEPT ![t] = "publish"]
           \/ Refuse(m, r) /\ pc' = [pc EXCEPT ![t] = "failed"]
        /\ UNCHANGED lost

(* The call returns to its client. *)
Return(t) ==
    /\ pc' = [pc EXCEPT ![t] = "idle"]
    /\ req' = [req EXCEPT ![t] = NoRequest]

ReturnError(t) ==
    /\ pc[t] = "failed"
    /\ Return(t)
    /\ UNCHANGED <<holes, held, lost>>

(* The struct amdgpu_va is allocated and handed to the client. *)
Publish(t, h) ==
    /\ pc[t] = "publish"
    /\ held[h] = NoRange
    /\ held' = [held EXCEPT ![h] = held[t], ![t] = NoRange]
    /\ Return(t)
    /\ UNCHANGED <<holes, lost>>

Addresses(g) == g.address .. g.address + g.size - 1

(* The range of owner o goes through amdgpu_vamgr_free_va. *)
GiveBack(o) ==
    LET g == held[o]
        m == g.mgr
        size == AlignSize(g.size)
    IN  /\ held' = [held EXCEPT ![o] = NoRange]
        /\ \/ /\ g.address # InvalidVa
              /\ \E k \in 0 .. Len(holes[m]) :
                    /\ StopsAt(holes[m], g.address, k)
                    /\ holes' = [holes EXCEPT ![m] = FreeVa(@, k, g.address, size)]
              /\ UNCHANGED lost
           \/ /\ \/ g.address = InvalidVa
                 \/ /\ CallocMayFail
                    /\ \E k \in 0 .. Len(holes[m]) :
                          /\ StopsAt(holes[m], g.address, k)
                          /\ NeedsHole(holes[m], k, g.address, size)
              /\ lost' = [lost EXCEPT ![m] = @ \cup Addresses(g)]
              /\ UNCHANGED holes

(* A bug: the error path forgets the range. *)
UndoLeaks(t) ==
    /\ pc[t] = "publish"
    /\ CallocMayFail
    /\ held' = [held EXCEPT ![t] = NoRange]
    /\ Return(t)
    /\ UNCHANGED <<holes, lost>>

(* The calloc of the struct amdgpu_va failed. *)
Undo(t) ==
    /\ pc[t] = "publish"
    /\ CallocMayFail
    /\ GiveBack(t)
    /\ Return(t)

(* amdgpu_va_range_free; an address of 0 is taken for "no range". *)
RangeFree(t, h) ==
    /\ pc[t] = "idle"
    /\ held[h].address # 0
    /\ GiveBack(h)
    /\ UNCHANGED <<pc, req>>

-----------------------------------------------------------------------------
ThreadNext(t) ==
    \/ \E size \in Sizes, align \in Alignments, base \in Bases, flags \in FlagSets :
          Alloc(t, size, align, base, flags)
    \/ Fallback(t)
    \/ ReturnError(t)
    \/ \E h \in Handles : Publish(t, h)
    \/ Undo(t)
    \/ \E h \in Handles : RangeFree(t, h)

Next == \E t \in Threads : ThreadNext(t)

Spec == Init /\ [][Next]_vars

-----------------------------------------------------------------------------
TypeOK ==
    /\ holes \in [Managers -> Seq(Hole)]
    /\ held \in [Owners -> VaRec]
    /\ pc \in [Threads -> {"idle", "fallback", "publish", "failed"}]
    /\ req \in [Threads -> Request]
    /\ lost \in [Managers -> SUBSET Nat]

Owned(m) == {o \in Owners : held[o].mgr = m}

HoleAddresses(h) == h.offset .. h.offset + h.size - 1

Span(m) == Start(m) .. VaMaxOf(m) - 1

(* Every address of a manager is, at any moment, in exactly one place: one *)
(* hole, one range (handed out or still in the hands of a call), or the    *)
(* addresses dropped by a failed calloc; and no place reaches outside the  *)
(* manager.  Two clients never get the same address, whatever splits,      *)
(* merges and undos happened in between.                                   *)
EveryAddressOnce ==
    \A m \in Managers :
       LET parts == {<<"hole", i, HoleAddresses(holes[m][i])>> : i \in DOMAIN holes[m]}
                      \cup {<<"held", o, Addresses(held[o])>> : o \in Owned(m)}
                      \cup {<<"lost", 0, lost[m]>>}
       IN  /\ \A a \in Span(m) : \E p \in parts : a \in p[3]
           /\ \A p \in parts : p[3] \subseteq Span(m)
           /\ \A p, q \in parts : p # q => p[3] \cap q[3] = {}

(* The list stays sorted, highest hole first, and no two holes touch: what *)
(* free_va's "Grow upper hole if it's adjacent" and "Merge lower hole" are *)
(* for.  A hole left next to another would make a large request fail that  *)
(* the free space could serve.                                             *)
Coalesced ==
    \A m \in Managers : \A i, j \in DOMAIN holes[m] :
       i < j => holes[m][j].offset + holes[m][j].size < holes[m][i].offset

(* The aligned addresses at which a request would fit between the ranges   *)
(* in use, computed from the ranges alone, never from the hole list.       *)
FreeSpace(m) ==
    (Span(m) \ lost[m]) \ UNION {Addresses(held[o]) : o \in Owned(m)}

FreeRuns(m, r) ==
    {a \in Span(m) : /\ a % r.align = 0
                     /\ r.base # 0 => a = r.base
                     /\ a .. a + r.size - 1 \subseteq FreeSpace(m)}

(* An allocation takes the lowest address that would do, or the highest    *)
(* one for AMDGPU_VA_RANGE_REPLAYABLE: the walk of the hole list from one  *)
(* end finds the same place as a search of the whole address space.        *)
TakesBestPlace ==
    [][\A t \in Threads :
          pc[t] # "publish" /\ pc'[t] = "publish" =>
             LET r == req'[t]
                 a == held'[t].address
             IN  /\ a \in FreeRuns(r.mgr, r)
                 /\ \A b \in FreeRuns(r.mgr, r) : IF r.top THEN b <= a ELSE a <= b]_vars

(* While memory lasts, a manager turns a request down only when no aligned *)
(* run of free addresses could hold it: fragmentation of the list never    *)
(* hides free space.                                                       *)
FailsOnlyWhenFull ==
    [][\A t \in Threads :
          pc'[t] # pc[t] /\ pc'[t] \in {"fallback", "failed"} =>
             FreeRuns(req'[t].mgr, req'[t]) = {}]_vars

(* A client that names an address some range already covers is refused     *)
(* (the doc comment of amdgpu_va_range_alloc on va_base_required).         *)
BaseInUseRefused ==
    [][\A t \in Threads :
          pc[t] # "publish" /\ pc'[t] = "publish" /\ req'[t].base # 0 =>
             \A o \in Owners : req'[t].base \notin Addresses(held[o])]_vars

-----------------------------------------------------------------------------
(* What the theorems assume of the device and its clients. *)

(* The four managers lie one above the other. *)
Layout ==
    /\ VaOffset <= Max32
    /\ HasHigh => MAX2(VaMax, Low32) <= HighOffset /\ HighOffset <= MaxHigh32

(* No sum of a request wraps past the last address. *)
NoWrap ==
    /\ \A size \in Sizes :
          /\ size + VaAlign <= AddrMod
          /\ AlignSize(size) + VaAlign <= AddrMod
          /\ \A base \in Bases : base + AlignSize(size) < AddrMod
    /\ \A m \in Managers, align \in Alignments :
          VaMaxOf(m) + MAX2(align, VaAlign) <= AddrMod

(* A device without a high range reports 0 for its offset too. *)
NoHighOffset == ~HasHigh => HighOffset = 0

(* Every client asks for some memory: a range of size 0, once freed, would *)
(* be linked as an empty hole beside its neighbours.                       *)
NonEmpty == 0 \notin Sizes

-----------------------------------------------------------------------------
(* The inductive invariant behind the theorems. *)

ListsSound ==
    \A m \in Reachable :
       ListWithin(holes[m], Start(m), VaMaxOf(m)) /\ ListApart(holes[m])

(* A range lies in its manager, clear of the manager's holes. *)
RangeSound(g) ==
    /\ g.mgr \in Reachable
    /\ Start(g.mgr) <= g.address
    /\ g.address + g.size <= VaMaxOf(g.mgr)
    /\ AlignSize(g.size) = g.size
    /\ ListAvoids(holes[g.mgr], g.address, g.size)

HeldSound == \A o \in Owners : held[o] = NoRange \/ RangeSound(held[o])

HeldApart ==
    \A o, p \in Owners :
       o # p /\ held[o].mgr = held[p].mgr =>
          Apart(held[o].address, held[o].size, held[p].address, held[p].size)

(* What a request keeps between the two searches of a call. *)
RequestSound(r) ==
    /\ r.mgr \in Reachable
    /\ AlignSize(r.size) = r.size
    /\ r.base + r.size < AddrMod
    /\ \A m \in Reachable : VaMaxOf(m) + MAX2(r.align, VaAlign) <= AddrMod

CallsSound ==
    \A t \in Threads :
       /\ pc[t] = "publish" <=> held[t] # NoRange
       /\ pc[t] = "fallback" => RequestSound(req[t])

SpaceInvariant == ListsSound /\ HeldSound /\ HeldApart /\ CallsSound

(* A manager that starts empty keeps its one hole of size 0; no other      *)
(* list ever holds an empty hole.                                          *)
ListsExact ==
    \A m \in Reachable :
       /\ ListSorted(holes[m])
       /\ Start(m) < VaMaxOf(m) => ListPositive(holes[m])

UnusedIdle ==
    \A m \in Managers \ Reachable : holes[m] = <<FullHole(m)>> /\ lost[m] = {}

HeldPositive == \A o \in Owners : held[o] # NoRange => held[o].size > 0

Accounted ==
    \A m \in Reachable : \A x \in Span(m) :
       \/ InHoles(holes[m], x)
       \/ \E o \in Owned(m) : x \in Addresses(held[o])
       \/ x \in lost[m]

LostApart ==
    \A m \in Reachable : \A x \in lost[m] :
       /\ x \in Span(m)
       /\ ~InHoles(holes[m], x)
       /\ \A o \in Owned(m) : x \notin Addresses(held[o])

(* A request that goes on to the fallback was normalised by the first      *)
(* search.                                                                 *)
RequestExact(r) == r.size > 0 /\ r.align >= VaAlign

CallsExact == \A t \in Threads : pc[t] = "fallback" => RequestExact(req[t])

RangesExact ==
    ListsExact /\ UnusedIdle /\ HeldPositive /\ Accounted /\ LostApart

SpaceExact == RangesExact /\ CallsExact

-----------------------------------------------------------------------------
(* The device as its clients see it: one address space, whatever managers  *)
(* it is cut into.                                                         *)
VaSpaceOf == INSTANCE VaSpace WITH
    Space <- UNION {Span(m) : m \in Reachable},
    owned <- [o \in Owners |-> [address |-> held[o].address, size |-> held[o].size]]

(* Every step of the managers claims free addresses, hands a range over,   *)
(* drops one, or changes nothing a client can see.                         *)
ImplementsVaSpace == VaSpaceOf!SpaceSpec
=============================================================================
