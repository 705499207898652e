--------------------------- MODULE VaRangeProofs ---------------------------
(***************************************************************************)
(* Theorems about VaRange: its types, the invariant that keeps the holes   *)
(* and the ranges of a device apart, that the managers implement VaSpace,  *)
(* the account of every single address, and what a search finds.           *)
(***************************************************************************)
EXTENDS VaRange, VaMgrProofs

-----------------------------------------------------------------------------
(* Types of the requests and of the layout. *)

LEMMA Words ==
  /\ AddrMod \in Nat \ {0} /\ 0 \in Addr
  /\ VaAlign \in Addr /\ VaAlign \in Nat \ {0}
  /\ \A a \in Addr : a \in Nat /\ a < AddrMod
  BY VaMgrAssumption, SMT DEF Addr

LEMMA NormaliseType ==
  ASSUME NEW r \in Request
  PROVE  /\ Normalise(r) \in Request
         /\ Normalise(r).align \in Addr \ {0}
         /\ Normalise(r).mgr = r.mgr
<1>1. MAX2(r.align, VaAlign) \in Addr \ {0}
  <2>1. r.align \in Addr
    BY DEF Request
  <2> QED
    BY <2>1, Words, SMT DEF MAX2
<1>2. AlignSize(r.size) \in Addr
  BY AlignSizeType DEF Request
<1> QED
  BY <1>1, <1>2 DEF Normalise, Request

LEMMA MgrOfType ==
  ASSUME NEW flags
  PROVE  MgrOf(flags) \in Managers /\ MgrOf(flags) \in Reachable
  BY DEF MgrOf, High, Managers, Reachable

LEMMA SiblingType ==
  ASSUME NEW m
  PROVE  Sibling32(m) \in Managers /\ (m \in Reachable => Sibling32(m) \in Reachable)
  BY DEF Sibling32, Managers, Reachable

LEMMA RequestType ==
  ASSUME NEW size \in Sizes, NEW align \in Alignments, NEW base \in Bases,
         NEW top \in BOOLEAN, NEW m \in Managers
  PROVE  [size |-> size, align |-> align, base |-> base, top |-> top, mgr |-> m] \in Request
  BY VaRangeAssumption DEF Request

LEMMA LayoutType ==
  ASSUME NEW m \in Managers
  PROVE  Start(m) \in Addr /\ VaMaxOf(m) \in Addr /\ FullHole(m) \in Hole
<1>1. VaOffset \in Addr /\ VaMax \in Addr /\ HighOffset \in Addr /\ HighMax \in Addr
      /\ Low32 \in Addr \ {0}
  BY VaRangeAssumption
<1>2. ASSUME NEW a \in Addr, NEW b \in Addr
      PROVE  MAX2(a, b) \in Addr /\ MIN2(a, b) \in Addr
  BY <1>2 DEF MAX2, MIN2
<1>3. ASSUME NEW a \in Addr
      PROVE  Next4G(a) \in Addr
  <2>1. RoundDown(a, Low32) \in Addr
    BY <1>1, Words, RoundDownType
  <2> QED
    BY <1>1, <2>1, WordFacts DEF Next4G, RoundDown
<1>4. Max32 \in Addr /\ MaxHigh32 \in Addr
  BY <1>1, <1>2, <1>3 DEF Max32, MaxHigh32
<1>5. /\ m = "vamgr_32" \/ m = "vamgr" \/ m = "vamgr_high_32" \/ m = "vamgr_high"
      /\ "vamgr_32" # "vamgr" /\ "vamgr_32" # "vamgr_high_32" /\ "vamgr_32" # "vamgr_high"
      /\ "vamgr" # "vamgr_high_32" /\ "vamgr" # "vamgr_high" /\ "vamgr_high_32" # "vamgr_high"
  BY DEF Managers
<1>6. Start(m) \in Addr
  BY <1>1, <1>4, <1>5 DEF Start
<1>7. VaMaxOf(m) \in Addr
  BY <1>1, <1>2, <1>3, <1>4, <1>5 DEF VaMaxOf
<1> QED
  BY <1>6, <1>7, WordFacts DEF FullHole, Hole

-----------------------------------------------------------------------------
(* Type correctness. *)

LEMMA InitTyped == Init => TypeOK
<1> SUFFICES ASSUME Init PROVE TypeOK
  OBVIOUS
<1>1. holes \in [Managers -> Seq(Hole)]
  <2>1. \A m \in Managers : <<FullHole(m)>> \in Seq(Hole)
    BY LayoutType, SMT
  <2> QED
    BY <2>1 DEF Init
<1>2. held \in [Owners -> VaRec]
  BY Words DEF Init, VaRec, NoRange
<1>3. 1 \in Addr
  BY VaMgrAssumption, SMT DEF Addr
<1>4. pc \in [Threads -> {"idle", "fallback", "publish", "failed"}]
  BY DEF Init
<1>5. req \in [Threads -> Request]
  BY <1>3, Words DEF Init, Request, NoRequest
<1>6. lost \in [Managers -> SUBSET Nat]
  BY DEF Init
<1> QED
  BY <1>1, <1>2, <1>4, <1>5, <1>6 DEF TypeOK

LEMMA TakeTyped ==
  ASSUME TypeOK, NEW t \in Threads, NEW m \in Managers, NEW r \in Request, Take(t, m, r)
  PROVE  holes' \in [Managers -> Seq(Hole)] /\ held' \in [Owners -> VaRec]
<1> DEFINE q == Normalise(r)
           place(i) == Place(holes[m][i], q)
<1>1. PICK i \in DOMAIN holes[m] :
         /\ holes' = [holes EXCEPT ![m] = SubtractHole(holes[m], i, place(i), WAdd(place(i), q.size))]
         /\ held' = [held EXCEPT ![t] = [mgr |-> m, address |-> place(i), size |-> r.size]]
  BY Zenon DEF Take
<1> DEFINE va == place(i)
           end == WAdd(va, q.size)
<1>2. holes[m] \in Seq(Hole)
  BY DEF TypeOK
<1>3. holes[m][i] \in Hole /\ q.align \in Addr \ {0} /\ q.size \in Addr /\ q.base \in Addr
  <2>1. q \in Request /\ q.align \in Addr \ {0}
    BY NormaliseType
  <2> QED
    BY <1>2, <2>1, EntryType DEF Request
<1> HIDE DEF q
<1>4. va \in Addr /\ end \in Addr
  BY <1>3, PlaceType, WordFacts
<1> HIDE DEF place
<1>5. SubtractHole(holes[m], i, va, end) \in Seq(Hole)
  BY <1>2, <1>4, SubtractHoleType
<1>6. holes' \in [Managers -> Seq(Hole)]
  BY <1>1, <1>5 DEF TypeOK
<1>7. [mgr |-> m, address |-> va, size |-> r.size] \in VaRec
  BY <1>4 DEF VaRec, Request
<1>8. held' \in [Owners -> VaRec]
  BY <1>1, <1>7 DEF TypeOK, Owners
<1> QED
  BY <1>6, <1>8

LEMMA GiveBackTyped ==
  ASSUME TypeOK, NEW o \in Owners, GiveBack(o)
  PROVE  /\ holes' \in [Managers -> Seq(Hole)]
         /\ held' \in [Owners -> VaRec]
         /\ lost' \in [Managers -> SUBSET Nat]
<1>1. held[o].address \in Addr /\ held[o].size \in Addr
  BY DEF TypeOK, VaRec
<1>2. held' \in [Owners -> VaRec]
  BY Words DEF GiveBack, TypeOK, VaRec, NoRange
<1>3. holes' \in [Managers -> Seq(Hole)]
  <2>1. CASE UNCHANGED holes
    BY <2>1 DEF TypeOK
  <2>2. CASE ~UNCHANGED holes
    <3> DEFINE m == held[o].mgr
               ns(k) == FreeVa(holes[m], k, held[o].address, AlignSize(held[o].size))
    <3>1. PICK k \in 0 .. Len(holes[m]) : holes' = [holes EXCEPT ![m] = ns(k)]
      BY <2>2, Zenon DEF GiveBack
    <3>2. m \in Managers => ns(k) \in Seq(Hole)
      BY <1>1, AlignSizeType, FreeVaType DEF TypeOK
    <3> HIDE DEF ns, m
    <3> QED
      BY <3>1, <3>2 DEF TypeOK
  <2> QED
    BY <2>1, <2>2
<1>4. lost' \in [Managers -> SUBSET Nat]
  <2>1. Addresses(held[o]) \in SUBSET Nat
    <3>1. PICK a \in Nat, n \in Nat : a = held[o].address /\ n = held[o].size
      BY <1>1, Words
    <3>2. a .. a + n - 1 \subseteq Nat
      BY SMT
    <3> QED
      BY <3>1, <3>2 DEF Addresses
  <2>2. CASE UNCHANGED lost
    BY <2>2 DEF TypeOK
  <2>3. CASE ~UNCHANGED lost
    <3>1. PICK m : lost' = [lost EXCEPT ![m] = lost[m] \cup Addresses(held[o])]
      BY <2>3 DEF GiveBack
    <3> QED
      BY <2>1, <3>1 DEF TypeOK
  <2> QED
    BY <2>2, <2>3
<1> QED
  BY <1>2, <1>3, <1>4

LEMMA ReturnTyped ==
  ASSUME TypeOK, NEW t \in Threads, Return(t)
  PROVE  /\ pc' \in [Threads -> {"idle", "fallback", "publish", "failed"}]
         /\ req' \in [Threads -> Request]
<1>1. NoRequest \in Request
  <2>1. 1 \in Addr
    BY VaMgrAssumption, SMT DEF Addr
  <2> QED
    BY <2>1, Words DEF NoRequest, Request
<1> QED
  BY <1>1 DEF TypeOK, Return

LEMMA NextTyped == TypeOK /\ [Next]_vars => TypeOK'
<1> SUFFICES ASSUME TypeOK, [Next]_vars PROVE TypeOK'
  OBVIOUS
<1>1. ASSUME NEW t \in Threads, NEW size \in Sizes, NEW align \in Alignments,
             NEW base \in Bases, NEW flags \in FlagSets, Alloc(t, size, align, base, flags)
      PROVE  TypeOK'
  <2> DEFINE m == MgrOf(flags)
             raw == [size |-> size, align |-> align, base |-> base,
                     top |-> "REPLAYABLE" \in flags, mgr |-> m]
             r == Normalise(raw)
  <2>1. m \in Managers /\ r \in Request
    <3>1. raw \in Request
      <4>1. ("REPLAYABLE" \in flags) \in BOOLEAN
        OBVIOUS
      <4> QED
        BY <4>1, MgrOfType, RequestType, Zenon
    <3> QED
      BY <3>1, NormaliseType, MgrOfType
  <2>2. /\ req' = [req EXCEPT ![t] = r]
        /\ \/ Take(t, m, r) /\ pc' = [pc EXCEPT ![t] = "publish"]
           \/ UNCHANGED <<holes, held>> /\ pc' = [pc EXCEPT ![t] = "failed"]
           \/ UNCHANGED <<holes, held>> /\ pc' = [pc EXCEPT ![t] = "fallback"]
        /\ UNCHANGED lost
    <3>1. Refuse(m, r) => UNCHANGED <<holes, held>>
      BY DEF Refuse
    <3>2. Alloc(t, size, align, base, flags)
      BY <1>1
    <3> QED
      BY <3>1, <3>2, Zenon DEF Alloc
  <2> HIDE DEF m, r
  <2>3. holes' \in [Managers -> Seq(Hole)] /\ held' \in [Owners -> VaRec]
    BY <2>1, <2>2, TakeTyped DEF TypeOK
  <2>4. pc' \in [Threads -> {"idle", "fallback", "publish", "failed"}]
    BY <2>2 DEF TypeOK
  <2> QED
    BY <2>1, <2>2, <2>3, <2>4 DEF TypeOK
<1>2. ASSUME NEW t \in Threads, Fallback(t)
      PROVE  TypeOK'
  <2> DEFINE m == Sibling32(req[t].mgr)
             r == [req[t] EXCEPT !.mgr = m]
  <2>1. m \in Managers /\ r \in Request
    BY SiblingType DEF TypeOK, Request
  <2>2. /\ req' = [req EXCEPT ![t] = r]
        /\ \/ Take(t, m, r) /\ pc' = [pc EXCEPT ![t] = "publish"]
           \/ UNCHANGED <<holes, held>> /\ pc' = [pc EXCEPT ![t] = "failed"]
        /\ UNCHANGED lost
    BY <1>2 DEF Fallback, Refuse
  <2> HIDE DEF m, r
  <2>3. holes' \in [Managers -> Seq(Hole)] /\ held' \in [Owners -> VaRec]
    BY <2>1, <2>2, TakeTyped DEF TypeOK
  <2>4. pc' \in [Threads -> {"idle", "fallback", "publish", "failed"}]
    BY <2>2 DEF TypeOK
  <2> QED
    BY <2>1, <2>2, <2>3, <2>4 DEF TypeOK
<1>3. ASSUME NEW t \in Threads, ReturnError(t)
      PROVE  TypeOK'
  BY <1>3, ReturnTyped DEF ReturnError, TypeOK
<1>4. ASSUME NEW t \in Threads, NEW h \in Handles, Publish(t, h)
      PROVE  TypeOK'
  <2>1. held' \in [Owners -> VaRec]
    BY <1>4, Words DEF Publish, TypeOK, Owners, NoRange, VaRec
  <2> QED
    BY <1>4, <2>1, ReturnTyped DEF Publish, TypeOK
<1>5. ASSUME NEW t \in Threads, Undo(t)
      PROVE  TypeOK'
  BY <1>5, ReturnTyped, GiveBackTyped DEF Undo, Owners, TypeOK
<1>6. ASSUME NEW t \in Threads, NEW h \in Handles, RangeFree(t, h)
      PROVE  TypeOK'
  BY <1>6, GiveBackTyped DEF RangeFree, Owners, TypeOK
<1>7. CASE UNCHANGED vars
  BY <1>7 DEF vars, TypeOK
<1> QED
  BY <1>1, <1>2, <1>3, <1>4, <1>5, <1>6, <1>7 DEF Next, ThreadNext

(* Every hole, range and request stays within the width of the code's      *)
(* integers, whatever the sizes, alignments and addresses clients pass.    *)
THEOREM TypeCorrect == Spec => []TypeOK
  BY InitTyped, NextTyped, PTL DEF Spec

-----------------------------------------------------------------------------
(* The requests that reach the search. *)

LEMMA NoRangeFacts ==
  /\ NoRange \in VaRec
  /\ NoRange.mgr = "none" /\ NoRange.address = 0 /\ NoRange.size = 0
  /\ "none" \notin Managers
  BY Words DEF NoRange, VaRec, Managers

LEMMA RangeFields ==
  ASSUME NEW g \in VaRec
  PROVE  g.address \in Nat /\ g.size \in Nat /\ g.address \in Addr /\ g.size \in Addr
  BY Words DEF VaRec

LEMMA ReachableType ==
  ASSUME NEW m \in Reachable
  PROVE  /\ m \in Managers
         /\ Start(m) \in Nat /\ VaMaxOf(m) \in Nat /\ VaMaxOf(m) < AddrMod
<1>1. m \in Managers
  BY DEF Reachable, Managers
<1> QED
  BY <1>1, LayoutType, Words

(* What amdgpu_va_range_alloc makes of the arguments of a client. *)
LEMMA AllocRequestSound ==
  ASSUME NoWrap, NEW size \in Sizes, NEW align \in Alignments, NEW base \in Bases,
         NEW raw \in Request, raw.size = size, raw.align = align, raw.base = base,
         raw.mgr \in Reachable
  PROVE  RequestSound(Normalise(raw))
<1> DEFINE r == Normalise(raw)
<1>1. /\ r.size = AlignSize(size) /\ r.align = MAX2(align, VaAlign)
      /\ r.base = base /\ r.mgr = raw.mgr
  BY DEF Normalise, Request
<1> HIDE DEF r
<1>2. size \in Nat /\ align \in Nat /\ VaAlign \in Nat
  BY Words, VaRangeAssumption
<1>3. MAX2(r.align, VaAlign) = MAX2(align, VaAlign)
  BY <1>1, <1>2, SMT DEF MAX2
<1>4. AlignSize(r.size) = r.size
  BY <1>1, <1>2, AlignSizeIdempotent DEF NoWrap
<1>5. r.base + r.size < AddrMod
  BY <1>1 DEF NoWrap
<1>6. \A m \in Reachable : VaMaxOf(m) + MAX2(r.align, VaAlign) <= AddrMod
  BY <1>3, ReachableType DEF NoWrap
<1> QED
  BY <1>1, <1>4, <1>5, <1>6 DEF RequestSound, r

LEMMA AllocRequestExact ==
  ASSUME NoWrap, NonEmpty, NEW size \in Sizes, NEW align \in Alignments,
         NEW raw \in Request, raw.size = size, raw.align = align
  PROVE  RequestExact(Normalise(raw))
<1>1. /\ Normalise(raw).size = AlignSize(size)
      /\ Normalise(raw).align = MAX2(align, VaAlign)
  BY DEF Normalise, Request
<1>2. size \in Nat /\ size > 0 /\ size + VaAlign <= AddrMod
  <2>1. size \in Nat /\ size # 0 /\ size + VaAlign <= AddrMod
    BY Words, VaRangeAssumption DEF NonEmpty, NoWrap
  <2> QED
    BY <2>1, SMT
<1>3. AlignSize(size) > 0
  BY <1>2, AlignSizePositive
<1>4. MAX2(align, VaAlign) >= VaAlign
  BY Words, VaRangeAssumption, SMT DEF MAX2
<1> QED
  BY <1>1, <1>3, <1>4 DEF RequestExact

(* What find_va takes, when it takes something. *)
Taken(t, m, g, ns) ==
    /\ g \in VaRec /\ g.mgr = m /\ AlignSize(g.size) = g.size
    /\ Start(m) <= g.address /\ g.address + g.size <= VaMaxOf(m)
    /\ CarvedSafely(holes[m], g.address, g.size, ns, Start(m), VaMaxOf(m))
    /\ holes' = [holes EXCEPT ![m] = ns]
    /\ held' = [held EXCEPT ![t] = g]

(* Which hole it comes from, and where in it. *)
PlacedIn(m, r, g, ns, i) ==
    /\ i \in DOMAIN holes[m]
    /\ ~Misaligned(Normalise(r))
    /\ FirstFit(holes[m], Normalise(r), i)
    /\ g.address = Place(holes[m][i], Normalise(r))
    /\ g.size = r.size
    /\ Covers(holes[m][i], g.address, g.size)
    /\ ns = SubtractHole(holes[m], i, g.address, g.address + g.size)

LEMMA TakePlaces ==
  ASSUME TypeOK, ListsSound, NEW t \in Threads, NEW m \in Reachable,
         NEW r \in Request, RequestSound(r), Take(t, m, r)
  PROVE  \E g, ns, i : Taken(t, m, g, ns) /\ PlacedIn(m, r, g, ns, i)
<1> DEFINE q == Normalise(r)
           va(i) == Place(holes[m][i], q)
           end(i) == WAdd(va(i), q.size)
<1>1. PICK i \in DOMAIN holes[m] :
         /\ ~Misaligned(q)
         /\ FirstFit(holes[m], q, i)
         /\ holes' = [holes EXCEPT ![m] = SubtractHole(holes[m], i, va(i), end(i))]
         /\ held' = [held EXCEPT ![t] = [mgr |-> m, address |-> va(i), size |-> r.size]]
  BY Zenon DEF Take
<1> DEFINE a == va(i)
           g == [mgr |-> m, address |-> a, size |-> r.size]
           ns == SubtractHole(holes[m], i, a, a + r.size)
<1>2. m \in Managers /\ Start(m) \in Nat /\ VaMaxOf(m) \in Nat /\ VaMaxOf(m) < AddrMod
  BY ReachableType
<1>3. holes[m] \in Seq(Hole) /\ holes[m][i] \in Hole
  BY <1>2, EntryType DEF TypeOK
<1>4. q.size = r.size /\ q.base = r.base /\ q.align = MAX2(r.align, VaAlign)
  BY DEF Normalise, Request, RequestSound
<1>5. q.size \in Nat /\ q.base \in Nat /\ q.align \in Nat \ {0}
  <2>1. q \in Request /\ q.align \in Addr \ {0}
    BY NormaliseType
  <2> QED
    BY <2>1, Words DEF Request
<1>6. q.base + q.size < AddrMod /\ VaMaxOf(m) + q.align <= AddrMod
  BY <1>4 DEF RequestSound
<1>7. Within(holes[m][i], Start(m), VaMaxOf(m)) /\ ListWithin(holes[m], Start(m), VaMaxOf(m))
  BY DEF ListsSound, ListWithin
<1>8. Takes(holes[m][i], q)
  BY <1>1 DEF FirstFit
<1> HIDE DEF q
<1>9. /\ a \in Nat
      /\ Covers(holes[m][i], a, q.size)
      /\ WAdd(a, q.size) = a + q.size
  BY <1>2, <1>3, <1>5, <1>6, <1>7, <1>8, PlaceCovered DEF Within
<1> HIDE DEF va
<1>10. r.size \in Nat /\ Covers(holes[m][i], a, r.size) /\ end(i) = a + r.size
  BY <1>4, <1>5, <1>9
<1>11. CarvedSafely(holes[m], a, r.size, ns, Start(m), VaMaxOf(m))
  BY <1>2, <1>3, <1>7, <1>9, <1>10, SubtractHoleSafe DEF ListsSound
<1>12. Start(m) <= a /\ a + r.size <= VaMaxOf(m)
  <2>1. PICK o \in Nat, z \in Nat : o = holes[m][i].offset /\ z = holes[m][i].size
    BY <1>3, HoleFields
  <2>2. Start(m) <= o /\ o + z <= VaMaxOf(m) /\ o <= a /\ a + r.size <= o + z
    BY <1>7, <1>10, <2>1 DEF Within, Covers
  <2> QED
    BY <1>2, <1>9, <1>10, <2>2, SMT
<1>13. a \in Addr /\ r.size \in Addr
  BY <1>2, <1>9, <1>10, <1>12, VaMgrAssumption, SMT DEF Addr
<1> HIDE DEF a, ns
<1>14. g \in VaRec /\ g.mgr = m /\ g.address = a /\ g.size = r.size
  BY <1>2, <1>13 DEF VaRec
<1>15. holes' = [holes EXCEPT ![m] = ns] /\ held' = [held EXCEPT ![t] = g]
  BY <1>1, <1>10 DEF a, ns
<1>16. PlacedIn(m, r, g, ns, i)
  BY <1>1, <1>10 DEF PlacedIn, a, ns, va, q
<1> HIDE DEF g
<1>17. Taken(t, m, g, ns)
  BY <1>11, <1>12, <1>14, <1>15 DEF Taken, RequestSound
<1> QED
  BY <1>16, <1>17

LEMMA TakeCarves ==
  ASSUME TypeOK, ListsSound, NEW t \in Threads, NEW m \in Reachable,
         NEW r \in Request, RequestSound(r), Take(t, m, r)
  PROVE  \E g, ns : Taken(t, m, g, ns)
  BY TakePlaces

(* A range just taken is clear of every range of its manager. *)
LEMMA TakenApart ==
  ASSUME TypeOK, HeldSound, NEW t \in Threads, NEW m \in Reachable,
         NEW g, NEW ns, Taken(t, m, g, ns), NEW o \in Owners, held[o].mgr = m
  PROVE  Apart(g.address, g.size, held[o].address, held[o].size)
<1>1. RangeSound(held[o])
  BY ReachableType, NoRangeFacts DEF HeldSound
<1>2. held[o].address \in Nat /\ held[o].size \in Nat
  BY RangeFields DEF TypeOK
<1>3. ListAvoids(holes[m], held[o].address, held[o].size)
  BY <1>1 DEF RangeSound
<1> QED
  BY <1>2, <1>3 DEF Taken, CarvedSafely

LEMMA TakeSound ==
  ASSUME TypeOK, ListsSound, HeldSound, HeldApart, NEW t \in Threads, NEW m \in Reachable,
         NEW g, NEW ns, Taken(t, m, g, ns), held[t] = NoRange
  PROVE  ListsSound' /\ HeldSound' /\ HeldApart' /\ held'[t] # NoRange
<1>1. /\ m \in Managers /\ t \in Owners
      /\ holes \in [Managers -> Seq(Hole)] /\ held \in [Owners -> VaRec]
  BY ReachableType DEF TypeOK, Owners
<1>2. holes'[m] = ns /\ \A x \in Managers : x # m => holes'[x] = holes[x]
  BY <1>1 DEF Taken
<1>3. held'[t] = g /\ \A o \in Owners : o # t => held'[o] = held[o]
  BY <1>1 DEF Taken
<1>4. ListsSound'
  <2> SUFFICES ASSUME NEW x \in Reachable
               PROVE  ListWithin(holes'[x], Start(x), VaMaxOf(x)) /\ ListApart(holes'[x])
    BY DEF ListsSound
  <2>1. CASE x = m
    BY <1>2, <2>1 DEF Taken, CarvedSafely
  <2>2. CASE x # m
    BY <1>2, <2>2, ReachableType DEF ListsSound
  <2> QED
    BY <2>1, <2>2
<1>5. ASSUME NEW o \in Owners
      PROVE  held'[o] = NoRange \/ RangeSound(held[o])'
  <2>1. CASE o = t
    <3>1. ListAvoids(holes'[m], g.address, g.size)
      BY <1>2 DEF Taken, CarvedSafely
    <3> QED
      BY <1>3, <2>1, <3>1 DEF Taken, RangeSound
  <2>2. CASE o # t /\ held[o] # NoRange
    <3>1. RangeSound(held[o]) /\ held'[o] = held[o]
      BY <1>3, <2>2 DEF HeldSound
    <3>2. held[o].address \in Nat /\ held[o].size \in Nat /\ held[o].mgr \in Managers
      BY <3>1, RangeFields, ReachableType DEF TypeOK, RangeSound
    <3>3. ListAvoids(holes'[held[o].mgr], held[o].address, held[o].size)
      <4>1. CASE held[o].mgr = m
        BY <1>2, <3>1, <3>2, <4>1 DEF Taken, CarvedSafely, RangeSound
      <4>2. CASE held[o].mgr # m
        BY <1>2, <3>1, <3>2, <4>2 DEF RangeSound
      <4> QED
        BY <4>1, <4>2
    <3> QED
      BY <3>1, <3>3 DEF RangeSound
  <2> QED
    BY <1>3, <2>1, <2>2
<1>6. HeldSound'
  BY <1>5 DEF HeldSound
<1>7. HeldApart'
  <2> SUFFICES ASSUME NEW o \in Owners, NEW p \in Owners, o # p, held'[o].mgr = held'[p].mgr
               PROVE  Apart(held'[o].address, held'[o].size, held'[p].address, held'[p].size)
    BY DEF HeldApart
  <2>1. CASE o = t
    <3>1. held'[p] = held[p] /\ held[p].mgr = m
      BY <1>3, <2>1 DEF Taken
    <3> QED
      BY <1>3, <2>1, <3>1, TakenApart
  <2>2. CASE p = t
    <3>1. held'[o] = held[o] /\ held[o].mgr = m
      BY <1>3, <2>2 DEF Taken
    <3>2. Apart(g.address, g.size, held[o].address, held[o].size)
      BY <3>1, TakenApart
    <3>3. /\ g.address \in Nat /\ g.size \in Nat
          /\ held[o].address \in Nat /\ held[o].size \in Nat
      BY RangeFields DEF TypeOK, Taken
    <3> QED
      BY <1>3, <2>2, <3>1, <3>2, <3>3, ApartSymmetric
  <2>3. CASE o # t /\ p # t
    BY <1>3, <2>3 DEF HeldApart
  <2> QED
    BY <2>1, <2>2, <2>3
<1>8. held'[t] # NoRange
  BY <1>1, <1>3, NoRangeFacts DEF Taken
<1> QED
  BY <1>4, <1>6, <1>7, <1>8

(* What a range given back leaves: its holes grown or, if the calloc       *)
(* failed, as they were.                                                   *)
Given(o, m, ns) ==
    /\ JoinedSafely(holes[m], held[o].address, held[o].size, ns, Start(m), VaMaxOf(m))
    /\ holes' = [holes EXCEPT ![m] = ns]
    /\ held' = [held EXCEPT ![o] = NoRange]

(* The addresses join the holes or, if the calloc failed, are lost. *)
JoinedOrLost(o, m, ns) ==
    \/ /\ \E k \in 0 .. Len(holes[m]) :
             /\ StopsAt(holes[m], held[o].address, k)
             /\ ns = FreeVa(holes[m], k, held[o].address, held[o].size)
       /\ UNCHANGED lost
    \/ /\ ns = holes[m]
       /\ lost' = [lost EXCEPT ![m] = @ \cup Addresses(held[o])]

LEMMA GiveBackJoins ==
  ASSUME TypeOK, ListsSound, NEW o \in Owners, RangeSound(held[o]), GiveBack(o)
  PROVE  \E ns : Given(o, held[o].mgr, ns) /\ JoinedOrLost(o, held[o].mgr, ns)
<1> DEFINE m == held[o].mgr
           a == held[o].address
           n == held[o].size
<1>1. /\ m \in Reachable /\ m \in Managers /\ a \in Nat /\ n \in Nat
      /\ Start(m) <= a /\ a + n <= VaMaxOf(m) /\ AlignSize(n) = n
      /\ ListAvoids(holes[m], a, n)
  BY RangeFields, ReachableType DEF RangeSound, TypeOK
<1>2. Start(m) \in Nat /\ VaMaxOf(m) \in Nat /\ VaMaxOf(m) < AddrMod
  BY <1>1, ReachableType
<1>3. /\ holes[m] \in Seq(Hole)
      /\ ListWithin(holes[m], Start(m), VaMaxOf(m)) /\ ListApart(holes[m])
  BY <1>1 DEF TypeOK, ListsSound
<1>4. held' = [held EXCEPT ![o] = NoRange]
  BY DEF GiveBack
<1>5. \/ /\ UNCHANGED holes
         /\ lost' = [lost EXCEPT ![m] = @ \cup Addresses(held[o])]
      \/ /\ \E k \in 0 .. Len(holes[m]) :
               /\ StopsAt(holes[m], a, k)
               /\ holes' = [holes EXCEPT ![m] = FreeVa(holes[m], k, a, n)]
         /\ UNCHANGED lost
  <2>1. \/ /\ UNCHANGED holes
           /\ lost' = [lost EXCEPT ![m] = @ \cup Addresses(held[o])]
        \/ /\ \E k \in 0 .. Len(holes[m]) :
                 /\ StopsAt(holes[m], a, k)
                 /\ holes' = [holes EXCEPT ![m] = FreeVa(holes[m], k, a, AlignSize(n))]
           /\ UNCHANGED lost
    BY Zenon DEF GiveBack
  <2> QED
    BY <1>1, <2>1
<1> HIDE DEF m, a, n
<1>6. ASSUME UNCHANGED holes, lost' = [lost EXCEPT ![m] = @ \cup Addresses(held[o])]
      PROVE  Given(o, m, holes[m]) /\ JoinedOrLost(o, m, holes[m])
  <2>1. holes' = [holes EXCEPT ![m] = holes[m]]
    BY <1>6 DEF TypeOK
  <2>2. JoinedSafely(holes[m], a, n, holes[m], Start(m), VaMaxOf(m))
    BY <1>3 DEF JoinedSafely
  <2> QED
    BY <1>4, <1>6, <2>1, <2>2 DEF Given, JoinedOrLost, a, n
<1>7. ASSUME NEW k \in 0 .. Len(holes[m]), StopsAt(holes[m], a, k),
             holes' = [holes EXCEPT ![m] = FreeVa(holes[m], k, a, n)], UNCHANGED lost
      PROVE  \E ns : Given(o, m, ns) /\ JoinedOrLost(o, m, ns)
  <2> DEFINE ns == FreeVa(holes[m], k, a, n)
  <2>1. JoinedSafely(holes[m], a, n, ns, Start(m), VaMaxOf(m))
    BY <1>1, <1>2, <1>3, FreeVaSafe
  <2>2. JoinedOrLost(o, m, ns)
    BY <1>7 DEF JoinedOrLost, a, n
  <2> HIDE DEF ns
  <2>3. Given(o, m, ns)
    BY <1>4, <1>7, <2>1 DEF Given, a, n, ns
  <2> QED
    BY <2>2, <2>3
<1> QED
  BY <1>5, <1>6, <1>7 DEF m

LEMMA GiveBackSound ==
  ASSUME TypeOK, ListsSound, HeldSound, HeldApart,
         NEW o \in Owners, held[o] # NoRange, GiveBack(o)
  PROVE  ListsSound' /\ HeldSound' /\ HeldApart'
<1> DEFINE m == held[o].mgr
<1>1. RangeSound(held[o])
  BY DEF HeldSound
<1>2. PICK ns : Given(o, m, ns)
  BY <1>1, GiveBackJoins
<1>3. m \in Reachable /\ m \in Managers
  BY <1>1, ReachableType DEF RangeSound
<1> HIDE DEF m
<1>5. holes'[m] = ns /\ \A x \in Managers : x # m => holes'[x] = holes[x]
  BY <1>2, <1>3 DEF Given, TypeOK
<1>6. held'[o] = NoRange /\ \A p \in Owners : p # o => held'[p] = held[p]
  BY <1>2 DEF Given, TypeOK
<1>7. ListsSound'
  <2> SUFFICES ASSUME NEW x \in Reachable
               PROVE  ListWithin(holes'[x], Start(x), VaMaxOf(x)) /\ ListApart(holes'[x])
    BY DEF ListsSound
  <2>1. CASE x = m
    BY <1>2, <1>5, <2>1 DEF Given, JoinedSafely
  <2>2. CASE x # m
    BY <1>5, <2>2, ReachableType DEF ListsSound
  <2> QED
    BY <2>1, <2>2
<1>8. ASSUME NEW p \in Owners
      PROVE  held'[p] = NoRange \/ RangeSound(held[p])'
  <2>1. CASE p = o
    BY <1>6, <2>1
  <2>2. CASE p # o /\ held[p] # NoRange
    <3>1. RangeSound(held[p]) /\ held'[p] = held[p]
      BY <1>6, <2>2 DEF HeldSound
    <3>2. held[p].address \in Nat /\ held[p].size \in Nat /\ held[p].mgr \in Managers
      BY <3>1, RangeFields, ReachableType DEF TypeOK, RangeSound
    <3>3. ListAvoids(holes'[held[p].mgr], held[p].address, held[p].size)
      <4>1. CASE held[p].mgr = m
        <5>1. Apart(held[o].address, held[o].size, held[p].address, held[p].size)
          BY <2>2, <4>1 DEF HeldApart, m
        <5> QED
          BY <1>2, <1>5, <3>1, <3>2, <4>1, <5>1 DEF Given, JoinedSafely, RangeSound
      <4>2. CASE held[p].mgr # m
        BY <1>5, <3>1, <3>2, <4>2 DEF RangeSound
      <4> QED
        BY <4>1, <4>2
    <3> QED
      BY <3>1, <3>3 DEF RangeSound
  <2> QED
    BY <1>6, <2>1, <2>2
<1>9. HeldApart'
  <2> SUFFICES ASSUME NEW p \in Owners, NEW q \in Owners, p # q, held'[p].mgr = held'[q].mgr
               PROVE  Apart(held'[p].address, held'[p].size, held'[q].address, held'[q].size)
    BY DEF HeldApart
  <2>1. CASE p = o \/ q = o
    BY <1>6, <2>1, NoRangeFacts DEF Apart
  <2>2. CASE p # o /\ q # o
    BY <1>6, <2>2 DEF HeldApart
  <2> QED
    BY <2>1, <2>2
<1> QED
  BY <1>7, <1>8, <1>9 DEF HeldSound

-----------------------------------------------------------------------------
(* The invariant. *)

(* No manager ends before it starts, so that its first hole spans it. *)
LEMMA LayoutOrdered ==
  ASSUME Layout, NEW m \in Reachable
  PROVE  Start(m) <= VaMaxOf(m)
<1>0. Start(m) \in Nat /\ VaMaxOf(m) \in Nat
  BY ReachableType
<1>1. /\ VaOffset \in Nat /\ VaMax \in Nat /\ HighOffset \in Nat /\ HighMax \in Nat
      /\ Low32 \in Nat
  BY Words, VaRangeAssumption
<1>2. CASE m = "vamgr_32"
  BY <1>2 DEF Layout, Start, VaMaxOf
<1>3. CASE m = "vamgr"
  <2>1. Start(m) = Max32 /\ VaMaxOf(m) = MAX2(VaMax, Low32)
    BY <1>3 DEF Start, VaMaxOf
  <2> QED
    BY <1>1, <2>1, SMT DEF Max32, MIN2, MAX2
<1>4. CASE m = "vamgr_high_32"
  <2>1. HasHigh /\ Start(m) = HighOffset /\ VaMaxOf(m) = MaxHigh32
    BY <1>4 DEF Reachable, Start, VaMaxOf
  <2> QED
    BY <2>1 DEF Layout
<1>5. CASE m = "vamgr_high"
  <2>1. Start(m) = MaxHigh32 /\ VaMaxOf(m) = MAX2(HighMax, Next4G(MaxHigh32))
    BY <1>5 DEF Start, VaMaxOf
  <2>2. MaxHigh32 <= HighMax
    <3>1. Next4G(HighOffset) \in Nat
      <4>1. HighOffset \in Addr /\ Low32 \in Addr \ {0}
        BY VaRangeAssumption
      <4>2. RoundDown(HighOffset, Low32) \in Addr
        BY <4>1, Words, RoundDownType
      <4> QED
        BY <4>1, <4>2, Words, WordFacts DEF Next4G, RoundDown
    <3> QED
      BY <1>1, <3>1, SMT DEF MaxHigh32, MIN2
  <2>3. HighMax <= MAX2(HighMax, Next4G(MaxHigh32))
    BY <1>0, <1>1, <2>1, SMT DEF MAX2
  <2> QED
    BY <1>0, <1>1, <2>1, <2>2, <2>3, SMT
<1> QED
  BY <1>2, <1>3, <1>4, <1>5, ReachableType DEF Managers

LEMMA FullHoleSpans ==
  ASSUME Layout, NEW m \in Reachable
  PROVE  FullHole(m).offset = Start(m) /\ FullHole(m).size = VaMaxOf(m) - Start(m)
  BY LayoutOrdered, ReachableType, SMT DEF FullHole, WSub

LEMMA InitSound == Layout /\ Init => SpaceInvariant
<1> SUFFICES ASSUME Layout, Init PROVE SpaceInvariant
  OBVIOUS
<1>1. ASSUME NEW m \in Reachable
      PROVE  ListWithin(holes[m], Start(m), VaMaxOf(m)) /\ ListApart(holes[m])
  <2>1. holes[m] = <<FullHole(m)>>
    BY ReachableType DEF Init
  <2>2. Within(FullHole(m), Start(m), VaMaxOf(m))
    BY LayoutOrdered, FullHoleSpans, ReachableType, SMT DEF Within
  <2>3. DOMAIN holes[m] = {1} /\ holes[m][1] = FullHole(m)
    BY <2>1, SMT
  <2> QED
    BY <2>2, <2>3 DEF ListWithin, ListApart
<1>2. \A o \in Owners : held[o] = NoRange
  BY DEF Init
<1>3. HeldSound /\ HeldApart
  BY <1>2, NoRangeFacts DEF HeldSound, HeldApart, Apart
<1>4. CallsSound
  BY <1>2 DEF Init, CallsSound, Owners
<1> QED
  BY <1>1, <1>3, <1>4 DEF ListsSound, SpaceInvariant

(* One search of a call, whichever manager it is in. *)
Searches(t, m, r) ==
    /\ RequestSound(r) /\ r.mgr = m
    /\ req' = [req EXCEPT ![t] = r]
    /\ \/ Take(t, m, r) /\ pc' = [pc EXCEPT ![t] = "publish"]
       \/ Refuse(m, r) /\ pc' = [pc EXCEPT ![t] = "failed"]
       \/ Refuse(m, r) /\ pc' = [pc EXCEPT ![t] = "fallback"]
    /\ UNCHANGED lost

LEMMA AllocSearches ==
  ASSUME NoWrap, NEW t \in Threads, NEW size \in Sizes, NEW align \in Alignments,
         NEW base \in Bases, NEW flags \in FlagSets, Alloc(t, size, align, base, flags)
  PROVE  \E m \in Reachable, r \in Request :
            /\ Searches(t, m, r) /\ pc[t] = "idle"
            /\ NonEmpty => RequestExact(r)
<1> DEFINE m == MgrOf(flags)
           raw == [size |-> size, align |-> align, base |-> base,
                   top |-> "REPLAYABLE" \in flags, mgr |-> m]
           r == Normalise(raw)
<1>1. m \in Reachable /\ m \in Managers
  BY MgrOfType
<1>2. ("REPLAYABLE" \in flags) \in BOOLEAN
  OBVIOUS
<1>3. raw \in Request
  BY <1>1, <1>2, RequestType, Zenon
<1>4. /\ raw.size = size /\ raw.align = align /\ raw.base = base /\ raw.mgr = m
  OBVIOUS
<1>5. /\ pc[t] = "idle"
      /\ req' = [req EXCEPT ![t] = r]
      /\ \/ Take(t, m, r) /\ pc' = [pc EXCEPT ![t] = "publish"]
         \/ Refuse(m, r) /\ pc' = [pc EXCEPT ![t] = "failed"]
         \/ Refuse(m, r) /\ pc' = [pc EXCEPT ![t] = "fallback"]
      /\ UNCHANGED lost
  BY Zenon DEF Alloc
<1> HIDE DEF raw, m
<1>6. RequestSound(r) /\ r \in Request /\ r.mgr = m
  BY <1>1, <1>3, <1>4, AllocRequestSound, NormaliseType
<1>7. NonEmpty => RequestExact(r)
  BY <1>3, <1>4, AllocRequestExact
<1> HIDE DEF r
<1>8. Searches(t, m, r)
  BY <1>5, <1>6 DEF Searches
<1> QED
  BY <1>1, <1>5, <1>6, <1>7, <1>8

LEMMA FallbackSearches ==
  ASSUME TypeOK, CallsSound, NEW t \in Threads, Fallback(t)
  PROVE  \E m \in Reachable, r \in Request :
            /\ Searches(t, m, r) /\ pc[t] = "fallback"
            /\ CallsExact => RequestExact(r)
<1> DEFINE m == Sibling32(req[t].mgr)
           r == [req[t] EXCEPT !.mgr = m]
<1>1. pc[t] = "fallback" /\ RequestSound(req[t])
  BY DEF Fallback, CallsSound
<1>2. m \in Reachable /\ m \in Managers
  BY <1>1, SiblingType DEF RequestSound
<1>3. req[t] \in Request
  BY DEF TypeOK
<1>4. /\ r \in Request
      /\ r.size = req[t].size /\ r.align = req[t].align /\ r.base = req[t].base
      /\ r.mgr = m
  BY <1>2, <1>3 DEF Request
<1>5. /\ req' = [req EXCEPT ![t] = r]
      /\ \/ Take(t, m, r) /\ pc' = [pc EXCEPT ![t] = "publish"]
         \/ Refuse(m, r) /\ pc' = [pc EXCEPT ![t] = "failed"]
      /\ UNCHANGED lost
  BY DEF Fallback
<1> HIDE DEF r, m
<1>6. RequestSound(r)
  BY <1>1, <1>2, <1>4 DEF RequestSound
<1>7. CallsExact => RequestExact(r)
  BY <1>1, <1>4 DEF CallsExact, RequestExact
<1>8. Searches(t, m, r)
  BY <1>4, <1>5, <1>6 DEF Searches
<1> QED
  BY <1>1, <1>2, <1>4, <1>7, <1>8

(* Only the caller's own range and request change in a search. *)
LEMMA SearchCalls ==
  ASSUME TypeOK, CallsSound, NEW t \in Threads, NEW r \in Request, RequestSound(r),
         req' = [req EXCEPT ![t] = r],
         NEW c \in {"publish", "failed", "fallback"}, pc' = [pc EXCEPT ![t] = c],
         \A u \in Threads : u # t => held'[u] = held[u],
         c = "publish" <=> held'[t] # NoRange
  PROVE  CallsSound'
<1>1. ASSUME NEW u \in Threads
      PROVE  /\ pc'[u] = "publish" <=> held'[u] # NoRange
             /\ pc'[u] = "fallback" => RequestSound(req[u])'
  <2>1. CASE u = t
    <3>1. pc'[t] = c /\ req'[t] = r
      BY DEF TypeOK
    <3> QED
      BY <2>1, <3>1 DEF RequestSound
  <2>2. CASE u # t
    <3>1. pc'[u] = pc[u] /\ req'[u] = req[u] /\ held'[u] = held[u]
      BY <2>2 DEF TypeOK
    <3> QED
      BY <3>1 DEF CallsSound, RequestSound
  <2> QED
    BY <2>1, <2>2
<1> QED
  BY <1>1 DEF CallsSound

LEMMA SearchSound ==
  ASSUME TypeOK, SpaceInvariant, NEW t \in Threads, pc[t] # "publish",
         NEW m \in Reachable, NEW r \in Request, Searches(t, m, r)
  PROVE  SpaceInvariant'
<1>0. /\ RequestSound(r) /\ req' = [req EXCEPT ![t] = r]
      /\ \/ Take(t, m, r) /\ pc' = [pc EXCEPT ![t] = "publish"]
         \/ UNCHANGED <<holes, held>> /\ pc' = [pc EXCEPT ![t] = "failed"]
         \/ UNCHANGED <<holes, held>> /\ pc' = [pc EXCEPT ![t] = "fallback"]
  <2>1. Refuse(m, r) => UNCHANGED <<holes, held>>
    BY DEF Refuse
  <2> QED
    BY <2>1 DEF Searches
<1>1. ListsSound /\ HeldSound /\ HeldApart /\ CallsSound /\ held[t] = NoRange
  BY DEF SpaceInvariant, CallsSound
<1>2. CASE Take(t, m, r) /\ pc' = [pc EXCEPT ![t] = "publish"]
  <2>1. PICK g, ns : Taken(t, m, g, ns)
    BY <1>0, <1>1, <1>2, TakeCarves
  <2>2. ListsSound' /\ HeldSound' /\ HeldApart' /\ held'[t] # NoRange
    BY <1>1, <2>1, TakeSound
  <2>3. \A u \in Threads : u # t => held'[u] = held[u]
    BY <2>1 DEF Taken, TypeOK, Owners
  <2>4. CallsSound'
    BY <1>0, <1>1, <1>2, <2>2, <2>3, SearchCalls
  <2> QED
    BY <2>2, <2>4 DEF SpaceInvariant
<1>3. ASSUME UNCHANGED <<holes, held>>, NEW c \in {"failed", "fallback"},
             pc' = [pc EXCEPT ![t] = c]
      PROVE  SpaceInvariant'
  <2>1. ListsSound' /\ HeldSound' /\ HeldApart'
    BY <1>1, <1>3 DEF ListsSound, HeldSound, HeldApart, RangeSound
  <2>2. CallsSound'
    BY <1>0, <1>1, <1>3, SearchCalls
  <2> QED
    BY <2>1, <2>2 DEF SpaceInvariant
<1> QED
  BY <1>0, <1>2, <1>3

(* A call that returns has no range left. *)
LEMMA ReturnCalls ==
  ASSUME TypeOK, CallsSound, NEW t \in Threads, Return(t), held'[t] = NoRange,
         \A u \in Threads : u # t => held'[u] = held[u]
  PROVE  CallsSound'
<1>1. ASSUME NEW u \in Threads
      PROVE  /\ pc'[u] = "publish" <=> held'[u] # NoRange
             /\ pc'[u] = "fallback" => RequestSound(req[u])'
  <2>1. CASE u = t
    <3>1. pc'[t] = "idle"
      BY DEF Return, TypeOK
    <3> QED
      BY <2>1, <3>1
  <2>2. CASE u # t
    <3>1. pc'[u] = pc[u] /\ req'[u] = req[u] /\ held'[u] = held[u]
      BY <2>2 DEF Return, TypeOK
    <3> QED
      BY <3>1 DEF CallsSound, RequestSound
  <2> QED
    BY <2>1, <2>2
<1> QED
  BY <1>1 DEF CallsSound

LEMMA PublishSound ==
  ASSUME TypeOK, SpaceInvariant, NEW t \in Threads, NEW h \in Handles, Publish(t, h)
  PROVE  SpaceInvariant'
<1>1. /\ t \in Owners /\ h \in Owners /\ t # h
      /\ held \in [Owners -> VaRec]
      /\ ListsSound /\ HeldSound /\ HeldApart /\ CallsSound
  BY VaRangeAssumption DEF Owners, TypeOK, SpaceInvariant
<1>2. /\ held'[h] = held[t] /\ held'[t] = NoRange
      /\ \A o \in Owners : o # h /\ o # t => held'[o] = held[o]
      /\ UNCHANGED holes
  BY <1>1 DEF Publish
<1>3. ListsSound' /\ HeldSound'
  BY <1>1, <1>2 DEF ListsSound, HeldSound, RangeSound
<1>4. HeldApart'
  <2> SUFFICES ASSUME NEW o \in Owners, NEW p \in Owners, o # p, held'[o].mgr = held'[p].mgr
               PROVE  Apart(held'[o].address, held'[o].size, held'[p].address, held'[p].size)
    BY DEF HeldApart
  <2>1. CASE o = t \/ p = t
    BY <1>2, <2>1, NoRangeFacts DEF Apart
  <2>2. CASE o # t /\ p # t
    <3>1. CASE o = h
      BY <1>1, <1>2, <2>2, <3>1 DEF HeldApart
    <3>2. CASE p = h
      BY <1>1, <1>2, <2>2, <3>2 DEF HeldApart
    <3>3. CASE o # h /\ p # h
      BY <1>1, <1>2, <2>2, <3>3 DEF HeldApart
    <3> QED
      BY <3>1, <3>2, <3>3
  <2> QED
    BY <2>1, <2>2
<1>5. CallsSound'
  <2>1. \A u \in Threads : u # t => held'[u] = held[u]
    BY <1>2, VaRangeAssumption DEF Owners
  <2> QED
    BY <1>1, <1>2, <2>1, ReturnCalls DEF Publish
<1> QED
  BY <1>3, <1>4, <1>5 DEF SpaceInvariant

LEMMA UndoSound ==
  ASSUME TypeOK, SpaceInvariant, NEW t \in Threads, Undo(t)
  PROVE  SpaceInvariant'
<1>1. /\ t \in Owners
      /\ ListsSound /\ HeldSound /\ HeldApart /\ CallsSound
      /\ held[t] # NoRange /\ GiveBack(t) /\ Return(t)
  BY DEF Owners, SpaceInvariant, CallsSound, Undo
<1>2. ListsSound' /\ HeldSound' /\ HeldApart'
  BY <1>1, GiveBackSound
<1>3. held'[t] = NoRange /\ \A u \in Threads : u # t => held'[u] = held[u]
  BY <1>1 DEF GiveBack, TypeOK, Owners
<1>4. CallsSound'
  BY <1>1, <1>3, ReturnCalls
<1> QED
  BY <1>2, <1>4 DEF SpaceInvariant

LEMMA RangeFreeSound ==
  ASSUME TypeOK, SpaceInvariant, NEW t \in Threads, NEW h \in Handles, RangeFree(t, h)
  PROVE  SpaceInvariant'
<1>1. /\ h \in Owners /\ ListsSound /\ HeldSound /\ HeldApart /\ CallsSound
      /\ held[h] # NoRange /\ GiveBack(h)
  BY NoRangeFacts DEF Owners, SpaceInvariant, RangeFree
<1>2. ListsSound' /\ HeldSound' /\ HeldApart'
  BY <1>1, GiveBackSound
<1>3. \A u \in Threads : held'[u] = held[u]
  BY <1>1, VaRangeAssumption DEF GiveBack, TypeOK, Owners
<1>4. CallsSound'
  BY <1>1, <1>3 DEF RangeFree, CallsSound, RequestSound
<1> QED
  BY <1>2, <1>4 DEF SpaceInvariant

LEMMA NextSound ==
  ASSUME NoWrap, TypeOK, SpaceInvariant, [Next]_vars
  PROVE  SpaceInvariant'
<1>1. ASSUME NEW t \in Threads, NEW size \in Sizes, NEW align \in Alignments,
             NEW base \in Bases, NEW flags \in FlagSets, Alloc(t, size, align, base, flags)
      PROVE  SpaceInvariant'
  BY <1>1, AllocSearches, SearchSound
<1>2. ASSUME NEW t \in Threads, Fallback(t)
      PROVE  SpaceInvariant'
  <2>1. CallsSound
    BY DEF SpaceInvariant
  <2> QED
    BY <1>2, <2>1, FallbackSearches, SearchSound
<1>3. ASSUME NEW t \in Threads, ReturnError(t)
      PROVE  SpaceInvariant'
  <2>1. ListsSound /\ HeldSound /\ HeldApart /\ CallsSound /\ held[t] = NoRange
    BY <1>3 DEF SpaceInvariant, CallsSound, ReturnError
  <2>2. UNCHANGED <<holes, held>> /\ Return(t)
    BY <1>3 DEF ReturnError
  <2>3. ListsSound' /\ HeldSound' /\ HeldApart'
    BY <2>1, <2>2 DEF ListsSound, HeldSound, HeldApart, RangeSound
  <2>4. CallsSound'
    BY <2>1, <2>2, ReturnCalls
  <2> QED
    BY <2>3, <2>4 DEF SpaceInvariant
<1>4. ASSUME UNCHANGED vars
      PROVE  SpaceInvariant'
  BY <1>4 DEF vars, SpaceInvariant, ListsSound, HeldSound, HeldApart, CallsSound,
              RangeSound, RequestSound
<1> QED
  BY <1>1, <1>2, <1>3, <1>4, PublishSound, UndoSound, RangeFreeSound DEF Next, ThreadNext

(* The holes and the ranges of every manager never overlap, and every      *)
(* range lies inside its manager: for any number of threads and handles,   *)
(* any hole list, any sizes and alignments that do not make a sum wrap.    *)
THEOREM HolesAndRangesApart ==
  ASSUME Layout, NoWrap
  PROVE  Spec => []SpaceInvariant
<1>1. Init => SpaceInvariant
  BY InitSound
<1>2. TypeOK /\ SpaceInvariant /\ [Next]_vars => SpaceInvariant'
  BY NextSound
<1> QED
  BY <1>1, <1>2, TypeCorrect, PTL DEF Spec

-----------------------------------------------------------------------------
(* The refinement of VaSpace. *)

LEMMA ManagersOrdered ==
  ASSUME Layout, NEW m \in Reachable, NEW n \in Reachable, m # n
  PROVE  VaMaxOf(m) <= Start(n) \/ VaMaxOf(n) <= Start(m)
<1>1. /\ VaOffset \in Nat /\ VaMax \in Nat /\ HighOffset \in Nat /\ HighMax \in Nat
      /\ Low32 \in Nat
  BY Words, VaRangeAssumption
<1>2. /\ "vamgr_32" \in Managers /\ "vamgr_high_32" \in Managers
      /\ Max32 = VaMaxOf("vamgr_32") /\ MaxHigh32 = VaMaxOf("vamgr_high_32")
  BY DEF VaMaxOf, Managers
<1>3. Max32 \in Nat /\ MaxHigh32 \in Nat
  BY <1>2, LayoutType, Words
<1>4. Max32 <= MAX2(VaMax, Low32) /\ MAX2(VaMax, Low32) \in Nat
  BY <1>1, SMT DEF Max32, MIN2, MAX2
<1>5. /\ Start("vamgr") = Max32 /\ VaMaxOf("vamgr_32") = Max32
      /\ VaMaxOf("vamgr") = MAX2(VaMax, Low32)
      /\ Start("vamgr_high_32") = HighOffset
      /\ VaMaxOf("vamgr_high_32") = MaxHigh32
      /\ Start("vamgr_high") = MaxHigh32
  BY DEF Start, VaMaxOf
<1>6. HasHigh => /\ MAX2(VaMax, Low32) <= HighOffset /\ HighOffset <= MaxHigh32
  BY DEF Layout
<1>7. HasHigh => /\ Max32 <= HighOffset /\ Max32 <= MaxHigh32
                 /\ MAX2(VaMax, Low32) <= HighOffset /\ MAX2(VaMax, Low32) <= MaxHigh32
  BY <1>1, <1>3, <1>4, <1>6, SMT
<1>8. Max32 <= Max32 /\ MaxHigh32 <= MaxHigh32
  BY <1>3, SMT
<1>9. CASE HasHigh
  <2>1. /\ m = "vamgr_32" \/ m = "vamgr" \/ m = "vamgr_high_32" \/ m = "vamgr_high"
        /\ n = "vamgr_32" \/ n = "vamgr" \/ n = "vamgr_high_32" \/ n = "vamgr_high"
    BY ReachableType DEF Managers
  <2> QED
    BY <1>5, <1>7, <1>8, <1>9, <2>1
<1>10. CASE ~HasHigh
  <2>1. /\ m = "vamgr_32" \/ m = "vamgr"
        /\ n = "vamgr_32" \/ n = "vamgr"
    BY <1>10 DEF Reachable
  <2> QED
    BY <1>5, <1>8, <2>1
<1> QED
  BY <1>9, <1>10

LEMMA ApartAddresses ==
  ASSUME NEW a \in Nat, NEW m \in Nat, NEW b \in Nat, NEW n \in Nat, Apart(a, m, b, n)
  PROVE  (a .. a + m - 1) \cap (b .. b + n - 1) = {}
  BY SMT DEF Apart

LEMMA SpanAddresses ==
  ASSUME NEW g \in VaRec, g.mgr \in Reachable,
         Start(g.mgr) <= g.address, g.address + g.size <= VaMaxOf(g.mgr)
  PROVE  Addresses(g) \subseteq Span(g.mgr)
<1>1. PICK a \in Nat, n \in Nat, lo \in Nat, hi \in Nat :
         /\ a = g.address /\ n = g.size
         /\ lo = Start(g.mgr) /\ hi = VaMaxOf(g.mgr)
  BY RangeFields, ReachableType
<1>2. lo <= a /\ a + n <= hi
  BY <1>1
<1>3. a .. a + n - 1 \subseteq lo .. hi - 1
  BY <1>2, SMT
<1> QED
  BY <1>1, <1>3 DEF Addresses, Span

LEMMA SpansApart ==
  ASSUME Layout, NEW m \in Reachable, NEW n \in Reachable, m # n
  PROVE  Span(m) \cap Span(n) = {}
<1>1. PICK a \in Nat, b \in Nat, c \in Nat, d \in Nat :
         /\ a = Start(m) /\ b = VaMaxOf(m) /\ c = Start(n) /\ d = VaMaxOf(n)
  BY ReachableType
<1>2. b <= c \/ d <= a
  BY <1>1, ManagersOrdered
<1>3. (a .. b - 1) \cap (c .. d - 1) = {}
  BY <1>2, SMT
<1> QED
  BY <1>1, <1>3 DEF Span

(* A range just taken is free in the one address space of the clients. *)
LEMMA TakenFree ==
  ASSUME Layout, TypeOK, HeldSound, NEW t \in Threads, NEW m \in Reachable,
         NEW g, NEW ns, Taken(t, m, g, ns), NEW o \in Owners
  PROVE  Addresses(g) \cap Addresses(held[o]) = {}
<1>1. /\ g \in VaRec /\ held[o] \in VaRec
      /\ g.address \in Nat /\ g.size \in Nat
      /\ held[o].address \in Nat /\ held[o].size \in Nat
  BY RangeFields DEF Taken, TypeOK
<1>2. Addresses(g) \subseteq Span(m)
  BY <1>1, SpanAddresses DEF Taken
<1>3. CASE held[o] = NoRange
  <2>1. Addresses(NoRange) = {}
    <3>1. 0 .. 0 + 0 - 1 = {}
      BY SMT
    <3> QED
      BY <3>1, NoRangeFacts DEF Addresses
  <2> QED
    BY <1>3, <2>1
<1>4. CASE held[o].mgr = m
  <2>1. Apart(g.address, g.size, held[o].address, held[o].size)
    BY <1>4, TakenApart
  <2> QED
    BY <1>1, <2>1, ApartAddresses DEF Addresses
<1>5. CASE held[o] # NoRange /\ held[o].mgr # m
  <2>1. RangeSound(held[o])
    BY <1>5 DEF HeldSound
  <2>2. Addresses(held[o]) \subseteq Span(held[o].mgr)
    BY <1>1, <2>1, SpanAddresses DEF RangeSound
  <2>3. Span(m) \cap Span(held[o].mgr) = {}
    BY <1>5, <2>1, SpansApart DEF RangeSound
  <2> QED
    BY <1>2, <2>2, <2>3
<1> QED
  BY <1>3, <1>4, <1>5

(* What the clients see of the ranges. *)
Seen == [o \in Owners |-> [address |-> held[o].address, size |-> held[o].size]]

LEMMA TakeClaims ==
  ASSUME Layout, TypeOK, HeldSound, NEW t \in Threads, held[t] = NoRange,
         NEW m \in Reachable, NEW g, NEW ns, Taken(t, m, g, ns)
  PROVE  VaSpaceOf!Claim(t)
<1>1. t \in Owners /\ Seen[t] = [address |-> 0, size |-> 0]
  BY NoRangeFacts DEF Owners, Seen
<1>2. /\ held'[t] = g
      /\ \A o \in Owners : o # t => held'[o] = held[o]
  BY <1>1 DEF Taken, TypeOK
<1>3. Seen'[t] = [address |-> g.address, size |-> g.size]
  BY <1>1, <1>2 DEF Seen
<1>4. Seen' = [Seen EXCEPT ![t] = Seen'[t]]
  BY <1>1, <1>2 DEF Seen
<1>5. Addresses(g) \subseteq UNION {Span(x) : x \in Reachable}
  <2>1. Addresses(g) \subseteq Span(m)
    BY SpanAddresses DEF Taken
  <2> QED
    BY <2>1
<1>6. Addresses(g) \cap (UNION {Addresses(Seen[o]) : o \in Owners}) = {}
  <2>1. \A o \in Owners : Addresses(Seen[o]) = Addresses(held[o])
    BY DEF Seen, Addresses
  <2> QED
    BY <2>1, TakenFree
<1>7. Addresses(Seen'[t]) = Addresses(g)
  BY <1>3 DEF Addresses
<1>8. Addresses(Seen'[t]) \subseteq
         (UNION {Span(x) : x \in Reachable}) \ (UNION {Addresses(Seen[o]) : o \in Owners})
  BY <1>5, <1>6, <1>7
<1> QED
  BY <1>1, <1>4, <1>8
     DEF VaSpaceOf!Claim, VaSpaceOf!Nothing, VaSpaceOf!InUse, VaSpaceOf!Cells,
         Seen, Addresses

LEMMA DropSeen ==
  ASSUME TypeOK, NEW o \in Owners, held' = [held EXCEPT ![o] = NoRange]
  PROVE  VaSpaceOf!Drop(o)
<1>1. Seen' = [Seen EXCEPT ![o] = [address |-> 0, size |-> 0]]
  BY NoRangeFacts DEF TypeOK, Seen
<1> QED
  BY <1>1 DEF VaSpaceOf!Drop, VaSpaceOf!Nothing, Seen

LEMMA PublishTransfers ==
  ASSUME TypeOK, NEW t \in Threads, NEW h \in Handles, Publish(t, h)
  PROVE  t \in Owners /\ h \in Owners \ {t} /\ VaSpaceOf!Transfer(t, h)
<1>1. t \in Owners /\ h \in Owners \ {t}
  BY VaRangeAssumption DEF Owners
<1>2. held[h] = NoRange /\ held' = [held EXCEPT ![h] = held[t], ![t] = NoRange]
  BY DEF Publish
<1>3. Seen[h] = [address |-> 0, size |-> 0]
  BY <1>1, <1>2, NoRangeFacts DEF Seen
<1>4. Seen' = [Seen EXCEPT ![h] = Seen[t], ![t] = [address |-> 0, size |-> 0]]
  BY <1>1, <1>2, NoRangeFacts DEF TypeOK, Seen
<1> QED
  BY <1>1, <1>3, <1>4 DEF VaSpaceOf!Transfer, VaSpaceOf!Nothing, Seen

LEMMA SearchImplements ==
  ASSUME Layout, TypeOK, SpaceInvariant, NEW t \in Threads, pc[t] # "publish",
         NEW m \in Reachable, NEW r \in Request, Searches(t, m, r)
  PROVE  VaSpaceOf!SpaceNext \/ UNCHANGED Seen
<1>0. RequestSound(r) /\ (Take(t, m, r) \/ UNCHANGED held)
  BY DEF Searches, Refuse
<1>1. CASE UNCHANGED held
  BY <1>1 DEF Seen
<1>2. CASE Take(t, m, r)
  <2>1. ListsSound /\ HeldSound /\ held[t] = NoRange
    BY DEF SpaceInvariant, CallsSound
  <2>2. PICK g, ns : Taken(t, m, g, ns)
    BY <1>0, <1>2, <2>1, TakeCarves
  <2>3. VaSpaceOf!Claim(t) /\ t \in Owners
    BY <2>1, <2>2, TakeClaims DEF Owners
  <2> QED
    BY <2>3 DEF VaSpaceOf!SpaceNext
<1> QED
  BY <1>0, <1>1, <1>2

LEMMA NextImplements ==
  ASSUME Layout, NoWrap, TypeOK, SpaceInvariant, [Next]_vars
  PROVE  VaSpaceOf!SpaceNext \/ UNCHANGED Seen
<1>1. ASSUME NEW t \in Threads, NEW size \in Sizes, NEW align \in Alignments,
             NEW base \in Bases, NEW flags \in FlagSets, Alloc(t, size, align, base, flags)
      PROVE  VaSpaceOf!SpaceNext \/ UNCHANGED Seen
  <2>1. PICK m \in Reachable, r \in Request : Searches(t, m, r) /\ pc[t] = "idle"
    BY <1>1, AllocSearches
  <2> QED
    BY <2>1, SearchImplements
<1>2. ASSUME NEW t \in Threads, Fallback(t)
      PROVE  VaSpaceOf!SpaceNext \/ UNCHANGED Seen
  <2>1. CallsSound
    BY DEF SpaceInvariant
  <2>2. PICK m \in Reachable, r \in Request : Searches(t, m, r) /\ pc[t] = "fallback"
    BY <1>2, <2>1, FallbackSearches
  <2> QED
    BY <2>2, SearchImplements
<1>3. ASSUME NEW t \in Threads, ReturnError(t)
      PROVE  UNCHANGED Seen
  BY <1>3 DEF ReturnError, Seen
<1>4. ASSUME NEW t \in Threads, NEW h \in Handles, Publish(t, h)
      PROVE  VaSpaceOf!SpaceNext
  <2>1. t \in Owners /\ h \in Owners \ {t} /\ VaSpaceOf!Transfer(t, h)
    BY <1>4, PublishTransfers
  <2> QED
    BY <2>1 DEF VaSpaceOf!SpaceNext
<1>5. ASSUME NEW o \in Owners, held' = [held EXCEPT ![o] = NoRange]
      PROVE  VaSpaceOf!SpaceNext
  <2>1. VaSpaceOf!Drop(o)
    BY <1>5, DropSeen
  <2> QED
    BY <2>1 DEF VaSpaceOf!SpaceNext
<1>6. ASSUME NEW t \in Threads, Undo(t)
      PROVE  VaSpaceOf!SpaceNext
  BY <1>5, <1>6 DEF Undo, GiveBack, Owners
<1>7. ASSUME NEW t \in Threads, NEW h \in Handles, RangeFree(t, h)
      PROVE  VaSpaceOf!SpaceNext
  BY <1>5, <1>7 DEF RangeFree, GiveBack, Owners
<1>8. ASSUME UNCHANGED vars
      PROVE  UNCHANGED Seen
  BY <1>8 DEF vars, Seen
<1> QED
  BY <1>1, <1>2, <1>3, <1>4, <1>6, <1>7, <1>8 DEF Next, ThreadNext

(* The four managers with their hole lists, searches, fallbacks and undos  *)
(* are, to the clients of a device, one address space in which addresses   *)
(* are given to one owner at a time.                                       *)
THEOREM ManagersImplementSpace ==
  ASSUME Layout, NoWrap
  PROVE  Spec => ImplementsVaSpace
<1>1. Init => VaSpaceOf!SpaceInit
  BY NoRangeFacts DEF Init, VaSpaceOf!SpaceInit, VaSpaceOf!Nothing
<1>2. TypeOK /\ SpaceInvariant /\ [Next]_vars => [VaSpaceOf!SpaceNext]_Seen
  BY NextImplements
<1>3. Spec => []SpaceInvariant
  BY HolesAndRangesApart
<1> QED
  BY <1>1, <1>2, <1>3, TypeCorrect, PTL
     DEF Spec, ImplementsVaSpace, VaSpaceOf!SpaceSpec, Seen

-----------------------------------------------------------------------------
(* Single addresses. *)

LEMMA SpanMember ==
  ASSUME NEW m \in Reachable, NEW x
  PROVE  x \in Span(m) <=> x \in Nat /\ Start(m) <= x /\ x < VaMaxOf(m)
<1>1. PICK lo \in Nat, hi \in Nat : lo = Start(m) /\ hi = VaMaxOf(m)
  BY ReachableType
<1>2. x \in lo .. hi - 1 <=> x \in Nat /\ lo <= x /\ x < hi
  BY SMT
<1> QED
  BY <1>1, <1>2 DEF Span

LEMMA AddressMember ==
  ASSUME NEW g \in VaRec, NEW x
  PROVE  x \in Addresses(g) <=> x \in Nat /\ g.address <= x /\ x < g.address + g.size
<1>1. PICK a \in Nat, n \in Nat : a = g.address /\ n = g.size
  BY RangeFields
<1>2. x \in a .. a + n - 1 <=> x \in Nat /\ a <= x /\ x < a + n
  BY SMT
<1> QED
  BY <1>1, <1>2 DEF Addresses

LEMMA HoleMember ==
  ASSUME NEW h \in Hole, NEW x
  PROVE  x \in HoleAddresses(h) <=> x \in Nat /\ Has(h, x)
<1>1. PICK a \in Nat, n \in Nat : a = h.offset /\ n = h.size
  BY HoleFields
<1>2. x \in a .. a + n - 1 <=> x \in Nat /\ a <= x /\ x < a + n
  BY SMT
<1> QED
  BY <1>1, <1>2 DEF HoleAddresses, Has

(* A list avoids an address when no hole has it. *)
LEMMA AvoidsPoint ==
  ASSUME NEW hs \in Seq(Hole), NEW x \in Nat
  PROVE  ListAvoids(hs, x, 1) <=> ~InHoles(hs, x)
<1>1. ASSUME NEW j \in DOMAIN hs
      PROVE  Apart(hs[j].offset, hs[j].size, x, 1) <=> ~Has(hs[j], x)
  <2>1. PICK a \in Nat, n \in Nat : a = hs[j].offset /\ n = hs[j].size
    BY EntryEnds
  <2>2. (n = 0 \/ 1 = 0 \/ a + n <= x \/ x + 1 <= a) <=> ~(a <= x /\ x < a + n)
    BY SMT
  <2> QED
    BY <2>1, <2>2 DEF Apart, Has
<1> QED
  BY <1>1 DEF ListAvoids, InHoles

LEMMA AvoidsRange ==
  ASSUME NEW hs \in Seq(Hole), NEW g \in VaRec, ListAvoids(hs, g.address, g.size),
         NEW x \in Addresses(g)
  PROVE  x \in Nat /\ ~InHoles(hs, x)
<1>1. PICK a \in Nat, n \in Nat : a = g.address /\ n = g.size
  BY RangeFields
<1>2. x \in Nat /\ a <= x /\ x < a + n
  BY <1>1, AddressMember
<1>3. ASSUME NEW j \in DOMAIN hs, Has(hs[j], x)
      PROVE  FALSE
  <2>1. PICK o \in Nat, z \in Nat : o = hs[j].offset /\ z = hs[j].size
    BY EntryEnds
  <2>2. z = 0 \/ n = 0 \/ o + z <= a \/ a + n <= o
    BY <1>1, <2>1 DEF ListAvoids, Apart
  <2>3. o <= x /\ x < o + z
    BY <1>3, <2>1 DEF Has
  <2> QED
    BY <1>2, <2>2, <2>3, SMT
<1> QED
  BY <1>2, <1>3 DEF InHoles

LEMMA ApartPoint ==
  ASSUME NEW g \in VaRec, NEW x \in Nat
  PROVE  Apart(g.address, g.size, x, 1) <=> x \notin Addresses(g)
<1>1. PICK a \in Nat, n \in Nat : a = g.address /\ n = g.size
  BY RangeFields
<1>2. (n = 0 \/ 1 = 0 \/ a + n <= x \/ x + 1 <= a) <=> ~(a <= x /\ x < a + n)
  BY SMT
<1> QED
  BY <1>1, <1>2, AddressMember DEF Apart

(* No address outside a manager, and no address of a range, is in a hole.  *)
LEMMA HoleAddressFree ==
  ASSUME TypeOK, SpaceInvariant, NEW m \in Reachable, NEW x \in Nat, InHoles(holes[m], x)
  PROVE  /\ x \in Span(m)
         /\ \A o \in Owned(m) : x \notin Addresses(held[o])
<1>1. holes[m] \in Seq(Hole) /\ ListWithin(holes[m], Start(m), VaMaxOf(m))
  BY ReachableType DEF TypeOK, SpaceInvariant, ListsSound
<1>2. PICK j \in DOMAIN holes[m] : Has(holes[m][j], x)
  BY DEF InHoles
<1>3. x \in Span(m)
  <2>1. PICK o \in Nat, z \in Nat, lo \in Nat, hi \in Nat :
           /\ o = holes[m][j].offset /\ z = holes[m][j].size
           /\ lo = Start(m) /\ hi = VaMaxOf(m)
    BY <1>1, EntryEnds, ReachableType
  <2>2. lo <= o /\ o + z <= hi
    BY <1>1, <2>1 DEF ListWithin, Within
  <2>3. o <= x /\ x < o + z
    BY <1>2, <2>1 DEF Has
  <2>4. lo <= x /\ x < hi
    BY <2>2, <2>3, SMT
  <2> QED
    BY <2>1, <2>4, SpanMember
<1>4. ASSUME NEW o \in Owned(m), x \in Addresses(held[o])
      PROVE  FALSE
  <2>1. o \in Owners /\ held[o].mgr = m /\ held[o] \in VaRec
    BY DEF Owned, TypeOK
  <2>2. RangeSound(held[o])
    BY <2>1, ReachableType, NoRangeFacts DEF SpaceInvariant, HeldSound
  <2>3. ListAvoids(holes[m], held[o].address, held[o].size)
    BY <2>1, <2>2 DEF RangeSound
  <2>4. ~InHoles(holes[m], x)
    BY <1>1, <1>4, <2>1, <2>3, AvoidsRange
  <2> QED
    BY <2>4
<1> QED
  BY <1>3, <1>4

-----------------------------------------------------------------------------
(* Taking a range keeps every address accounted for. *)

LEMMA TakeExact ==
  ASSUME TypeOK, SpaceInvariant, RangesExact, NEW t \in Threads, held[t] = NoRange,
         NEW m \in Reachable, NEW r, NEW g, NEW ns, NEW i,
         Taken(t, m, g, ns), PlacedIn(m, r, g, ns, i), g.size > 0, UNCHANGED lost
  PROVE  RangesExact'
<1>1. /\ m \in Managers /\ t \in Owners /\ g \in VaRec /\ g.mgr = m
      /\ holes \in [Managers -> Seq(Hole)] /\ held \in [Owners -> VaRec]
      /\ holes[m] \in Seq(Hole) /\ i \in DOMAIN holes[m] /\ ns \in Seq(Hole)
  BY ReachableType DEF TypeOK, Owners, Taken, PlacedIn, CarvedSafely
<1>2. holes'[m] = ns /\ \A x \in Managers : x # m => holes'[x] = holes[x]
  BY <1>1 DEF Taken
<1>3. held'[t] = g /\ \A o \in Owners : o # t => held'[o] = held[o]
  BY <1>1 DEF Taken
<1>4. /\ ListsExact /\ UnusedIdle /\ HeldPositive /\ Accounted /\ LostApart
      /\ ListsSound /\ HeldSound
  BY DEF RangesExact, SpaceInvariant
<1>5. PICK a \in Nat, n \in Nat, lo \in Nat, hi \in Nat :
         /\ a = g.address /\ n = g.size /\ lo = Start(m) /\ hi = VaMaxOf(m)
         /\ n > 0 /\ lo <= a /\ a + n <= hi /\ hi < AddrMod
  BY <1>1, RangeFields, ReachableType DEF Taken
<1>6. CarvedExactly(holes[m], a, n, ns)
  <2>1. ListSorted(holes[m]) /\ ListPositive(holes[m])
    <3>1. lo < hi
      BY <1>5
    <3> QED
      BY <1>4, <1>5, <3>1 DEF ListsExact
  <2>2. holes[m][i].offset + holes[m][i].size < AddrMod
    <3>1. PICK e \in Nat : e = holes[m][i].offset + holes[m][i].size
      BY <1>1, EntryEnds
    <3>2. e <= hi
      BY <1>1, <1>4, <1>5, <3>1 DEF ListsSound, ListWithin, Within
    <3>3. AddrMod \in Nat
      BY VaMgrAssumption
    <3> QED
      BY <1>5, <3>1, <3>2, <3>3
  <2>3. Covers(holes[m][i], a, n) /\ ns = SubtractHole(holes[m], i, a, a + n)
    BY <1>5 DEF PlacedIn
  <2> QED
    BY <1>1, <1>5, <2>1, <2>2, <2>3, SubtractHoleExact
<1>7. ListsExact'
  <2> SUFFICES ASSUME NEW x \in Reachable
               PROVE  /\ ListSorted(holes'[x])
                      /\ Start(x) < VaMaxOf(x) => ListPositive(holes'[x])
    BY DEF ListsExact
  <2>1. CASE x = m
    BY <1>2, <1>6, <2>1 DEF CarvedExactly
  <2>2. CASE x # m
    BY <1>2, <1>4, <2>2, ReachableType DEF ListsExact
  <2> QED
    BY <2>1, <2>2
<1>8. UnusedIdle'
  BY <1>2, <1>4 DEF UnusedIdle
<1>9. HeldPositive'
  BY <1>3, <1>4 DEF HeldPositive
<1>10. ASSUME NEW y \in Reachable, NEW o \in Owned(y)
       PROVE  o \in Owned(y)' /\ held'[o] = held[o]
  <2>1. o \in Owners /\ o # t
    BY NoRangeFacts, ReachableType DEF Owned
  <2> QED
    BY <1>3, <2>1 DEF Owned
<1>11. Accounted'
  <2> SUFFICES ASSUME NEW y \in Reachable, NEW x \in Span(y)
               PROVE  \/ InHoles(holes'[y], x)
                      \/ \E o \in Owned(y)' : x \in Addresses(held'[o])
                      \/ x \in lost[y]
    BY DEF Accounted, Addresses
  <2>1. CASE \E o \in Owned(y) : x \in Addresses(held[o])
    BY <1>10, <2>1
  <2>2. CASE InHoles(holes[y], x)
    <3>1. CASE y = m
      <4>1. x \in Nat
        BY SpanMember
      <4>2. InHoles(ns, x) \/ (a <= x /\ x < a + n)
        BY <1>6, <2>2, <3>1, <4>1 DEF CarvedExactly
      <4>3. a <= x /\ x < a + n => x \in Addresses(held'[t])
        BY <1>1, <1>3, <1>5, <4>1, AddressMember
      <4>4. t \in Owned(m)'
        BY <1>1, <1>3 DEF Owned
      <4> QED
        BY <1>2, <3>1, <4>2, <4>3, <4>4
    <3>2. CASE y # m
      BY <1>2, <2>2, <3>2, ReachableType
    <3> QED
      BY <3>1, <3>2
  <2> QED
    BY <1>4, <2>1, <2>2 DEF Accounted
<1>12. LostApart'
  <2> SUFFICES ASSUME NEW y \in Reachable, NEW x \in lost[y], NEW o \in Owned(y)'
               PROVE  x \notin Addresses(held'[o])
    <3>1. ASSUME NEW y \in Reachable, NEW x \in lost[y]
          PROVE  x \in Span(y) /\ ~InHoles(holes'[y], x)
      <4>1. x \in Span(y) /\ ~InHoles(holes[y], x) /\ x \in Nat
        BY <1>4, SpanMember DEF LostApart
      <4>2. CASE y = m
        BY <1>1, <1>2, <4>1, <4>2, AvoidsPoint DEF Taken, CarvedSafely
      <4>3. CASE y # m
        BY <1>2, <4>1, <4>3, ReachableType
      <4> QED
        BY <4>1, <4>2, <4>3
    <3> QED
      BY <3>1 DEF LostApart, Addresses, Span
  <2>1. /\ x \in Span(y) /\ ~InHoles(holes[y], x) /\ x \in Nat
        /\ \A p \in Owned(y) : x \notin Addresses(held[p])
    BY <1>4, SpanMember DEF LostApart
  <2>2. o \in Owners /\ held'[o].mgr = y
    BY DEF Owned
  <2>3. CASE o = t
    <3>1. ListAvoids(holes[m], x, 1)
      BY <1>1, <1>3, <2>1, <2>2, <2>3, AvoidsPoint
    <3>2. Apart(g.address, g.size, x, 1)
      BY <2>1, <3>1 DEF Taken, CarvedSafely
    <3> QED
      BY <1>1, <1>3, <2>1, <2>3, <3>2, ApartPoint
  <2>4. CASE o # t
    BY <1>3, <2>1, <2>2, <2>4 DEF Owned
  <2> QED
    BY <2>3, <2>4
<1> QED
  BY <1>7, <1>8, <1>9, <1>11, <1>12 DEF RangesExact

(* Giving a range back moves its addresses to the holes, or drops them.    *)
LEMMA GiveBackExact ==
  ASSUME TypeOK, SpaceInvariant, RangesExact, NEW o \in Owners, held[o] # NoRange,
         GiveBack(o)
  PROVE  RangesExact'
<1>1. /\ ListsExact /\ UnusedIdle /\ HeldPositive /\ Accounted /\ LostApart
      /\ ListsSound /\ HeldSound /\ HeldApart /\ RangeSound(held[o])
  BY DEF RangesExact, SpaceInvariant, HeldSound
<1>2. PICK m \in Reachable : m = held[o].mgr
  BY <1>1 DEF RangeSound
<1>3. PICK ns : Given(o, m, ns) /\ JoinedOrLost(o, m, ns)
  BY <1>1, <1>2, GiveBackJoins
<1>4. PICK g \in VaRec : g = held[o]
  BY DEF TypeOK
<1>5. /\ m \in Managers /\ g.mgr = m
      /\ holes \in [Managers -> Seq(Hole)] /\ held \in [Owners -> VaRec]
      /\ lost \in [Managers -> SUBSET Nat]
      /\ holes[m] \in Seq(Hole) /\ ns \in Seq(Hole)
      /\ ListWithin(holes[m], Start(m), VaMaxOf(m)) /\ ListAvoids(holes[m], g.address, g.size)
  BY <1>1, <1>2, <1>3, <1>4, ReachableType
     DEF TypeOK, Given, JoinedSafely, ListsSound, RangeSound
<1>6. PICK a \in Nat, n \in Nat, lo \in Nat, hi \in Nat :
         /\ a = g.address /\ n = g.size /\ lo = Start(m) /\ hi = VaMaxOf(m)
         /\ n > 0 /\ lo <= a /\ a + n <= hi /\ hi < AddrMod
  BY <1>1, <1>2, <1>4, RangeFields, ReachableType DEF RangeSound, HeldPositive
<1>7. holes'[m] = ns /\ \A x \in Managers : x # m => holes'[x] = holes[x]
  BY <1>3, <1>5 DEF Given
<1>8. held'[o] = NoRange /\ \A p \in Owners : p # o => held'[p] = held[p]
  BY <1>3, <1>5 DEF Given
<1>9. /\ ListSorted(holes[m]) /\ ListPositive(holes[m])
  <2>1. lo < hi
    BY <1>6
  <2> QED
    BY <1>1, <1>6, <2>1 DEF ListsExact
<1>10. \/ JoinedExactly(holes[m], a, n, ns) /\ UNCHANGED lost
       \/ ns = holes[m] /\ lost' = [lost EXCEPT ![m] = @ \cup Addresses(g)]
  <2>1. ASSUME NEW k \in 0 .. Len(holes[m]), StopsAt(holes[m], a, k),
               ns = FreeVa(holes[m], k, a, n)
        PROVE  JoinedExactly(holes[m], a, n, ns)
    <3>1. ListWithin(holes[m], lo, hi) /\ ListAvoids(holes[m], a, n)
      BY <1>5, <1>6
    <3> QED
      BY <1>5, <1>6, <1>9, <2>1, <3>1, FreeVaExact
  <2> QED
    BY <1>3, <1>4, <1>6, <2>1 DEF JoinedOrLost
<1>11. /\ ListSorted(ns) /\ ListPositive(ns)
       /\ \A x \in Nat : InHoles(holes[m], x) => InHoles(ns, x)
       /\ \A x \in Addresses(g) : InHoles(ns, x) \/ x \in lost'[m]
       /\ \A y \in Managers :
             lost'[y] = lost[y] \/ (y = m /\ lost'[m] = lost[m] \cup Addresses(g))
  <2>1. CASE JoinedExactly(holes[m], a, n, ns) /\ UNCHANGED lost
    <3>1. \A x \in Addresses(g) : x \in Nat /\ a <= x /\ x < a + n
      BY <1>6, AddressMember
    <3> QED
      BY <2>1, <3>1 DEF JoinedExactly
  <2>2. CASE ns = holes[m] /\ lost' = [lost EXCEPT ![m] = @ \cup Addresses(g)]
    <3>1. /\ lost'[m] = lost[m] \cup Addresses(g)
          /\ \A y \in Managers : y # m => lost'[y] = lost[y]
      BY <1>5, <2>2
    <3> QED
      BY <1>9, <2>2, <3>1
  <2> QED
    BY <1>10, <2>1, <2>2
<1>12. ListsExact'
  <2> SUFFICES ASSUME NEW x \in Reachable
               PROVE  /\ ListSorted(holes'[x])
                      /\ Start(x) < VaMaxOf(x) => ListPositive(holes'[x])
    BY DEF ListsExact
  <2>1. CASE x = m
    BY <1>7, <1>11, <2>1
  <2>2. CASE x # m
    BY <1>1, <1>7, <2>2, ReachableType DEF ListsExact
  <2> QED
    BY <2>1, <2>2
<1>13. UnusedIdle'
  <2>1. ASSUME NEW y \in Managers \ Reachable
        PROVE  holes'[y] = <<FullHole(y)>> /\ lost'[y] = {}
    BY <1>1, <1>7, <1>11 DEF UnusedIdle
  <2> QED
    BY <2>1 DEF UnusedIdle
<1>14. HeldPositive'
  BY <1>1, <1>8 DEF HeldPositive
<1>15. ASSUME NEW y \in Reachable, NEW p \in Owners
       PROVE  p \in Owned(y)' => p \in Owned(y) /\ p # o /\ held'[p] = held[p]
  BY <1>8, NoRangeFacts, ReachableType DEF Owned
<1>16. Accounted'
  <2> SUFFICES ASSUME NEW y \in Reachable, NEW x \in Span(y)
               PROVE  \/ InHoles(holes'[y], x)
                      \/ \E p \in Owned(y)' : x \in Addresses(held'[p])
                      \/ x \in lost'[y]
    BY DEF Accounted, Addresses, Span
  <2>0. x \in Nat /\ y \in Managers
    BY SpanMember, ReachableType
  <2>1. CASE InHoles(holes[y], x)
    BY <1>7, <1>11, <2>0, <2>1
  <2>2. ASSUME NEW p \in Owned(y), x \in Addresses(held[p])
        PROVE  \/ InHoles(holes'[y], x)
               \/ p \in Owned(y)' /\ held'[p] = held[p]
               \/ x \in lost'[y]
    <3>1. CASE p = o
      <4>1. y = m
        BY <1>2, <3>1 DEF Owned
      <4>2. x \in Addresses(g)
        BY <1>4, <2>2, <3>1
      <4>3. InHoles(ns, x) \/ x \in lost'[m]
        BY <1>11, <4>2
      <4> QED
        BY <1>5, <1>7, <4>1, <4>3
    <3>2. CASE p # o
      BY <1>8, <3>2 DEF Owned
    <3> QED
      BY <3>1, <3>2
  <2>3. CASE x \in lost[y]
    BY <1>11, <2>0, <2>3
  <2> QED
    BY <1>1, <2>1, <2>2, <2>3 DEF Accounted
<1>17. ASSUME NEW y \in Reachable, NEW x \in lost'[y]
       PROVE  /\ x \in Span(y)
              /\ ~InHoles(holes'[y], x)
              /\ \A p \in Owned(y)' : x \notin Addresses(held'[p])
  <2>1. CASE x \in lost[y]
    <3>1. /\ x \in Span(y) /\ ~InHoles(holes[y], x) /\ x \in Nat
          /\ \A p \in Owned(y) : x \notin Addresses(held[p])
      BY <1>1, <2>1, SpanMember DEF LostApart
    <3>2. \A p \in Owned(y)' : x \notin Addresses(held'[p])
      BY <1>15, <3>1 DEF Owned
    <3>3. ~InHoles(holes'[y], x)
      <4>1. CASE y = m
        <5>1. ListAvoids(holes[m], x, 1)
          BY <1>5, <3>1, <4>1, AvoidsPoint
        <5>2. x \notin Addresses(g)
          BY <1>2, <1>4, <3>1, <4>1 DEF Owned
        <5>3. Apart(held[o].address, held[o].size, x, 1)
          BY <1>4, <3>1, <5>2, ApartPoint
        <5>4. ListAvoids(ns, x, 1)
          BY <1>3, <3>1, <5>1, <5>3 DEF Given, JoinedSafely
        <5> QED
          BY <1>5, <1>7, <3>1, <4>1, <5>4, AvoidsPoint
      <4>2. CASE y # m
        BY <1>7, <3>1, <4>2, ReachableType
      <4> QED
        BY <4>1, <4>2
    <3> QED
      BY <3>1, <3>2, <3>3
  <2>2. CASE x \notin lost[y]
    <3>1. y = m /\ x \in Addresses(g) /\ ns = holes[m]
      BY <1>5, <1>10, <2>2, <1>17, ReachableType
    <3>2. x \in Span(m)
      <4>1. Addresses(held[o]) \subseteq Span(held[o].mgr)
        BY <1>1, <1>4, SpanAddresses DEF RangeSound
      <4> QED
        BY <1>2, <1>4, <3>1, <4>1
    <3>3. x \in Nat /\ ~InHoles(holes[m], x)
      BY <1>5, <3>1, AvoidsRange
    <3>4. ASSUME NEW p \in Owned(m)'
          PROVE  x \notin Addresses(held'[p])
      <4>1. p \in Owners /\ p # o /\ held'[p] = held[p] /\ held[p].mgr = m
        BY <1>15 DEF Owned
      <4>2. PICK f \in VaRec : f = held[p]
        BY <1>5, <4>1
      <4>3. Apart(g.address, g.size, f.address, f.size)
        BY <1>1, <1>2, <1>4, <4>1, <4>2 DEF HeldApart
      <4>4. Addresses(g) \cap Addresses(f) = {}
        BY <4>3, RangeFields, ApartAddresses DEF Addresses
      <4> QED
        BY <3>1, <4>1, <4>2, <4>4
    <3> QED
      BY <1>7, <3>1, <3>2, <3>3, <3>4
  <2> QED
    BY <2>1, <2>2
<1>18. LostApart'
  BY <1>17 DEF LostApart, Span
<1> QED
  BY <1>12, <1>13, <1>14, <1>16, <1>18 DEF RangesExact

-----------------------------------------------------------------------------
(* The invariant behind the theorems about single addresses. *)

LEMMA InitExact == Layout /\ Init => SpaceExact
<1> SUFFICES ASSUME Layout, Init PROVE SpaceExact
  OBVIOUS
<1>1. \A m \in Managers : holes[m] = <<FullHole(m)>> /\ lost[m] = {}
  BY DEF Init
<1>2. \A o \in Owners : held[o] = NoRange
  BY DEF Init
<1>3. ASSUME NEW m \in Managers
      PROVE  DOMAIN holes[m] = {1} /\ holes[m][1] = FullHole(m)
  BY <1>1, SMT
<1>4. ListsExact
  <2> SUFFICES ASSUME NEW m \in Reachable
               PROVE  /\ ListSorted(holes[m])
                      /\ Start(m) < VaMaxOf(m) => ListPositive(holes[m])
    BY DEF ListsExact
  <2>1. DOMAIN holes[m] = {1} /\ holes[m][1] = FullHole(m)
    BY <1>3, ReachableType
  <2>2. ListSorted(holes[m])
    <3>1. ~(1 < 1)
      BY SMT
    <3> QED
      BY <2>1, <3>1 DEF ListSorted
  <2>3. Start(m) < VaMaxOf(m) => FullHole(m).size > 0
    BY FullHoleSpans, ReachableType, SMT
  <2> QED
    BY <2>1, <2>2, <2>3 DEF ListPositive
<1>5. UnusedIdle /\ HeldPositive /\ LostApart
  BY <1>1, <1>2, ReachableType DEF UnusedIdle, HeldPositive, LostApart
<1>6. Accounted
  <2> SUFFICES ASSUME NEW m \in Reachable, NEW x \in Span(m)
               PROVE  InHoles(holes[m], x)
    BY DEF Accounted
  <2>1. PICK lo \in Nat, hi \in Nat : lo = Start(m) /\ hi = VaMaxOf(m)
    BY ReachableType
  <2>2. x \in Nat /\ lo <= x /\ x < hi
    BY <2>1, SpanMember
  <2>3. FullHole(m).offset = lo /\ FullHole(m).offset + FullHole(m).size = hi
    <3>1. lo + (hi - lo) = hi
      BY SMT
    <3> QED
      BY <2>1, <3>1, FullHoleSpans
  <2>4. Has(FullHole(m), x)
    BY <2>2, <2>3 DEF Has
  <2> QED
    BY <1>3, <2>4, ReachableType DEF InHoles
<1>7. CallsExact
  BY DEF Init, CallsExact
<1> QED
  BY <1>4, <1>5, <1>6, <1>7 DEF RangesExact, SpaceExact

LEMMA SearchExact ==
  ASSUME TypeOK, SpaceInvariant, SpaceExact, NEW t \in Threads, pc[t] # "publish",
         NEW m \in Reachable, NEW r \in Request, Searches(t, m, r), RequestExact(r)
  PROVE  SpaceExact'
<1>1. RangesExact /\ CallsExact
  BY DEF SpaceExact
<1>2. CallsExact'
  <2> SUFFICES ASSUME NEW u \in Threads, pc'[u] = "fallback"
               PROVE  RequestExact(req'[u])
    BY DEF CallsExact, RequestExact
  <2>1. CASE u = t
    <3>1. req'[t] = r
      BY DEF Searches, TypeOK
    <3> QED
      BY <2>1, <3>1
  <2>2. CASE u # t
    <3>1. req'[u] = req[u] /\ pc'[u] = pc[u]
      BY <2>2 DEF Searches, TypeOK
    <3> QED
      BY <1>1, <3>1 DEF CallsExact
  <2> QED
    BY <2>1, <2>2
<1>3. CASE Take(t, m, r)
  <2>1. ListsSound /\ RequestSound(r) /\ held[t] = NoRange /\ UNCHANGED lost
    BY DEF SpaceInvariant, CallsSound, Searches
  <2>2. PICK g, ns, i : Taken(t, m, g, ns) /\ PlacedIn(m, r, g, ns, i)
    BY <1>3, <2>1, TakePlaces
  <2>3. g.size > 0
    BY <2>2 DEF PlacedIn, RequestExact
  <2>4. RangesExact'
    BY <1>1, <2>1, <2>2, <2>3, TakeExact
  <2> QED
    BY <1>2, <2>4 DEF SpaceExact
<1>4. CASE ~Take(t, m, r)
  <2>1. UNCHANGED <<holes, held, lost>>
    BY <1>4 DEF Searches, Refuse
  <2>2. RangesExact'
    BY <1>1, <2>1 DEF RangesExact, ListsExact, UnusedIdle, HeldPositive, Accounted,
                      LostApart, Owned
  <2> QED
    BY <1>2, <2>2 DEF SpaceExact
<1> QED
  BY <1>3, <1>4

LEMMA ReturnExact ==
  ASSUME TypeOK, CallsExact, NEW t \in Threads, Return(t)
  PROVE  CallsExact'
  BY DEF TypeOK, CallsExact, Return, RequestExact

LEMMA PublishExact ==
  ASSUME TypeOK, SpaceInvariant, SpaceExact, NEW t \in Threads, NEW h \in Handles,
         Publish(t, h)
  PROVE  SpaceExact'
<1>1. /\ t \in Owners /\ h \in Owners /\ t # h
      /\ held \in [Owners -> VaRec]
      /\ RangesExact /\ CallsExact
      /\ held[h] = NoRange
  BY VaRangeAssumption DEF Owners, TypeOK, SpaceExact, Publish
<1>2. /\ held'[h] = held[t] /\ held'[t] = NoRange
      /\ \A o \in Owners : o # h /\ o # t => held'[o] = held[o]
      /\ UNCHANGED <<holes, lost>>
  BY <1>1 DEF Publish
<1>3. ASSUME NEW m \in Reachable, NEW o \in Owned(m)'
      PROVE  \E p \in Owned(m) : held'[o] = held[p]
  <2>1. o \in Owners /\ held'[o].mgr = m /\ o # t
    BY <1>2, NoRangeFacts, ReachableType DEF Owned
  <2>2. CASE o = h
    BY <1>1, <1>2, <2>1, <2>2 DEF Owned
  <2>3. CASE o # h
    BY <1>2, <2>1, <2>3 DEF Owned
  <2> QED
    BY <2>2, <2>3
<1>4. ASSUME NEW m \in Reachable, NEW p \in Owned(m)
      PROVE  \E o \in Owned(m)' : held'[o] = held[p]
  <2>1. p \in Owners /\ held[p].mgr = m /\ p # h
    BY <1>1, NoRangeFacts, ReachableType DEF Owned
  <2>2. CASE p = t
    BY <1>1, <1>2, <2>1, <2>2 DEF Owned
  <2>3. CASE p # t
    BY <1>2, <2>1, <2>3 DEF Owned
  <2> QED
    BY <2>2, <2>3
<1>5. ListsExact' /\ UnusedIdle' /\ HeldPositive'
  BY <1>1, <1>2 DEF RangesExact, ListsExact, UnusedIdle, HeldPositive
<1>6. Accounted'
  <2> SUFFICES ASSUME NEW m \in Reachable, NEW x \in Span(m)
               PROVE  \/ InHoles(holes[m], x)
                      \/ \E o \in Owned(m)' : x \in Addresses(held'[o])
                      \/ x \in lost[m]
    BY <1>2 DEF Accounted, Addresses, Span
  <2> QED
    BY <1>1, <1>4 DEF RangesExact, Accounted
<1>7. LostApart'
  <2> SUFFICES ASSUME NEW m \in Reachable, NEW x \in lost[m]
               PROVE  /\ x \in Span(m)
                      /\ ~InHoles(holes[m], x)
                      /\ \A o \in Owned(m)' : x \notin Addresses(held'[o])
    BY <1>2 DEF LostApart, Addresses, Span
  <2> QED
    BY <1>1, <1>3 DEF RangesExact, LostApart
<1>8. CallsExact'
  BY <1>1, ReturnExact DEF Publish
<1> QED
  BY <1>5, <1>6, <1>7, <1>8 DEF RangesExact, SpaceExact

LEMMA NextExact ==
  ASSUME NoWrap, NonEmpty, TypeOK, SpaceInvariant, SpaceExact, [Next]_vars
  PROVE  SpaceExact'
<1>1. RangesExact /\ CallsExact /\ CallsSound
  BY DEF SpaceExact, SpaceInvariant
<1>2. ASSUME NEW t \in Threads, NEW size \in Sizes, NEW align \in Alignments,
             NEW base \in Bases, NEW flags \in FlagSets, Alloc(t, size, align, base, flags)
      PROVE  SpaceExact'
  <2>1. PICK m \in Reachable, r \in Request :
           /\ Searches(t, m, r) /\ pc[t] = "idle"
           /\ NonEmpty => RequestExact(r)
    BY <1>2, AllocSearches
  <2> QED
    BY <2>1, SearchExact
<1>3. ASSUME NEW t \in Threads, Fallback(t)
      PROVE  SpaceExact'
  <2>1. PICK m \in Reachable, r \in Request :
           /\ Searches(t, m, r) /\ pc[t] = "fallback"
           /\ CallsExact => RequestExact(r)
    BY <1>1, <1>3, FallbackSearches
  <2> QED
    BY <1>1, <2>1, SearchExact
<1>4. ASSUME UNCHANGED <<holes, held, lost>>
      PROVE  RangesExact'
  BY <1>1, <1>4 DEF RangesExact, ListsExact, UnusedIdle, HeldPositive, Accounted,
                    LostApart, Owned
<1>5. ASSUME NEW t \in Threads, ReturnError(t)
      PROVE  SpaceExact'
  <2>1. UNCHANGED <<holes, held, lost>> /\ Return(t)
    BY <1>5 DEF ReturnError
  <2> QED
    BY <1>1, <1>4, <2>1, ReturnExact DEF SpaceExact
<1>6. ASSUME NEW t \in Threads, Undo(t)
      PROVE  SpaceExact'
  <2>1. t \in Owners /\ held[t] # NoRange /\ GiveBack(t) /\ Return(t)
    BY <1>1, <1>6 DEF Owners, CallsSound, Undo
  <2> QED
    BY <1>1, <2>1, GiveBackExact, ReturnExact DEF SpaceExact
<1>7. ASSUME NEW t \in Threads, NEW h \in Handles, RangeFree(t, h)
      PROVE  SpaceExact'
  <2>1. h \in Owners /\ held[h] # NoRange /\ GiveBack(h) /\ UNCHANGED <<pc, req>>
    BY <1>7, NoRangeFacts DEF Owners, RangeFree
  <2>2. CallsExact'
    BY <1>1, <2>1 DEF CallsExact, RequestExact
  <2> QED
    BY <1>1, <2>1, <2>2, GiveBackExact DEF SpaceExact
<1>8. ASSUME UNCHANGED vars
      PROVE  SpaceExact'
  <2>1. CallsExact'
    BY <1>1, <1>8 DEF vars, CallsExact, RequestExact
  <2> QED
    BY <1>4, <1>8, <2>1 DEF vars, SpaceExact
<1> QED
  BY <1>2, <1>3, <1>5, <1>6, <1>7, <1>8, PublishExact DEF Next, ThreadNext

(* The account of single addresses is kept by every step. *)
THEOREM AddressesAccounted ==
  ASSUME Layout, NoWrap, NonEmpty
  PROVE  Spec => []SpaceExact
<1>1. Init => SpaceExact
  BY InitExact
<1>2. TypeOK /\ SpaceInvariant /\ SpaceExact /\ [Next]_vars => SpaceExact'
  BY NextExact
<1>3. Spec => []SpaceInvariant
  BY HolesAndRangesApart
<1> QED
  BY <1>1, <1>2, <1>3, TypeCorrect, PTL DEF Spec

(* Whatever was taken and freed, in whatever order, the holes of a manager *)
(* are listed from the highest down and none touches the next: a freed     *)
(* range always joins its neighbours.                                      *)
THEOREM HolesCoalesced ==
  ASSUME Layout, NoWrap, NonEmpty
  PROVE  Spec => []Coalesced
<1>1. SpaceExact => Coalesced
  <2> SUFFICES ASSUME SpaceExact, NEW m \in Managers PROVE ListSorted(holes[m])
    BY DEF Coalesced, ListSorted
  <2>1. CASE m \in Reachable
    BY <2>1 DEF SpaceExact, RangesExact, ListsExact
  <2>2. CASE m \notin Reachable
    <3>1. holes[m] = <<FullHole(m)>>
      BY <2>2 DEF SpaceExact, RangesExact, UnusedIdle
    <3>2. \A i, j \in DOMAIN holes[m] : ~(i < j)
      BY <3>1, SMT
    <3> QED
      BY <3>2 DEF ListSorted
  <2> QED
    BY <2>1, <2>2
<1> QED
  BY <1>1, AddressesAccounted, PTL

(* The unused managers of a device without a high range. *)
LEMMA UnusedSpan ==
  ASSUME NoHighOffset, NEW m \in Managers, m \notin Reachable
  PROVE  HoleAddresses(FullHole(m)) = Span(m)
<1>1. ~HasHigh /\ HighOffset = 0
  BY DEF Reachable, NoHighOffset
<1>2. m = "vamgr_high_32" \/ m = "vamgr_high"
  BY <1>1 DEF Reachable, Managers
<1>3. MaxHigh32 = 0
  BY <1>1 DEF HasHigh, VaMaxOf
<1>4. Start(m) = 0
  BY <1>1, <1>2, <1>3 DEF Start
<1>5. PICK v \in Nat : v = VaMaxOf(m)
  BY LayoutType, Words
<1>6. FullHole(m).offset = 0 /\ FullHole(m).size = v
  BY <1>4, <1>5, SMT DEF FullHole, WSub
<1>7. 0 .. 0 + v - 1 = 0 .. v - 1
  BY SMT
<1> QED
  BY <1>4, <1>5, <1>6, <1>7 DEF HoleAddresses, Span

(* What the holes, the ranges and the lost addresses of a manager must be  *)
(* to cover it once.                                                       *)
Covered(m) ==
    /\ \A x \in Span(m) :
          \/ \E i \in DOMAIN holes[m] : x \in HoleAddresses(holes[m][i])
          \/ \E o \in Owned(m) : x \in Addresses(held[o])
          \/ x \in lost[m]
    /\ \A i \in DOMAIN holes[m] :
          /\ HoleAddresses(holes[m][i]) \subseteq Span(m)
          /\ HoleAddresses(holes[m][i]) \cap lost[m] = {}
          /\ \A o \in Owned(m) : HoleAddresses(holes[m][i]) \cap Addresses(held[o]) = {}
    /\ \A o \in Owned(m) :
          Addresses(held[o]) \subseteq Span(m) /\ Addresses(held[o]) \cap lost[m] = {}
    /\ lost[m] \subseteq Span(m)
    /\ \A i, j \in DOMAIN holes[m] :
          i # j => HoleAddresses(holes[m][i]) \cap HoleAddresses(holes[m][j]) = {}
    /\ \A o, p \in Owned(m) : o # p => Addresses(held[o]) \cap Addresses(held[p]) = {}

LEMMA ReachableCovered ==
  ASSUME TypeOK, SpaceInvariant, SpaceExact, NEW m \in Reachable
  PROVE  Covered(m)
<1>1. /\ holes[m] \in Seq(Hole) /\ \A i \in DOMAIN holes[m] : holes[m][i] \in Hole
      /\ lost[m] \subseteq Nat
  BY ReachableType, EntryType DEF TypeOK
<1>2. /\ ListApart(holes[m]) /\ Accounted /\ LostApart
  BY DEF SpaceInvariant, ListsSound, SpaceExact, RangesExact
<1>3. ASSUME NEW x, NEW i \in DOMAIN holes[m]
      PROVE  x \in HoleAddresses(holes[m][i]) <=> x \in Nat /\ Has(holes[m][i], x)
  BY <1>1, HoleMember
<1>4. ASSUME NEW x \in Span(m)
      PROVE  \/ \E i \in DOMAIN holes[m] : x \in HoleAddresses(holes[m][i])
             \/ \E o \in Owned(m) : x \in Addresses(held[o])
             \/ x \in lost[m]
  <2>1. x \in Nat
    BY SpanMember
  <2> QED
    BY <1>2, <1>3, <2>1 DEF Accounted, InHoles
<1>5. ASSUME NEW i \in DOMAIN holes[m], NEW x \in HoleAddresses(holes[m][i])
      PROVE  /\ x \in Span(m) /\ x \notin lost[m]
             /\ \A o \in Owned(m) : x \notin Addresses(held[o])
  <2>1. x \in Nat /\ InHoles(holes[m], x)
    BY <1>3 DEF InHoles
  <2> QED
    BY <1>2, <2>1, HoleAddressFree DEF LostApart
<1>6. ASSUME NEW o \in Owned(m)
      PROVE  /\ Addresses(held[o]) \subseteq Span(m)
             /\ Addresses(held[o]) \cap lost[m] = {}
  <2>1. held[o] \in VaRec /\ held[o].mgr = m /\ RangeSound(held[o])
    BY NoRangeFacts, ReachableType DEF Owned, TypeOK, SpaceInvariant, HeldSound
  <2>2. Addresses(held[o]) \subseteq Span(m)
    BY <2>1, SpanAddresses DEF RangeSound
  <2> QED
    BY <1>2, <2>2 DEF LostApart
<1>7. lost[m] \subseteq Span(m)
  BY <1>2 DEF LostApart
<1>8. ASSUME NEW i \in DOMAIN holes[m], NEW j \in DOMAIN holes[m], i # j
      PROVE  HoleAddresses(holes[m][i]) \cap HoleAddresses(holes[m][j]) = {}
  <2>1. HolesApart(holes[m][i], holes[m][j])
    BY <1>2, <1>8 DEF ListApart
  <2> QED
    BY <1>1, <2>1, HoleFields, ApartAddresses DEF HolesApart, HoleAddresses
<1>9. ASSUME NEW o \in Owned(m), NEW p \in Owned(m), o # p
      PROVE  Addresses(held[o]) \cap Addresses(held[p]) = {}
  <2>1. held[o] \in VaRec /\ held[p] \in VaRec
    BY DEF Owned, TypeOK
  <2>2. Apart(held[o].address, held[o].size, held[p].address, held[p].size)
    BY <1>9 DEF Owned, SpaceInvariant, HeldApart
  <2> QED
    BY <2>1, <2>2, RangeFields, ApartAddresses DEF Addresses
<1> QED
  BY <1>4, <1>5, <1>6, <1>7, <1>8, <1>9 DEF Covered

LEMMA UnusedCovered ==
  ASSUME NoHighOffset, SpaceInvariant, SpaceExact, NEW m \in Managers, m \notin Reachable
  PROVE  Covered(m)
<1>1. holes[m] = <<FullHole(m)>> /\ lost[m] = {}
  BY DEF SpaceExact, RangesExact, UnusedIdle
<1>2. DOMAIN holes[m] = {1} /\ holes[m][1] = FullHole(m)
  BY <1>1, SMT
<1>3. Owned(m) = {}
  BY NoRangeFacts DEF Owned, SpaceInvariant, HeldSound, RangeSound
<1>4. HoleAddresses(holes[m][1]) = Span(m)
  BY <1>2, UnusedSpan
<1> QED
  BY <1>1, <1>2, <1>3, <1>4 DEF Covered

(* Every address of a manager is in exactly one hole, range or lost        *)
(* stretch, however many clients take and free ranges, and whether or not  *)
(* free_va gets the memory it asks for.                                    *)
THEOREM AddressesOnce ==
  ASSUME Layout, NoWrap, NonEmpty, NoHighOffset
  PROVE  Spec => []EveryAddressOnce
<1>1. ASSUME TypeOK, SpaceInvariant, SpaceExact
      PROVE  EveryAddressOnce
  <2> SUFFICES ASSUME NEW m \in Managers
               PROVE  LET parts == {<<"hole", i, HoleAddresses(holes[m][i])>> : i \in DOMAIN holes[m]}
                                      \cup {<<"held", o, Addresses(held[o])>> : o \in Owned(m)}
                                      \cup {<<"lost", 0, lost[m]>>}
                      IN  /\ \A a \in Span(m) : \E p \in parts : a \in p[3]
                          /\ \A p \in parts : p[3] \subseteq Span(m)
                          /\ \A p, q \in parts : p # q => p[3] \cap q[3] = {}
    BY DEF EveryAddressOnce
  <2>1. Covered(m)
    BY <1>1, ReachableCovered, UnusedCovered
  <2> DEFINE hole == {<<"hole", i, HoleAddresses(holes[m][i])>> : i \in DOMAIN holes[m]}
             range == {<<"held", o, Addresses(held[o])>> : o \in Owned(m)}
             parts == hole \cup range \cup {<<"lost", 0, lost[m]>>}
  <2>2. \A p \in parts :
           \/ \E i \in DOMAIN holes[m] : p = <<"hole", i, HoleAddresses(holes[m][i])>>
           \/ \E o \in Owned(m) : p = <<"held", o, Addresses(held[o])>>
           \/ p = <<"lost", 0, lost[m]>>
    OBVIOUS
  <2>3. /\ \A i \in DOMAIN holes[m] : <<"hole", i, HoleAddresses(holes[m][i])>> \in parts
        /\ \A o \in Owned(m) : <<"held", o, Addresses(held[o])>> \in parts
        /\ <<"lost", 0, lost[m]>> \in parts
    OBVIOUS
  <2> HIDE DEF parts
  <2>4. ASSUME NEW a \in Span(m)
        PROVE  \E p \in parts : a \in p[3]
    <3>1. \/ \E i \in DOMAIN holes[m] : a \in HoleAddresses(holes[m][i])
          \/ \E o \in Owned(m) : a \in Addresses(held[o])
          \/ a \in lost[m]
      BY <2>1 DEF Covered
    <3>2. ASSUME NEW i \in DOMAIN holes[m], a \in HoleAddresses(holes[m][i])
          PROVE  \E p \in parts : a \in p[3]
      BY <2>3, <3>2
    <3>3. ASSUME NEW o \in Owned(m), a \in Addresses(held[o])
          PROVE  \E p \in parts : a \in p[3]
      BY <2>3, <3>3
    <3>4. a \in lost[m] => \E p \in parts : a \in p[3]
      BY <2>3
    <3> QED
      BY <3>1, <3>2, <3>3, <3>4
  <2>5. \A p \in parts : p[3] \subseteq Span(m)
    BY <2>1, <2>2 DEF Covered
  <2>6. ASSUME NEW p \in parts, NEW q \in parts, p # q
        PROVE  p[3] \cap q[3] = {}
    <3>1. ASSUME NEW i \in DOMAIN holes[m], p = <<"hole", i, HoleAddresses(holes[m][i])>>
          PROVE  p[3] \cap q[3] = {}
      BY <2>1, <2>2, <2>6, <3>1 DEF Covered
    <3>2. ASSUME NEW o \in Owned(m), p = <<"held", o, Addresses(held[o])>>
          PROVE  p[3] \cap q[3] = {}
      BY <2>1, <2>2, <2>6, <3>2 DEF Covered
    <3>3. CASE p = <<"lost", 0, lost[m]>>
      BY <2>1, <2>2, <2>6, <3>3 DEF Covered
    <3> QED
      BY <2>2, <3>1, <3>2, <3>3
  <2> QED
    BY <2>4, <2>5, <2>6 DEF parts
<1>2. Spec => []TypeOK /\ []SpaceInvariant /\ []SpaceExact
  BY TypeCorrect, HolesAndRangesApart, AddressesAccounted
<1> QED
  BY <1>1, <1>2, PTL

-----------------------------------------------------------------------------
(* What a search finds is what the address space has. *)

(* The addresses that the ranges leave free are those of the holes. *)
LEMMA FreeIsHoles ==
  ASSUME TypeOK, SpaceInvariant, SpaceExact, NEW m \in Reachable, NEW x
  PROVE  x \in FreeSpace(m) <=> x \in Nat /\ InHoles(holes[m], x)
<1>1. Accounted /\ LostApart
  BY DEF SpaceExact, RangesExact
<1>2. ASSUME x \in FreeSpace(m)
      PROVE  x \in Nat /\ InHoles(holes[m], x)
  <2>1. x \in Span(m) /\ x \notin lost[m] /\ \A o \in Owned(m) : x \notin Addresses(held[o])
    BY <1>2 DEF FreeSpace
  <2> QED
    BY <1>1, <2>1, SpanMember DEF Accounted
<1>3. ASSUME x \in Nat, InHoles(holes[m], x)
      PROVE  x \in FreeSpace(m)
  <2>1. x \in Span(m) /\ \A o \in Owned(m) : x \notin Addresses(held[o])
    BY <1>3, HoleAddressFree
  <2>2. x \notin lost[m]
    BY <1>1, <1>3 DEF LostApart
  <2> QED
    BY <2>1, <2>2 DEF FreeSpace
<1> QED
  BY <1>2, <1>3

(* The request as find_va computes with it. *)
LEMMA SearchFits ==
  ASSUME TypeOK, SpaceInvariant, NEW m \in Reachable, NEW r \in Request,
         RequestSound(r), RequestExact(r), NEW j \in DOMAIN holes[m]
  PROVE  /\ Normalise(r).size = r.size /\ Normalise(r).align = r.align
         /\ Normalise(r).base = r.base /\ Normalise(r).top = r.top
         /\ holes[m] \in Seq(Hole) /\ holes[m][j] \in Hole
         /\ Fits(holes[m][j], Normalise(r), VaMaxOf(m))
<1>1. /\ r.size \in Nat /\ r.align \in Nat /\ r.base \in Nat /\ VaAlign \in Nat \ {0}
      /\ r.size > 0 /\ r.align >= VaAlign
  BY Words DEF Request, RequestExact
<1>2. MAX2(r.align, VaAlign) = r.align
  BY <1>1, SMT DEF MAX2
<1>3. /\ Normalise(r).size = r.size /\ Normalise(r).align = r.align
      /\ Normalise(r).base = r.base /\ Normalise(r).top = r.top
  BY <1>2 DEF Normalise, Request, RequestSound
<1>4. holes[m] \in Seq(Hole) /\ holes[m][j] \in Hole
  BY ReachableType, EntryType DEF TypeOK
<1>5. holes[m][j].offset + holes[m][j].size <= VaMaxOf(m)
  BY DEF SpaceInvariant, ListsSound, ListWithin, Within
<1>6. r.base + r.size < AddrMod /\ VaMaxOf(m) + r.align <= AddrMod
  BY <1>2 DEF RequestSound
<1>7. r.size \in Nat \ {0} /\ r.align \in Nat \ {0}
  BY <1>1, SMT
<1> QED
  BY <1>1, <1>3, <1>4, <1>5, <1>6, <1>7, ReachableType DEF Fits

(* Wherever the ranges leave room for a request, a hole takes it, at no    *)
(* worse a place.                                                          *)
LEMMA RunIsFound ==
  ASSUME TypeOK, SpaceInvariant, SpaceExact, NEW m \in Reachable, NEW r \in Request,
         RequestSound(r), RequestExact(r), NEW b \in FreeRuns(m, r)
  PROVE  /\ b \in Nat
         /\ \E j \in DOMAIN holes[m] :
               /\ Covers(holes[m][j], b, r.size)
               /\ Takes(holes[m][j], Normalise(r))
               /\ r.base = 0 =>
                     IF r.top THEN b <= Place(holes[m][j], Normalise(r))
                     ELSE Place(holes[m][j], Normalise(r)) <= b
<1>1. /\ b \in Nat /\ b % r.align = 0 /\ (r.base # 0 => b = r.base)
      /\ b .. b + r.size - 1 \subseteq FreeSpace(m)
  BY SpanMember DEF FreeRuns
<1>2. PICK n \in Nat \ {0} : n = r.size
  <2>1. r.size \in Nat /\ r.size > 0
    BY Words DEF Request, RequestExact
  <2> QED
    BY <2>1, SMT
<1>3. holes[m] \in Seq(Hole) /\ ListSorted(holes[m])
  BY ReachableType DEF TypeOK, SpaceExact, RangesExact, ListsExact
<1>4. \A x \in b .. b + n - 1 : InHoles(holes[m], x)
  BY <1>1, <1>2, FreeIsHoles
<1>5. PICK j \in DOMAIN holes[m] : Covers(holes[m][j], b, n)
  BY <1>1, <1>2, <1>3, <1>4, RunInHole
<1> DEFINE q == Normalise(r)
<1>6. /\ q.size = r.size /\ q.align = r.align /\ q.base = r.base /\ q.top = r.top
      /\ holes[m][j] \in Hole /\ Fits(holes[m][j], q, VaMaxOf(m))
  BY SearchFits
<1> HIDE DEF q
<1>7. b % q.align = 0 /\ (q.base # 0 => b = q.base) /\ Covers(holes[m][j], b, q.size)
  BY <1>1, <1>2, <1>5, <1>6
<1>8. /\ Takes(holes[m][j], q)
      /\ q.base = 0 => IF q.top THEN b <= Place(holes[m][j], q)
                       ELSE Place(holes[m][j], q) <= b
  BY <1>1, <1>6, <1>7, RoomIsTaken
<1> QED
  BY <1>1, <1>2, <1>5, <1>6, <1>8 DEF q

(* The place a search takes is free, aligned, and no run of free addresses *)
(* is better.                                                              *)
LEMMA TakenIsBest ==
  ASSUME TypeOK, SpaceInvariant, SpaceExact, NEW t, NEW m \in Reachable, NEW r \in Request,
         RequestSound(r), RequestExact(r), NEW g, NEW ns, NEW i,
         Taken(t, m, g, ns), PlacedIn(m, r, g, ns, i)
  PROVE  /\ g.address \in FreeRuns(m, r)
         /\ \A b \in FreeRuns(m, r) : IF r.top THEN b <= g.address ELSE g.address <= b
<1> DEFINE q == Normalise(r)
<1>1. /\ i \in DOMAIN holes[m] /\ ~Misaligned(q) /\ FirstFit(holes[m], q, i)
      /\ g.address = Place(holes[m][i], q) /\ g.size = r.size
      /\ Covers(holes[m][i], g.address, g.size)
      /\ g \in VaRec
  BY DEF PlacedIn, Taken
<1>2. /\ q.size = r.size /\ q.align = r.align /\ q.base = r.base /\ q.top = r.top
      /\ holes[m] \in Seq(Hole) /\ holes[m][i] \in Hole
      /\ Fits(holes[m][i], q, VaMaxOf(m))
  BY <1>1, SearchFits
<1> HIDE DEF q
<1>3. PICK a \in Nat, n \in Nat, o \in Nat, z \in Nat :
         /\ a = g.address /\ n = g.size /\ o = holes[m][i].offset /\ z = holes[m][i].size
         /\ n > 0 /\ o <= a /\ a + n <= o + z
  BY <1>1, <1>2, RangeFields, HoleFields DEF RequestExact, Covers
<1>4. Takes(holes[m][i], q)
  BY <1>1 DEF FirstFit
<1>5. a % r.align = 0 /\ (r.base # 0 => a = r.base)
  BY <1>1, <1>2, <1>3, <1>4, PlaceAligned
<1>6. ASSUME NEW x \in a .. a + n - 1
      PROVE  x \in FreeSpace(m)
  <2>1. x \in Nat /\ o <= x /\ x < o + z
    BY <1>3
  <2>2. InHoles(holes[m], x)
    BY <1>1, <1>3, <2>1 DEF InHoles, Has
  <2> QED
    BY <2>1, <2>2, FreeIsHoles
<1>7. a \in FreeRuns(m, r)
  <2>1. a \in a .. a + n - 1
    BY <1>3
  <2>2. a \in Span(m)
    BY <1>6, <2>1 DEF FreeSpace
  <2> QED
    BY <1>1, <1>3, <1>5, <1>6, <2>2 DEF FreeRuns
<1>8. ASSUME NEW b \in FreeRuns(m, r)
      PROVE  IF r.top THEN b <= a ELSE a <= b
  <2>1. PICK j \in DOMAIN holes[m] :
           /\ Covers(holes[m][j], b, r.size)
           /\ Takes(holes[m][j], q)
           /\ r.base = 0 => IF r.top THEN b <= Place(holes[m][j], q)
                            ELSE Place(holes[m][j], q) <= b
    BY RunIsFound DEF q
  <2>2. b \in Nat
    BY RunIsFound
  <2>3. CASE r.base # 0
    <3>1. a = b
      BY <1>5, <2>3 DEF FreeRuns
    <3> QED
      BY <3>1
  <2>4. CASE r.base = 0 /\ j = i
    BY <1>1, <1>3, <2>1, <2>4
  <2>5. CASE j # i
    <3>1. PICK c \in Nat, d \in Nat :
             /\ c = holes[m][j].offset /\ d = holes[m][j].size
             /\ c <= b /\ b + n <= c + d
      BY <1>1, <1>2, <1>3, <2>1, EntryEnds DEF Covers
    <3>2. /\ i \in Nat /\ j \in Nat
          /\ IF r.top THEN i <= j ELSE j <= i
      BY <1>1, <1>2, <2>1, EntryEnds DEF FirstFit
    <3>3. ListSorted(holes[m])
      BY DEF SpaceExact, RangesExact, ListsExact
    <3>4. CASE r.top
      <4>1. i < j
        BY <2>5, <3>2, <3>4
      <4>2. c + d < o
        BY <1>1, <1>3, <3>1, <3>3, <4>1 DEF ListSorted
      <4>3. b <= a
        BY <1>3, <2>2, <3>1, <4>2
      <4> QED
        BY <3>4, <4>3
    <3>5. CASE ~r.top
      <4>1. j < i
        BY <2>5, <3>2, <3>5
      <4>2. o + z < c
        BY <1>1, <1>3, <3>1, <3>3, <4>1 DEF ListSorted
      <4>3. a <= b
        BY <1>3, <2>2, <3>1, <4>2
      <4> QED
        BY <3>5, <4>3
    <3> QED
      BY <3>4, <3>5
  <2> QED
    BY <2>3, <2>4, <2>5
<1> QED
  BY <1>3, <1>7, <1>8

(* A call that moves on, and not back to its client, has just searched.    *)
LEMMA SearchOf ==
  ASSUME NoWrap, NonEmpty, TypeOK, SpaceInvariant, SpaceExact, [Next]_vars,
         NEW u \in Threads, pc'[u] # pc[u], pc'[u] # "idle"
  PROVE  \E m \in Reachable, r \in Request :
            Searches(u, m, r) /\ RequestExact(r) /\ pc[u] # "publish"
<1>1. CallsSound /\ CallsExact
  BY DEF SpaceInvariant, SpaceExact
<1>2. ASSUME NEW t \in Threads, NEW m \in Reachable, NEW r \in Request,
             Searches(t, m, r), RequestExact(r), pc[t] # "publish"
      PROVE  \E x \in Reachable, y \in Request :
                Searches(u, x, y) /\ RequestExact(y) /\ pc[u] # "publish"
  <2>1. u = t
    BY <1>2 DEF Searches, TypeOK
  <2> QED
    BY <1>2, <2>1
<1>3. ASSUME NEW t \in Threads, NEW size \in Sizes, NEW align \in Alignments,
             NEW base \in Bases, NEW flags \in FlagSets, Alloc(t, size, align, base, flags)
      PROVE  \E x \in Reachable, y \in Request :
                Searches(u, x, y) /\ RequestExact(y) /\ pc[u] # "publish"
  <2>1. PICK m \in Reachable, r \in Request :
           /\ Searches(t, m, r) /\ pc[t] = "idle"
           /\ NonEmpty => RequestExact(r)
    BY <1>3, AllocSearches
  <2> QED
    BY <1>2, <2>1
<1>4. ASSUME NEW t \in Threads, Fallback(t)
      PROVE  \E x \in Reachable, y \in Request :
                Searches(u, x, y) /\ RequestExact(y) /\ pc[u] # "publish"
  <2>1. PICK m \in Reachable, r \in Request :
           /\ Searches(t, m, r) /\ pc[t] = "fallback"
           /\ CallsExact => RequestExact(r)
    BY <1>1, <1>4, FallbackSearches
  <2> QED
    BY <1>1, <1>2, <2>1
<1>5. ASSUME NEW t \in Threads, Return(t)
      PROVE  FALSE
  BY <1>5 DEF Return, TypeOK
<1>6. ASSUME UNCHANGED pc
      PROVE  FALSE
  BY <1>6
<1> QED
  BY <1>3, <1>4, <1>5, <1>6
     DEF Next, ThreadNext, ReturnError, Publish, Undo, RangeFree, vars

LEMMA SuccessTakes ==
  ASSUME NoWrap, NonEmpty, TypeOK, SpaceInvariant, SpaceExact, [Next]_vars,
         NEW t \in Threads, pc[t] # "publish", pc'[t] = "publish"
  PROVE  \E m \in Reachable, r \in Request : \E g, ns, i :
            /\ RequestSound(r) /\ RequestExact(r) /\ r.mgr = m
            /\ req'[t] = r /\ held'[t] = g
            /\ Taken(t, m, g, ns) /\ PlacedIn(m, r, g, ns, i)
<1>1. PICK m \in Reachable, r \in Request :
         Searches(t, m, r) /\ RequestExact(r) /\ pc[t] # "publish"
  BY SearchOf
<1>2. RequestSound(r) /\ r.mgr = m /\ req'[t] = r
  BY <1>1 DEF Searches, TypeOK
<1>3. Take(t, m, r)
  BY <1>1 DEF Searches, TypeOK
<1>4. PICK g, ns, i : Taken(t, m, g, ns) /\ PlacedIn(m, r, g, ns, i)
  BY <1>2, <1>3, TakePlaces DEF SpaceInvariant
<1>5. held'[t] = g
  BY <1>4 DEF Taken, TypeOK, Owners
<1> QED
  BY <1>1, <1>2, <1>4, <1>5

(* The walk of the hole list from one end finds the lowest address of the  *)
(* whole manager that would do, or the highest for a search from the top.  *)
THEOREM BestPlaceTaken ==
  ASSUME Layout, NoWrap, NonEmpty
  PROVE  Spec => TakesBestPlace
<1> DEFINE Best == \A t \in Threads :
                      pc[t] # "publish" /\ pc'[t] = "publish" =>
                         /\ held'[t].address \in FreeRuns(req'[t].mgr, req'[t])
                         /\ \A b \in FreeRuns(req'[t].mgr, req'[t]) :
                               IF req'[t].top THEN b <= held'[t].address
                               ELSE held'[t].address <= b
<1>1. ASSUME TypeOK, SpaceInvariant, SpaceExact, [Next]_vars
      PROVE  Best
  <2> SUFFICES ASSUME NEW t \in Threads, pc[t] # "publish", pc'[t] = "publish"
               PROVE  /\ held'[t].address \in FreeRuns(req'[t].mgr, req'[t])
                      /\ \A b \in FreeRuns(req'[t].mgr, req'[t]) :
                            IF req'[t].top THEN b <= held'[t].address
                            ELSE held'[t].address <= b
    OBVIOUS
  <2>1. PICK m \in Reachable, r \in Request :
           \E g, ns, i :
              /\ RequestSound(r) /\ RequestExact(r) /\ r.mgr = m
              /\ req'[t] = r /\ held'[t] = g
              /\ Taken(t, m, g, ns) /\ PlacedIn(m, r, g, ns, i)
    BY <1>1, SuccessTakes
  <2>2. PICK g, ns, i :
           /\ RequestSound(r) /\ RequestExact(r) /\ r.mgr = m
           /\ req'[t] = r /\ held'[t] = g
           /\ Taken(t, m, g, ns) /\ PlacedIn(m, r, g, ns, i)
    BY <2>1
  <2>3. /\ g.address \in FreeRuns(m, r)
        /\ \A b \in FreeRuns(m, r) : IF r.top THEN b <= g.address ELSE g.address <= b
    BY <1>1, <2>2, TakenIsBest
  <2> QED
    BY <2>2, <2>3
<1>2. Spec => []TypeOK /\ []SpaceInvariant /\ []SpaceExact
  BY TypeCorrect, HolesAndRangesApart, AddressesAccounted
<1>3. TakesBestPlace <=> [][Best]_vars
  BY DEF TakesBestPlace
<1> HIDE DEF Best
<1> QED
  BY <1>1, <1>2, <1>3, PTL DEF Spec

(* While memory lasts, a manager turns down only what no run of its free   *)
(* addresses could hold.                                                   *)
THEOREM RefusedWhenFull ==
  ASSUME Layout, NoWrap, NonEmpty, CallocMayFail = FALSE
  PROVE  Spec => FailsOnlyWhenFull
<1> DEFINE Full == \A t \in Threads :
                      pc'[t] # pc[t] /\ pc'[t] \in {"fallback", "failed"} =>
                         FreeRuns(req'[t].mgr, req'[t]) = {}
<1>1. ASSUME TypeOK, SpaceInvariant, SpaceExact, [Next]_vars
      PROVE  Full
  <2> SUFFICES ASSUME NEW t \in Threads, pc'[t] # pc[t], pc'[t] \in {"fallback", "failed"},
                      NEW b \in FreeRuns(req'[t].mgr, req'[t])
               PROVE  FALSE
    OBVIOUS
  <2>1. PICK m \in Reachable, r \in Request :
           Searches(t, m, r) /\ RequestExact(r) /\ pc[t] # "publish"
    BY <1>1, SearchOf
  <2>2. RequestSound(r) /\ r.mgr = m /\ req'[t] = r
    BY <1>1, <2>1 DEF Searches, TypeOK
  <2>3. Refuse(m, r)
    BY <1>1, <2>1 DEF Searches, TypeOK
  <2>4. PICK j \in DOMAIN holes[m] : Takes(holes[m][j], Normalise(r))
    BY <1>1, <2>1, <2>2, RunIsFound
  <2>5. Misaligned(Normalise(r))
    BY <2>3, <2>4 DEF Refuse, NoFit
  <2>6. Normalise(r).align = r.align /\ Normalise(r).base = r.base
    BY <1>1, <2>1, <2>2, <2>4, SearchFits
  <2>7. r.base % r.align # 0
    BY <2>5, <2>6 DEF Misaligned
  <2>8. CASE r.base = 0
    <3>1. r.align \in Nat \ {0}
      <4>1. r.align \in Nat /\ r.align >= VaAlign /\ VaAlign \in Nat \ {0}
        BY <2>1, Words DEF Request, RequestExact
      <4> QED
        BY <4>1, SMT
    <3>2. 0 % r.align = 0
      BY <3>1, SMT
    <3> QED
      BY <2>7, <2>8, <3>2
  <2>9. CASE r.base # 0
    BY <2>2, <2>7, <2>9 DEF FreeRuns
  <2> QED
    BY <2>8, <2>9
<1>2. Spec => []TypeOK /\ []SpaceInvariant /\ []SpaceExact
  BY TypeCorrect, HolesAndRangesApart, AddressesAccounted
<1>3. FailsOnlyWhenFull <=> [][Full]_vars
  BY DEF FailsOnlyWhenFull
<1> HIDE DEF Full
<1> QED
  BY <1>1, <1>2, <1>3, PTL DEF Spec

(* While no sum wraps, a client that names an address of some range is     *)
(* refused; the run that lets base + size wrap shows what happens when one *)
(* does.                                                                   *)
THEOREM BaseRefused ==
  ASSUME Layout, NoWrap, NonEmpty
  PROVE  Spec => BaseInUseRefused
<1> DEFINE Refused == \A t \in Threads :
                         pc[t] # "publish" /\ pc'[t] = "publish" /\ req'[t].base # 0 =>
                            \A o \in Owners : req'[t].base \notin Addresses(held[o])
<1>1. ASSUME TypeOK, SpaceInvariant, SpaceExact, [Next]_vars
      PROVE  Refused
  <2> SUFFICES ASSUME NEW t \in Threads, pc[t] # "publish", pc'[t] = "publish",
                      req'[t].base # 0, NEW o \in Owners
               PROVE  req'[t].base \notin Addresses(held[o])
    OBVIOUS
  <2>1. PICK m \in Reachable, r \in Request :
           \E g, ns, i :
              /\ RequestSound(r) /\ RequestExact(r) /\ r.mgr = m
              /\ req'[t] = r /\ held'[t] = g
              /\ Taken(t, m, g, ns) /\ PlacedIn(m, r, g, ns, i)
    BY <1>1, SuccessTakes
  <2>2. PICK g, ns, i :
           /\ RequestSound(r) /\ RequestExact(r) /\ r.mgr = m
           /\ req'[t] = r /\ held'[t] = g
           /\ Taken(t, m, g, ns) /\ PlacedIn(m, r, g, ns, i)
    BY <2>1
  <2>3. g.address = r.base /\ g.size > 0 /\ g \in VaRec
    <3>1. g.address \in FreeRuns(m, r)
      BY <1>1, <2>2, TakenIsBest
    <3> QED
      BY <2>2, <3>1 DEF FreeRuns, PlacedIn, RequestExact, Taken
  <2>4. r.base \in Addresses(g)
    <3>1. PICK a \in Nat, n \in Nat : a = g.address /\ n = g.size /\ n > 0
      BY <2>3, RangeFields
    <3>2. a <= a /\ a < a + n
      BY <3>1, SMT
    <3> QED
      BY <2>3, <3>1, <3>2, AddressMember
  <2>5. Addresses(g) \cap Addresses(held[o]) = {}
    BY <1>1, <2>2, TakenFree DEF SpaceInvariant
  <2> QED
    BY <2>2, <2>4, <2>5
<1>2. Spec => []TypeOK /\ []SpaceInvariant /\ []SpaceExact
  BY TypeCorrect, HolesAndRangesApart, AddressesAccounted
<1>3. BaseInUseRefused <=> [][Refused]_vars
  BY DEF BaseInUseRefused
<1> HIDE DEF Refused
<1> QED
  BY <1>1, <1>2, <1>3, PTL DEF Spec
=============================================================================
