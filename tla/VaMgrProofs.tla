---------------------------- MODULE VaMgrProofs ----------------------------
(***************************************************************************)
(* Lemmas about the hole-list algorithms of VaMgr, for every list, every   *)
(* address width and every alignment.                                      *)
(***************************************************************************)
EXTENDS VaMgr, TLAPS

-----------------------------------------------------------------------------
(* Remainders.  The solver knows that x = a * (x \div a) + x % a; what it  *)
(* lacks is that the quotient is unique.                                   *)

LEMMA DivMod ==
  ASSUME NEW x \in Nat, NEW a \in Nat \ {0}
  PROVE  /\ x = (a * (x \div a)) + (x % a)
         /\ x \div a \in Int
         /\ x % a \in 0 .. a - 1
  BY SMT

LEMMA MultiplesStep ==
  ASSUME NEW a \in Nat \ {0}, NEW k \in Int, NEW q \in Int, k >= q + 1
  PROVE  a * k >= a * q + a
<1>1. a * (k - (q + 1)) >= 0
  BY SMT
<1>2. a * (k - (q + 1)) = a * k - a * q - a
  BY SMT
<1> QED
  BY <1>1, <1>2, SMT

LEMMA RemainderUnique ==
  ASSUME NEW a \in Nat \ {0}, NEW k \in Int, NEW q \in Int,
         NEW r \in 0 .. a - 1, NEW t \in 0 .. a - 1,
         (a * k) + r = (a * q) + t
  PROVE  r = t
<1>1. a * k \in Int /\ a * q \in Int
  BY SMT
<1>2. ~(k >= q + 1)
  BY <1>1, MultiplesStep, SMT
<1>3. ~(q >= k + 1)
  BY <1>1, MultiplesStep, SMT
<1> QED
  BY <1>1, <1>2, <1>3, SMT

LEMMA RemainderOf ==
  ASSUME NEW x \in Nat, NEW a \in Nat \ {0}, NEW k \in Int,
         NEW r \in 0 .. a - 1, x = (a * k) + r
  PROVE  x % a = r
<1>1. PICK q \in Int, t \in 0 .. a - 1 : x = (a * q) + t /\ x % a = t
  BY DivMod
<1>2. (a * k) + r = (a * q) + t
  BY <1>1
<1>3. r = t
  BY <1>2, RemainderUnique
<1> QED
  BY <1>1, <1>3

(* Rounding down leaves a multiple, and so does rounding that up again. *)
LEMMA RoundDownFacts ==
  ASSUME NEW x \in Nat, NEW a \in Nat \ {0}
  PROVE  /\ RoundDown(x, a) \in 0 .. x
         /\ RoundDown(x, a) % a = 0
         /\ RoundDown(RoundDown(x, a) + (a - 1), a) = RoundDown(x, a)
<1> DEFINE d == RoundDown(x, a)
<1>1. PICK q \in Int, t \in 0 .. a - 1 : x = (a * q) + t /\ x % a = t
  BY DivMod
<1>2. a * q \in Int
  BY SMT
<1>3. d = (a * q) + 0 /\ d \in Int
  BY <1>1, <1>2, SMT DEF RoundDown
<1> HIDE DEF d
<1>4. a * q >= 0
  <2>1. ~(-1 >= q)
    <3>1. ASSUME -1 >= q PROVE FALSE
      <4>1. a * 0 >= a * q + a
        BY <3>1, MultiplesStep, SMT
      <4> QED
        BY <1>1, <1>2, <4>1, SMT
    <3> QED
      BY <3>1
  <2> QED
    BY <2>1, SMT
<1>5. d \in 0 .. x
  BY <1>1, <1>2, <1>3, <1>4, SMT
<1>6. d % a = 0
  BY <1>3, <1>5, RemainderOf, SMT
<1>7. (d + (a - 1)) % a = a - 1
  <2>1. PICK p \in Int : p = a * q
    BY <1>2
  <2>2. d = p
    BY <1>3, <2>1, SMT
  <2>3. d + (a - 1) \in Nat /\ d + (a - 1) = p + (a - 1) /\ a - 1 \in 0 .. a - 1
    BY <1>5, <2>2, SMT
  <2>4. d + (a - 1) = (a * q) + (a - 1)
    BY <2>1, <2>3
  <2> QED
    BY <2>3, <2>4, RemainderOf
<1>8. RoundDown(d + (a - 1), a) = d
  BY <1>3, <1>7, SMT DEF RoundDown
<1> QED
  BY <1>5, <1>6, <1>8 DEF d

(* ALIGN is the identity on what ALIGN returned: va_range_alloc, find_va   *)
(* and free_va each align the size again and must agree on it.             *)
LEMMA AlignSizeIdempotent ==
  ASSUME NEW size \in Nat, size + VaAlign <= AddrMod
  PROVE  /\ AlignSize(size) \in Addr
         /\ AlignSize(size) + VaAlign <= AddrMod => AlignSize(AlignSize(size)) = AlignSize(size)
<1>1. /\ VaAlign \in Nat \ {0} /\ AddrMod \in Nat
      /\ size + (VaAlign - 1) \in Nat /\ size + (VaAlign - 1) < AddrMod
  BY VaMgrAssumption, SMT
<1> DEFINE t == size + (VaAlign - 1)
           d == RoundDown(t, VaAlign)
<1>2. AlignSize(size) = d
  BY <1>1, SMT DEF AlignSize, WAdd
<1>3. d \in 0 .. t /\ RoundDown(d + (VaAlign - 1), VaAlign) = d
  BY <1>1, RoundDownFacts
<1> HIDE DEF d
<1>4. d \in Addr
  BY <1>1, <1>3, SMT DEF Addr
<1>5. ASSUME d + VaAlign <= AddrMod
      PROVE  AlignSize(d) = d
  <2>1. WAdd(d, VaAlign - 1) = d + (VaAlign - 1)
    BY <1>1, <1>3, <1>5, SMT DEF WAdd
  <2> QED
    BY <1>3, <2>1 DEF AlignSize
<1> QED
  BY <1>2, <1>4, <1>5

-----------------------------------------------------------------------------
(* The sequence operators a hole list is edited with. *)

LEMMA ConcatFacts ==
  ASSUME NEW S, NEW u \in Seq(S), NEW w \in Seq(S)
  PROVE  /\ u \o w \in Seq(S)
         /\ Len(u \o w) = Len(u) + Len(w)
         /\ \A j \in 1 .. Len(u) + Len(w) :
               (u \o w)[j] = IF j <= Len(u) THEN u[j] ELSE w[j - Len(u)]
  BY SMT

(* r is s with e inserted as entry n. *)
EntryInserted(S, s, n, e, r) ==
    /\ r \in Seq(S)
    /\ Len(r) = Len(s) + 1
    /\ \A j \in 1 .. Len(s) + 1 :
          r[j] = IF j < n THEN s[j] ELSE IF j = n THEN e ELSE s[j - 1]

LEMMA InsertAtFacts ==
  ASSUME NEW S, NEW s \in Seq(S), NEW e \in S, NEW n \in 1 .. Len(s) + 1
  PROVE  EntryInserted(S, s, n, e, InsertAt(s, n, e))
<1> DEFINE u == SubSeq(s, 1, n - 1)
           v == u \o <<e>>
           w == SubSeq(s, n, Len(s))
<1>1. u \in Seq(S) /\ Len(u) = n - 1 /\ \A j \in 1 .. n - 1 : u[j] = s[j]
  BY SMT
<1>2. /\ w \in Seq(S)
      /\ Len(w) = Len(s) - n + 1
      /\ \A j \in 1 .. Len(s) - n + 1 : w[j] = s[n + j - 1]
  BY SMT
<1>3. <<e>> \in Seq(S) /\ Len(<<e>>) = 1 /\ <<e>>[1] = e
  BY SMT
<1>4. /\ v \in Seq(S)
      /\ Len(v) = n
      /\ \A j \in 1 .. n : v[j] = IF j < n THEN s[j] ELSE e
  <2> HIDE DEF u
  <2> QED
    BY <1>1, <1>3, SMT
<1>5. InsertAt(s, n, e) = v \o w
  BY DEF InsertAt
<1> HIDE DEF u, v, w
<1>6. /\ v \o w \in Seq(S)
      /\ Len(v \o w) = Len(s) + 1
      /\ \A j \in 1 .. Len(s) + 1 :
            (v \o w)[j] = IF j <= n THEN v[j] ELSE w[j - n]
  BY <1>2, <1>4, SMT
<1>7. \A j \in 1 .. Len(s) + 1 :
         (v \o w)[j] = IF j < n THEN s[j] ELSE IF j = n THEN e ELSE s[j - 1]
  BY <1>2, <1>4, <1>6, SMT
<1> QED
  BY <1>5, <1>6, <1>7 DEF EntryInserted

(* r is s without entry n. *)
EntryRemoved(S, s, n, r) ==
    /\ r \in Seq(S)
    /\ Len(r) = Len(s) - 1
    /\ \A j \in 1 .. Len(s) - 1 : r[j] = IF j < n THEN s[j] ELSE s[j + 1]

LEMMA RemoveAtFacts ==
  ASSUME NEW S, NEW s \in Seq(S), NEW n \in 1 .. Len(s)
  PROVE  EntryRemoved(S, s, n, RemoveAt(s, n))
<1> DEFINE u == SubSeq(s, 1, n - 1)
           w == SubSeq(s, n + 1, Len(s))
<1>1. u \in Seq(S) /\ Len(u) = n - 1 /\ \A j \in 1 .. n - 1 : u[j] = s[j]
  BY SMT
<1>2. /\ w \in Seq(S)
      /\ Len(w) = Len(s) - n
      /\ \A j \in 1 .. Len(s) - n : w[j] = s[n + j]
  BY SMT
<1>3. RemoveAt(s, n) = u \o w
  BY DEF RemoveAt
<1> HIDE DEF u, w
<1>4. /\ u \o w \in Seq(S)
      /\ Len(u \o w) = Len(s) - 1
      /\ \A j \in 1 .. Len(s) - 1 :
            (u \o w)[j] = IF j <= n - 1 THEN u[j] ELSE w[j - (n - 1)]
  <2>1. /\ u \o w \in Seq(S)
        /\ Len(u \o w) = Len(u) + Len(w)
        /\ \A j \in 1 .. Len(u) + Len(w) :
              (u \o w)[j] = IF j <= Len(u) THEN u[j] ELSE w[j - Len(u)]
    BY <1>1, <1>2, ConcatFacts
  <2>2. Len(u) = n - 1 /\ Len(u) + Len(w) = Len(s) - 1
    BY <1>1, <1>2, SMT
  <2> QED
    BY <2>1, <2>2
<1>5. \A j \in 1 .. Len(s) - 1 :
         (u \o w)[j] = IF j < n THEN s[j] ELSE s[j + 1]
  BY <1>1, <1>2, <1>4, SMT
<1> QED
  BY <1>3, <1>4, <1>5 DEF EntryRemoved

(* r is s with entry n replaced by e. *)
EntryReplaced(S, s, n, e, r) ==
    /\ r \in Seq(S)
    /\ Len(r) = Len(s)
    /\ \A j \in 1 .. Len(s) : r[j] = IF j = n THEN e ELSE s[j]

LEMMA ReplaceAtFacts ==
  ASSUME NEW S, NEW s \in Seq(S), NEW e \in S, NEW n \in 1 .. Len(s)
  PROVE  EntryReplaced(S, s, n, e, ReplaceAt(s, n, e))
  BY SMT DEF ReplaceAt, EntryReplaced

(* In r, entry n of s is replaced by two. *)
EntrySplit(s, n, e, f, r) ==
    /\ r \in Seq(Hole)
    /\ Len(r) = Len(s) + 1
    /\ \A j \in 1 .. Len(s) + 1 :
          r[j] = IF j < n THEN s[j] ELSE IF j = n THEN e
                 ELSE IF j = n + 1 THEN f ELSE s[j - 1]

LEMMA SplitEntryFacts ==
  ASSUME NEW s \in Seq(Hole), NEW e \in Hole, NEW f \in Hole, NEW n \in 1 .. Len(s)
  PROVE  EntrySplit(s, n, e, f, InsertAt(ReplaceAt(s, n, e), n + 1, f))
<1> DEFINE m == ReplaceAt(s, n, e)
           r == InsertAt(m, n + 1, f)
<1>1. m \in Seq(Hole) /\ Len(m) = Len(s) /\ \A j \in 1 .. Len(s) : m[j] = IF j = n THEN e ELSE s[j]
  <2>1. EntryReplaced(Hole, s, n, e, m)
    BY ReplaceAtFacts
  <2> QED
    BY <2>1 DEF EntryReplaced
<1> HIDE DEF m
<1>2. n + 1 \in 1 .. Len(m) + 1 /\ Len(s) \in Nat
  BY <1>1, SMT
<1>3. EntryInserted(Hole, m, n + 1, f, r)
  BY <1>1, <1>2, InsertAtFacts
<1> HIDE DEF r
<1>4. ASSUME NEW j \in 1 .. Len(s) + 1
      PROVE  r[j] = IF j < n THEN s[j] ELSE IF j = n THEN e
                    ELSE IF j = n + 1 THEN f ELSE s[(j - 1)]
  <2>1. CASE j < n + 1
    <3>1. j \in 1 .. Len(s) /\ (j < n \/ j = n)
      BY <1>2, <2>1, SMT
    <3> QED
      BY <1>1, <1>3, <2>1, <3>1, SMT DEF EntryInserted
  <2>2. CASE j = n + 1
    BY <1>1, <1>2, <1>3, <2>2, SMT DEF EntryInserted
  <2>3. CASE j > n + 1
    <3>1. j - 1 \in 1 .. Len(s) /\ j - 1 # n /\ ~(j < n + 1) /\ j # n + 1 /\ j # n /\ ~(j < n)
      BY <1>2, <2>3, SMT
    <3>2. r[j] = m[(j - 1)]
      BY <1>1, <1>3, <3>1, SMT DEF EntryInserted
    <3> QED
      BY <1>1, <3>1, <3>2
  <2> QED
    BY <2>1, <2>2, <2>3, SMT
<1> QED
  BY <1>1, <1>3, <1>4 DEF EntryInserted, EntrySplit, r, m

-----------------------------------------------------------------------------
(* Holes inside holes. *)

Inside(g, h) == Within(g, h.offset, h.offset + h.size)

LEMMA HoleFields ==
  ASSUME NEW h \in Hole
  PROVE  h.offset \in Nat /\ h.size \in Nat /\ h.offset < AddrMod /\ h.size < AddrMod
  BY VaMgrAssumption, SMT DEF Hole, Addr

LEMMA EntryType ==
  ASSUME NEW hs \in Seq(Hole)
  PROVE  /\ DOMAIN hs = 1 .. Len(hs)
         /\ Len(hs) \in Nat
         /\ \A j \in DOMAIN hs : hs[j] \in Hole
  BY SMT

LEMMA InsideWithin ==
  ASSUME NEW g \in Hole, NEW h \in Hole, Inside(g, h),
         NEW lo \in Nat, NEW hi \in Nat, Within(h, lo, hi)
  PROVE  Within(g, lo, hi)
  BY HoleFields, SMT DEF Inside, Within

LEMMA InsideApart ==
  ASSUME NEW g \in Hole, NEW h \in Hole, Inside(g, h),
         NEW a \in Nat, NEW n \in Nat, Apart(h.offset, h.size, a, n)
  PROVE  Apart(g.offset, g.size, a, n)
  BY HoleFields, SMT DEF Inside, Within, Apart

LEMMA ApartSymmetric ==
  ASSUME NEW a \in Nat, NEW m \in Nat, NEW b \in Nat, NEW n \in Nat, Apart(a, m, b, n)
  PROVE  Apart(b, n, a, m)
  BY SMT DEF Apart

LEMMA InsideHolesApart ==
  ASSUME NEW g \in Hole, NEW h \in Hole, Inside(g, h),
         NEW k \in Hole, NEW l \in Hole, Inside(k, l), HolesApart(h, l)
  PROVE  HolesApart(g, k)
  BY HoleFields, SMT DEF Inside, Within, Apart, HolesApart

(* h contains [va, va + n), and p is what is left of h below or above it. *)
Covers(h, va, n) == h.offset <= va /\ va + n <= h.offset + h.size

Piece(p, h, va, n) ==
    \/ p.offset = h.offset /\ p.offset + p.size = va
    \/ p.offset = va + n /\ p.offset + p.size = h.offset + h.size

LEMMA PieceFacts ==
  ASSUME NEW h \in Hole, NEW p \in Hole, NEW va \in Nat, NEW n \in Nat,
         Covers(h, va, n), Piece(p, h, va, n)
  PROVE  Inside(p, h) /\ Apart(p.offset, p.size, va, n)
  BY HoleFields, SMT DEF Covers, Piece, Inside, Within, Apart

LEMMA CoveredApart ==
  ASSUME NEW h \in Hole, NEW va \in Nat, NEW n \in Nat, Covers(h, va, n),
         NEW a \in Nat, NEW m \in Nat, Apart(h.offset, h.size, a, m)
  PROVE  Apart(va, n, a, m)
  BY HoleFields, SMT DEF Covers, Apart

-----------------------------------------------------------------------------
(* Carving [va, va + n) out of hole i of hs leaves ns; src says which hole *)
(* of hs each hole of ns comes from.                                       *)
Carves(hs, i, va, n, ns, src) ==
    /\ src \in [DOMAIN ns -> DOMAIN hs]
    /\ \A p \in DOMAIN ns :
          /\ src[p] = i => Piece(ns[p], hs[i], va, n)
          /\ src[p] # i => ns[p] = hs[src[p]]
    /\ \A p, q \in DOMAIN ns :
          p # q /\ src[p] = src[q] => HolesApart(ns[p], ns[q])

(* What the hole list promises after subtract_hole. *)
CarvedSafely(hs, va, n, ns, lo, hi) ==
    /\ ns \in Seq(Hole)
    /\ ListWithin(ns, lo, hi)
    /\ ListApart(ns)
    /\ ListAvoids(ns, va, n)
    /\ \A a, m \in Nat : ListAvoids(hs, a, m) =>
          ListAvoids(ns, a, m) /\ Apart(va, n, a, m)

LEMMA CarvedListSafe ==
  ASSUME NEW hs \in Seq(Hole), NEW i \in DOMAIN hs,
         NEW va \in Nat, NEW n \in Nat, NEW lo \in Nat, NEW hi \in Nat,
         ListWithin(hs, lo, hi), ListApart(hs), Covers(hs[i], va, n),
         NEW ns \in Seq(Hole), NEW src, Carves(hs, i, va, n, ns, src)
  PROVE  CarvedSafely(hs, va, n, ns, lo, hi)
<1>1. /\ \A j \in DOMAIN hs : hs[j] \in Hole
      /\ \A p \in DOMAIN ns : ns[p] \in Hole /\ src[p] \in DOMAIN hs
  BY EntryType DEF Carves
<1>2. ASSUME NEW p \in DOMAIN ns
      PROVE  Inside(ns[p], hs[src[p]])
  <2>1. CASE src[p] = i
    BY <1>1, <2>1, PieceFacts DEF Carves
  <2>2. CASE src[p] # i
    <3>1. ns[p] = hs[src[p]]
      BY <2>2 DEF Carves
    <3> QED
      BY <1>1, <3>1, HoleFields, SMT DEF Inside, Within
  <2> QED
    BY <2>1, <2>2
<1>3. ListWithin(ns, lo, hi)
  BY <1>1, <1>2, InsideWithin DEF ListWithin
<1>4. ASSUME NEW a \in Nat, NEW m \in Nat, ListAvoids(hs, a, m)
      PROVE  ListAvoids(ns, a, m) /\ Apart(va, n, a, m)
  <2>1. ListAvoids(ns, a, m)
    BY <1>1, <1>2, <1>4, InsideApart DEF ListAvoids
  <2>2. Apart(va, n, a, m)
    BY <1>1, <1>4, CoveredApart DEF ListAvoids
  <2> QED
    BY <2>1, <2>2
<1>5. ListApart(ns)
  <2> SUFFICES ASSUME NEW p \in DOMAIN ns, NEW q \in DOMAIN ns, p # q
               PROVE  HolesApart(ns[p], ns[q])
    BY DEF ListApart
  <2>1. CASE src[p] = src[q]
    BY <2>1 DEF Carves
  <2>2. CASE src[p] # src[q]
    <3>1. HolesApart(hs[src[p]], hs[src[q]])
      BY <1>1, <2>2 DEF ListApart
    <3> QED
      BY <1>1, <1>2, <3>1, InsideHolesApart
  <2> QED
    BY <2>1, <2>2
<1>6. ListAvoids(ns, va, n)
  <2> SUFFICES ASSUME NEW p \in DOMAIN ns
               PROVE  Apart(ns[p].offset, ns[p].size, va, n)
    BY DEF ListAvoids
  <2>1. CASE src[p] = i
    BY <1>1, <2>1, PieceFacts DEF Carves
  <2>2. CASE src[p] # i
    <3>1. HolesApart(hs[i], ns[p])
      BY <1>1, <2>2 DEF ListApart, Carves
    <3>2. Apart(va, n, ns[p].offset, ns[p].size)
      BY <1>1, <3>1, HoleFields, CoveredApart DEF HolesApart
    <3> QED
      BY <1>1, <3>2, HoleFields, ApartSymmetric
  <2> QED
    BY <2>1, <2>2
<1> QED
  BY <1>3, <1>4, <1>5, <1>6 DEF CarvedSafely

(* The three ways subtract_hole edits the list. *)

LEMMA CarveByReplace ==
  ASSUME NEW hs \in Seq(Hole), NEW i \in DOMAIN hs,
         NEW va \in Nat, NEW n \in Nat, NEW lo \in Nat, NEW hi \in Nat,
         ListWithin(hs, lo, hi), ListApart(hs), Covers(hs[i], va, n),
         NEW part \in Hole, Piece(part, hs[i], va, n)
  PROVE  CarvedSafely(hs, va, n, ReplaceAt(hs, i, part), lo, hi)
<1> DEFINE ns == ReplaceAt(hs, i, part)
           src == [p \in 1 .. Len(hs) |-> p]
<1>1. DOMAIN hs = 1 .. Len(hs) /\ Len(hs) \in Nat
  BY EntryType
<1>2. /\ ns \in Seq(Hole) /\ Len(ns) = Len(hs)
      /\ \A j \in 1 .. Len(hs) : ns[j] = IF j = i THEN part ELSE hs[j]
  <2>1. EntryReplaced(Hole, hs, i, part, ns)
    BY <1>1, ReplaceAtFacts
  <2> HIDE DEF ns
  <2> QED
    BY <2>1 DEF EntryReplaced
<1> HIDE DEF ns
<1>3. DOMAIN ns = 1 .. Len(hs)
  BY <1>2, EntryType
<1>4. Carves(hs, i, va, n, ns, src)
  BY <1>1, <1>2, <1>3 DEF Carves
<1> QED
  BY <1>2, <1>4, CarvedListSafe DEF ns

LEMMA CarveByRemove ==
  ASSUME NEW hs \in Seq(Hole), NEW i \in DOMAIN hs,
         NEW va \in Nat, NEW n \in Nat, NEW lo \in Nat, NEW hi \in Nat,
         ListWithin(hs, lo, hi), ListApart(hs), Covers(hs[i], va, n)
  PROVE  CarvedSafely(hs, va, n, RemoveAt(hs, i), lo, hi)
<1> DEFINE ns == RemoveAt(hs, i)
           src == [p \in 1 .. Len(hs) - 1 |-> IF p < i THEN p ELSE p + 1]
<1>1. DOMAIN hs = 1 .. Len(hs) /\ Len(hs) \in Nat
  BY EntryType
<1>2. /\ ns \in Seq(Hole) /\ Len(ns) = Len(hs) - 1
      /\ \A j \in 1 .. Len(hs) - 1 : ns[j] = IF j < i THEN hs[j] ELSE hs[j + 1]
  <2>1. EntryRemoved(Hole, hs, i, ns)
    BY <1>1, RemoveAtFacts
  <2> HIDE DEF ns
  <2> QED
    BY <2>1 DEF EntryRemoved
<1> HIDE DEF ns
<1>3. DOMAIN ns = 1 .. Len(hs) - 1
  BY <1>2, EntryType
<1>4. \A p \in DOMAIN ns : src[p] \in DOMAIN hs /\ src[p] # i
  BY <1>1, <1>3, SMT
<1>5. \A p \in DOMAIN ns : ns[p] = hs[src[p]]
  BY <1>2, <1>3
<1>6. \A p, q \in DOMAIN ns : p # q => src[p] # src[q]
  BY <1>1, <1>3, SMT
<1>7. src \in [DOMAIN ns -> DOMAIN hs]
  BY <1>3, <1>4
<1> HIDE DEF src
<1>8. Carves(hs, i, va, n, ns, src)
  BY <1>4, <1>5, <1>6, <1>7 DEF Carves
<1> QED
  BY <1>2, <1>8, CarvedListSafe DEF ns

LEMMA CarveBySplit ==
  ASSUME NEW hs \in Seq(Hole), NEW i \in DOMAIN hs,
         NEW va \in Nat, NEW n \in Nat, NEW lo \in Nat, NEW hi \in Nat,
         ListWithin(hs, lo, hi), ListApart(hs), Covers(hs[i], va, n),
         NEW upper \in Hole, Piece(upper, hs[i], va, n),
         NEW lower \in Hole, Piece(lower, hs[i], va, n),
         HolesApart(lower, upper), HolesApart(upper, lower)
  PROVE  CarvedSafely(hs, va, n, InsertAt(ReplaceAt(hs, i, upper), i + 1, lower), lo, hi)
<1> DEFINE ns == InsertAt(ReplaceAt(hs, i, upper), i + 1, lower)
           src == [p \in 1 .. Len(hs) + 1 |-> IF p <= i THEN p ELSE p - 1]
<1>1. /\ DOMAIN hs = 1 .. Len(hs) /\ Len(hs) \in Nat
      /\ i \in 1 .. Len(hs)
  BY EntryType
<1>2. EntrySplit(hs, i, upper, lower, ns)
  BY <1>1, SplitEntryFacts
<1> HIDE DEF ns
<1>3. DOMAIN ns = 1 .. Len(hs) + 1 /\ ns \in Seq(Hole)
  BY <1>2, EntryType DEF EntrySplit
<1>4. ASSUME NEW p \in DOMAIN ns
      PROVE  /\ p = i => ns[p] = upper /\ src[p] = i
             /\ p = i + 1 => ns[p] = lower /\ src[p] = i
             /\ p # i /\ p # i + 1 => ns[p] = hs[src[p]] /\ src[p] # i
  BY <1>1, <1>2, <1>3, SMT DEF EntrySplit
<1>5. \A p, q \in DOMAIN ns : p # q /\ src[p] = src[q] =>
         (p = i /\ q = i + 1) \/ (p = i + 1 /\ q = i)
  BY <1>1, <1>3, SMT
<1>6. src \in [DOMAIN ns -> DOMAIN hs]
  BY <1>1, <1>3, SMT
<1> HIDE DEF src
<1>7. Carves(hs, i, va, n, ns, src)
  <2>1. \A p \in DOMAIN ns :
           /\ src[p] = i => Piece(ns[p], hs[i], va, n)
           /\ src[p] # i => ns[p] = hs[src[p]]
    BY <1>4
  <2>2. \A p, q \in DOMAIN ns : p # q /\ src[p] = src[q] => HolesApart(ns[p], ns[q])
    BY <1>4, <1>5
  <2> QED
    BY <1>6, <2>1, <2>2 DEF Carves
<1> QED
  BY <1>3, <1>7, CarvedListSafe DEF ns

(* What subtract_hole leaves of a list of disjoint holes: holes that are   *)
(* still disjoint, still inside the manager, that have lost the range and  *)
(* gained nothing.                                                         *)
LEMMA SubtractHoleSafe ==
  ASSUME NEW hs \in Seq(Hole), NEW i \in DOMAIN hs,
         NEW va \in Nat, NEW n \in Nat, NEW lo \in Nat, NEW hi \in Nat,
         ListWithin(hs, lo, hi), ListApart(hs), Covers(hs[i], va, n), hi < AddrMod
  PROVE  CarvedSafely(hs, va, n, SubtractHole(hs, i, va, va + n), lo, hi)
<1> DEFINE h == hs[i]
           lower == LowerPart(h, va)
           upper == UpperPart(h, va + n)
<1>1. h \in Hole /\ Within(h, lo, hi)
  BY EntryType DEF ListWithin
<1> HIDE DEF h
<1>2. /\ h.offset \in Nat /\ h.size \in Nat /\ h.offset < AddrMod /\ h.size < AddrMod
      /\ h.offset <= va /\ va + n <= h.offset + h.size /\ h.offset + h.size < AddrMod
      /\ AddrMod \in Nat
  BY <1>1, HoleFields, VaMgrAssumption, SMT DEF Within, Covers, h
<1>3. WSub(va + n, h.offset) = va + n - h.offset
  BY <1>2, SMT DEF WSub
<1>4. ASSUME CutsBelow(h, va)
      PROVE  lower \in Hole /\ Piece(lower, h, va, n)
  <2>1. va - h.offset \in Addr /\ h.offset \in Addr
    BY <1>2, SMT DEF Addr
  <2>2. lower \in Hole /\ lower.offset = h.offset /\ lower.size = va - h.offset
    BY <2>1 DEF LowerPart, Hole
  <2> HIDE DEF lower
  <2> QED
    BY <1>2, <2>2, SMT DEF Piece
<1>5. upper \in Hole /\ Piece(upper, h, va, n)
  <2>1. /\ va + n \in Addr
        /\ h.size - (va + n - h.offset) \in Addr
        /\ (va + n) + (h.size - (va + n - h.offset)) = h.offset + h.size
    <3>1. PICK o \in Nat, z \in Nat :
             /\ o = h.offset /\ z = h.size
             /\ o <= va /\ va + n <= o + z /\ o + z < AddrMod
      BY <1>2
    <3>2. AddrMod \in Nat
      BY <1>2
    <3>3. PICK e \in Nat : e = va + n
      BY SMT
    <3>4. o <= e /\ e <= o + z /\ o + z < AddrMod
      BY <3>1, <3>3
    <3>5. PICK w \in Nat : w = z - (e - o) /\ e + w = o + z
      <4>1. z - (e - o) \in Nat /\ e + (z - (e - o)) = o + z
        BY <3>4, SMT
      <4> QED
        BY <4>1
    <3>6. e \in 0 .. AddrMod - 1 /\ w \in 0 .. AddrMod - 1
      <4>1. e + w < AddrMod
        BY <3>4, <3>5
      <4> QED
        BY <3>2, <4>1, SMT
    <3>7. w = h.size - (va + n - h.offset)
      BY <3>1, <3>3, <3>5
    <3> QED
      BY <3>1, <3>3, <3>5, <3>6, <3>7, Zenon DEF Addr
  <2>2. /\ upper \in Hole
        /\ upper.offset = va + n
        /\ upper.size = h.size - (va + n - h.offset)
    BY <1>3, <2>1 DEF UpperPart, Hole
  <2> HIDE DEF upper
  <2> QED
    BY <2>1, <2>2 DEF Piece
<1>6. CASE Splits(h, va, va + n)
  <2>1. lower.offset + lower.size = va /\ lower.size \in Int /\ lower.offset \in Int
    BY <1>2, SMT DEF LowerPart
  <2>2. upper.offset = va + n
    BY DEF UpperPart
  <2> HIDE DEF lower, upper
  <2>3. HolesApart(lower, upper) /\ HolesApart(upper, lower)
    BY <2>1, <2>2, SMT DEF HolesApart, Apart
  <2>4. lower \in Hole /\ Piece(lower, h, va, n)
    BY <1>4, <1>6 DEF Splits
  <2>5. SubtractHole(hs, i, va, va + n) = InsertAt(ReplaceAt(hs, i, upper), i + 1, lower)
    BY <1>6 DEF SubtractHole, h, lower, upper
  <2> QED
    BY <1>5, <2>3, <2>4, <2>5, CarveBySplit DEF h
<1>7. CASE CutsBelow(h, va) /\ ~CutsAbove(h, va + n)
  <2>1. SubtractHole(hs, i, va, va + n) = ReplaceAt(hs, i, lower)
    BY <1>7 DEF SubtractHole, Splits, h
  <2> HIDE DEF lower
  <2> QED
    BY <1>4, <1>7, <2>1, CarveByReplace DEF h
<1>8. CASE ~CutsBelow(h, va) /\ CutsAbove(h, va + n)
  <2>1. SubtractHole(hs, i, va, va + n) = ReplaceAt(hs, i, upper)
    BY <1>8 DEF SubtractHole, Splits, h
  <2> HIDE DEF upper
  <2> QED
    BY <1>5, <2>1, CarveByReplace DEF h
<1>9. CASE ~CutsBelow(h, va) /\ ~CutsAbove(h, va + n)
  <2>1. SubtractHole(hs, i, va, va + n) = RemoveAt(hs, i)
    BY <1>9 DEF SubtractHole, Splits, h
  <2> QED
    BY <2>1, CarveByRemove
<1> QED
  BY <1>6, <1>7, <1>8, <1>9 DEF Splits

-----------------------------------------------------------------------------
(* The search hands out addresses that lie inside the hole it stopped at,  *)
(* as long as no sum of the request wraps.                                 *)
LEMMA PlaceCovered ==
  ASSUME NEW h \in Hole, NEW r, NEW hi \in Nat,
         r.size \in Nat, r.base \in Nat, r.align \in Nat \ {0},
         r.base + r.size < AddrMod, hi + r.align <= AddrMod,
         h.offset + h.size <= hi, Takes(h, r)
  PROVE  /\ Place(h, r) \in Nat
         /\ Covers(h, Place(h, r), r.size)
         /\ WAdd(Place(h, r), r.size) = Place(h, r) + r.size
<1>1. /\ h.offset \in Nat /\ h.size \in Nat /\ AddrMod \in Nat
      /\ h.offset + h.size < AddrMod
  BY HoleFields, VaMgrAssumption, SMT
<1>2. HoleEnd(h) = h.offset + h.size
  BY <1>1, SMT DEF HoleEnd, WAdd
<1>3. CASE r.base # 0
  <2>1. WAdd(r.base, r.size) = r.base + r.size
    BY SMT DEF WAdd
  <2>2. Place(h, r) = r.base
    BY <1>3 DEF Place
  <2> QED
    BY <1>2, <1>3, <2>1, <2>2 DEF Takes, Covers
<1>4. CASE r.base = 0 /\ ~r.top
  <2>1. Place(h, r) = RoundUp(h.offset, r.align)
    BY <1>4 DEF Place
  <2>2. h.offset % r.align \in 0 .. r.align - 1
    BY <1>1, DivMod
  <2>3. PICK w \in 0 .. r.align - 1 : w = h.offset % r.align
    BY <2>2
  <2>4. RoundUp(h.offset, r.align) \in Nat /\ RoundUp(h.offset, r.align) >= h.offset
    <3>1. CASE w = 0
      BY <1>1, <2>3, <3>1, SMT DEF RoundUp
    <3>2. CASE w # 0
      <4>1. RoundUp(h.offset, r.align) = WAdd(h.offset, r.align - w)
        BY <2>3, <3>2 DEF RoundUp
      <4>2. WAdd(h.offset, r.align - w) = h.offset + (r.align - w)
        BY <1>1, <3>2, SMT DEF WAdd
      <4> QED
        BY <1>1, <4>1, <4>2, SMT
    <3> QED
      BY <3>1, <3>2
  <2>5. PICK a \in Nat : a = Place(h, r) /\ a >= h.offset
    BY <2>1, <2>4
  <2>6. a < h.offset + h.size /\ r.size <= WSub(h.offset + h.size, a)
    BY <1>2, <1>4, <2>5 DEF Takes
  <2>7. a + r.size <= h.offset + h.size
    BY <1>1, <2>5, <2>6, SMT DEF WSub
  <2>8. WAdd(a, r.size) = a + r.size
    BY <1>1, <2>7, SMT DEF WAdd
  <2> QED
    BY <2>5, <2>7, <2>8 DEF Covers
<1>5. CASE r.base = 0 /\ r.top
  <2>1. Place(h, r) = RoundDown(WSub(h.offset + h.size, r.size), r.align)
    BY <1>2, <1>5 DEF Place
  <2>2. r.size <= h.size /\ Place(h, r) >= h.offset
    BY <1>5 DEF Takes
  <2>3. PICK z \in Nat : z = WSub(h.offset + h.size, r.size) /\ z + r.size = h.offset + h.size
    BY <1>1, <2>2, SMT DEF WSub
  <2>4. Place(h, r) \in 0 .. z
    BY <2>1, <2>3, RoundDownFacts
  <2>5. PICK a \in Nat : a = Place(h, r) /\ a <= z /\ a >= h.offset
    BY <2>2, <2>3, <2>4, SMT
  <2>6. a + r.size <= h.offset + h.size
    BY <1>1, <2>3, <2>5, SMT
  <2>7. WAdd(a, r.size) = a + r.size
    BY <1>1, <2>6, SMT DEF WAdd
  <2> QED
    BY <2>5, <2>6, <2>7 DEF Covers
<1> QED
  BY <1>3, <1>4, <1>5

-----------------------------------------------------------------------------
(* Putting [va, va + n) back into hs leaves ns: entry own holds the range, *)
(* src[p] are the holes of hs that entry p is made of.                     *)
Joins(hs, va, n, ns, src, own) ==
    /\ src \in [DOMAIN ns -> SUBSET DOMAIN hs]
    /\ \A p \in DOMAIN ns : \A a, m \in Nat :
          /\ \A j \in src[p] : Apart(hs[j].offset, hs[j].size, a, m)
          /\ p = own => Apart(va, n, a, m)
          => Apart(ns[p].offset, ns[p].size, a, m)
    /\ \A p, q \in DOMAIN ns : p # q => src[p] \cap src[q] = {}

JoinedSafely(hs, va, n, ns, lo, hi) ==
    /\ ns \in Seq(Hole)
    /\ ListWithin(ns, lo, hi)
    /\ ListApart(ns)
    /\ \A a, m \in Nat :
          ListAvoids(hs, a, m) /\ Apart(va, n, a, m) => ListAvoids(ns, a, m)

LEMMA JoinedListSafe ==
  ASSUME NEW hs \in Seq(Hole), NEW va \in Nat, NEW n \in Nat,
         NEW lo \in Nat, NEW hi \in Nat,
         ListApart(hs), ListAvoids(hs, va, n),
         NEW ns \in Seq(Hole), ListWithin(ns, lo, hi),
         NEW src, NEW own, Joins(hs, va, n, ns, src, own)
  PROVE  JoinedSafely(hs, va, n, ns, lo, hi)
<1>1. /\ \A j \in DOMAIN hs : hs[j] \in Hole /\ hs[j].offset \in Nat /\ hs[j].size \in Nat
      /\ \A p \in DOMAIN ns : ns[p] \in Hole /\ ns[p].offset \in Nat /\ ns[p].size \in Nat
  BY EntryType, HoleFields
<1>2. \A p \in DOMAIN ns : \A j \in src[p] : j \in DOMAIN hs
  BY DEF Joins
<1>3. ASSUME NEW a \in Nat, NEW m \in Nat, ListAvoids(hs, a, m), Apart(va, n, a, m)
      PROVE  ListAvoids(ns, a, m)
  BY <1>2, <1>3 DEF ListAvoids, Joins
<1>4. ListApart(ns)
  <2> SUFFICES ASSUME NEW p \in DOMAIN ns, NEW q \in DOMAIN ns, p # q
               PROVE  Apart(ns[p].offset, ns[p].size, ns[q].offset, ns[q].size)
    BY DEF ListApart, HolesApart
  <2>1. ASSUME NEW j \in src[q]
        PROVE  Apart(ns[p].offset, ns[p].size, hs[j].offset, hs[j].size)
    <3>1. j \in DOMAIN hs /\ j \notin src[p]
      BY <1>2 DEF Joins
    <3>2. ASSUME NEW i \in src[p]
          PROVE  Apart(hs[i].offset, hs[i].size, hs[j].offset, hs[j].size)
      BY <1>2, <3>1 DEF ListApart, HolesApart
    <3>3. Apart(va, n, hs[j].offset, hs[j].size)
      BY <1>1, <3>1, ApartSymmetric DEF ListAvoids
    <3> QED
      BY <1>1, <3>1, <3>2, <3>3 DEF Joins
  <2>2. ASSUME q = own
        PROVE  Apart(ns[p].offset, ns[p].size, va, n)
    <3>1. p # own
      BY <2>2
    <3>2. \A i \in src[p] : Apart(hs[i].offset, hs[i].size, va, n)
      BY <1>2 DEF ListAvoids
    <3> QED
      BY <3>1, <3>2 DEF Joins
  <2>3. Apart(ns[q].offset, ns[q].size, ns[p].offset, ns[p].size)
    <3>1. \A j \in src[q] : Apart(hs[j].offset, hs[j].size, ns[p].offset, ns[p].size)
      BY <1>1, <1>2, <2>1, ApartSymmetric
    <3>2. q = own => Apart(va, n, ns[p].offset, ns[p].size)
      BY <1>1, <2>2, ApartSymmetric
    <3> QED
      BY <1>1, <3>1, <3>2 DEF Joins
  <2> QED
    BY <1>1, <2>3, ApartSymmetric
<1> QED
  BY <1>3, <1>4 DEF JoinedSafely

(* The three ways free_va edits the list: it grows one hole, inserts one,  *)
(* or merges two with the range between them.                              *)

Fills(g, h, va, n) ==
    \A a, m \in Nat :
       Apart(h.offset, h.size, a, m) /\ Apart(va, n, a, m) => Apart(g.offset, g.size, a, m)

LEMMA JoinByGrow ==
  ASSUME NEW hs \in Seq(Hole), NEW va \in Nat, NEW n \in Nat,
         NEW lo \in Nat, NEW hi \in Nat,
         ListWithin(hs, lo, hi), ListApart(hs), ListAvoids(hs, va, n),
         NEW x \in 1 .. Len(hs), NEW g \in Hole, Within(g, lo, hi), Fills(g, hs[x], va, n)
  PROVE  JoinedSafely(hs, va, n, ReplaceAt(hs, x, g), lo, hi)
<1> DEFINE ns == ReplaceAt(hs, x, g)
           src == [p \in 1 .. Len(hs) |-> {p}]
<1>1. DOMAIN hs = 1 .. Len(hs)
  BY EntryType
<1>2. /\ ns \in Seq(Hole) /\ Len(ns) = Len(hs)
      /\ \A j \in 1 .. Len(hs) : ns[j] = IF j = x THEN g ELSE hs[j]
  <2>1. EntryReplaced(Hole, hs, x, g, ns)
    BY ReplaceAtFacts
  <2> HIDE DEF ns
  <2> QED
    BY <2>1 DEF EntryReplaced
<1> HIDE DEF ns
<1>3. DOMAIN ns = 1 .. Len(hs)
  BY <1>2, EntryType
<1>4. ListWithin(ns, lo, hi)
  BY <1>1, <1>2, <1>3 DEF ListWithin
<1>5. ASSUME NEW p \in DOMAIN ns, NEW a \in Nat, NEW m \in Nat,
             \A j \in src[p] : Apart(hs[j].offset, hs[j].size, a, m),
             p = x => Apart(va, n, a, m)
      PROVE  Apart(ns[p].offset, ns[p].size, a, m)
  <2>1. Apart(hs[p].offset, hs[p].size, a, m)
    BY <1>3, <1>5
  <2> QED
    BY <1>2, <1>3, <1>5, <2>1 DEF Fills
<1>6. Joins(hs, va, n, ns, src, x)
  BY <1>1, <1>3, <1>5 DEF Joins
<1> QED
  BY <1>2, <1>4, <1>6, JoinedListSafe DEF ns

LEMMA JoinByInsert ==
  ASSUME NEW hs \in Seq(Hole), NEW va \in Nat, NEW n \in Nat,
         NEW lo \in Nat, NEW hi \in Nat,
         ListWithin(hs, lo, hi), ListApart(hs), ListAvoids(hs, va, n),
         NEW x \in 1 .. Len(hs) + 1, NEW g \in Hole, Within(g, lo, hi),
         g.offset = va, g.size = n
  PROVE  JoinedSafely(hs, va, n, InsertAt(hs, x, g), lo, hi)
<1> DEFINE ns == InsertAt(hs, x, g)
           src == [p \in 1 .. Len(hs) + 1 |->
                     IF p < x THEN {p} ELSE IF p = x THEN {} ELSE {p - 1}]
<1>1. DOMAIN hs = 1 .. Len(hs) /\ Len(hs) \in Nat
  BY EntryType
<1>2. /\ ns \in Seq(Hole) /\ Len(ns) = Len(hs) + 1
      /\ \A j \in 1 .. Len(hs) + 1 :
            ns[j] = IF j < x THEN hs[j] ELSE IF j = x THEN g ELSE hs[j - 1]
  <2>1. EntryInserted(Hole, hs, x, g, ns)
    BY InsertAtFacts
  <2> HIDE DEF ns
  <2> QED
    BY <2>1 DEF EntryInserted
<1> HIDE DEF ns
<1>3. DOMAIN ns = 1 .. Len(hs) + 1
  BY <1>2, EntryType
<1>4. ASSUME NEW p \in DOMAIN ns
      PROVE  \/ p = x /\ src[p] = {} /\ ns[p] = g
             \/ \E j \in DOMAIN hs :
                   /\ p # x /\ src[p] = {j} /\ ns[p] = hs[j]
                   /\ j = IF p < x THEN p ELSE p - 1
  <2>1. CASE p < x
    <3>1. p \in 1 .. Len(hs) /\ p # x
      BY <1>1, <1>3, <2>1, SMT
    <3> QED
      BY <1>1, <1>2, <1>3, <2>1, <3>1
  <2>2. CASE p = x
    <3>1. ~(p < x)
      BY <2>2, SMT
    <3> QED
      BY <1>2, <1>3, <2>2, <3>1
  <2>3. CASE p > x
    <3>1. p - 1 \in 1 .. Len(hs) /\ p # x /\ ~(p < x)
      BY <1>1, <1>3, <2>3, SMT
    <3> QED
      BY <1>1, <1>2, <1>3, <3>1
  <2> QED
    BY <1>1, <1>3, <2>1, <2>2, <2>3, SMT
<1>5. src \in [DOMAIN ns -> SUBSET DOMAIN hs]
  <2>1. \A p \in DOMAIN ns : src[p] \in SUBSET DOMAIN hs
    BY <1>4
  <2> QED
    BY <1>3, <2>1
<1>6. \A p, q \in DOMAIN ns : p # q => src[p] \cap src[q] = {}
  BY <1>1, <1>3, SMT
<1> HIDE DEF src
<1>7. ListWithin(ns, lo, hi)
  BY <1>4 DEF ListWithin
<1>8. ASSUME NEW p \in DOMAIN ns, NEW a \in Nat, NEW m \in Nat,
             \A j \in src[p] : Apart(hs[j].offset, hs[j].size, a, m),
             p = x => Apart(va, n, a, m)
      PROVE  Apart(ns[p].offset, ns[p].size, a, m)
  BY <1>4, <1>8
<1>9. Joins(hs, va, n, ns, src, x)
  BY <1>5, <1>6, <1>8 DEF Joins
<1> QED
  BY <1>2, <1>7, <1>9, JoinedListSafe DEF ns

LEMMA JoinByMerge ==
  ASSUME NEW hs \in Seq(Hole), NEW va \in Nat, NEW n \in Nat,
         NEW lo \in Nat, NEW hi \in Nat,
         ListWithin(hs, lo, hi), ListApart(hs), ListAvoids(hs, va, n),
         NEW k \in 1 .. Len(hs) - 1, NEW g \in Hole, Within(g, lo, hi),
         \A a, m \in Nat :
            /\ Apart(hs[k].offset, hs[k].size, a, m)
            /\ Apart(hs[k + 1].offset, hs[k + 1].size, a, m)
            /\ Apart(va, n, a, m)
            => Apart(g.offset, g.size, a, m)
  PROVE  JoinedSafely(hs, va, n, RemoveAt(ReplaceAt(hs, k + 1, g), k), lo, hi)
<1> DEFINE ms == ReplaceAt(hs, k + 1, g)
           ns == RemoveAt(ms, k)
           src == [p \in 1 .. Len(hs) - 1 |->
                     IF p < k THEN {p} ELSE IF p = k THEN {k, k + 1} ELSE {p + 1}]
<1>1. DOMAIN hs = 1 .. Len(hs) /\ Len(hs) \in Nat
  BY EntryType
<1>2. k + 1 \in 1 .. Len(hs) /\ k \in 1 .. Len(hs)
  BY <1>1, SMT
<1>3. /\ ms \in Seq(Hole) /\ Len(ms) = Len(hs)
      /\ \A j \in 1 .. Len(hs) : ms[j] = IF j = k + 1 THEN g ELSE hs[j]
  <2>1. EntryReplaced(Hole, hs, k + 1, g, ms)
    BY <1>2, ReplaceAtFacts
  <2> HIDE DEF ms
  <2> QED
    BY <2>1 DEF EntryReplaced
<1> HIDE DEF ms
<1>4. /\ ns \in Seq(Hole) /\ Len(ns) = Len(hs) - 1
      /\ \A j \in 1 .. Len(hs) - 1 : ns[j] = IF j < k THEN ms[j] ELSE ms[j + 1]
  <2>1. EntryRemoved(Hole, ms, k, ns)
    BY <1>2, <1>3, RemoveAtFacts
  <2> HIDE DEF ns
  <2> QED
    BY <1>3, <2>1 DEF EntryRemoved
<1> HIDE DEF ns
<1>5. DOMAIN ns = 1 .. Len(hs) - 1
  BY <1>4, EntryType
<1>6. ASSUME NEW p \in DOMAIN ns
      PROVE  \/ p = k /\ src[p] = {k, k + 1} /\ ns[p] = g
             \/ \E j \in DOMAIN hs : p # k /\ src[p] = {j} /\ ns[p] = hs[j]
  <2>1. CASE p < k
    <3>1. p \in 1 .. Len(hs) /\ p # k /\ p # k + 1
      BY <1>1, <1>2, <1>5, <2>1, SMT
    <3> QED
      BY <1>1, <1>3, <1>4, <1>5, <2>1, <3>1
  <2>2. CASE p = k
    <3>1. ~(p < k)
      BY <2>2, SMT
    <3> QED
      BY <1>2, <1>3, <1>4, <1>5, <2>2, <3>1
  <2>3. CASE p > k
    <3>1. p + 1 \in 1 .. Len(hs) /\ p # k /\ ~(p < k) /\ p + 1 # k + 1
      BY <1>1, <1>5, <2>3, SMT
    <3> QED
      BY <1>1, <1>3, <1>4, <1>5, <3>1
  <2>4. p < k \/ p = k \/ p > k
    BY <1>1, <1>5, SMT
  <2> QED
    BY <2>1, <2>2, <2>3, <2>4
<1>7. src \in [DOMAIN ns -> SUBSET DOMAIN hs]
  <2>1. \A p \in DOMAIN ns : src[p] \in SUBSET DOMAIN hs
    BY <1>1, <1>2, <1>6
  <2> QED
    BY <1>5, <2>1
<1>8. \A p, q \in DOMAIN ns : p # q => src[p] \cap src[q] = {}
  BY <1>1, <1>5, SMT
<1> HIDE DEF src
<1>9. ListWithin(ns, lo, hi)
  BY <1>6 DEF ListWithin
<1>10. ASSUME NEW p \in DOMAIN ns, NEW a \in Nat, NEW m \in Nat,
              \A j \in src[p] : Apart(hs[j].offset, hs[j].size, a, m),
              p = k => Apart(va, n, a, m)
       PROVE  Apart(ns[p].offset, ns[p].size, a, m)
  BY <1>6, <1>10
<1>11. Joins(hs, va, n, ns, src, k)
  BY <1>7, <1>8, <1>10 DEF Joins
<1> QED
  BY <1>4, <1>9, <1>11, JoinedListSafe DEF ns, ms

(* A sum that stays below the modulus does not wrap. *)
LEMMA SumFits ==
  ASSUME NEW a \in Nat, NEW b \in Nat, a + b < AddrMod
  PROVE  WAdd(a, b) = a + b
  BY Zenon DEF WAdd

(* Two intervals that touch: what avoids both avoids their union. *)
LEMMA TouchingApart ==
  ASSUME NEW a \in Nat, NEW m \in Nat, NEW o \in Nat, NEW y \in Nat, NEW z \in Nat,
         Apart(o, y, a, m), Apart(o + y, z, a, m)
  PROVE  Apart(o, y + z, a, m)
  BY SMT DEF Apart

(* The four ways free_va edits the list: g is the hole the range is in     *)
(* afterwards.                                                             *)
MergesBoth(hs, k, va, n, g, ns) ==
    /\ k \in 1 .. Len(hs) - 1
    /\ hs[k + 1].offset + hs[k + 1].size = va /\ hs[k].offset = va + n
    /\ g.offset = hs[k + 1].offset /\ g.size = hs[k + 1].size + (hs[k].size + n)
    /\ ns = RemoveAt(ReplaceAt(hs, k + 1, g), k)

GrowsUpper(hs, k, va, n, g, ns) ==
    /\ k \in 1 .. Len(hs)
    /\ hs[k].offset = va + n
    /\ k < Len(hs) => hs[k + 1].offset + hs[k + 1].size # va
    /\ g.offset = va /\ g.size = hs[k].size + n
    /\ ns = ReplaceAt(hs, k, g)

GrowsLower(hs, k, va, n, g, ns) ==
    /\ k + 1 \in 1 .. Len(hs)
    /\ hs[k + 1].offset + hs[k + 1].size = va
    /\ k > 0 => hs[k].offset # va + n
    /\ g.offset = hs[k + 1].offset /\ g.size = hs[k + 1].size + n
    /\ ns = ReplaceAt(hs, k + 1, g)

AddsHole(hs, k, va, n, g, ns) ==
    /\ k > 0 => hs[k].offset # va + n
    /\ k < Len(hs) => hs[k + 1].offset + hs[k + 1].size # va
    /\ g.offset = va /\ g.size = n
    /\ ns = InsertAt(hs, k + 1, g)

LEMMA FreeVaForms ==
  ASSUME NEW hs \in Seq(Hole), NEW va \in Nat, NEW n \in Nat,
         NEW lo \in Nat, NEW hi \in Nat, ListWithin(hs, lo, hi),
         lo <= va, va + n <= hi, hi < AddrMod, NEW k \in 0 .. Len(hs)
  PROVE  \E g \in Hole :
            /\ Within(g, lo, hi)
            /\ \/ MergesBoth(hs, k, va, n, g, FreeVa(hs, k, va, n))
               \/ GrowsUpper(hs, k, va, n, g, FreeVa(hs, k, va, n))
               \/ GrowsLower(hs, k, va, n, g, FreeVa(hs, k, va, n))
               \/ AddsHole(hs, k, va, n, g, FreeVa(hs, k, va, n))
<1>1. /\ DOMAIN hs = 1 .. Len(hs) /\ Len(hs) \in Nat /\ AddrMod \in Nat
      /\ \A j \in 1 .. Len(hs) :
            /\ hs[j] \in Hole
            /\ hs[j].offset \in Nat /\ hs[j].size \in Nat
            /\ lo <= hs[j].offset /\ hs[j].offset + hs[j].size <= hi
  <2>1. DOMAIN hs = 1 .. Len(hs) /\ Len(hs) \in Nat /\ AddrMod \in Nat
    BY EntryType, VaMgrAssumption
  <2>2. ASSUME NEW j \in 1 .. Len(hs)
        PROVE  /\ hs[j] \in Hole
               /\ hs[j].offset \in Nat /\ hs[j].size \in Nat
               /\ lo <= hs[j].offset /\ hs[j].offset + hs[j].size <= hi
    BY <2>1, EntryType, HoleFields DEF ListWithin, Within
  <2> QED
    BY <2>1, <2>2
<1>2. WAdd(va, n) = va + n
  <2>1. va + n < AddrMod
    BY VaMgrAssumption
  <2> QED
    BY <2>1, SumFits, VaMgrAssumption
<1>3. UpperAdjacent(hs, k, va, n) <=> k > 0 /\ hs[k].offset = va + n
  BY <1>2 DEF UpperAdjacent
<1>4. LowerAdjacent(hs, k, va) <=> k < Len(hs) /\ hs[k + 1].offset + hs[k + 1].size = va
  <2>1. ASSUME k < Len(hs)
        PROVE  HoleEnd(hs[k + 1]) = hs[k + 1].offset + hs[k + 1].size
    <3>1. k + 1 \in 1 .. Len(hs)
      BY <1>1, <2>1
    <3>2. PICK o \in Nat, z \in Nat : o = hs[k + 1].offset /\ z = hs[k + 1].size /\ o + z <= hi
      BY <1>1, <3>1
    <3>3. o + z < AddrMod
      BY <1>1, <3>2
    <3> QED
      BY <3>2, <3>3, SumFits DEF HoleEnd
  <2> QED
    BY <2>1 DEF LowerAdjacent
<1>5. /\ k > 0 => k \in 1 .. Len(hs)
      /\ k < Len(hs) => k + 1 \in 1 .. Len(hs)
      /\ k > 0 /\ k < Len(hs) => k \in 1 .. Len(hs) - 1
  BY <1>1
<1>6. ASSUME NEW o \in Nat, NEW z \in Nat, lo <= o, o + z <= hi
      PROVE  /\ [offset |-> o, size |-> z] \in Hole
             /\ Within([offset |-> o, size |-> z], lo, hi)
  <2>1. o \in Addr /\ z \in Addr
    BY <1>1, <1>6, SMT DEF Addr
  <2> QED
    BY <1>6, <2>1 DEF Hole, Within
<1>7. CASE UpperAdjacent(hs, k, va, n) /\ LowerAdjacent(hs, k, va)
  <2>1. PICK o \in Nat, y \in Nat, z \in Nat :
           /\ o = hs[k + 1].offset /\ y = hs[k + 1].size /\ o + y = va /\ lo <= o
           /\ z = hs[k].size /\ hs[k].offset = va + n /\ (va + n) + z <= hi
    BY <1>1, <1>3, <1>4, <1>5, <1>7
  <2> DEFINE g == [offset |-> o, size |-> y + (z + n)]
  <2>2. /\ y + (z + n) \in Nat /\ o + (y + (z + n)) <= hi
        /\ z + n \in Nat /\ z + n < AddrMod /\ y + (z + n) < AddrMod
    <3>1. o + y = va /\ (va + n) + z <= hi /\ hi < AddrMod /\ AddrMod \in Nat
      BY <1>1, <2>1
    <3> QED
      BY <3>1, SMT
  <2>3. WAdd(z, n) = z + n /\ WAdd(y, z + n) = y + (z + n)
    BY <2>2, SumFits
  <2>4. GrowLower(hs[k + 1], GrowUpper(hs[k], va, n).size) = g
    BY <2>1, <2>3 DEF GrowLower, GrowUpper
  <2>5. FreeVa(hs, k, va, n) = RemoveAt(ReplaceAt(hs, k + 1, g), k)
    BY <1>7, <2>4 DEF FreeVa
  <2>6. g \in Hole /\ Within(g, lo, hi) /\ g.offset = o /\ g.size = y + (z + n)
    BY <1>6, <2>1, <2>2
  <2> HIDE DEF g
  <2>7. MergesBoth(hs, k, va, n, g, FreeVa(hs, k, va, n))
    BY <1>3, <1>4, <1>5, <1>7, <2>1, <2>5, <2>6 DEF MergesBoth
  <2> QED
    BY <2>6, <2>7
<1>8. CASE UpperAdjacent(hs, k, va, n) /\ ~LowerAdjacent(hs, k, va)
  <2>1. PICK z \in Nat : z = hs[k].size /\ hs[k].offset = va + n /\ (va + n) + z <= hi
    BY <1>1, <1>3, <1>5, <1>8
  <2> DEFINE g == [offset |-> va, size |-> z + n]
  <2>2. z + n \in Nat /\ z + n < AddrMod /\ va + (z + n) <= hi
    <3>1. (va + n) + z <= hi /\ hi < AddrMod /\ AddrMod \in Nat
      BY <1>1, <2>1
    <3> QED
      BY <3>1, SMT
  <2>3. GrowUpper(hs[k], va, n) = g
    BY <2>1, <2>2, SumFits DEF GrowUpper
  <2>4. FreeVa(hs, k, va, n) = ReplaceAt(hs, k, g)
    BY <1>8, <2>3 DEF FreeVa
  <2>5. g \in Hole /\ Within(g, lo, hi) /\ g.offset = va /\ g.size = z + n
    BY <1>6, <2>2
  <2> HIDE DEF g
  <2>6. GrowsUpper(hs, k, va, n, g, FreeVa(hs, k, va, n))
    BY <1>3, <1>4, <1>5, <1>8, <2>1, <2>4, <2>5 DEF GrowsUpper
  <2> QED
    BY <2>5, <2>6
<1>9. CASE ~UpperAdjacent(hs, k, va, n) /\ LowerAdjacent(hs, k, va)
  <2>1. PICK o \in Nat, y \in Nat :
           o = hs[k + 1].offset /\ y = hs[k + 1].size /\ o + y = va /\ lo <= o
    BY <1>1, <1>4, <1>5, <1>9
  <2> DEFINE g == [offset |-> o, size |-> y + n]
  <2>2. y + n \in Nat /\ y + n < AddrMod /\ o + (y + n) <= hi
    <3>1. o + y = va /\ va + n <= hi /\ hi < AddrMod /\ AddrMod \in Nat
      BY <1>1, <2>1
    <3> QED
      BY <3>1, SMT
  <2>3. GrowLower(hs[k + 1], n) = g
    BY <2>1, <2>2, SumFits DEF GrowLower
  <2>4. FreeVa(hs, k, va, n) = ReplaceAt(hs, k + 1, g)
    BY <1>9, <2>3 DEF FreeVa
  <2>5. g \in Hole /\ Within(g, lo, hi) /\ g.offset = o /\ g.size = y + n
    BY <1>6, <2>1, <2>2
  <2> HIDE DEF g
  <2>6. GrowsLower(hs, k, va, n, g, FreeVa(hs, k, va, n))
    BY <1>3, <1>4, <1>5, <1>9, <2>1, <2>4, <2>5 DEF GrowsLower
  <2> QED
    BY <2>5, <2>6
<1>10. CASE ~UpperAdjacent(hs, k, va, n) /\ ~LowerAdjacent(hs, k, va)
  <2> DEFINE g == [offset |-> va, size |-> n]
  <2>1. FreeVa(hs, k, va, n) = InsertAt(hs, k + 1, g)
    BY <1>10 DEF FreeVa
  <2>2. g \in Hole /\ Within(g, lo, hi) /\ g.offset = va /\ g.size = n
    BY <1>6
  <2> HIDE DEF g
  <2>3. AddsHole(hs, k, va, n, g, FreeVa(hs, k, va, n))
    BY <1>3, <1>4, <1>10, <2>1, <2>2 DEF AddsHole
  <2> QED
    BY <2>2, <2>3
<1> QED
  BY <1>7, <1>8, <1>9, <1>10

(* What free_va leaves of a list of disjoint holes: holes that are still   *)
(* disjoint and inside the manager and have gained the range at most.      *)
LEMMA FreeVaSafe ==
  ASSUME NEW hs \in Seq(Hole), NEW va \in Nat, NEW n \in Nat,
         NEW lo \in Nat, NEW hi \in Nat,
         ListWithin(hs, lo, hi), ListApart(hs), ListAvoids(hs, va, n),
         lo <= va, va + n <= hi, hi < AddrMod, NEW k \in 0 .. Len(hs)
  PROVE  JoinedSafely(hs, va, n, FreeVa(hs, k, va, n), lo, hi)
<1> DEFINE ns == FreeVa(hs, k, va, n)
<1>1. PICK g \in Hole :
         /\ Within(g, lo, hi)
         /\ \/ MergesBoth(hs, k, va, n, g, ns)
            \/ GrowsUpper(hs, k, va, n, g, ns)
            \/ GrowsLower(hs, k, va, n, g, ns)
            \/ AddsHole(hs, k, va, n, g, ns)
  BY FreeVaForms
<1> HIDE DEF ns
<1>2. /\ DOMAIN hs = 1 .. Len(hs) /\ Len(hs) \in Nat
      /\ \A j \in 1 .. Len(hs) : hs[j].offset \in Nat /\ hs[j].size \in Nat
  BY EntryType, HoleFields
<1>3. CASE MergesBoth(hs, k, va, n, g, ns)
  <2>1. k \in 1 .. Len(hs) /\ k + 1 \in 1 .. Len(hs)
    BY <1>2, <1>3 DEF MergesBoth
  <2>2. PICK o \in Nat, y \in Nat, z \in Nat :
           /\ o = hs[k + 1].offset /\ y = hs[k + 1].size /\ z = hs[k].size
           /\ o + y = va /\ hs[k].offset = va + n
           /\ g.offset = o /\ g.size = y + (z + n)
    BY <1>2, <1>3, <2>1 DEF MergesBoth
  <2>3. ASSUME NEW a \in Nat, NEW m \in Nat,
               Apart(hs[k].offset, hs[k].size, a, m),
               Apart(hs[k + 1].offset, hs[k + 1].size, a, m),
               Apart(va, n, a, m)
        PROVE  Apart(g.offset, g.size, a, m)
    <3>1. Apart(va + n, z, a, m) /\ Apart(o, y, a, m)
      BY <2>2, <2>3
    <3>2. Apart(va, n + z, a, m)
      BY <2>3, <3>1, TouchingApart
    <3>3. n + z \in Nat /\ n + z = z + n
      BY SMT
    <3>4. o + y = va
      BY <2>2
    <3>5. Apart(o, y + (n + z), a, m)
      BY <3>1, <3>2, <3>3, <3>4, TouchingApart
    <3> QED
      BY <2>2, <3>3, <3>5
  <2>4. k \in 1 .. Len(hs) - 1 /\ Within(g, lo, hi)
    BY <1>1, <1>3 DEF MergesBoth
  <2>5. JoinedSafely(hs, va, n, RemoveAt(ReplaceAt(hs, k + 1, g), k), lo, hi)
    BY <2>3, <2>4, JoinByMerge
  <2> QED
    BY <1>3, <2>5 DEF MergesBoth, ns
<1>4. CASE GrowsUpper(hs, k, va, n, g, ns)
  <2>1. PICK z \in Nat :
           /\ z = hs[k].size /\ hs[k].offset = va + n
           /\ g.offset = va /\ g.size = z + n
    BY <1>2, <1>4 DEF GrowsUpper
  <2>2. Fills(g, hs[k], va, n)
    <3> SUFFICES ASSUME NEW a \in Nat, NEW m \in Nat,
                        Apart(hs[k].offset, hs[k].size, a, m), Apart(va, n, a, m)
                 PROVE  Apart(g.offset, g.size, a, m)
      BY DEF Fills
    <3>1. Apart(va, n + z, a, m)
      BY <2>1, TouchingApart
    <3>2. n + z = z + n
      BY SMT
    <3> QED
      BY <2>1, <3>1, <3>2
  <2> QED
    BY <1>1, <1>4, <2>2, JoinByGrow DEF GrowsUpper, ns
<1>5. CASE GrowsLower(hs, k, va, n, g, ns)
  <2>1. PICK o \in Nat, y \in Nat :
           /\ o = hs[k + 1].offset /\ y = hs[k + 1].size /\ o + y = va
           /\ g.offset = o /\ g.size = y + n
    BY <1>2, <1>5 DEF GrowsLower
  <2>2. Fills(g, hs[k + 1], va, n)
    <3> SUFFICES ASSUME NEW a \in Nat, NEW m \in Nat,
                        Apart(hs[k + 1].offset, hs[k + 1].size, a, m), Apart(va, n, a, m)
                 PROVE  Apart(g.offset, g.size, a, m)
      BY DEF Fills
    <3>1. o + y = va
      BY <2>1
    <3>2. Apart(o, y, a, m) /\ Apart(o + y, n, a, m)
      BY <2>1, <3>1
    <3>3. Apart(o, y + n, a, m)
      BY <3>2, TouchingApart
    <3> QED
      BY <2>1, <3>3
  <2> QED
    BY <1>1, <1>5, <2>2, JoinByGrow DEF GrowsLower, ns
<1>6. CASE AddsHole(hs, k, va, n, g, ns)
  <2>1. k + 1 \in 1 .. Len(hs) + 1
    BY <1>2
  <2> QED
    BY <1>1, <1>6, <2>1, JoinByInsert DEF AddsHole, ns
<1> QED
  BY <1>1, <1>3, <1>4, <1>5, <1>6

-----------------------------------------------------------------------------
(* No hole is lost, and none is left empty or next to another. *)

CarvedExactly(hs, va, n, ns) ==
    /\ ListSorted(ns) /\ ListPositive(ns)
    /\ \A x \in Nat : InHoles(hs, x) => InHoles(ns, x) \/ (va <= x /\ x < va + n)

JoinedExactly(hs, va, n, ns) ==
    /\ ListSorted(ns) /\ ListPositive(ns)
    /\ \A x \in Nat : InHoles(hs, x) \/ (va <= x /\ x < va + n) => InHoles(ns, x)

(* A hole of a list, and its ends. *)
LEMMA EntryEnds ==
  ASSUME NEW hs \in Seq(Hole), NEW j \in DOMAIN hs
  PROVE  /\ hs[j].offset \in Nat /\ hs[j].size \in Nat /\ hs[j].offset + hs[j].size \in Nat
         /\ j \in 1 .. Len(hs) /\ Len(hs) \in Nat
  BY EntryType, HoleFields

(* Holes that come of the holes of a sorted list, in their order, with a   *)
(* gap where two come of the same, are a sorted list.                      *)
LEMMA RefinedSorted ==
  ASSUME NEW hs \in Seq(Hole), NEW ns \in Seq(Hole), ListSorted(hs),
         NEW src \in [DOMAIN ns -> DOMAIN hs],
         \A p \in DOMAIN ns : Inside(ns[p], hs[src[p]]),
         \A p, q \in DOMAIN ns : p < q =>
            \/ src[p] < src[q]
            \/ ns[q].offset + ns[q].size < ns[p].offset
  PROVE  ListSorted(ns)
<1> SUFFICES ASSUME NEW p \in DOMAIN ns, NEW q \in DOMAIN ns, p < q
             PROVE  ns[q].offset + ns[q].size < ns[p].offset
  BY DEF ListSorted
<1>1. CASE src[p] < src[q]
  <2>1. PICK a \in Nat, b \in Nat, c \in Nat, d \in Nat :
           /\ a = ns[p].offset /\ b = ns[q].offset + ns[q].size
           /\ c = hs[src[p]].offset /\ d = hs[src[q]].offset + hs[src[q]].size
    <3>1. src[p] \in DOMAIN hs /\ src[q] \in DOMAIN hs
      OBVIOUS
    <3> QED
      BY <3>1, EntryEnds
  <2>2. c <= a /\ b <= d
    BY <2>1 DEF Inside, Within
  <2>3. d < c
    BY <1>1, <2>1 DEF ListSorted
  <2> QED
    BY <2>1, <2>2, <2>3
<1> QED
  BY <1>1

(* The hole of an entry that was kept. *)
LEMMA KeptHas ==
  ASSUME NEW hs, NEW ns, NEW x, NEW j \in DOMAIN hs, Has(hs[j], x),
         NEW p \in DOMAIN ns, ns[p] = hs[j]
  PROVE  InHoles(ns, x)
  BY DEF InHoles

(* Every hole lies within itself. *)
LEMMA InsideItself ==
  ASSUME NEW h \in Hole
  PROVE  Inside(h, h)
  BY HoleFields DEF Inside, Within

(* A piece takes the place of the hole it is left of. *)
LEMMA ExactReplace ==
  ASSUME NEW hs \in Seq(Hole), NEW i \in DOMAIN hs, NEW va \in Nat, NEW n \in Nat,
         ListSorted(hs), ListPositive(hs),
         NEW part \in Hole, Inside(part, hs[i]), part.size > 0,
         \A x \in Nat : Has(hs[i], x) => Has(part, x) \/ (va <= x /\ x < va + n)
  PROVE  CarvedExactly(hs, va, n, ReplaceAt(hs, i, part))
<1> DEFINE ns == ReplaceAt(hs, i, part)
           src == [p \in 1 .. Len(hs) |-> p]
<1>1. DOMAIN hs = 1 .. Len(hs) /\ Len(hs) \in Nat /\ \A j \in DOMAIN hs : hs[j] \in Hole
  BY EntryType
<1>2. /\ ns \in Seq(Hole) /\ Len(ns) = Len(hs)
      /\ \A j \in 1 .. Len(hs) : ns[j] = IF j = i THEN part ELSE hs[j]
  <2>1. EntryReplaced(Hole, hs, i, part, ns)
    BY <1>1, ReplaceAtFacts
  <2> HIDE DEF ns
  <2> QED
    BY <2>1 DEF EntryReplaced
<1> HIDE DEF ns
<1>3. DOMAIN ns = 1 .. Len(hs)
  BY <1>2, EntryType
<1>4. ListSorted(ns)
  <2>1. src \in [DOMAIN ns -> DOMAIN hs]
    BY <1>1, <1>3
  <2>2. \A p \in DOMAIN ns : Inside(ns[p], hs[src[p]])
    BY <1>1, <1>2, <1>3, InsideItself
  <2>3. \A p, q \in DOMAIN ns : p < q => src[p] < src[q]
    BY <1>3
  <2> HIDE DEF src
  <2> QED
    BY <1>2, <2>1, <2>2, <2>3, RefinedSorted
<1>5. ListPositive(ns)
  BY <1>1, <1>2, <1>3 DEF ListPositive
<1>6. ASSUME NEW x \in Nat, InHoles(hs, x)
      PROVE  InHoles(ns, x) \/ (va <= x /\ x < va + n)
  <2>1. PICK j \in DOMAIN hs : Has(hs[j], x)
    BY <1>6 DEF InHoles
  <2>2. CASE j = i
    <3>1. ns[i] = part /\ i \in DOMAIN ns
      BY <1>1, <1>2, <1>3
    <3> QED
      BY <2>1, <2>2, <3>1 DEF InHoles
  <2>3. CASE j # i
    <3>1. ns[j] = hs[j] /\ j \in DOMAIN ns
      BY <1>1, <1>2, <1>3, <2>3
    <3> QED
      BY <2>1, <3>1, KeptHas
  <2> QED
    BY <2>2, <2>3
<1> QED
  BY <1>4, <1>5, <1>6 DEF CarvedExactly, ns

(* A hole that was taken whole leaves the list. *)
LEMMA ExactRemove ==
  ASSUME NEW hs \in Seq(Hole), NEW i \in DOMAIN hs, NEW va \in Nat, NEW n \in Nat,
         ListSorted(hs), ListPositive(hs),
         \A x \in Nat : Has(hs[i], x) => va <= x /\ x < va + n
  PROVE  CarvedExactly(hs, va, n, RemoveAt(hs, i))
<1> DEFINE ns == RemoveAt(hs, i)
           src == [p \in 1 .. Len(hs) - 1 |-> IF p < i THEN p ELSE p + 1]
<1>1. DOMAIN hs = 1 .. Len(hs) /\ Len(hs) \in Nat /\ \A j \in DOMAIN hs : hs[j] \in Hole
  BY EntryType
<1>2. /\ ns \in Seq(Hole) /\ Len(ns) = Len(hs) - 1
      /\ \A j \in 1 .. Len(hs) - 1 : ns[j] = IF j < i THEN hs[j] ELSE hs[j + 1]
  <2>1. EntryRemoved(Hole, hs, i, ns)
    BY <1>1, RemoveAtFacts
  <2> HIDE DEF ns
  <2> QED
    BY <2>1 DEF EntryRemoved
<1> HIDE DEF ns
<1>3. DOMAIN ns = 1 .. Len(hs) - 1
  BY <1>2, EntryType
<1>4. /\ src \in [DOMAIN ns -> DOMAIN hs]
      /\ \A p \in DOMAIN ns : ns[p] = hs[src[p]]
      /\ \A p, q \in DOMAIN ns : p < q => src[p] < src[q]
  <2>1. \A p \in DOMAIN ns : src[p] \in DOMAIN hs
    BY <1>1, <1>3
  <2>2. \A p \in DOMAIN ns : ns[p] = hs[src[p]]
    BY <1>2, <1>3
  <2>3. \A p, q \in DOMAIN ns : p < q => src[p] < src[q]
    BY <1>1, <1>3
  <2> QED
    BY <2>1, <2>2, <2>3, <1>3
<1>5. ASSUME NEW j \in DOMAIN hs, j # i
      PROVE  \E p \in DOMAIN ns : ns[p] = hs[j]
  <2>1. CASE j < i
    <3>1. j \in DOMAIN ns
      BY <1>1, <1>3, <2>1
    <3> QED
      BY <1>2, <1>3, <2>1, <3>1
  <2>2. CASE j > i
    <3>1. j - 1 \in DOMAIN ns /\ ~(j - 1 < i) /\ (j - 1) + 1 = j
      BY <1>1, <1>3, <2>2
    <3>2. ns[j - 1] = hs[j]
      BY <1>2, <1>3, <3>1
    <3> QED
      BY <3>1, <3>2
  <2> QED
    BY <1>1, <1>5, <2>1, <2>2
<1> HIDE DEF src
<1>6. ListSorted(ns)
  <2>1. \A p \in DOMAIN ns : Inside(ns[p], hs[src[p]])
    BY <1>1, <1>4, InsideItself
  <2> QED
    BY <1>2, <1>4, <2>1, RefinedSorted
<1>7. ListPositive(ns)
  BY <1>4 DEF ListPositive
<1>8. ASSUME NEW x \in Nat, InHoles(hs, x)
      PROVE  InHoles(ns, x) \/ (va <= x /\ x < va + n)
  <2>1. PICK j \in DOMAIN hs : Has(hs[j], x)
    BY <1>8 DEF InHoles
  <2>2. CASE j # i
    BY <1>5, <2>1, <2>2, KeptHas
  <2> QED
    BY <2>1, <2>2
<1> QED
  BY <1>6, <1>7, <1>8 DEF CarvedExactly, ns

(* A hole is cut in two. *)
LEMMA ExactSplit ==
  ASSUME NEW hs \in Seq(Hole), NEW i \in DOMAIN hs, NEW va \in Nat, NEW n \in Nat,
         ListSorted(hs), ListPositive(hs),
         NEW upper \in Hole, Inside(upper, hs[i]), upper.size > 0,
         NEW lower \in Hole, Inside(lower, hs[i]), lower.size > 0,
         lower.offset + lower.size < upper.offset,
         \A x \in Nat : Has(hs[i], x) => Has(upper, x) \/ Has(lower, x) \/ (va <= x /\ x < va + n)
  PROVE  CarvedExactly(hs, va, n, InsertAt(ReplaceAt(hs, i, upper), i + 1, lower))
<1> DEFINE ns == InsertAt(ReplaceAt(hs, i, upper), i + 1, lower)
           src == [p \in 1 .. Len(hs) + 1 |-> IF p <= i THEN p ELSE p - 1]
<1>1. /\ DOMAIN hs = 1 .. Len(hs) /\ Len(hs) \in Nat /\ i \in 1 .. Len(hs)
      /\ \A j \in DOMAIN hs : hs[j] \in Hole
  BY EntryType
<1>2. EntrySplit(hs, i, upper, lower, ns)
  BY <1>1, SplitEntryFacts
<1> HIDE DEF ns
<1>3. DOMAIN ns = 1 .. Len(hs) + 1 /\ ns \in Seq(Hole)
  BY <1>2, EntryType DEF EntrySplit
<1>4. ASSUME NEW p \in DOMAIN ns
      PROVE  /\ p = i => ns[p] = upper /\ src[p] = i
             /\ p = i + 1 => ns[p] = lower /\ src[p] = i
             /\ p # i /\ p # i + 1 => ns[p] = hs[src[p]]
  BY <1>1, <1>2, <1>3, SMT DEF EntrySplit
<1>5. \A p, q \in DOMAIN ns : p < q => src[p] < src[q] \/ (p = i /\ q = i + 1)
  BY <1>1, <1>3, SMT
<1>6. src \in [DOMAIN ns -> DOMAIN hs]
  BY <1>1, <1>3, SMT
<1>7. i \in DOMAIN ns /\ i + 1 \in DOMAIN ns
  BY <1>1, <1>3
<1>8. ASSUME NEW j \in DOMAIN hs, j # i
      PROVE  \E p \in DOMAIN ns : ns[p] = hs[j]
  <2>1. CASE j < i
    <3>1. j \in DOMAIN ns /\ src[j] = j /\ j # i /\ j # i + 1
      BY <1>1, <1>3, <2>1
    <3> QED
      BY <1>4, <3>1
  <2>2. CASE j > i
    <3>1. j + 1 \in DOMAIN ns /\ src[j + 1] = j /\ j + 1 # i /\ j + 1 # i + 1
      BY <1>1, <1>3, <2>2
    <3> QED
      BY <1>4, <3>1
  <2> QED
    BY <1>1, <1>8, <2>1, <2>2
<1> HIDE DEF src
<1>9. ASSUME NEW p \in DOMAIN ns
      PROVE  Inside(ns[p], hs[src[p]]) /\ ns[p].size > 0
  BY <1>1, <1>4, <1>6, InsideItself DEF ListPositive
<1>10. ListSorted(ns)
  <2>1. \A p, q \in DOMAIN ns : p < q =>
            \/ src[p] < src[q]
            \/ ns[q].offset + ns[q].size < ns[p].offset
    BY <1>4, <1>5
  <2> QED
    BY <1>3, <1>6, <1>9, <2>1, RefinedSorted
<1>11. ListPositive(ns)
  BY <1>9 DEF ListPositive
<1>12. ASSUME NEW x \in Nat, InHoles(hs, x)
       PROVE  InHoles(ns, x) \/ (va <= x /\ x < va + n)
  <2>1. PICK j \in DOMAIN hs : Has(hs[j], x)
    BY <1>12 DEF InHoles
  <2>2. CASE j # i
    BY <1>8, <2>1, <2>2, KeptHas
  <2>3. CASE j = i
    <3>1. ns[i] = upper /\ ns[i + 1] = lower
      BY <1>4, <1>7
    <3> QED
      BY <1>7, <2>1, <2>3, <3>1 DEF InHoles
  <2> QED
    BY <2>2, <2>3
<1> QED
  BY <1>10, <1>11, <1>12 DEF CarvedExactly, ns

(* What subtract_hole leaves of a sorted list: a sorted list, no hole of   *)
(* it empty, that has lost the range and nothing else.                     *)
LEMMA SubtractHoleExact ==
  ASSUME NEW hs \in Seq(Hole), NEW i \in DOMAIN hs, NEW va \in Nat, NEW n \in Nat, n > 0,
         ListSorted(hs), ListPositive(hs),
         Covers(hs[i], va, n), hs[i].offset + hs[i].size < AddrMod
  PROVE  CarvedExactly(hs, va, n, SubtractHole(hs, i, va, va + n))
<1>1. PICK o \in Nat, z \in Nat :
         /\ o = hs[i].offset /\ z = hs[i].size
         /\ o <= va /\ va + n <= o + z /\ o + z < AddrMod
  BY EntryEnds DEF Covers
<1>2. PICK e \in Nat : e = va + n
  OBVIOUS
<1>3. PICK u \in Nat : u = va - o
  BY <1>1, SMT
<1>4. PICK w \in Nat : w = z - (e - o) /\ e + w = o + z
  <2>1. z - (e - o) \in Nat /\ e + (z - (e - o)) = o + z
    BY <1>1, <1>2, SMT
  <2> QED
    BY <2>1
<1>ends. /\ o <= va /\ va < e /\ e <= o + z /\ o + z < AddrMod /\ AddrMod \in Nat
         /\ o + u = va /\ e + w = o + z
  <2>1. o <= va /\ e <= o + z /\ o + z < AddrMod /\ e + w = o + z
    BY <1>1, <1>2, <1>4
  <2>2. va < e /\ o + u = va
    BY <1>1, <1>2, <1>3, SMT
  <2> QED
    BY <2>1, <2>2, VaMgrAssumption
<1>5. WSub(e, o) = e - o
  BY <1>1, <1>2, SMT DEF WSub
<1> DEFINE lower == [offset |-> o, size |-> u]
           upper == [offset |-> e, size |-> w]
<1>6. LowerPart(hs[i], va) = lower /\ UpperPart(hs[i], va + n) = upper
  BY <1>1, <1>2, <1>3, <1>4, <1>5 DEF LowerPart, UpperPart
<1>7. (CutsBelow(hs[i], va) <=> u > 0) /\ (CutsAbove(hs[i], va + n) <=> w > 0)
  <2>1. CutsBelow(hs[i], va) <=> u > 0
    BY <1>1, <1>3, SMT DEF CutsBelow
  <2>2. CutsAbove(hs[i], va + n) <=> e - o < z
    BY <1>1, <1>2, <1>5 DEF CutsAbove
  <2>3. e - o < z <=> w > 0
    BY <1>4, SMT
  <2> QED
    BY <2>1, <2>2, <2>3
<1>8. lower \in Hole /\ upper \in Hole
  <2>1. o \in Addr /\ u \in Addr /\ e \in Addr /\ w \in Addr
    BY <1>ends, SMT DEF Addr
  <2> QED
    BY <2>1 DEF Hole
<1>9. /\ lower.offset = o /\ lower.size = u /\ upper.offset = e /\ upper.size = w
  OBVIOUS
<1> HIDE DEF lower, upper
<1>10. Inside(lower, hs[i]) /\ Inside(upper, hs[i])
  <2>1. o <= o /\ o + u <= o + z /\ o <= e /\ e + w <= o + z
    BY <1>ends, SMT
  <2> QED
    BY <1>1, <1>9, <2>1 DEF Inside, Within
<1>11. lower.offset + lower.size < upper.offset
  <2>1. o + u < e
    BY <1>ends, SMT
  <2> QED
    BY <1>9, <2>1
<1>12. ASSUME NEW x \in Nat, Has(hs[i], x)
       PROVE  \/ u > 0 /\ Has(lower, x)
              \/ w > 0 /\ Has(upper, x)
              \/ va <= x /\ x < va + n
  <2>1. o <= x /\ x < o + z
    BY <1>1, <1>12 DEF Has
  <2>2. \/ u > 0 /\ o <= x /\ x < o + u
        \/ w > 0 /\ e <= x /\ x < e + w
        \/ va <= x /\ x < e
    BY <1>ends, <2>1, SMT
  <2> QED
    BY <1>2, <1>9, <2>2 DEF Has
<1>13. CASE u > 0 /\ w > 0
  <2>1. SubtractHole(hs, i, va, va + n) = InsertAt(ReplaceAt(hs, i, upper), i + 1, lower)
    BY <1>6, <1>7, <1>13 DEF SubtractHole, Splits
  <2>2. upper.size > 0 /\ lower.size > 0
    BY <1>9, <1>13
  <2> QED
    BY <1>8, <1>10, <1>11, <1>12, <2>1, <2>2, ExactSplit
<1>14. CASE u > 0 /\ ~(w > 0)
  <2>1. SubtractHole(hs, i, va, va + n) = ReplaceAt(hs, i, lower)
    BY <1>6, <1>7, <1>14 DEF SubtractHole, Splits
  <2>2. lower.size > 0
    BY <1>9, <1>14
  <2>3. \A x \in Nat : Has(hs[i], x) => Has(lower, x) \/ (va <= x /\ x < va + n)
    BY <1>12, <1>14
  <2> QED
    BY <1>8, <1>10, <2>1, <2>2, <2>3, ExactReplace
<1>15. CASE ~(u > 0) /\ w > 0
  <2>1. SubtractHole(hs, i, va, va + n) = ReplaceAt(hs, i, upper)
    BY <1>6, <1>7, <1>15 DEF SubtractHole, Splits
  <2>2. upper.size > 0
    BY <1>9, <1>15
  <2>3. \A x \in Nat : Has(hs[i], x) => Has(upper, x) \/ (va <= x /\ x < va + n)
    BY <1>12, <1>15
  <2> QED
    BY <1>8, <1>10, <2>1, <2>2, <2>3, ExactReplace
<1>16. CASE ~(u > 0) /\ ~(w > 0)
  <2>1. SubtractHole(hs, i, va, va + n) = RemoveAt(hs, i)
    BY <1>6, <1>7, <1>16 DEF SubtractHole, Splits
  <2>2. \A x \in Nat : Has(hs[i], x) => va <= x /\ x < va + n
    BY <1>12, <1>16
  <2> QED
    BY <2>1, <2>2, ExactRemove
<1> QED
  BY <1>13, <1>14, <1>15, <1>16

(* ns is hs with some of its holes replaced by the one at own, which lies  *)
(* between those that stay.                                                *)
Placed(hs, ns, own, src) ==
    /\ own \in DOMAIN ns
    /\ \A p \in DOMAIN ns \ {own} : src[p] \in DOMAIN hs /\ ns[p] = hs[src[p]]
    /\ \A p, q \in DOMAIN ns \ {own} : p < q => src[p] < src[q]
    /\ \A p \in DOMAIN ns : p < own => ns[own].offset + ns[own].size < ns[p].offset
    /\ \A p \in DOMAIN ns : own < p => ns[p].offset + ns[p].size < ns[own].offset
    /\ \A j \in DOMAIN hs :
          Inside(hs[j], ns[own]) \/ \E p \in DOMAIN ns \ {own} : ns[p] = hs[j]

(* Such a list is sorted and has lost nothing.                             *)
LEMMA PlacedExact ==
  ASSUME NEW hs \in Seq(Hole), NEW ns \in Seq(Hole), NEW va \in Nat, NEW n \in Nat,
         ListSorted(hs), ListPositive(hs), NEW own, NEW src, Placed(hs, ns, own, src),
         ns[own].size > 0, Covers(ns[own], va, n)
  PROVE  JoinedExactly(hs, va, n, ns)
<1>1. ListSorted(ns)
  <2> SUFFICES ASSUME NEW p \in DOMAIN ns, NEW q \in DOMAIN ns, p < q
               PROVE  ns[q].offset + ns[q].size < ns[p].offset
    BY DEF ListSorted
  <2>1. CASE p = own \/ q = own
    BY <2>1 DEF Placed
  <2>2. CASE p # own /\ q # own
    <3>1. src[p] \in DOMAIN hs /\ src[q] \in DOMAIN hs /\ src[p] < src[q]
          /\ ns[p] = hs[src[p]] /\ ns[q] = hs[src[q]]
      BY <2>2 DEF Placed
    <3> QED
      BY <3>1 DEF ListSorted
  <2> QED
    BY <2>1, <2>2
<1>2. ListPositive(ns)
  BY DEF ListPositive, Placed
<1>3. ASSUME NEW x \in Nat, InHoles(hs, x) \/ (va <= x /\ x < va + n)
      PROVE  InHoles(ns, x)
  <2>1. PICK a \in Nat, b \in Nat : a = ns[own].offset /\ b = ns[own].offset + ns[own].size
    <3>1. own \in DOMAIN ns
      BY DEF Placed
    <3> QED
      BY <3>1, EntryEnds
  <2>2. CASE va <= x /\ x < va + n
    <3>1. a <= x /\ x < b
      <4>1. a <= va /\ va + n <= b
        BY <2>1 DEF Covers
      <4> QED
        BY <2>2, <4>1, SMT
    <3> QED
      BY <2>1, <3>1 DEF InHoles, Has, Placed
  <2>3. ASSUME NEW j \in DOMAIN hs, Has(hs[j], x)
        PROVE  InHoles(ns, x)
    <3>1. CASE Inside(hs[j], ns[own])
      <4>1. PICK c \in Nat, d \in Nat : c = hs[j].offset /\ d = hs[j].offset + hs[j].size
        BY EntryEnds
      <4>2. a <= c /\ d <= b /\ c <= x /\ x < d
        BY <2>1, <2>3, <3>1, <4>1 DEF Inside, Within, Has
      <4>3. a <= x /\ x < b
        BY <4>2, SMT
      <4> QED
        BY <2>1, <4>3 DEF InHoles, Has, Placed
    <3>2. CASE \E p \in DOMAIN ns \ {own} : ns[p] = hs[j]
      BY <2>3, <3>2, KeptHas
    <3> QED
      BY <3>1, <3>2 DEF Placed
  <2> QED
    BY <1>3, <2>2, <2>3 DEF InHoles
<1> QED
  BY <1>1, <1>2, <1>3 DEF JoinedExactly

(* Hole g lies below the first a holes of the list and above the rest from *)
(* entry b on, a gap away from each.                                       *)
LiesBetween(hs, g, a, b) ==
    /\ \A j \in DOMAIN hs : j <= a => g.offset + g.size < hs[j].offset
    /\ \A j \in DOMAIN hs : b <= j => hs[j].offset + hs[j].size < g.offset

(* A hole grows. *)
LEMMA ExactGrow ==
  ASSUME NEW hs \in Seq(Hole), NEW va \in Nat, NEW n \in Nat,
         ListSorted(hs), ListPositive(hs), NEW x \in 1 .. Len(hs),
         NEW g \in Hole, g.size > 0, Covers(g, va, n), Inside(hs[x], g),
         LiesBetween(hs, g, x - 1, x + 1)
  PROVE  JoinedExactly(hs, va, n, ReplaceAt(hs, x, g))
<1> DEFINE ns == ReplaceAt(hs, x, g)
           src == [p \in 1 .. Len(hs) |-> p]
<1>1. DOMAIN hs = 1 .. Len(hs) /\ Len(hs) \in Nat
  BY EntryType
<1>2. /\ ns \in Seq(Hole) /\ Len(ns) = Len(hs)
      /\ \A j \in 1 .. Len(hs) : ns[j] = IF j = x THEN g ELSE hs[j]
  <2>1. EntryReplaced(Hole, hs, x, g, ns)
    BY ReplaceAtFacts
  <2> HIDE DEF ns
  <2> QED
    BY <2>1 DEF EntryReplaced
<1> HIDE DEF ns
<1>3. DOMAIN ns = 1 .. Len(hs)
  BY <1>2, EntryType
<1>4. ns[x] = g /\ x \in DOMAIN ns
  BY <1>2, <1>3
<1>5. ASSUME NEW p \in DOMAIN ns, p # x
      PROVE  /\ src[p] = p /\ p \in DOMAIN hs /\ ns[p] = hs[p]
             /\ p < x => p <= x - 1
             /\ x < p => x + 1 <= p
  BY <1>1, <1>2, <1>3, <1>5, SMT
<1>6. /\ \A p \in DOMAIN ns : p < x => g.offset + g.size < ns[p].offset
      /\ \A p \in DOMAIN ns : x < p => ns[p].offset + ns[p].size < g.offset
  <2>1. \A p \in DOMAIN ns : p < x \/ x < p => p # x
    BY <1>1, <1>3
  <2> QED
    BY <1>5, <2>1 DEF LiesBetween
<1>7. \A j \in DOMAIN hs : Inside(hs[j], g) \/ \E p \in DOMAIN ns \ {x} : ns[p] = hs[j]
  BY <1>1, <1>2, <1>3
<1> HIDE DEF src
<1>8. Placed(hs, ns, x, src)
  BY <1>4, <1>5, <1>6, <1>7 DEF Placed
<1> QED
  BY <1>2, <1>4, <1>8, PlacedExact DEF ns

(* A hole is added. *)
LEMMA ExactInsert ==
  ASSUME NEW hs \in Seq(Hole), NEW va \in Nat, NEW n \in Nat,
         ListSorted(hs), ListPositive(hs), NEW x \in 1 .. Len(hs) + 1,
         NEW g \in Hole, g.size > 0, Covers(g, va, n), LiesBetween(hs, g, x - 1, x)
  PROVE  JoinedExactly(hs, va, n, InsertAt(hs, x, g))
<1> DEFINE ns == InsertAt(hs, x, g)
           src == [p \in 1 .. Len(hs) + 1 |-> IF p < x THEN p ELSE p - 1]
<1>1. DOMAIN hs = 1 .. Len(hs) /\ Len(hs) \in Nat
  BY EntryType
<1>2. /\ ns \in Seq(Hole) /\ Len(ns) = Len(hs) + 1
      /\ \A j \in 1 .. Len(hs) + 1 :
            ns[j] = IF j < x THEN hs[j] ELSE IF j = x THEN g ELSE hs[j - 1]
  <2>1. EntryInserted(Hole, hs, x, g, ns)
    BY InsertAtFacts
  <2> HIDE DEF ns
  <2> QED
    BY <2>1 DEF EntryInserted
<1> HIDE DEF ns
<1>3. DOMAIN ns = 1 .. Len(hs) + 1
  BY <1>2, EntryType
<1>4. ns[x] = g /\ x \in DOMAIN ns
  BY <1>1, <1>2, <1>3, SMT
<1>5. ASSUME NEW p \in DOMAIN ns, p # x
      PROVE  /\ src[p] \in DOMAIN hs /\ ns[p] = hs[src[p]]
             /\ p < x => src[p] <= x - 1
             /\ x < p => x <= src[p]
  <2>1. CASE p < x
    <3>1. p \in 1 .. Len(hs) /\ p <= x - 1 /\ ~(x < p)
      BY <1>1, <1>3, <2>1, SMT
    <3> QED
      BY <1>1, <1>2, <1>3, <2>1, <3>1
  <2>2. CASE x < p
    <3>1. p - 1 \in 1 .. Len(hs) /\ x <= p - 1 /\ ~(p < x)
      BY <1>1, <1>3, <2>2, SMT
    <3> QED
      BY <1>1, <1>2, <1>3, <1>5, <3>1
  <2> QED
    BY <1>1, <1>3, <1>5, <2>1, <2>2, SMT
<1>6. \A p, q \in DOMAIN ns \ {x} : p < q => src[p] < src[q]
  BY <1>1, <1>3, SMT
<1>7. /\ \A p \in DOMAIN ns : p < x => g.offset + g.size < ns[p].offset
      /\ \A p \in DOMAIN ns : x < p => ns[p].offset + ns[p].size < g.offset
  <2>1. \A p \in DOMAIN ns : p < x \/ x < p => p # x
    BY <1>1, <1>3
  <2> QED
    BY <1>5, <2>1 DEF LiesBetween
<1> HIDE DEF src
<1>8. ASSUME NEW j \in DOMAIN hs
      PROVE  \E p \in DOMAIN ns \ {x} : ns[p] = hs[j]
  <2>1. CASE j < x
    <3>1. j \in DOMAIN ns /\ j # x
      BY <1>1, <1>3, <2>1
    <3> QED
      BY <1>2, <1>3, <2>1, <3>1
  <2>2. CASE j >= x
    <3>1. j + 1 \in DOMAIN ns /\ j + 1 # x /\ ~(j + 1 < x) /\ (j + 1) - 1 = j
      BY <1>1, <1>3, <2>2
    <3>2. ns[j + 1] = hs[j]
      BY <1>2, <1>3, <3>1
    <3> QED
      BY <3>1, <3>2
  <2> QED
    BY <1>1, <2>1, <2>2
<1>9. Placed(hs, ns, x, src)
  BY <1>4, <1>5, <1>6, <1>7, <1>8 DEF Placed
<1> QED
  BY <1>2, <1>4, <1>9, PlacedExact DEF ns

(* Two holes become one. *)
LEMMA ExactMerge ==
  ASSUME NEW hs \in Seq(Hole), NEW va \in Nat, NEW n \in Nat,
         ListSorted(hs), ListPositive(hs), NEW k \in 1 .. Len(hs) - 1,
         NEW g \in Hole, g.size > 0, Covers(g, va, n),
         Inside(hs[k], g), Inside(hs[k + 1], g), LiesBetween(hs, g, k - 1, k + 2)
  PROVE  JoinedExactly(hs, va, n, RemoveAt(ReplaceAt(hs, k + 1, g), k))
<1> DEFINE ms == ReplaceAt(hs, k + 1, g)
           ns == RemoveAt(ms, k)
           src == [p \in 1 .. Len(hs) - 1 |-> IF p < k THEN p ELSE p + 1]
<1>1. /\ DOMAIN hs = 1 .. Len(hs) /\ Len(hs) \in Nat
      /\ k + 1 \in 1 .. Len(hs) /\ k \in 1 .. Len(hs)
  <2>1. DOMAIN hs = 1 .. Len(hs) /\ Len(hs) \in Nat
    BY EntryType
  <2> QED
    BY <2>1
<1>2. /\ ms \in Seq(Hole) /\ Len(ms) = Len(hs)
      /\ \A j \in 1 .. Len(hs) : ms[j] = IF j = k + 1 THEN g ELSE hs[j]
  <2>1. EntryReplaced(Hole, hs, k + 1, g, ms)
    BY <1>1, ReplaceAtFacts
  <2> HIDE DEF ms
  <2> QED
    BY <2>1 DEF EntryReplaced
<1> HIDE DEF ms
<1>3. /\ ns \in Seq(Hole) /\ Len(ns) = Len(hs) - 1
      /\ \A j \in 1 .. Len(hs) - 1 : ns[j] = IF j < k THEN ms[j] ELSE ms[j + 1]
  <2>1. EntryRemoved(Hole, ms, k, ns)
    BY <1>1, <1>2, RemoveAtFacts
  <2> HIDE DEF ns
  <2> QED
    BY <1>2, <2>1 DEF EntryRemoved
<1> HIDE DEF ns
<1>4. DOMAIN ns = 1 .. Len(hs) - 1
  BY <1>3, EntryType
<1>5. ns[k] = g /\ k \in DOMAIN ns
  <2>1. k \in 1 .. Len(hs) - 1 /\ ~(k < k)
    BY <1>1
  <2> QED
    BY <1>1, <1>2, <1>3, <1>4, <2>1
<1>6. ASSUME NEW p \in DOMAIN ns, p # k
      PROVE  /\ src[p] \in DOMAIN hs /\ ns[p] = hs[src[p]]
             /\ p < k => src[p] <= k - 1
             /\ k < p => k + 2 <= src[p]
  <2>1. CASE p < k
    <3>1. p \in 1 .. Len(hs) /\ p <= k - 1 /\ ~(k < p) /\ p # k + 1
      BY <1>1, <1>4, <2>1, SMT
    <3> QED
      BY <1>1, <1>2, <1>3, <1>4, <2>1, <3>1
  <2>2. CASE k < p
    <3>1. p + 1 \in 1 .. Len(hs) /\ k + 2 <= p + 1 /\ ~(p < k) /\ p + 1 # k + 1
      BY <1>1, <1>4, <2>2, SMT
    <3> QED
      BY <1>1, <1>2, <1>3, <1>4, <3>1
  <2> QED
    BY <1>1, <1>4, <1>6, <2>1, <2>2, SMT
<1>7. \A p, q \in DOMAIN ns \ {k} : p < q => src[p] < src[q]
  BY <1>1, <1>4, SMT
<1>8. /\ \A p \in DOMAIN ns : p < k => g.offset + g.size < ns[p].offset
      /\ \A p \in DOMAIN ns : k < p => ns[p].offset + ns[p].size < g.offset
  <2>1. \A p \in DOMAIN ns : p < k \/ k < p => p # k
    BY <1>1, <1>4
  <2> QED
    BY <1>6, <2>1 DEF LiesBetween
<1> HIDE DEF src
<1>9. ASSUME NEW j \in DOMAIN hs, j # k, j # k + 1
      PROVE  \E p \in DOMAIN ns \ {k} : ns[p] = hs[j]
  <2>1. CASE j < k
    <3>1. j \in DOMAIN ns /\ j # k
      BY <1>1, <1>4, <2>1
    <3> QED
      BY <1>1, <1>2, <1>3, <1>4, <1>9, <2>1, <3>1
  <2>2. CASE j > k + 1
    <3>1. j - 1 \in DOMAIN ns /\ j - 1 # k /\ ~(j - 1 < k) /\ (j - 1) + 1 = j
      BY <1>1, <1>4, <2>2
    <3>2. ns[j - 1] = hs[j]
      BY <1>1, <1>2, <1>3, <1>4, <1>9, <3>1
    <3> QED
      BY <3>1, <3>2
  <2> QED
    BY <1>1, <1>9, <2>1, <2>2
<1>10. Placed(hs, ns, k, src)
  <2>1. \A j \in DOMAIN hs : Inside(hs[j], g) \/ \E p \in DOMAIN ns \ {k} : ns[p] = hs[j]
    BY <1>9
  <2> QED
    BY <1>5, <1>6, <1>7, <1>8, <2>1 DEF Placed
<1> QED
  BY <1>3, <1>5, <1>10, PlacedExact DEF ns, ms

(* What free_va leaves of a sorted list: a sorted list, no hole of it      *)
(* empty, that has gained the range and lost nothing.                      *)
LEMMA FreeVaExact ==
  ASSUME NEW hs \in Seq(Hole), NEW va \in Nat, NEW n \in Nat, n > 0,
         NEW lo \in Nat, NEW hi \in Nat, ListWithin(hs, lo, hi),
         ListSorted(hs), ListPositive(hs), ListAvoids(hs, va, n),
         lo <= va, va + n <= hi, hi < AddrMod, NEW k \in 0 .. Len(hs), StopsAt(hs, va, k)
  PROVE  JoinedExactly(hs, va, n, FreeVa(hs, k, va, n))
<1> DEFINE ns == FreeVa(hs, k, va, n)
<1>1. PICK g \in Hole :
         \/ MergesBoth(hs, k, va, n, g, ns)
         \/ GrowsUpper(hs, k, va, n, g, ns)
         \/ GrowsLower(hs, k, va, n, g, ns)
         \/ AddsHole(hs, k, va, n, g, ns)
  BY FreeVaForms
<1> HIDE DEF ns
<1>2. DOMAIN hs = 1 .. Len(hs) /\ Len(hs) \in Nat
  BY EntryType
<1>4. ASSUME NEW j \in DOMAIN hs
      PROVE  /\ hs[j].offset \in Nat /\ hs[j].size \in Nat /\ hs[j].size > 0
             /\ hs[j].offset + hs[j].size <= va \/ va + n <= hs[j].offset
  BY EntryEnds DEF ListPositive, ListAvoids, Apart
<1>5. ASSUME NEW j \in DOMAIN hs, j <= k
      PROVE  va + n <= hs[j].offset
  <2>1. va <= hs[j].offset
    BY <1>2, <1>5 DEF StopsAt
  <2> QED
    BY <1>4, <2>1
<1>6. ASSUME NEW j \in DOMAIN hs, k + 1 <= j
      PROVE  hs[j].offset + hs[j].size <= va
  <2>1. k < Len(hs) /\ k + 1 \in DOMAIN hs /\ (j = k + 1 \/ k + 1 < j)
    BY <1>2, <1>6
  <2>2. PICK o \in Nat, e \in Nat : o = hs[j].offset /\ e = hs[j].offset + hs[j].size
    BY EntryEnds
  <2>3. hs[k + 1].offset < va
    BY <2>1 DEF StopsAt
  <2>4. o < va
    <3>1. CASE j = k + 1
      BY <2>2, <2>3, <3>1
    <3>2. CASE k + 1 < j
      <4>1. PICK c \in Nat : c = hs[k + 1].offset
        BY <1>4, <2>1
      <4>2. e < c /\ o <= e
        BY <1>4, <2>1, <2>2, <3>2, <4>1 DEF ListSorted
      <4> QED
        BY <2>3, <4>1, <4>2
    <3> QED
      BY <2>1, <3>1, <3>2
  <2>5. ~(va + n <= o)
    BY <2>4
  <2> QED
    BY <1>4, <2>2, <2>5
<1>7. ASSUME k > 0, NEW j \in DOMAIN hs, j <= k - 1
      PROVE  hs[k].offset + hs[k].size < hs[j].offset
  BY <1>2, <1>7 DEF ListSorted
<1>8. ASSUME k < Len(hs), NEW j \in DOMAIN hs, k + 2 <= j
      PROVE  hs[j].offset + hs[j].size < hs[k + 1].offset
  BY <1>2, <1>8 DEF ListSorted
<1>9. ASSUME k > 0 => hs[k].offset # va + n, NEW j \in DOMAIN hs, j <= k
      PROVE  va + n < hs[j].offset
  <2>1. k > 0 /\ k \in DOMAIN hs /\ (j = k \/ j <= k - 1)
    BY <1>2, <1>9
  <2>2. PICK o \in Nat, p \in Nat, z \in Nat :
           o = hs[j].offset /\ p = hs[k].offset /\ z = hs[k].size
    BY <1>4, <2>1
  <2>3. va + n <= p /\ p # va + n
    BY <1>2, <1>5, <1>9, <2>1, <2>2
  <2>4. j <= k - 1 => p + z < o
    BY <1>7, <2>1, <2>2
  <2>5. p <= o
    BY <2>1, <2>2, <2>4
  <2> QED
    BY <2>2, <2>3, <2>5
<1>10. ASSUME k < Len(hs) => hs[k + 1].offset + hs[k + 1].size # va,
              NEW j \in DOMAIN hs, k + 1 <= j
       PROVE  hs[j].offset + hs[j].size < va
  <2>1. k < Len(hs) /\ k + 1 \in DOMAIN hs /\ (j = k + 1 \/ k + 2 <= j)
    BY <1>2, <1>10
  <2>2. PICK e \in Nat, o \in Nat, z \in Nat :
           e = hs[j].offset + hs[j].size /\ o = hs[k + 1].offset /\ z = hs[k + 1].size
    BY <2>1, EntryEnds
  <2>3. o + z <= va /\ o + z # va
    <3>1. k + 1 <= k + 1
      OBVIOUS
    <3> QED
      BY <1>6, <1>10, <2>1, <2>2, <3>1
  <2>4. k + 2 <= j => e < o
    BY <1>8, <2>1, <2>2
  <2>5. e <= o + z
    <3>1. CASE j = k + 1
      BY <2>2, <3>1
    <3>2. CASE k + 2 <= j
      BY <2>2, <2>4, <3>2
    <3> QED
      BY <2>1, <3>1, <3>2
  <2>6. e < va
    BY <2>3, <2>5
  <2> QED
    BY <2>2, <2>6
<1>11. CASE MergesBoth(hs, k, va, n, g, ns)
  <2>1. k > 0 /\ k < Len(hs) /\ k \in DOMAIN hs /\ k + 1 \in DOMAIN hs
    BY <1>2, <1>11 DEF MergesBoth
  <2>2. PICK o \in Nat, y \in Nat, z \in Nat :
           /\ o = hs[k + 1].offset /\ y = hs[k + 1].size /\ z = hs[k].size
           /\ o + y = va /\ hs[k].offset = va + n
           /\ g.offset = o /\ g.size = y + (z + n)
    BY <1>4, <1>11, <2>1 DEF MergesBoth
  <2>3. g.offset + g.size = (va + n) + z
    <3>1. o + y = va
      BY <2>2
    <3>2. o + (y + (z + n)) = (va + n) + z
      BY <3>1
    <3> QED
      BY <2>2, <3>2
  <2>4. g.size > 0 /\ Covers(g, va, n) /\ Inside(hs[k], g) /\ Inside(hs[k + 1], g)
    <3>1. /\ o + y = va /\ hs[k + 1].offset + hs[k + 1].size = o + y
          /\ hs[k].offset + hs[k].size = (va + n) + z
      BY <2>2
    <3>2. /\ y + (z + n) > 0 /\ o <= va /\ va + n <= (va + n) + z
          /\ o + y <= (va + n) + z /\ o <= va + n /\ (va + n) + z <= (va + n) + z
      BY <3>1
    <3>3. g.size > 0 /\ Covers(g, va, n)
      BY <2>2, <2>3, <3>2 DEF Covers
    <3>4. Inside(hs[k], g)
      BY <2>2, <2>3, <3>2 DEF Inside, Within
    <3>5. Inside(hs[k + 1], g)
      BY <2>2, <2>3, <3>1, <3>2 DEF Inside, Within
    <3> QED
      BY <3>3, <3>4, <3>5
  <2>5. LiesBetween(hs, g, k - 1, k + 2)
    BY <1>7, <1>8, <2>1, <2>2, <2>3 DEF LiesBetween
  <2> QED
    BY <1>11, <2>4, <2>5, ExactMerge DEF MergesBoth, ns
<1>12. CASE GrowsUpper(hs, k, va, n, g, ns)
  <2>1. k > 0 /\ k \in DOMAIN hs
    BY <1>2, <1>12 DEF GrowsUpper
  <2>2. PICK z \in Nat :
           /\ z = hs[k].size /\ hs[k].offset = va + n
           /\ g.offset = va /\ g.size = z + n
    BY <1>4, <1>12, <2>1 DEF GrowsUpper
  <2>3. g.offset + g.size = (va + n) + z
    BY <2>2
  <2>4. g.size > 0 /\ Covers(g, va, n) /\ Inside(hs[k], g)
    BY <2>2, <2>3 DEF Covers, Inside, Within
  <2>5. LiesBetween(hs, g, k - 1, k + 1)
    BY <1>7, <1>10, <1>12, <2>1, <2>2, <2>3 DEF LiesBetween, GrowsUpper
  <2> QED
    BY <1>12, <2>4, <2>5, ExactGrow DEF GrowsUpper, ns
<1>13. CASE GrowsLower(hs, k, va, n, g, ns)
  <2>1. k < Len(hs) /\ k + 1 \in DOMAIN hs
    BY <1>2, <1>13 DEF GrowsLower
  <2>2. PICK o \in Nat, y \in Nat :
           /\ o = hs[k + 1].offset /\ y = hs[k + 1].size /\ o + y = va
           /\ g.offset = o /\ g.size = y + n
    BY <1>4, <1>13, <2>1 DEF GrowsLower
  <2>3. g.offset + g.size = va + n
    BY <2>2
  <2>4. g.size > 0 /\ Covers(g, va, n) /\ Inside(hs[k + 1], g)
    <3>1. o + y = va /\ hs[k + 1].offset + hs[k + 1].size = o + y
      BY <2>2
    <3>2. y + n > 0 /\ o <= va /\ va + n <= va + n /\ o + y <= va + n /\ o <= o
      BY <3>1
    <3> QED
      BY <2>2, <2>3, <3>1, <3>2 DEF Covers, Inside, Within
  <2>5. LiesBetween(hs, g, (k + 1) - 1, (k + 1) + 1)
    <3>1. (k + 1) - 1 = k /\ (k + 1) + 1 = k + 2
      OBVIOUS
    <3> QED
      BY <1>8, <1>9, <1>13, <2>1, <2>2, <2>3, <3>1 DEF LiesBetween, GrowsLower
  <2> QED
    BY <1>2, <1>13, <2>1, <2>4, <2>5, ExactGrow DEF GrowsLower, ns
<1>14. CASE AddsHole(hs, k, va, n, g, ns)
  <2>1. g.size > 0 /\ Covers(g, va, n) /\ g.offset + g.size = va + n
    BY <1>14 DEF AddsHole, Covers
  <2>2. LiesBetween(hs, g, (k + 1) - 1, k + 1)
    <3>1. (k + 1) - 1 = k
      OBVIOUS
    <3> QED
      BY <1>9, <1>10, <1>14, <2>1, <3>1 DEF LiesBetween, AddsHole
  <2>3. k + 1 \in 1 .. Len(hs) + 1
    BY <1>2
  <2> QED
    BY <1>14, <2>1, <2>2, <2>3, ExactInsert DEF AddsHole, ns
<1> QED
  BY <1>1, <1>11, <1>12, <1>13, <1>14

-----------------------------------------------------------------------------
(* Rounding finds the nearest multiple. *)

LEMMA RoundUpLeast ==
  ASSUME NEW x \in Nat, NEW a \in Nat \ {0}, NEW b \in Nat, b % a = 0, x <= b, x % a # 0
  PROVE  x + (a - (x % a)) <= b
<1>1. PICK q \in Int, s \in 0 .. a - 1 : x = (a * q) + s /\ x % a = s
  BY DivMod
<1>2. PICK k \in Int, u \in 0 .. a - 1 : b = (a * k) + u /\ b % a = u
  BY DivMod
<1>3. PICK aq \in Int, ak \in Int : aq = a * q /\ ak = a * k
  BY SMT
<1>4. x = aq + s /\ b = ak /\ s > 0
  BY <1>1, <1>2, <1>3
<1>5. k >= q + 1
  <2> SUFFICES ASSUME q >= k PROVE FALSE
    BY SMT
  <2>1. CASE q = k
    BY <1>3, <1>4, <2>1
  <2>2. CASE q # k
    <3>1. a * q >= a * k + a
      BY <2>2, MultiplesStep
    <3> QED
      BY <1>3, <1>4, <3>1
  <2> QED
    BY <2>1, <2>2
<1>6. ak >= aq + a
  BY <1>3, <1>5, MultiplesStep
<1> QED
  BY <1>1, <1>4, <1>6

LEMMA RoundDownGreatest ==
  ASSUME NEW x \in Nat, NEW a \in Nat \ {0}, NEW b \in Nat, b % a = 0, b <= x
  PROVE  b <= RoundDown(x, a)
<1>1. PICK q \in Int, s \in 0 .. a - 1 : x = (a * q) + s /\ x % a = s
  BY DivMod
<1>2. PICK k \in Int, u \in 0 .. a - 1 : b = (a * k) + u /\ b % a = u
  BY DivMod
<1>3. PICK aq \in Int, ak \in Int : aq = a * q /\ ak = a * k
  BY SMT
<1>4. x = aq + s /\ b = ak
  BY <1>1, <1>2, <1>3
<1>5. ~(k >= q + 1)
  <2> SUFFICES ASSUME k >= q + 1 PROVE FALSE
    OBVIOUS
  <2>1. ak >= aq + a
    BY <1>3, MultiplesStep
  <2> QED
    BY <1>4, <2>1
<1>6. ak <= aq
  <2>1. CASE q = k
    BY <1>3, <2>1
  <2>2. CASE q # k
    <3>1. q >= k + 1
      BY <1>5, <2>2
    <3>2. a * q >= a * k + a
      BY <3>1, MultiplesStep
    <3> QED
      BY <1>3, <3>2
  <2> QED
    BY <2>1, <2>2
<1> QED
  BY <1>1, <1>4, <1>6 DEF RoundDown

(* ALIGN leaves something of every size. *)
LEMMA AlignSizePositive ==
  ASSUME NEW size \in Nat, size > 0, size + VaAlign <= AddrMod
  PROVE  AlignSize(size) > 0
<1>1. VaAlign \in Nat \ {0} /\ AddrMod \in Nat
  BY VaMgrAssumption, SMT
<1>2. WAdd(size, VaAlign - 1) = size + (VaAlign - 1) /\ size + (VaAlign - 1) \in Nat
  BY <1>1, SumFits
<1>3. VaAlign % VaAlign = 0
  BY <1>1, RemainderOf, SMT
<1>4. VaAlign <= RoundDown(size + (VaAlign - 1), VaAlign)
  BY <1>1, <1>2, <1>3, RoundDownGreatest
<1> QED
  BY <1>1, <1>2, <1>4, RoundDownFacts DEF AlignSize

(* RoundUp without a wrap: the least multiple that is not below x. *)
LEMMA RoundUpFacts ==
  ASSUME NEW x \in Nat, NEW a \in Nat \ {0}, x + a <= AddrMod
  PROVE  /\ RoundUp(x, a) \in Nat /\ RoundUp(x, a) % a = 0 /\ x <= RoundUp(x, a)
         /\ \A b \in Nat : b % a = 0 /\ x <= b => RoundUp(x, a) <= b
<1>1. PICK q \in Int, s \in 0 .. a - 1 : x = (a * q) + s /\ x % a = s
  BY DivMod
<1>2. AddrMod \in Nat
  BY VaMgrAssumption
<1>3. CASE s = 0
  <2>1. RoundUp(x, a) = x
    BY <1>1, <1>3 DEF RoundUp
  <2> QED
    BY <1>1, <1>3, <2>1
<1>4. CASE s # 0
  <2>1. WAdd(x, a - s) = x + (a - s) /\ x + (a - s) \in Nat
    BY <1>2, <1>4, SumFits
  <2>2. RoundUp(x, a) = x + (a - s)
    BY <1>1, <1>4, <2>1 DEF RoundUp
  <2>3. x + (a - s) = a * (q + 1)
    BY <1>1
  <2>4. (x + (a - s)) % a = 0
    <3>1. q + 1 \in Int /\ 0 \in 0 .. a - 1 /\ x + (a - s) = (a * (q + 1)) + 0
      BY <2>1, <2>3
    <3> QED
      BY <2>1, <3>1, RemainderOf
  <2>5. \A b \in Nat : b % a = 0 /\ x <= b => x + (a - s) <= b
    BY <1>1, <1>4, RoundUpLeast
  <2> QED
    BY <2>1, <2>2, <2>4, <2>5
<1> QED
  BY <1>3, <1>4

(* A request the search can compute with: no sum of it wraps in a hole     *)
(* that ends at hi or before.                                              *)
Fits(h, q, hi) ==
    /\ q.size \in Nat \ {0} /\ q.base \in Nat /\ q.align \in Nat \ {0}
    /\ q.base + q.size < AddrMod
    /\ hi \in Nat /\ hi + q.align <= AddrMod
    /\ h.offset + h.size <= hi

(* A hole with room for an aligned range takes the request, and hands out  *)
(* the best place in it.                                                   *)
LEMMA RoomIsTaken ==
  ASSUME NEW h \in Hole, NEW q, NEW hi, Fits(h, q, hi),
         NEW b \in Nat, b % q.align = 0, q.base # 0 => b = q.base, Covers(h, b, q.size)
  PROVE  /\ Takes(h, q)
         /\ q.base = 0 => IF q.top THEN b <= Place(h, q) ELSE Place(h, q) <= b
<1>1. PICK o \in Nat, z \in Nat, n \in Nat \ {0}, a \in Nat \ {0} :
         o = h.offset /\ z = h.size /\ n = q.size /\ a = q.align
  BY HoleFields DEF Fits
<1>2. /\ AddrMod \in Nat
      /\ o + z + a <= AddrMod
      /\ o <= b /\ b + n <= o + z
  <2>1. PICK e \in Nat : e = hi /\ e + a <= AddrMod /\ o + z <= e
    BY <1>1 DEF Fits
  <2>2. AddrMod \in Nat
    BY VaMgrAssumption
  <2>3. o <= b /\ b + n <= o + z
    BY <1>1 DEF Covers
  <2> QED
    BY <2>1, <2>2, <2>3
<1>3. HoleEnd(h) = o + z
  BY <1>1, <1>2 DEF HoleEnd, WAdd
<1>4. CASE q.base # 0
  <2>1. WAdd(q.base, q.size) = b + n
    BY <1>1, <1>2, <1>4, SumFits
  <2> QED
    BY <1>1, <1>2, <1>3, <1>4, <2>1 DEF Takes
<1>5. CASE q.base = 0 /\ ~q.top
  <2>1. Place(h, q) = RoundUp(o, a)
    BY <1>1, <1>5 DEF Place
  <2>2. o + a <= AddrMod
    BY <1>2
  <2>3. PICK p \in Nat : p = RoundUp(o, a) /\ p <= b
    BY <1>1, <1>2, <2>2, RoundUpFacts
  <2>4. p < o + z /\ n <= WSub(o + z, p)
    BY <1>2, <2>3 DEF WSub
  <2> QED
    BY <1>1, <1>3, <1>5, <2>1, <2>3, <2>4 DEF Takes
<1>6. CASE q.base = 0 /\ q.top
  <2>1. WSub(o + z, n) = o + z - n /\ o + z - n \in Nat /\ b <= o + z - n /\ n <= z
    BY <1>2 DEF WSub
  <2>2. Place(h, q) = RoundDown(o + z - n, a)
    BY <1>1, <1>3, <1>6, <2>1 DEF Place
  <2>3. PICK p \in Nat : p = RoundDown(o + z - n, a) /\ b <= p
    <3>1. b % a = 0
      BY <1>1
    <3>2. RoundDown(o + z - n, a) \in 0 .. o + z - n
      BY <2>1, RoundDownFacts
    <3>3. b <= RoundDown(o + z - n, a)
      BY <2>1, <3>1, RoundDownGreatest
    <3> QED
      BY <3>2, <3>3
  <2>4. n <= z /\ p >= o
    BY <1>2, <2>1, <2>3
  <2> QED
    BY <1>1, <1>6, <2>2, <2>3, <2>4 DEF Takes
<1> QED
  BY <1>4, <1>5, <1>6

(* The place a hole offers is aligned. *)
LEMMA PlaceAligned ==
  ASSUME NEW h \in Hole, NEW q, NEW hi, Fits(h, q, hi), Takes(h, q), ~Misaligned(q)
  PROVE  /\ Place(h, q) % q.align = 0
         /\ q.base # 0 => Place(h, q) = q.base
<1>1. PICK o \in Nat, z \in Nat, n \in Nat \ {0}, a \in Nat \ {0} :
         o = h.offset /\ z = h.size /\ n = q.size /\ a = q.align
  BY HoleFields DEF Fits
<1>2. o + z + a <= AddrMod /\ AddrMod \in Nat
  <2>1. PICK e \in Nat : e = hi /\ e + a <= AddrMod /\ o + z <= e
    BY <1>1 DEF Fits
  <2>2. AddrMod \in Nat
    BY VaMgrAssumption
  <2> QED
    BY <2>1, <2>2
<1>3. CASE q.base # 0
  BY <1>3 DEF Place, Misaligned
<1>4. CASE q.base = 0 /\ ~q.top
  <2>1. o + a <= AddrMod
    BY <1>2
  <2> QED
    BY <1>1, <1>4, <2>1, RoundUpFacts DEF Place
<1>5. CASE q.base = 0 /\ q.top
  <2>1. HoleEnd(h) = o + z
    <3>1. o + z < AddrMod
      BY <1>2
    <3> QED
      BY <1>1, <3>1, SumFits DEF HoleEnd
  <2>2. n <= z
    BY <1>1, <1>5 DEF Takes
  <2>3. WSub(o + z, n) \in Nat
    BY <2>2 DEF WSub
  <2> QED
    BY <1>1, <1>5, <2>1, <2>3, RoundDownFacts DEF Place
<1> QED
  BY <1>3, <1>4, <1>5

(* In a list where holes never touch, free addresses in a row are free in  *)
(* one hole.                                                               *)
LEMMA RunInHole ==
  ASSUME NEW hs \in Seq(Hole), ListSorted(hs), NEW b \in Nat, NEW n \in Nat \ {0},
         \A x \in b .. b + n - 1 : InHoles(hs, x)
  PROVE  \E j \in DOMAIN hs : Covers(hs[j], b, n)
<1>1. b \in b .. b + n - 1
  BY SMT
<1>2. PICK j \in DOMAIN hs : Has(hs[j], b)
  BY <1>1 DEF InHoles
<1>3. PICK o \in Nat, z \in Nat : o = hs[j].offset /\ z = hs[j].size /\ o <= b /\ b < o + z
  BY <1>2, EntryEnds DEF Has
<1>4. b + n <= o + z
  <2> SUFFICES ASSUME o + z < b + n PROVE FALSE
    BY <1>3
  <2>1. o + z \in b .. b + n - 1
    BY <1>3
  <2>2. PICK i \in DOMAIN hs : Has(hs[i], o + z)
    BY <2>1 DEF InHoles
  <2>3. PICK p \in Nat, y \in Nat :
           p = hs[i].offset /\ y = hs[i].size /\ p <= o + z /\ o + z < p + y
    BY <2>2, EntryEnds DEF Has
  <2>4. i # j
    BY <1>3, <2>3
  <2>5. i < j \/ j < i
    BY <2>4, EntryEnds
  <2>6. o + z < p \/ p + y < o
    BY <1>3, <2>3, <2>5 DEF ListSorted
  <2>7. p <= o + z /\ o + z < p + y /\ o <= o + z
    BY <2>3
  <2> QED
    BY <2>6, <2>7, SMT
<1> QED
  BY <1>3, <1>4 DEF Covers

-----------------------------------------------------------------------------
(* The types, whatever wraps. *)

LEMMA WordFacts ==
  ASSUME NEW a \in Addr, NEW b \in Addr
  PROVE  WAdd(a, b) \in Addr /\ WSub(a, b) \in Addr
  BY VaMgrAssumption, SMT DEF Addr, WAdd, WSub

LEMMA RoundDownType ==
  ASSUME NEW x \in Addr, NEW a \in Nat \ {0}
  PROVE  RoundDown(x, a) \in Addr
<1>1. x \in Nat /\ x <= AddrMod - 1 /\ AddrMod \in Nat
  BY VaMgrAssumption, SMT DEF Addr
<1>2. RoundDown(x, a) \in 0 .. x
  BY <1>1, RoundDownFacts
<1> QED
  BY <1>1, <1>2, SMT DEF Addr

LEMMA AlignSizeType ==
  ASSUME NEW size \in Addr
  PROVE  AlignSize(size) \in Addr
<1>1. VaAlign - 1 \in Addr /\ VaAlign \in Nat \ {0}
  BY VaMgrAssumption, SMT DEF Addr
<1> QED
  BY <1>1, WordFacts, RoundDownType DEF AlignSize

LEMMA PlaceType ==
  ASSUME NEW h \in Hole, NEW r,
         r.size \in Addr, r.base \in Addr, r.align \in Addr \ {0}
  PROVE  Place(h, r) \in Addr
<1>1. h.offset \in Addr /\ h.size \in Addr
  BY DEF Hole
<1>2. \A x \in Addr : x \in Nat
  BY SMT DEF Addr
<1>3. RoundUp(h.offset, r.align) \in Addr
  <2>1. h.offset % r.align \in 0 .. r.align - 1
    BY <1>1, <1>2, DivMod
  <2>2. PICK w : w = h.offset % r.align /\ w \in 0 .. r.align - 1
    BY <2>1
  <2>3. w # 0 => r.align - w \in Addr
    <3>1. PICK a \in Nat : a = r.align /\ a <= AddrMod - 1
      BY VaMgrAssumption, SMT DEF Addr
    <3>2. w # 0 => a - w \in Addr
      BY <2>2, <3>1, VaMgrAssumption, SMT DEF Addr
    <3> QED
      BY <3>1, <3>2
  <2> QED
    BY <1>1, <2>2, <2>3, WordFacts DEF RoundUp
<1>4. RoundDown(WSub(HoleEnd(h), r.size), r.align) \in Addr
  BY <1>1, <1>2, WordFacts, RoundDownType DEF HoleEnd
<1> QED
  BY <1>3, <1>4 DEF Place

LEMMA SubtractHoleType ==
  ASSUME NEW hs \in Seq(Hole), NEW i \in DOMAIN hs, NEW s \in Addr, NEW e \in Addr
  PROVE  SubtractHole(hs, i, s, e) \in Seq(Hole)
<1>1. hs[i] \in Hole /\ i \in 1 .. Len(hs)
  BY EntryType
<1>2. PICK h \in Hole : h = hs[i]
  BY <1>1
<1>3. h.offset \in Addr /\ h.size \in Addr
  BY DEF Hole
<1>4. CutsBelow(h, s) => LowerPart(h, s) \in Hole
  <2>1. CutsBelow(h, s) => s - h.offset \in Addr
    BY <1>3, VaMgrAssumption, SMT DEF CutsBelow, Addr
  <2> QED
    BY <1>3, <2>1 DEF LowerPart, Hole
<1>5. CutsAbove(h, e) => UpperPart(h, e) \in Hole
  <2>1. WSub(e, h.offset) \in Addr
    BY <1>3, WordFacts
  <2>2. PICK w \in Addr : w = WSub(e, h.offset)
    BY <2>1
  <2>3. CutsAbove(h, e) => h.size - w \in Addr
    BY <1>3, <2>2, VaMgrAssumption, SMT DEF CutsAbove, Addr
  <2> QED
    BY <2>2, <2>3 DEF UpperPart, Hole
<1>6. CASE Splits(h, s, e)
  <2>1. EntrySplit(hs, i, UpperPart(h, e), LowerPart(h, s), SubtractHole(hs, i, s, e))
    BY <1>1, <1>2, <1>4, <1>5, <1>6, SplitEntryFacts DEF Splits, SubtractHole
  <2> QED
    BY <2>1 DEF EntrySplit
<1>7. CASE CutsBelow(h, s) /\ ~CutsAbove(h, e)
  <2>1. EntryReplaced(Hole, hs, i, LowerPart(h, s), SubtractHole(hs, i, s, e))
    BY <1>1, <1>2, <1>4, <1>7, ReplaceAtFacts DEF Splits, SubtractHole
  <2> QED
    BY <2>1 DEF EntryReplaced
<1>8. CASE ~CutsBelow(h, s) /\ CutsAbove(h, e)
  <2>1. EntryReplaced(Hole, hs, i, UpperPart(h, e), SubtractHole(hs, i, s, e))
    BY <1>1, <1>2, <1>5, <1>8, ReplaceAtFacts DEF Splits, SubtractHole
  <2> QED
    BY <2>1 DEF EntryReplaced
<1>9. CASE ~CutsBelow(h, s) /\ ~CutsAbove(h, e)
  <2>1. EntryRemoved(Hole, hs, i, SubtractHole(hs, i, s, e))
    BY <1>1, <1>2, <1>9, RemoveAtFacts DEF Splits, SubtractHole
  <2> QED
    BY <2>1 DEF EntryRemoved
<1> QED
  BY <1>6, <1>7, <1>8, <1>9 DEF Splits

LEMMA FreeVaType ==
  ASSUME NEW hs \in Seq(Hole), NEW k \in 0 .. Len(hs), NEW va \in Addr, NEW size \in Addr
  PROVE  FreeVa(hs, k, va, size) \in Seq(Hole)
<1>1. Len(hs) \in Nat /\ \A j \in 1 .. Len(hs) : hs[j] \in Hole
  BY EntryType
<1>2. k > 0 => k \in 1 .. Len(hs)
  BY <1>1, SMT
<1>3. k < Len(hs) => k + 1 \in 1 .. Len(hs)
  BY <1>1, SMT
<1>4. k + 1 \in 1 .. Len(hs) + 1
  BY <1>1, SMT
<1>5. ASSUME NEW h \in Hole, NEW n \in Addr
      PROVE  GrowLower(h, n) \in Hole /\ GrowUpper(h, va, n) \in Hole
  BY <1>5, WordFacts DEF GrowLower, GrowUpper, Hole
<1>6. CASE UpperAdjacent(hs, k, va, size) /\ LowerAdjacent(hs, k, va)
  <2>1. PICK up \in Hole : up = GrowUpper(hs[k], va, size)
    BY <1>1, <1>2, <1>5, <1>6 DEF UpperAdjacent
  <2>2. PICK low \in Hole : low = GrowLower(hs[k + 1], up.size)
    <3>1. up.size \in Addr
      BY DEF Hole
    <3> QED
      BY <1>1, <1>3, <1>5, <1>6, <3>1 DEF LowerAdjacent
  <2>3. PICK ms : ms = ReplaceAt(hs, k + 1, low) /\ EntryReplaced(Hole, hs, k + 1, low, ms)
    BY <1>3, <1>6, ReplaceAtFacts DEF LowerAdjacent
  <2>4. EntryRemoved(Hole, ms, k, RemoveAt(ms, k))
    BY <1>2, <1>6, <2>3, RemoveAtFacts DEF EntryReplaced, UpperAdjacent
  <2>5. FreeVa(hs, k, va, size) = RemoveAt(ms, k)
    BY <1>6, <2>1, <2>2, <2>3 DEF FreeVa
  <2> QED
    BY <2>4, <2>5 DEF EntryRemoved
<1>7. CASE UpperAdjacent(hs, k, va, size) /\ ~LowerAdjacent(hs, k, va)
  <2>1. EntryReplaced(Hole, hs, k, GrowUpper(hs[k], va, size), FreeVa(hs, k, va, size))
    BY <1>1, <1>2, <1>5, <1>7, ReplaceAtFacts DEF FreeVa, UpperAdjacent
  <2> QED
    BY <2>1 DEF EntryReplaced
<1>8. CASE ~UpperAdjacent(hs, k, va, size) /\ LowerAdjacent(hs, k, va)
  <2>1. EntryReplaced(Hole, hs, k + 1, GrowLower(hs[k + 1], size), FreeVa(hs, k, va, size))
    BY <1>1, <1>3, <1>5, <1>8, ReplaceAtFacts DEF FreeVa, LowerAdjacent
  <2> QED
    BY <2>1 DEF EntryReplaced
<1>9. CASE ~UpperAdjacent(hs, k, va, size) /\ ~LowerAdjacent(hs, k, va)
  <2>1. [offset |-> va, size |-> size] \in Hole
    BY DEF Hole
  <2>2. EntryInserted(Hole, hs, k + 1, [offset |-> va, size |-> size], FreeVa(hs, k, va, size))
    BY <1>4, <1>9, <2>1, InsertAtFacts DEF FreeVa
  <2> QED
    BY <2>2 DEF EntryInserted
<1> QED
  BY <1>6, <1>7, <1>8, <1>9
=============================================================================
