------------------------------ MODULE Counting ------------------------------
(***************************************************************************)
(* How many points a function has with a given value, and how that number  *)
(* changes with one point: what the proofs about reference counts rest on. *)
(* The code counts with atomic_inc and atomic_dec; the models say what the *)
(* result has to be equal to.  And sets of numbers: their least and their  *)
(* greatest members, and induction.                                        *)
(***************************************************************************)
EXTENDS Integers, FiniteSetTheorems, NaturalsInduction, TLAPS

Count(S, f, c) == Cardinality({x \in S : f[x] = c})

(* A count is a number no larger than the domain, and 0 only of no point.  *)
LEMMA CountType ==
  ASSUME NEW S, IsFiniteSet(S), NEW f, NEW c
  PROVE  /\ Count(S, f, c) \in 0 .. Cardinality(S)
         /\ Count(S, f, c) = 0 <=> \A x \in S : f[x] # c
<1>1. {x \in S : f[x] = c} \in SUBSET S
  OBVIOUS
<1>2. IsFiniteSet({x \in S : f[x] = c}) /\ Count(S, f, c) <= Cardinality(S)
  BY <1>1, FS_Subset DEF Count
<1>3. Count(S, f, c) \in Nat /\ Cardinality(S) \in Nat
  BY <1>2, FS_CardinalityType DEF Count
<1>4. Count(S, f, c) = 0 <=> {x \in S : f[x] = c} = {}
  BY <1>2, FS_EmptySet DEF Count
<1>5. {x \in S : f[x] = c} = {} <=> \A x \in S : f[x] # c
  OBVIOUS
<1> QED
  BY <1>2, <1>3, <1>4, <1>5

(* Changing one point moves one from the count of its old value to that of *)
(* its new one.                                                            *)
LEMMA CountChange ==
  ASSUME NEW S, IsFiniteSet(S), NEW f, NEW g, NEW y \in S,
         g[y] # f[y], \A x \in S \ {y} : g[x] = f[x]
  PROVE  /\ Count(S, g, g[y]) = Count(S, f, g[y]) + 1
         /\ Count(S, g, f[y]) = Count(S, f, f[y]) - 1
         /\ \A b : b # g[y] /\ b # f[y] => Count(S, g, b) = Count(S, f, b)
<1>1. \A b : IsFiniteSet({x \in S : f[x] = b})
  <2>1. \A b : {x \in S : f[x] = b} \in SUBSET S
    OBVIOUS
  <2> QED
    BY <2>1, FS_Subset
<1>2. Count(S, g, g[y]) = Count(S, f, g[y]) + 1
  <2> DEFINE old == {x \in S : f[x] = g[y]}
             new == {x \in S : g[x] = g[y]}
  <2>1. new = old \cup {y} /\ y \notin old /\ IsFiniteSet(old)
    BY <1>1
  <2> HIDE DEF old, new
  <2>2. Cardinality(new) = Cardinality(old) + 1
    BY <2>1, FS_AddElement
  <2> QED
    BY <2>2 DEF Count, old, new
<1>3. Count(S, g, f[y]) = Count(S, f, f[y]) - 1
  <2> DEFINE old == {x \in S : f[x] = f[y]}
             new == {x \in S : g[x] = f[y]}
  <2>1. new = old \ {y} /\ y \in old /\ IsFiniteSet(old)
    BY <1>1
  <2> HIDE DEF old, new
  <2>2. Cardinality(new) = Cardinality(old) - 1
    BY <2>1, FS_RemoveElement
  <2> QED
    BY <2>2 DEF Count, old, new
<1>4. ASSUME NEW b, b # g[y], b # f[y]
      PROVE  Count(S, g, b) = Count(S, f, b)
  <2>1. {x \in S : g[x] = b} = {x \in S : f[x] = b}
    BY <1>4
  <2> QED
    BY <2>1 DEF Count
<1> QED
  BY <1>2, <1>3, <1>4

(* A count of 1 is the count of one point. *)
LEMMA CountOne ==
  ASSUME NEW S, IsFiniteSet(S), NEW f, NEW c, Count(S, f, c) = 1,
         NEW x \in S, NEW y \in S, f[x] = c, f[y] = c
  PROVE  x = y
<1> DEFINE points == {z \in S : f[z] = c}
<1>1. IsFiniteSet(points)
  <2>1. points \in SUBSET S
    OBVIOUS
  <2> QED
    BY <2>1, FS_Subset
<1>2. x \in points /\ y \in points
  OBVIOUS
<1>3. Cardinality(points) = 1
  BY DEF Count
<1> HIDE DEF points
<1>4. PICK z : points = {z}
  BY <1>1, <1>3, FS_Singleton
<1> QED
  BY <1>2, <1>4

-----------------------------------------------------------------------------
(* A set of numbers has a least one. *)
LEMMA LeastNumber ==
  ASSUME NEW P, P \subseteq Nat, P # {}
  PROVE  \E m \in P : \A k \in P : m <= k
<1>1. IsWellFoundedOn(OpToRel(<, Nat), Nat)
  BY NatLessThanWellFounded
<1>2. PICK m \in P : \A k \in P : <<k, m>> \notin OpToRel(<, Nat)
  BY <1>1, WFMin
<1>3. ASSUME NEW k \in P PROVE ~(k < m)
  <2>1. k \in Nat /\ m \in Nat /\ <<k, m>> \notin OpToRel(<, Nat)
    BY <1>2
  <2>2. OpToRel(<, Nat) = {x \in Nat \X Nat : x[1] < x[2]}
    BY DEF OpToRel
  <2> QED
    BY <2>1, <2>2
<1>4. ASSUME NEW k \in P PROVE m <= k
  <2>1. k \in Nat /\ m \in Nat
    OBVIOUS
  <2> QED
    BY <1>3, <2>1
<1> QED
  BY <1>4

(* A set of numbers with 0, and with the successor of each, has them all. *)
LEMMA NumbersAll ==
  ASSUME NEW S, 0 \in S, \A n \in Nat : n \in S => n + 1 \in S
  PROVE  Nat \subseteq S
<1> SUFFICES ASSUME Nat \ S # {} PROVE FALSE
  OBVIOUS
<1>1. PICK m \in Nat \ S : \A k \in Nat \ S : m <= k
  <2>1. Nat \ S \subseteq Nat
    OBVIOUS
  <2> QED
    BY <2>1, LeastNumber
<1>2. m # 0 /\ m - 1 \in Nat
  BY <1>1
<1>3. m - 1 \in S
  BY <1>1, <1>2
<1> QED
  BY <1>1, <1>2, <1>3

(* The values of a finite sequence of numbers are bounded, and so is a      *)
(* finite set of numbers.                                                  *)
LEMMA FiniteBounded ==
  ASSUME NEW S, S \subseteq Nat, IsFiniteSet(S)
  PROVE  \E b \in Nat : \A x \in S : x <= b
<1>1. PICK n \in Nat : ExistsSurjection(1 .. n, S)
  BY FS_NatSurjection
<1>2. PICK f \in [1 .. n -> S] : \A x \in S : \E i \in 1 .. n : f[i] = x
  BY <1>1 DEF ExistsSurjection, Surjection
<1> DEFINE K == {k \in Nat : k <= n => \E b \in Nat : \A i \in 1 .. k : f[i] <= b}
<1>3. 0 \in K
  <2>1. \A i \in 1 .. 0 : f[i] <= 0
    OBVIOUS
  <2> QED
    BY <2>1
<1>4. ASSUME NEW k \in Nat, k \in K
      PROVE  k + 1 \in K
  <2> SUFFICES ASSUME k + 1 <= n PROVE \E b \in Nat : \A i \in 1 .. k + 1 : f[i] <= b
    OBVIOUS
  <2>1. PICK b \in Nat : \A i \in 1 .. k : f[i] <= b
    BY <1>4
  <2>2. k + 1 \in 1 .. n /\ f[k + 1] \in Nat
    <3>1. k + 1 \in 1 .. n
      OBVIOUS
    <3> QED
      BY <3>1
  <2> DEFINE d == b + f[k + 1]
  <2>3. ASSUME NEW i \in 1 .. k + 1 PROVE f[i] <= d
    <3>1. i \in 1 .. n /\ f[i] \in Nat
      <4>1. i \in 1 .. n
        OBVIOUS
      <4> QED
        BY <4>1
    <3>2. i = k + 1 \/ i \in 1 .. k
      OBVIOUS
    <3> QED
      BY <2>1, <2>2, <3>1, <3>2
  <2>4. d \in Nat
    BY <2>2
  <2> HIDE DEF d
  <2> QED
    BY <2>3, <2>4
<1>5. n \in K
  <2> HIDE DEF K
  <2> QED
    BY <1>3, <1>4, NumbersAll
<1>6. PICK b \in Nat : \A i \in 1 .. n : f[i] <= b
  BY <1>5
<1> QED
  BY <1>2, <1>6

(* A bounded set of numbers has a greatest one. *)
LEMMA GreatestNumber ==
  ASSUME NEW S, S \subseteq Nat, S # {}, NEW b \in Nat, \A x \in S : x <= b
  PROVE  \E m \in S : \A x \in S : m >= x
<1> DEFINE P == {b - x : x \in S}
<1>1. P \subseteq Nat /\ P # {}
  <2>1. ASSUME NEW x \in S PROVE b - x \in Nat
    <3>1. x \in Nat /\ x <= b
      OBVIOUS
    <3> QED
      BY <3>1
  <2> QED
    BY <2>1
<1>2. \E m \in P : \A k \in P : m <= k
  <2> HIDE DEF P
  <2> QED
    BY <1>1, LeastNumber
<1>3. PICK m \in S : \A x \in S : b - m <= b - x
  BY <1>2
<1>4. ASSUME NEW x \in S PROVE m >= x
  <2>1. x \in Nat /\ m \in Nat /\ b - m <= b - x
    BY <1>3
  <2> QED
    BY <2>1
<1> QED
  BY <1>4
=============================================================================
