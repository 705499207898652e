------------------------ MODULE DeviceRegistryProofs ------------------------
(***************************************************************************)
(* Theorems about DeviceRegistry: while clients keep initialization and    *)
(* deinitialization apart (Overlap = FALSE), the list of devices, their    *)
(* reference counts and the references to accelerants stay in step, for    *)
(* any number of threads, handles, accelerants and devices.                *)
(*                                                                         *)
(* HandlesAlive, RefsCounted and AccelerantsBalanced are not inductive.    *)
(* They need that the holder of dev_mutex is the thread that initializes   *)
(* (LockHeld), that the device an initialization found or made stays what  *)
(* it was until the call returns (InitializersSound), and that a device    *)
(* whose last reference is gone has one thread that frees it               *)
(* (DeinitializersSound, NobodyForgotten).                                 *)
(***************************************************************************)
EXTENDS DeviceRegistry, Counting, TLAPS

Listed == ToSet(dev_list)

(* An initialization holds the lock from the search to the return. *)
LockHeld ==
    \A t \in Threads : Initializing(t) <=> dev_mutex = t

(* What Overlap = FALSE says of a client, said of a state. *)
PhasesApart ==
    \A t, u \in Threads : ~(Initializing(t) /\ Deinitializing(u))

(* A device is listed once, and no accelerant has two. *)
ListSound ==
    /\ \A i, j \in DOMAIN dev_list : acc_base[dev_list[i]] = acc_base[dev_list[j]] => i = j
    /\ \A i \in DOMAIN dev_list : acc_base[dev_list[i]] # NoAcc

HandlesListed ==
    \A v \in Vars : ref[v] # NoDev => ref[v] \in Listed

(* A thread that initializes fills a variable of its own, with a device of *)
(* the list or with one that nobody else knows.                            *)
InitializersSound ==
    \A t \in Threads :
       /\ Initializing(t) =>
             call[t].var \in Vars /\ call[t].var[1] = t /\ ref[call[t].var] = NoDev
       /\ pc[t] \in {"init_assert", "init_add"} => call[t].dev \in Listed
       /\ pc[t] = "init_probe" =>
             /\ call[t].dev \in Devs \ Listed
             /\ acc_base[call[t].dev] # NoAcc
             /\ refcount[call[t].dev] = 1
             /\ \A i \in DOMAIN dev_list : acc_base[dev_list[i]] # acc_base[call[t].dev]

(* A thread that frees a device is the only one, and nobody refers to it.  *)
DeinitializersSound ==
    /\ \A t \in Threads :
          /\ pc[t] = "free_unlink" => call[t].dev \in Listed /\ refcount[call[t].dev] = 0
          /\ pc[t] = "free_release" =>
                call[t].dev \in Devs \ Listed /\ acc_base[call[t].dev] # NoAcc
    /\ \A t, u \in Threads :
          Deinitializing(t) /\ Deinitializing(u) /\ call[t].dev = call[u].dev => t = u

(* A device that is not free is listed with references, or is in the hands *)
(* of a thread that will list or free it.                                  *)
NobodyForgotten ==
    \A d \in Devs : acc_base[d] # NoAcc =>
       \/ d \in Listed /\ refcount[d] > 0
       \/ \E t \in Threads :
             pc[t] \in {"init_probe", "free_unlink", "free_release"} /\ call[t].dev = d

(* The assertion of update_references never fails. *)
AssertionHolds ==
    \A t \in Threads : pc[t] # "aborted"

RegistryInvariant ==
    /\ TypeOK
    /\ LockHeld
    /\ PhasesApart
    /\ ListSound
    /\ HandlesListed
    /\ InitializersSound
    /\ DeinitializersSound
    /\ NobodyForgotten
    /\ RefsCounted
    /\ AccelerantsBalanced
    /\ AssertionHolds

-----------------------------------------------------------------------------
(* The counters. *)

(* The bounds of the counters are numbers. *)
LEMMA VarsFinite ==
  /\ IsFiniteSet(Vars) /\ IsFiniteSet(Devs)
  /\ Cardinality(Vars) \in Nat
  /\ Cardinality(Devs) \in Nat
  BY DeviceRegistryAssumption, FS_Product, FS_CardinalityType DEF Vars

(* One handle variable is given another value. *)
LEMMA RefChange ==
  ASSUME NEW v \in Vars, ref'[v] # ref[v], \A x \in Vars \ {v} : ref'[x] = ref[x]
  PROVE  /\ Count(Vars, ref', ref'[v]) = Count(Vars, ref, ref'[v]) + 1
         /\ Count(Vars, ref', ref[v]) = Count(Vars, ref, ref[v]) - 1
         /\ \A b : b # ref'[v] /\ b # ref[v] => Count(Vars, ref', b) = Count(Vars, ref, b)
<1>1. IsFiniteSet(Vars)
  BY VarsFinite
<1> QED
  BY <1>1, CountChange, SMTT(30)

(* One device is given another accelerant. *)
LEMMA AccChange ==
  ASSUME NEW d \in Devs, acc_base'[d] # acc_base[d],
         \A e \in Devs \ {d} : acc_base'[e] = acc_base[e]
  PROVE  /\ Count(Devs, acc_base', acc_base'[d]) = Count(Devs, acc_base, acc_base'[d]) + 1
         /\ Count(Devs, acc_base', acc_base[d]) = Count(Devs, acc_base, acc_base[d]) - 1
         /\ \A c : c # acc_base'[d] /\ c # acc_base[d] =>
               Count(Devs, acc_base', c) = Count(Devs, acc_base, c)
<1>1. IsFiniteSet(Devs)
  BY VarsFinite
<1> QED
  BY <1>1, CountChange, SMTT(30)

-----------------------------------------------------------------------------
(* The list operations. *)

(* A new head pushes the others back. *)
LEMMA LinkedList ==
  ASSUME dev_list \in Seq(Devs), NEW d \in Devs
  PROVE  /\ Linked(d) \in Seq(Devs)
         /\ Len(Linked(d)) = Len(dev_list) + 1
         /\ Linked(d)[1] = d
         /\ \A i \in 2 .. Len(dev_list) + 1 : Linked(d)[i] = dev_list[i - 1]
         /\ ToSet(Linked(d)) = Listed \cup {d}
<1>1. /\ Linked(d) \in Seq(Devs)
      /\ Len(Linked(d)) = Len(dev_list) + 1
      /\ Linked(d)[1] = d
      /\ \A i \in 2 .. Len(dev_list) + 1 : Linked(d)[i] = dev_list[i - 1]
  BY DEF Linked
<1>2. ASSUME NEW e \in ToSet(Linked(d)) PROVE e \in Listed \cup {d}
  BY <1>1, <1>2 DEF ToSet, Listed
<1>3. ASSUME NEW e \in Listed PROVE e \in ToSet(Linked(d))
  <2>1. PICK i \in 1 .. Len(dev_list) : e = dev_list[i]
    BY <1>3 DEF ToSet, Listed
  <2>2. i + 1 \in DOMAIN Linked(d) /\ Linked(d)[i + 1] = e
    BY <2>1, <1>1
  <2> QED
    BY <2>2 DEF ToSet
<1>4. d \in ToSet(Linked(d))
  BY <1>1 DEF ToSet
<1> QED
  BY <1>1, <1>2, <1>3, <1>4

(* The walk finds a listed device and closes the gap. *)
LEMMA UnlinkedList ==
  ASSUME dev_list \in Seq(Devs), NEW d \in Listed,
         \A i, j \in DOMAIN dev_list : dev_list[i] = dev_list[j] => i = j
  PROVE  /\ Unlinked(d) \in Seq(Devs)
         /\ \E n \in 1 .. Len(dev_list) :
               /\ dev_list[n] = d
               /\ Len(Unlinked(d)) = Len(dev_list) - 1
               /\ \A i \in 1 .. Len(dev_list) - 1 :
                     Unlinked(d)[i] = dev_list[IF i < n THEN i ELSE i + 1]
         /\ ToSet(Unlinked(d)) = Listed \ {d}
<1> DEFINE n == StopsAt(d)
<1>1. n \in 1 .. Len(dev_list) /\ dev_list[n] = d
  <2>1. PICK i \in 1 .. Len(dev_list) : dev_list[i] = d
    BY DEF ToSet, Listed
  <2>2. \A j \in 1 .. i - 1 : dev_list[j] # d
    BY <2>1
  <2>3. \E k \in DOMAIN dev_list : dev_list[k] = d /\ \A j \in 1 .. k - 1 : dev_list[j] # d
    BY <2>1, <2>2
  <2>4. n = CHOOSE k \in DOMAIN dev_list : dev_list[k] = d /\ \A j \in 1 .. k - 1 : dev_list[j] # d
    BY DEF StopsAt, Listed
  <2> HIDE DEF n
  <2> QED
    BY <2>3, <2>4
<1> HIDE DEF n
<1> DEFINE left == SubSeq(dev_list, 1, n - 1)
           right == SubSeq(dev_list, n + 1, Len(dev_list))
<1>2. Unlinked(d) = left \o right
  BY DEF Unlinked, RemoveAt, n
<1>3. /\ left \in Seq(Devs)
      /\ Len(left) = n - 1
      /\ \A i \in 1 .. n - 1 : left[i] = dev_list[i]
  BY <1>1
<1>4. /\ right \in Seq(Devs)
      /\ Len(right) = Len(dev_list) - n
      /\ \A i \in 1 .. Len(dev_list) - n : right[i] = dev_list[n + i]
  BY <1>1
<1> HIDE DEF left, right
<1>5. Unlinked(d) \in Seq(Devs) /\ Len(Unlinked(d)) = Len(dev_list) - 1
  <2>1. left \in Seq(Devs) /\ right \in Seq(Devs)
    BY <1>3, <1>4
  <2>2. Unlinked(d) \in Seq(Devs) /\ Len(Unlinked(d)) = Len(left) + Len(right)
    BY <1>2, <2>1
  <2>3. Len(left) + Len(right) = Len(dev_list) - 1
    BY <1>1, <1>3, <1>4
  <2> QED
    BY <2>2, <2>3
<1>6. ASSUME NEW i \in 1 .. Len(dev_list) - 1
      PROVE  Unlinked(d)[i] = dev_list[IF i < n THEN i ELSE i + 1]
  <2>1. CASE i < n
    <3>1. i \in 1 .. Len(left)
      BY <2>1, <1>1, <1>3
    <3>2. Unlinked(d)[i] = left[i]
      BY <3>1, <1>2, <1>3, <1>4
    <3> QED
      BY <2>1, <3>1, <3>2, <1>3
  <2>2. CASE i >= n
    <3> DEFINE k == i - (n - 1)
    <3>1. k \in 1 .. Len(dev_list) - n /\ i = Len(left) + k /\ n + k = i + 1 /\ ~(i < n)
      BY <2>2, <1>1, <1>3
    <3> HIDE DEF k
    <3>2. (left \o right)[Len(left) + k] = right[k]
      BY <3>1, <1>1, <1>3, <1>4
    <3> QED
      BY <3>1, <3>2, <1>2, <1>4
  <2> QED
    BY <2>1, <2>2, <1>1
<1>7. ASSUME NEW e \in ToSet(Unlinked(d)) PROVE e \in Listed \ {d}
  <2>1. PICK i \in 1 .. Len(dev_list) - 1 : e = Unlinked(d)[i]
    BY <1>5, <1>7 DEF ToSet
  <2>2. (IF i < n THEN i ELSE i + 1) \in (1 .. Len(dev_list)) \ {n}
    BY <1>1
  <2> QED
    BY <2>1, <2>2, <1>1, <1>6 DEF ToSet, Listed
<1>8. ASSUME NEW e \in Listed \ {d} PROVE e \in ToSet(Unlinked(d))
  <2>1. PICK j \in 1 .. Len(dev_list) : e = dev_list[j]
    BY <1>8 DEF ToSet, Listed
  <2>2. j # n
    BY <1>1, <1>8, <2>1
  <2>3. PICK i \in 1 .. Len(dev_list) - 1 : j = IF i < n THEN i ELSE i + 1
    <3>1. CASE j < n
      BY <3>1, <1>1
    <3>2. CASE j > n
      <4>1. j - 1 \in 1 .. Len(dev_list) - 1 /\ j = IF j - 1 < n THEN j - 1 ELSE (j - 1) + 1
        BY <3>2, <1>1
      <4> QED
        BY <4>1
    <3> QED
      BY <2>2, <3>1, <3>2, <1>1
  <2> QED
    BY <2>1, <2>3, <1>5, <1>6 DEF ToSet
<1> QED
  BY <1>1, <1>5, <1>6, <1>7, <1>8

-----------------------------------------------------------------------------
(* The steps. *)

LEMMA InvariantInit == Init => RegistryInvariant
<1> SUFFICES ASSUME Init PROVE RegistryInvariant
  OBVIOUS
<1> USE DeviceRegistryAssumption DEF Init
<1>1. \A a \in Accs : Count(Devs, acc_base, a) = 0
  BY CountType
<1>2. Cardinality(Vars) \in Nat /\ Cardinality(Devs) \in Nat
  BY VarsFinite, FS_CardinalityType
<1>3. TypeOK
  BY <1>2 DEF TypeOK, NoCall, Labels
<1>4. AccelerantsBalanced
  BY <1>1 DEF AccelerantsBalanced, Count
<1>5. \A t \in Threads : ~Initializing(t) /\ ~Deinitializing(t)
  BY DEF Initializing, Deinitializing
<1>6. LockHeld /\ PhasesApart /\ HandlesListed /\ AssertionHolds
  BY <1>5 DEF LockHeld, PhasesApart, HandlesListed, AssertionHolds
<1>7. DOMAIN dev_list = {} /\ Listed = {}
  BY DEF Listed, ToSet
<1>8. ListSound /\ RefsCounted /\ NobodyForgotten
  BY <1>7 DEF ListSound, RefsCounted, NobodyForgotten, Listed
<1>9. InitializersSound /\ DeinitializersSound
  BY <1>5 DEF InitializersSound, DeinitializersSound
<1> QED
  BY <1>3, <1>4, <1>6, <1>8, <1>9 DEF RegistryInvariant

(* The search takes the lock; the device it finds is listed. *)
LEMMA InitFoundPreserves ==
  ASSUME Overlap = FALSE, RegistryInvariant,
         NEW t \in Threads, NEW v \in Vars, NEW a \in Accs, InitFound(t, v, a)
  PROVE  RegistryInvariant'
<1> USE DeviceRegistryAssumption DEF RegistryInvariant
<1>1. PICK i \in DOMAIN dev_list :
         call' = [call EXCEPT ![t] = [var |-> v, dev |-> dev_list[i]]]
  BY DEF InitFound
<1>2. /\ dev_mutex = NoThread /\ dev_mutex' = t
      /\ pc[t] = "idle" /\ pc' = [pc EXCEPT ![t] = "init_assert"]
      /\ v[1] = t /\ ref[v] = NoDev
      /\ UNCHANGED <<dev_list, refcount, acc_base, ref, accRefs>>
  BY DEF InitFound, At, Lock, Goto
<1>3. \A u \in Threads : ~Deinitializing(u)
  BY DEF InitFound, MayInitialize
<1>4. \A u \in Threads : ~Initializing(u)
  BY <1>2 DEF LockHeld
<1>5. dev_list[i] \in Listed /\ dev_list[i] \in Devs
  BY <1>1 DEF TypeOK, Listed, ToSet
<1>6. TypeOK'
  BY <1>1, <1>2, <1>5 DEF TypeOK, Labels
<1>7. /\ pc'[t] = "init_assert" /\ call'[t].var = v /\ call'[t].dev = dev_list[i]
      /\ \A u \in Threads \ {t} : pc'[u] = pc[u] /\ call'[u] = call[u]
  BY <1>1, <1>2 DEF TypeOK
<1>8. LockHeld'
  BY <1>2, <1>4, <1>7 DEF LockHeld, Initializing
<1>9. PhasesApart'
  BY <1>3, <1>7 DEF PhasesApart, Deinitializing
<1>10. (Listed = Listed')
  BY <1>2 DEF Listed
<1>11. ListSound' /\ HandlesListed' /\ RefsCounted' /\ AccelerantsBalanced'
  BY <1>2, <1>10 DEF ListSound, HandlesListed, RefsCounted, AccelerantsBalanced, Listed
<1>12. InitializersSound'
  BY <1>2, <1>4, <1>5, <1>7, <1>10 DEF InitializersSound, Initializing
<1>13. DeinitializersSound'
  BY <1>3, <1>7 DEF DeinitializersSound, Deinitializing
<1>14. NobodyForgotten'
  BY <1>2, <1>7, <1>10 DEF NobodyForgotten
<1>15. AssertionHolds'
  BY <1>7 DEF AssertionHolds
<1> QED
  BY <1>6, <1>8, <1>9, <1>11, <1>12, <1>13, <1>14, <1>15

(* A listed device that nobody frees has a reference to copy. *)
LEMMA InitAssertPreserves ==
  ASSUME Overlap = FALSE, RegistryInvariant, NEW t \in Threads, InitAssert(t)
  PROVE  RegistryInvariant'
<1> USE DeviceRegistryAssumption DEF RegistryInvariant
<1> DEFINE d == call[t].dev
<1>1. pc[t] = "init_assert" /\ Initializing(t) /\ dev_mutex = t
  BY DEF InitAssert, At, Initializing, LockHeld
<1>2. d \in Listed /\ d \in Devs /\ acc_base[d] # NoAcc
  BY <1>1 DEF InitializersSound, TypeOK, ListSound, Listed, ToSet
<1>3. \A u \in Threads : ~Deinitializing(u)
  BY <1>1 DEF PhasesApart
<1>4. refcount[d] > 0
  <2>1. \A u \in Threads : pc[u] # "init_probe"
    BY <1>1 DEF LockHeld, Initializing
  <2> QED
    BY <1>2, <1>3, <2>1 DEF NobodyForgotten, Deinitializing
<1>5. /\ pc' = [pc EXCEPT ![t] = "init_add"]
      /\ UNCHANGED <<dev_mutex, dev_list, refcount, acc_base, ref, accRefs, call>>
  BY <1>4 DEF InitAssert, Goto
<1>6. TypeOK'
  BY <1>5 DEF TypeOK, Labels
<1>7. pc'[t] = "init_add" /\ \A u \in Threads \ {t} : pc'[u] = pc[u]
  BY <1>5 DEF TypeOK
<1>8. LockHeld' /\ AssertionHolds'
  BY <1>1, <1>5, <1>7 DEF LockHeld, Initializing, AssertionHolds
<1>9. PhasesApart'
  BY <1>3, <1>7 DEF PhasesApart, Deinitializing
<1>10. (Listed = Listed')
  BY <1>5 DEF Listed
<1>11. ListSound' /\ HandlesListed' /\ RefsCounted' /\ AccelerantsBalanced'
  BY <1>5, <1>10 DEF ListSound, HandlesListed, RefsCounted, AccelerantsBalanced, Listed
<1>12. InitializersSound'
  BY <1>1, <1>2, <1>5, <1>7, <1>10 DEF InitializersSound, Initializing
<1>13. DeinitializersSound'
  BY <1>3, <1>7 DEF DeinitializersSound, Deinitializing
<1>14. NobodyForgotten'
  BY <1>1, <1>5, <1>7, <1>10 DEF NobodyForgotten
<1> QED
  BY <1>6, <1>8, <1>9, <1>11, <1>12, <1>13, <1>14

(* A handle more, a reference more. *)
LEMMA InitAddPreserves ==
  ASSUME Overlap = FALSE, RegistryInvariant, NEW t \in Threads, InitAdd(t)
  PROVE  RegistryInvariant'
<1> USE DeviceRegistryAssumption DEF RegistryInvariant
<1> DEFINE v == call[t].var
           d == call[t].dev
<1>1. /\ pc[t] = "init_add" /\ Initializing(t) /\ dev_mutex = t
      /\ refcount' = [refcount EXCEPT ![d] = @ + 1]
      /\ ref' = [ref EXCEPT ![v] = d]
      /\ dev_mutex' = NoThread
      /\ pc' = [pc EXCEPT ![t] = "idle"]
      /\ call' = [call EXCEPT ![t] = NoCall]
      /\ UNCHANGED <<dev_list, acc_base, accRefs>>
  BY DEF InitAdd, At, Initializing, LockHeld, Unlock, Return, Goto
<1>2. d \in Listed /\ d \in Devs /\ v \in Vars /\ v[1] = t /\ ref[v] = NoDev
  BY <1>1 DEF InitializersSound, TypeOK, Listed, ToSet
<1> HIDE DEF v, d
<1>3. \A u \in Threads : ~Deinitializing(u)
  BY <1>1 DEF PhasesApart
<1>4. \A u \in Threads \ {t} : ~Initializing(u)
  BY <1>1 DEF LockHeld
<1>5. /\ pc'[t] = "idle" /\ call'[t] = NoCall
      /\ \A u \in Threads \ {t} : pc'[u] = pc[u] /\ call'[u] = call[u]
  BY <1>1 DEF TypeOK
<1>6. Listed = Listed'
  BY <1>1 DEF Listed
<1>7. ASSUME NEW e \in Devs, e \in Listed
      PROVE  refcount'[e] = Count(Vars, ref', e)
  <2>1. refcount[e] = Count(Vars, ref, e)
    BY <1>7 DEF RefsCounted, Listed, Count
  <2>2. ref'[v] = d /\ \A x \in Vars \ {v} : ref'[x] = ref[x]
    BY <1>1, <1>2 DEF TypeOK
  <2>3. ref'[v] # ref[v] /\ e # ref[v]
    BY <1>2, <2>2
  <2>4. /\ Count(Vars, ref', ref'[v]) = Count(Vars, ref, ref'[v]) + 1
        /\ \A b : b # ref'[v] /\ b # ref[v] => Count(Vars, ref', b) = Count(Vars, ref, b)
    BY <1>2, <2>2, <2>3, RefChange
  <2>5. /\ Count(Vars, ref', d) = Count(Vars, ref, d) + 1
        /\ e # d => Count(Vars, ref', e) = Count(Vars, ref, e)
    BY <2>2, <2>3, <2>4
  <2> QED
    BY <1>1, <1>2, <2>1, <2>5 DEF TypeOK
<1>8. TypeOK'
  <2>1. ref' \in [Vars -> Devs \cup {NoDev}]
    BY <1>1, <1>2 DEF TypeOK
  <2>2. refcount'[d] \in 0 .. Cardinality(Vars)
    BY <1>2, <1>7, CountType, VarsFinite
  <2>3. refcount' \in [Devs -> 0 .. Cardinality(Vars)]
    BY <1>1, <1>2, <2>2 DEF TypeOK
  <2> QED
    BY <1>1, <2>1, <2>3 DEF TypeOK, Labels, NoCall
<1>14. RefsCounted'
  BY <1>6, <1>7 DEF RefsCounted, Listed, Count
<1>9. LockHeld' /\ AssertionHolds' /\ PhasesApart'
  BY <1>1, <1>3, <1>4, <1>5
     DEF LockHeld, Initializing, AssertionHolds, PhasesApart, Deinitializing
<1>10. ListSound' /\ AccelerantsBalanced'
  BY <1>1 DEF ListSound, AccelerantsBalanced
<1>11. HandlesListed'
  BY <1>1, <1>2, <1>6 DEF HandlesListed, TypeOK
<1>12. InitializersSound' /\ DeinitializersSound'
  BY <1>3, <1>4, <1>5 DEF InitializersSound, DeinitializersSound, Initializing, Deinitializing
<1>13. NobodyForgotten'
  <2> SUFFICES ASSUME NEW e \in Devs, acc_base[e] # NoAcc,
                      ~\E u \in Threads : pc'[u] \in {"init_probe", "free_unlink", "free_release"}
                                          /\ call'[u].dev = e
               PROVE  e \in Listed /\ refcount'[e] > 0
    BY <1>1, <1>6 DEF NobodyForgotten
  <2>1. e \in Listed /\ refcount[e] > 0
    BY <1>1, <1>5 DEF NobodyForgotten
  <2> QED
    BY <1>1, <1>2, <2>1, VarsFinite DEF TypeOK
<1> QED
  BY <1>8, <1>9, <1>10, <1>11, <1>12, <1>13, <1>14

(* A device that nobody has becomes the thread's own, with a reference to  *)
(* its accelerant.                                                         *)
LEMMA InitNewPreserves ==
  ASSUME Overlap = FALSE, RegistryInvariant,
         NEW t \in Threads, NEW v \in Vars, NEW a \in Accs, InitNew(t, v, a)
  PROVE  RegistryInvariant'
<1> USE DeviceRegistryAssumption DEF RegistryInvariant
<1>1. PICK d \in Devs :
         /\ acc_base[d] = NoAcc
         /\ acc_base' = [acc_base EXCEPT ![d] = a]
         /\ refcount' = [refcount EXCEPT ![d] = 1]
         /\ call' = [call EXCEPT ![t] = [var |-> v, dev |-> d]]
  BY DEF InitNew
<1>2. /\ dev_mutex = NoThread /\ dev_mutex' = t
      /\ pc[t] = "idle" /\ pc' = [pc EXCEPT ![t] = "init_probe"]
      /\ v[1] = t /\ ref[v] = NoDev
      /\ \A i \in DOMAIN dev_list : acc_base[dev_list[i]] # a
      /\ accRefs' = [accRefs EXCEPT ![a] = @ + 1]
      /\ UNCHANGED <<dev_list, ref>>
  BY DEF InitNew, At, Lock, Goto
<1>3. \A u \in Threads : ~Deinitializing(u) /\ ~Initializing(u)
  BY <1>2 DEF InitNew, MayInitialize, LockHeld
<1>4. /\ pc'[t] = "init_probe" /\ call'[t].var = v /\ call'[t].dev = d
      /\ \A u \in Threads \ {t} : pc'[u] = pc[u] /\ call'[u] = call[u]
  BY <1>1, <1>2 DEF TypeOK
<1>5. d \notin Listed
  BY <1>1 DEF ListSound, Listed, ToSet
<1>6. /\ acc_base'[d] = a /\ refcount'[d] = 1 /\ a # NoAcc
      /\ \A e \in Devs \ {d} : acc_base'[e] = acc_base[e] /\ refcount'[e] = refcount[e]
  BY <1>1 DEF TypeOK
<1>7. \A i \in DOMAIN dev_list :
         dev_list[i] \in Devs \ {d} /\ dev_list[i] \in Listed
  BY <1>5 DEF TypeOK, Listed, ToSet
<1>8. (Listed = Listed')
  BY <1>2 DEF Listed
<1>9. Cardinality(Vars) >= 1
  BY VarsFinite, FS_EmptySet
<1>10. ASSUME NEW b \in Accs PROVE accRefs'[b] = Count(Devs, acc_base', b)
  <2>1. acc_base'[d] # acc_base[d] /\ \A e \in Devs \ {d} : acc_base'[e] = acc_base[e]
    BY <1>1, <1>6
  <2>2. /\ Count(Devs, acc_base', acc_base'[d]) = Count(Devs, acc_base, acc_base'[d]) + 1
        /\ \A c : c # acc_base'[d] /\ c # acc_base[d] =>
              Count(Devs, acc_base', c) = Count(Devs, acc_base, c)
    BY <2>1, AccChange
  <2>3. /\ Count(Devs, acc_base', a) = Count(Devs, acc_base, a) + 1
        /\ b # a => Count(Devs, acc_base', b) = Count(Devs, acc_base, b)
    BY <1>1, <1>6, <2>2
  <2>4. accRefs[b] = Count(Devs, acc_base, b)
    BY DEF AccelerantsBalanced, Count
  <2> QED
    BY <1>2, <2>3, <2>4 DEF TypeOK
<1>11. AccelerantsBalanced'
  BY <1>10 DEF AccelerantsBalanced, Count
<1>12. TypeOK'
  <2>1. accRefs'[a] \in 0 .. Cardinality(Devs)
    BY <1>10, CountType
  <2>2. accRefs' \in [Accs -> 0 .. Cardinality(Devs)]
    BY <1>2, <2>1 DEF TypeOK
  <2>3. refcount' \in [Devs -> 0 .. Cardinality(Vars)]
    BY <1>1, <1>9, VarsFinite DEF TypeOK
  <2>4. acc_base' \in [Devs -> Accs \cup {NoAcc}]
    BY <1>1 DEF TypeOK
  <2>5. call' \in [Threads -> [var : Vars \cup {<<>>}, dev : Devs \cup {NoDev}]]
    BY <1>1 DEF TypeOK
  <2> QED
    BY <1>2, <2>2, <2>3, <2>4, <2>5 DEF TypeOK, Labels
<1>13. LockHeld' /\ AssertionHolds' /\ PhasesApart'
  BY <1>2, <1>3, <1>4 DEF LockHeld, Initializing, AssertionHolds, PhasesApart, Deinitializing
<1>14. ListSound' /\ HandlesListed'
  BY <1>2, <1>6, <1>7, <1>8 DEF ListSound, HandlesListed
<1>15. InitializersSound'
  BY <1>2, <1>3, <1>4, <1>5, <1>6, <1>7, <1>8 DEF InitializersSound, Initializing
<1>16. DeinitializersSound'
  BY <1>3, <1>4 DEF DeinitializersSound, Deinitializing
<1>17. NobodyForgotten'
  BY <1>2, <1>4, <1>6, <1>8 DEF NobodyForgotten
<1>18. RefsCounted'
  BY <1>2, <1>5, <1>6 DEF RefsCounted, Listed
<1> QED
  BY <1>11, <1>12, <1>13, <1>14, <1>15, <1>16, <1>17, <1>18

(* A device that is not free gives back its accelerant and its memory.  *)
LEMMA DeviceFreed ==
  ASSUME TypeOK, AccelerantsBalanced, NEW d \in Devs, acc_base[d] # NoAcc,
         accRefs' = [accRefs EXCEPT ![acc_base[d]] = @ - 1],
         acc_base' = [acc_base EXCEPT ![d] = NoAcc]
  PROVE  /\ accRefs' \in [Accs -> 0 .. Cardinality(Devs)]
         /\ acc_base' \in [Devs -> Accs \cup {NoAcc}]
         /\ acc_base'[d] = NoAcc /\ \A e \in Devs \ {d} : acc_base'[e] = acc_base[e]
         /\ AccelerantsBalanced'
<1> USE DeviceRegistryAssumption
<1> DEFINE a == acc_base[d]
<1>1. a \in Accs /\ a # NoAcc
  BY DEF TypeOK
<1>2. acc_base'[d] = NoAcc /\ \A e \in Devs \ {d} : acc_base'[e] = acc_base[e]
  BY DEF TypeOK
<1>3. ASSUME NEW b \in Accs PROVE accRefs'[b] = Count(Devs, acc_base', b)
  <2>1. acc_base'[d] # acc_base[d] /\ b # acc_base'[d]
    BY <1>1, <1>2
  <2>2. /\ Count(Devs, acc_base', acc_base[d]) = Count(Devs, acc_base, acc_base[d]) - 1
        /\ \A c : c # acc_base'[d] /\ c # acc_base[d] =>
              Count(Devs, acc_base', c) = Count(Devs, acc_base, c)
    BY <1>2, <2>1, AccChange
  <2>3. accRefs[b] = Count(Devs, acc_base, b)
    BY DEF AccelerantsBalanced, Count
  <2> QED
    BY <1>1, <2>1, <2>2, <2>3 DEF TypeOK
<1>4. AccelerantsBalanced'
  BY <1>3 DEF AccelerantsBalanced, Count
<1>5. accRefs'[a] \in 0 .. Cardinality(Devs)
  BY <1>1, <1>3, VarsFinite, CountType
<1>6. accRefs' \in [Accs -> 0 .. Cardinality(Devs)]
  BY <1>1, <1>5 DEF TypeOK
<1>7. acc_base' \in [Devs -> Accs \cup {NoAcc}]
  BY DEF TypeOK
<1> QED
  BY <1>2, <1>4, <1>6, <1>7

(* A failed initialization leaves nothing behind. *)
LEMMA InitCleanupPreserves ==
  ASSUME Overlap = FALSE, RegistryInvariant, NEW t \in Threads, InitCleanup(t)
  PROVE  RegistryInvariant'
<1> USE DeviceRegistryAssumption DEF RegistryInvariant
<1> DEFINE d == call[t].dev
<1>1. /\ pc[t] = "init_probe" /\ Initializing(t) /\ dev_mutex = t
      /\ accRefs' = [accRefs EXCEPT ![acc_base[d]] = @ - 1]
      /\ acc_base' = [acc_base EXCEPT ![d] = NoAcc]
      /\ dev_mutex' = NoThread
      /\ pc' = [pc EXCEPT ![t] = "idle"]
      /\ call' = [call EXCEPT ![t] = NoCall]
      /\ UNCHANGED <<dev_list, refcount, ref>>
  BY DEF InitCleanup, At, Initializing, LockHeld, Unlock, Return, Goto
<1>2. d \in Devs /\ d \notin Listed /\ acc_base[d] # NoAcc
  BY <1>1 DEF InitializersSound
<1>3. /\ accRefs' \in [Accs -> 0 .. Cardinality(Devs)]
      /\ acc_base' \in [Devs -> Accs \cup {NoAcc}]
      /\ acc_base'[d] = NoAcc /\ \A e \in Devs \ {d} : acc_base'[e] = acc_base[e]
      /\ AccelerantsBalanced'
  BY <1>1, <1>2, DeviceFreed
<1>4. /\ pc'[t] = "idle" /\ call'[t] = NoCall
      /\ \A u \in Threads \ {t} : pc'[u] = pc[u] /\ call'[u] = call[u]
  BY <1>1 DEF TypeOK
<1>5. \A u \in Threads : ~Deinitializing(u)
  BY <1>1 DEF PhasesApart
<1>6. \A u \in Threads \ {t} : ~Initializing(u)
  BY <1>1 DEF LockHeld
<1>7. Listed = Listed'
  BY <1>1 DEF Listed
<1>8. \A i \in DOMAIN dev_list :
         dev_list[i] \in Devs \ {call[t].dev} /\ dev_list[i] \in Listed
  BY <1>2 DEF TypeOK, Listed, ToSet
<1>9. NobodyForgotten'
  <2> SUFFICES ASSUME NEW e \in Devs, acc_base'[e] # NoAcc
               PROVE  \/ e \in Listed /\ refcount[e] > 0
                      \/ \E u \in Threads :
                            /\ pc'[u] \in {"init_probe", "free_unlink", "free_release"}
                            /\ call'[u].dev = e
    BY <1>1, <1>7 DEF NobodyForgotten
  <2>1. e # d /\ acc_base[e] # NoAcc
    BY <1>3
  <2>2. \A u \in Threads : call[u].dev = e => u # t
    BY <2>1
  <2> QED
    BY <1>4, <2>1, <2>2 DEF NobodyForgotten
<1> HIDE DEF d
<1>10. TypeOK'
  BY <1>1, <1>3 DEF TypeOK, Labels, NoCall
<1>11. LockHeld' /\ AssertionHolds' /\ PhasesApart'
  BY <1>1, <1>4, <1>5, <1>6
     DEF LockHeld, Initializing, AssertionHolds, PhasesApart, Deinitializing
<1>12. ListSound' /\ HandlesListed'
  BY <1>1, <1>3, <1>7, <1>8 DEF ListSound, HandlesListed, d
<1>13. InitializersSound' /\ DeinitializersSound'
  BY <1>4, <1>5, <1>6 DEF InitializersSound, DeinitializersSound, Initializing, Deinitializing
<1>14. RefsCounted'
  BY <1>1 DEF RefsCounted
<1> QED
  BY <1>3, <1>9, <1>10, <1>11, <1>12, <1>13, <1>14

(* The device and its first handle become known together. *)
LEMMA InitPublishPreserves ==
  ASSUME Overlap = FALSE, RegistryInvariant, NEW t \in Threads, InitPublish(t)
  PROVE  RegistryInvariant'
<1> USE DeviceRegistryAssumption DEF RegistryInvariant
<1> DEFINE v == call[t].var
           d == call[t].dev
<1>1. /\ pc[t] = "init_probe" /\ Initializing(t) /\ dev_mutex = t
      /\ dev_list' = Linked(d)
      /\ ref' = [ref EXCEPT ![v] = d]
      /\ dev_mutex' = NoThread
      /\ pc' = [pc EXCEPT ![t] = "idle"]
      /\ call' = [call EXCEPT ![t] = NoCall]
      /\ UNCHANGED <<refcount, acc_base, accRefs>>
  BY DEF InitPublish, At, Initializing, LockHeld, Unlock, Return, Goto
<1>2. /\ d \in Devs /\ d \notin Listed /\ acc_base[d] # NoAcc /\ refcount[d] = 1
      /\ \A i \in DOMAIN dev_list : acc_base[dev_list[i]] # acc_base[d]
      /\ v \in Vars /\ v[1] = t /\ ref[v] = NoDev
  BY <1>1 DEF InitializersSound
<1> HIDE DEF v, d
<1>4. dev_list \in Seq(Devs)
  BY DEF TypeOK
<1>5. /\ dev_list' \in Seq(Devs)
      /\ Len(dev_list') = Len(dev_list) + 1
      /\ dev_list'[1] = d
      /\ \A i \in 2 .. Len(dev_list) + 1 : dev_list'[i] = dev_list[i - 1]
      /\ ToSet(dev_list') = Listed \cup {d}
  BY <1>1, <1>2, <1>4, LinkedList
<1>6. Listed' = Listed \cup {d}
  BY <1>5 DEF Listed
<1>7. /\ pc'[t] = "idle" /\ call'[t] = NoCall
      /\ \A u \in Threads \ {t} : pc'[u] = pc[u] /\ call'[u] = call[u]
  BY <1>1 DEF TypeOK
<1>8. /\ \A u \in Threads : ~Deinitializing(u)
      /\ \A u \in Threads \ {t} : ~Initializing(u)
  BY <1>1 DEF PhasesApart, LockHeld
<1>9. ListSound'
  <2>1. ASSUME NEW i \in DOMAIN dev_list', i # 1
        PROVE  i - 1 \in DOMAIN dev_list /\ dev_list'[i] = dev_list[i - 1]
    <3>1. i \in 2 .. Len(dev_list) + 1
      BY <1>4, <1>5, <2>1
    <3>2. i - 1 \in 1 .. Len(dev_list)
      BY <1>4, <3>1
    <3> QED
      BY <1>4, <1>5, <3>1, <3>2
  <2>2. \A i \in DOMAIN dev_list' : acc_base[dev_list'[i]] = acc_base[d] => i = 1
    BY <1>2, <2>1
  <2>3. ASSUME NEW i \in DOMAIN dev_list', NEW j \in DOMAIN dev_list',
               acc_base[dev_list'[i]] = acc_base[dev_list'[j]]
        PROVE  i = j
    <3>1. CASE i = 1 \/ j = 1
      BY <3>1, <1>5, <2>2, <2>3
    <3>2. CASE i # 1 /\ j # 1
      <4>1. i - 1 = j - 1
        BY <3>2, <2>1, <2>3 DEF ListSound
      <4> QED
        BY <4>1, <1>5
    <3> QED
      BY <3>1, <3>2
  <2>4. \A i \in DOMAIN dev_list' : acc_base[dev_list'[i]] # NoAcc
    BY <1>2, <1>5, <2>1 DEF ListSound
  <2> QED
    BY <1>1, <2>3, <2>4 DEF ListSound
<1>10. ref'[v] = d /\ \A x \in Vars \ {v} : ref'[x] = ref[x]
  BY <1>1, <1>2 DEF TypeOK
<1>11. HandlesListed'
  BY <1>6, <1>10 DEF HandlesListed
<1>12. ASSUME NEW e \in Devs, e \in Listed'
       PROVE  refcount'[e] = Count(Vars, ref', e)
  <2>1. ref'[v] # ref[v] /\ e # ref[v]
    BY <1>2, <1>10
  <2>2. /\ Count(Vars, ref', ref'[v]) = Count(Vars, ref, ref'[v]) + 1
        /\ \A b : b # ref'[v] /\ b # ref[v] => Count(Vars, ref', b) = Count(Vars, ref, b)
    BY <1>2, <1>10, <2>1, RefChange
  <2>3. CASE e = d
    <3>1. \A x \in Vars : ref[x] # d
      BY <1>2 DEF HandlesListed
    <3>2. Count(Vars, ref, d) = 0
      BY <3>1, VarsFinite, CountType
    <3> QED
      BY <1>1, <1>2, <1>10, <2>2, <2>3, <3>2
  <2>4. CASE e # d
    <3>1. e \in Listed
      BY <1>6, <1>12, <2>4
    <3>2. refcount[e] = Count(Vars, ref, e)
      BY <3>1 DEF RefsCounted, Listed, Count
    <3> QED
      BY <1>1, <1>10, <2>1, <2>2, <2>4, <3>2
  <2> QED
    BY <2>3, <2>4
<1>13. RefsCounted'
  BY <1>12 DEF RefsCounted, Listed, Count
<1>14. AccelerantsBalanced'
  BY <1>1 DEF AccelerantsBalanced
<1>15. TypeOK'
  BY <1>1, <1>2, <1>5 DEF TypeOK, Labels, NoCall
<1>16. LockHeld' /\ AssertionHolds' /\ PhasesApart'
  BY <1>1, <1>7, <1>8
     DEF LockHeld, Initializing, AssertionHolds, PhasesApart, Deinitializing
<1>17. InitializersSound' /\ DeinitializersSound'
  BY <1>7, <1>8 DEF InitializersSound, DeinitializersSound, Initializing, Deinitializing
<1>18. NobodyForgotten'
  <2> SUFFICES ASSUME NEW e \in Devs, acc_base[e] # NoAcc,
                      ~\E u \in Threads : pc'[u] \in {"init_probe", "free_unlink", "free_release"}
                                          /\ call'[u].dev = e
               PROVE  e \in Listed' /\ refcount[e] > 0
    BY <1>1 DEF NobodyForgotten
  <2>1. CASE e = d
    BY <1>2, <1>6, <2>1
  <2>2. CASE e # d
    <3>1. \A u \in Threads : call[u].dev = e => u # t
      BY <2>2 DEF d
    <3>2. e \in Listed /\ refcount[e] > 0
      BY <1>7, <3>1 DEF NobodyForgotten
    <3> QED
      BY <1>6, <3>2
  <2> QED
    BY <2>1, <2>2
<1> QED
  BY <1>9, <1>11, <1>13, <1>14, <1>15, <1>16, <1>17, <1>18

(* A handle less, a reference less; the last one gone, its thread frees.   *)
LEMMA DeinitPreserves ==
  ASSUME Overlap = FALSE, RegistryInvariant,
         NEW t \in Threads, NEW v \in Vars, Deinit(t, v)
  PROVE  RegistryInvariant'
<1> USE DeviceRegistryAssumption DEF RegistryInvariant
<1> DEFINE d == ref[v]
<1>1. /\ pc[t] = "idle" /\ v[1] = t /\ d # NoDev
      /\ refcount' = [refcount EXCEPT ![d] = @ - 1]
      /\ ref' = [ref EXCEPT ![v] = NoDev]
      /\ UNCHANGED <<dev_mutex, dev_list, acc_base, accRefs>>
  BY DEF Deinit, At
<1>2. \A u \in Threads : ~Initializing(u)
  BY DEF Deinit, MayDeinitialize
<1>3. d \in Listed /\ d \in Devs
  BY <1>1 DEF HandlesListed, TypeOK
<1>4. (Listed = Listed')
  BY <1>1 DEF Listed
<1>5. /\ ref'[v] = NoDev /\ \A w \in Vars \ {v} : ref'[w] = ref[w]
      /\ \A e \in Devs \ {d} : refcount'[e] = refcount[e]
  BY <1>1 DEF TypeOK
<1>6. /\ refcount[d] = Count(Vars, ref, d)
      /\ refcount[d] \in 0 .. Cardinality(Vars) /\ refcount[d] # 0
      /\ refcount'[d] = refcount[d] - 1
  <2>1. refcount[d] = Count(Vars, ref, d)
    BY <1>3 DEF RefsCounted, Listed, Count
  <2>2. Count(Vars, ref, d) # 0
    BY VarsFinite, CountType
  <2> QED
    BY <1>1, <1>3, <2>1, <2>2 DEF TypeOK
<1>7. \A u \in Threads : Deinitializing(u) => call[u].dev # d
  BY <1>3, <1>6 DEF DeinitializersSound, Deinitializing
<1>8. ASSUME NEW e \in Devs, e \in Listed PROVE refcount'[e] = Count(Vars, ref', e)
  <2>1. ref'[v] # ref[v] /\ e # ref'[v]
    BY <1>1, <1>5
  <2>2. /\ Count(Vars, ref', ref[v]) = Count(Vars, ref, ref[v]) - 1
        /\ \A b : b # ref'[v] /\ b # ref[v] => Count(Vars, ref', b) = Count(Vars, ref, b)
    BY <1>5, <2>1, RefChange
  <2>3. refcount[e] = Count(Vars, ref, e)
    BY <1>8 DEF RefsCounted, Listed, Count
  <2>4. CASE e = d
    BY <1>6, <2>2, <2>4
  <2>5. CASE e # d
    BY <1>5, <2>1, <2>2, <2>3, <2>5
  <2> QED
    BY <2>4, <2>5
<1>9. RefsCounted'
  BY <1>4, <1>8 DEF RefsCounted, Listed, Count
<1>10. ListSound' /\ AccelerantsBalanced'
  BY <1>1 DEF ListSound, AccelerantsBalanced
<1>11. HandlesListed'
  BY <1>4, <1>5 DEF HandlesListed
<1> HIDE DEF d
<1>12. /\ refcount' \in [Devs -> 0 .. Cardinality(Vars)]
       /\ ref' \in [Vars -> Devs \cup {NoDev}]
  <2>1. refcount[d] - 1 \in 0 .. Cardinality(Vars)
    BY <1>6, VarsFinite
  <2> QED
    BY <1>1, <1>3, <2>1 DEF TypeOK
<1>13. CASE refcount[d] = 1
  <2>1. pc' = [pc EXCEPT ![t] = "free_unlink"] /\ call' = [call EXCEPT ![t].dev = d]
    BY <1>13 DEF Deinit, WasLast, Goto, d
  <2>2. /\ pc'[t] = "free_unlink" /\ call'[t].dev = d
        /\ \A u \in Threads \ {t} : pc'[u] = pc[u] /\ call'[u] = call[u]
    BY <2>1 DEF TypeOK
  <2>3. call' \in [Threads -> [var : Vars \cup {<<>>}, dev : Devs \cup {NoDev}]]
    BY <1>3, <2>1 DEF TypeOK
  <2>4. TypeOK'
    BY <1>1, <1>12, <2>1, <2>3 DEF TypeOK, Labels
  <2>5. \A u \in Threads : ~(Initializing(u))'
    BY <1>2, <2>2 DEF Initializing
  <2>6. LockHeld' /\ AssertionHolds' /\ PhasesApart'
    BY <1>1, <1>2, <2>2, <2>5 DEF LockHeld, AssertionHolds, PhasesApart
  <2>7. InitializersSound'
    BY <2>5 DEF InitializersSound, Initializing
  <2>8. refcount'[d] = 0
    BY <1>6, <1>13
  <2>9. DeinitializersSound'
    <3>1. ASSUME NEW u \in Threads, pc'[u] = "free_unlink"
          PROVE  call'[u].dev \in Listed' /\ refcount'[call'[u].dev] = 0
      <4>1. CASE u = t
        BY <1>3, <1>4, <2>2, <2>8, <4>1
      <4>2. CASE u # t
        <5>1. pc[u] = "free_unlink" /\ call'[u] = call[u]
          BY <2>2, <3>1, <4>2
        <5>2. call[u].dev # d /\ call[u].dev \in Listed /\ refcount[call[u].dev] = 0
          BY <1>7, <5>1 DEF DeinitializersSound, Deinitializing
        <5>3. call[u].dev \in Devs
          BY <5>2 DEF TypeOK, Listed, ToSet
        <5> QED
          BY <1>4, <1>5, <5>1, <5>2, <5>3 DEF d
      <4> QED
        BY <4>1, <4>2
    <3>2. ASSUME NEW u \in Threads, pc'[u] = "free_release"
          PROVE  call'[u].dev \in Devs \ Listed' /\ acc_base'[call'[u].dev] # NoAcc
      <4>1. pc[u] = "free_release" /\ call'[u] = call[u]
        BY <2>2, <3>2
      <4> QED
        BY <1>1, <1>4, <4>1 DEF DeinitializersSound
    <3>3. ASSUME NEW u \in Threads, NEW w \in Threads, Deinitializing(u)', Deinitializing(w)',
                 call'[u].dev = call'[w].dev
          PROVE  u = w
      <4>1. ASSUME NEW x \in Threads \ {t}, Deinitializing(x)' PROVE Deinitializing(x) /\ call'[x].dev # d
        BY <1>7, <2>2, <4>1 DEF Deinitializing
      <4>2. CASE u = t \/ w = t
        BY <2>2, <3>3, <4>1, <4>2
      <4>3. CASE u # t /\ w # t
        BY <2>2, <3>3, <4>1, <4>3 DEF DeinitializersSound
      <4> QED
        BY <4>2, <4>3
    <3> QED
      BY <3>1, <3>2, <3>3 DEF DeinitializersSound
  <2>10. NobodyForgotten'
    <3> SUFFICES ASSUME NEW e \in Devs, acc_base[e] # NoAcc, e # d
                 PROVE  \/ e \in Listed /\ refcount'[e] > 0
                        \/ \E u \in Threads :
                              /\ pc'[u] \in {"init_probe", "free_unlink", "free_release"}
                              /\ call'[u].dev = e
      BY <1>1, <1>4, <2>2 DEF NobodyForgotten
    <3> QED
      BY <1>1, <1>5, <2>2 DEF NobodyForgotten, d
  <2> QED
    BY <1>9, <1>10, <1>11, <2>4, <2>6, <2>7, <2>9, <2>10
<1>14. CASE refcount[d] # 1
  <2>1. UNCHANGED <<pc, call>>
    BY <1>14 DEF Deinit, WasLast, d
  <2>2. TypeOK'
    BY <1>1, <1>12, <2>1 DEF TypeOK
  <2>3. \A u \in Threads : ~(Initializing(u))'
    BY <1>2, <2>1 DEF Initializing
  <2>4. LockHeld' /\ AssertionHolds' /\ PhasesApart'
    BY <1>1, <1>2, <2>1, <2>3 DEF LockHeld, AssertionHolds, PhasesApart
  <2>5. InitializersSound'
    BY <2>3 DEF InitializersSound, Initializing
  <2>6. DeinitializersSound'
    <3>1. ASSUME NEW u \in Threads, pc[u] = "free_unlink"
          PROVE  call[u].dev \in Listed /\ refcount'[call[u].dev] = 0
      <4>1. call[u].dev # d /\ call[u].dev \in Listed /\ refcount[call[u].dev] = 0
        BY <1>7, <3>1 DEF DeinitializersSound, Deinitializing
      <4>2. call[u].dev \in Devs
        BY <4>1 DEF TypeOK, Listed, ToSet
      <4> QED
        BY <1>5, <4>1, <4>2 DEF d
    <3> QED
      BY <1>1, <1>4, <2>1, <3>1 DEF DeinitializersSound, Deinitializing
  <2>7. refcount'[d] > 0
    BY <1>6, <1>14, VarsFinite
  <2>8. NobodyForgotten'
    BY <1>1, <1>3, <1>4, <1>5, <2>1, <2>7 DEF NobodyForgotten, d
  <2> QED
    BY <1>9, <1>10, <1>11, <2>2, <2>4, <2>5, <2>6, <2>8
<1> QED
  BY <1>13, <1>14

(* The device leaves the list; the order of the others stays. *)
LEMMA FreeUnlinkPreserves ==
  ASSUME Overlap = FALSE, RegistryInvariant, NEW t \in Threads, FreeUnlink(t)
  PROVE  RegistryInvariant'
<1> USE DeviceRegistryAssumption DEF RegistryInvariant
<1> DEFINE d == call[t].dev
<1>1. /\ pc[t] = "free_unlink" /\ Deinitializing(t)
      /\ dev_list' = Unlinked(d)
      /\ pc' = [pc EXCEPT ![t] = "free_release"]
      /\ UNCHANGED <<dev_mutex, refcount, acc_base, ref, accRefs, call>>
  BY DEF FreeUnlink, At, Goto, Deinitializing
<1>2. d \in Listed /\ refcount[d] = 0
  BY <1>1 DEF DeinitializersSound
<1>3. d \in Devs /\ acc_base[d] # NoAcc
  BY <1>2 DEF TypeOK, ListSound, Listed, ToSet
<1>4. \A u \in Threads \ {t} : Deinitializing(u) => call[u].dev # d
  BY <1>1 DEF DeinitializersSound
<1>5. \A u \in Threads : ~Initializing(u)
  BY <1>1 DEF PhasesApart
<1>6. \A w \in Vars : ref[w] # d
  <2>1. Count(Vars, ref, d) = 0
    BY <1>2, <1>3 DEF RefsCounted, Listed, Count
  <2> QED
    BY <2>1, VarsFinite, CountType
<1> HIDE DEF d
<1>7. /\ dev_list \in Seq(Devs)
      /\ \A i, j \in DOMAIN dev_list : dev_list[i] = dev_list[j] => i = j
  BY DEF TypeOK, ListSound
<1>8. dev_list' \in Seq(Devs) /\ ToSet(dev_list') = Listed \ {d}
  BY <1>1, <1>2, <1>7, UnlinkedList
<1>9. PICK n \in 1 .. Len(dev_list) :
         /\ dev_list[n] = d
         /\ Len(dev_list') = Len(dev_list) - 1
         /\ \A i \in 1 .. Len(dev_list) - 1 :
               dev_list'[i] = dev_list[IF i < n THEN i ELSE i + 1]
  <2>1. \E n \in 1 .. Len(dev_list) :
           /\ dev_list[n] = d
           /\ Len(Unlinked(d)) = Len(dev_list) - 1
           /\ \A i \in 1 .. Len(dev_list) - 1 :
                 Unlinked(d)[i] = dev_list[IF i < n THEN i ELSE i + 1]
    BY <1>2, <1>7, UnlinkedList, ZenonT(30)
  <2> QED
    BY <1>1, <2>1, ZenonT(30)
<1>10. Listed' = Listed \ {d}
  BY <1>8 DEF Listed
<1>11. pc'[t] = "free_release" /\ \A u \in Threads \ {t} : pc'[u] = pc[u]
  BY <1>1 DEF TypeOK
<1>12. ListSound'
  <2> DEFINE old(i) == IF i < n THEN i ELSE i + 1
  <2>1. \A i \in DOMAIN dev_list' : old(i) \in DOMAIN dev_list /\ dev_list'[i] = dev_list[old(i)]
    BY <1>7, <1>8, <1>9
  <2>2. \A i, j \in DOMAIN dev_list' : old(i) = old(j) => i = j
    BY <1>8, <1>9
  <2> HIDE DEF old
  <2> QED
    BY <1>1, <2>1, <2>2 DEF ListSound
<1>13. HandlesListed'
  BY <1>1, <1>6, <1>10 DEF HandlesListed
<1>14. RefsCounted' /\ AccelerantsBalanced'
  BY <1>1, <1>10 DEF RefsCounted, AccelerantsBalanced, Listed
<1>15. TypeOK'
  BY <1>1, <1>8 DEF TypeOK, Labels
<1>16. \A u \in Threads : ~(Initializing(u))'
  BY <1>5, <1>11 DEF Initializing
<1>17. LockHeld' /\ AssertionHolds' /\ PhasesApart'
  BY <1>1, <1>5, <1>11, <1>16 DEF LockHeld, AssertionHolds, PhasesApart
<1>18. InitializersSound'
  BY <1>16 DEF InitializersSound, Initializing
<1>19. DeinitializersSound'
  <2>1. ASSUME NEW u \in Threads, pc'[u] = "free_unlink"
        PROVE  call[u].dev \in Listed' /\ refcount[call[u].dev] = 0
    BY <1>4, <1>10, <1>11, <2>1 DEF DeinitializersSound, Deinitializing
  <2>2. ASSUME NEW u \in Threads, pc'[u] = "free_release"
        PROVE  call[u].dev \in Devs \ Listed' /\ acc_base[call[u].dev] # NoAcc
    <3>1. CASE u = t
      BY <1>3, <1>10, <3>1 DEF d
    <3>2. CASE u # t
      BY <1>10, <1>11, <2>2, <3>2 DEF DeinitializersSound
    <3> QED
      BY <3>1, <3>2
  <2>3. \A u \in Threads : Deinitializing(u)' => Deinitializing(u)
    BY <1>1, <1>11 DEF Deinitializing
  <2> QED
    BY <1>1, <2>1, <2>2, <2>3 DEF DeinitializersSound
<1>20. NobodyForgotten'
  <2> SUFFICES ASSUME NEW e \in Devs, acc_base[e] # NoAcc
               PROVE  \/ e \in Listed' /\ refcount[e] > 0
                      \/ \E u \in Threads :
                            /\ pc'[u] \in {"init_probe", "free_unlink", "free_release"}
                            /\ call[u].dev = e
    BY <1>1 DEF NobodyForgotten
  <2>1. CASE e = d
    BY <1>11, <2>1 DEF d
  <2>2. CASE e # d
    BY <1>10, <1>11, <2>2 DEF NobodyForgotten, d
  <2> QED
    BY <2>1, <2>2
<1> QED
  BY <1>12, <1>13, <1>14, <1>15, <1>17, <1>18, <1>19, <1>20

(* The device's memory and its reference to the accelerant go together. *)
LEMMA FreeReleasePreserves ==
  ASSUME Overlap = FALSE, RegistryInvariant, NEW t \in Threads, FreeRelease(t)
  PROVE  RegistryInvariant'
<1> USE DeviceRegistryAssumption DEF RegistryInvariant
<1> DEFINE d == call[t].dev
<1>1. /\ pc[t] = "free_release" /\ Deinitializing(t)
      /\ accRefs' = [accRefs EXCEPT ![acc_base[d]] = @ - 1]
      /\ acc_base' = [acc_base EXCEPT ![d] = NoAcc]
      /\ pc' = [pc EXCEPT ![t] = "idle"]
      /\ call' = [call EXCEPT ![t] = NoCall]
      /\ UNCHANGED <<dev_mutex, dev_list, refcount, ref>>
  BY DEF FreeRelease, At, Return, Goto, Deinitializing
<1>2. d \in Devs /\ d \notin Listed /\ acc_base[d] # NoAcc
  BY <1>1 DEF DeinitializersSound
<1>3. /\ accRefs' \in [Accs -> 0 .. Cardinality(Devs)]
      /\ acc_base' \in [Devs -> Accs \cup {NoAcc}]
      /\ acc_base'[d] = NoAcc /\ \A e \in Devs \ {d} : acc_base'[e] = acc_base[e]
      /\ AccelerantsBalanced'
  BY <1>1, <1>2, DeviceFreed
<1>4. \A u \in Threads \ {t} : Deinitializing(u) => call[u].dev # d
  BY <1>1 DEF DeinitializersSound
<1>5. \A u \in Threads : ~Initializing(u)
  BY <1>1 DEF PhasesApart
<1> HIDE DEF d
<1>6. /\ pc'[t] = "idle" /\ call'[t] = NoCall
      /\ \A u \in Threads \ {t} : pc'[u] = pc[u] /\ call'[u] = call[u]
  BY <1>1 DEF TypeOK
<1>7. Listed = Listed'
  BY <1>1 DEF Listed
<1>8. \A i \in DOMAIN dev_list : dev_list[i] \in Devs \ {d}
  BY <1>2 DEF TypeOK, Listed, ToSet
<1>9. TypeOK'
  BY <1>1, <1>3 DEF TypeOK, Labels, NoCall
<1>10. \A u \in Threads : ~(Initializing(u))'
  BY <1>5, <1>6 DEF Initializing
<1>11. LockHeld' /\ AssertionHolds' /\ PhasesApart'
  BY <1>1, <1>5, <1>6, <1>10 DEF LockHeld, AssertionHolds, PhasesApart
<1>12. InitializersSound'
  BY <1>10 DEF InitializersSound, Initializing
<1>13. ListSound' /\ HandlesListed' /\ RefsCounted'
  BY <1>1, <1>3, <1>7, <1>8 DEF ListSound, HandlesListed, RefsCounted
<1>14. \A u \in Threads : Deinitializing(u)' =>
          u # t /\ Deinitializing(u) /\ pc'[u] = pc[u] /\ call'[u] = call[u] /\ call[u].dev # d
  <2> SUFFICES ASSUME NEW u \in Threads, Deinitializing(u)'
               PROVE  u # t /\ Deinitializing(u) /\ pc'[u] = pc[u] /\ call'[u] = call[u]
                      /\ call[u].dev # d
    OBVIOUS
  <2>1. u # t
    BY <1>6 DEF Deinitializing
  <2>2. pc'[u] = pc[u] /\ call'[u] = call[u]
    BY <1>6, <2>1
  <2>3. Deinitializing(u)
    BY <2>2 DEF Deinitializing
  <2> QED
    BY <1>4, <2>1, <2>2, <2>3
<1>15. DeinitializersSound'
  <2>1. ASSUME NEW u \in Threads, pc'[u] = "free_unlink"
        PROVE  call'[u].dev \in Listed' /\ refcount'[call'[u].dev] = 0
    BY <1>1, <1>7, <1>14, <2>1 DEF DeinitializersSound, Deinitializing
  <2>2. ASSUME NEW u \in Threads, pc'[u] = "free_release"
        PROVE  call'[u].dev \in Devs \ Listed' /\ acc_base'[call'[u].dev] # NoAcc
    <3>1. pc[u] = "free_release" /\ call'[u] = call[u] /\ call[u].dev # d
      BY <1>14, <2>2 DEF Deinitializing
    <3>2. call[u].dev \in Devs \ Listed /\ acc_base[call[u].dev] # NoAcc
      BY <3>1 DEF DeinitializersSound
    <3> QED
      BY <1>3, <1>7, <3>1, <3>2
  <2>3. ASSUME NEW u \in Threads, NEW w \in Threads, Deinitializing(u)', Deinitializing(w)',
               call'[u].dev = call'[w].dev
        PROVE  u = w
    BY <1>14, <2>3 DEF DeinitializersSound
  <2> QED
    BY <2>1, <2>2, <2>3 DEF DeinitializersSound
<1>16. NobodyForgotten'
  <2> SUFFICES ASSUME NEW e \in Devs, acc_base'[e] # NoAcc
               PROVE  \/ e \in Listed /\ refcount[e] > 0
                      \/ \E u \in Threads :
                            /\ pc'[u] \in {"init_probe", "free_unlink", "free_release"}
                            /\ call'[u].dev = e
    BY <1>1, <1>7 DEF NobodyForgotten
  <2>1. e # d /\ acc_base[e] # NoAcc
    BY <1>3
  <2>2. \A u \in Threads : call[u].dev = e => u # t
    BY <2>1 DEF d
  <2> QED
    BY <1>6, <2>1, <2>2 DEF NobodyForgotten
<1> QED
  BY <1>3, <1>9, <1>11, <1>12, <1>13, <1>15, <1>16

LEMMA InvariantNext ==
  ASSUME Overlap = FALSE, RegistryInvariant, [Next]_vars
  PROVE  RegistryInvariant'
<1>1. CASE UNCHANGED vars
  BY <1>1
     DEF vars, RegistryInvariant, TypeOK, LockHeld, PhasesApart, ListSound, HandlesListed,
         InitializersSound, DeinitializersSound, NobodyForgotten, RefsCounted,
         AccelerantsBalanced, AssertionHolds, Initializing, Deinitializing, Listed
<1>2. CASE Next
  <2> PICK t \in Threads : Begin(t) \/ Proceed(t)
    BY <1>2 DEF Next
  <2>1. CASE Begin(t)
    BY <2>1, InitFoundPreserves, InitNewPreserves, DeinitPreserves DEF Begin
  <2>2. CASE Proceed(t)
    BY <2>2, InitAssertPreserves, InitAddPreserves, InitCleanupPreserves, InitPublishPreserves,
       FreeUnlinkPreserves, FreeReleasePreserves
       DEF Proceed
  <2> QED
    BY <2>1, <2>2
<1> QED
  BY <1>1, <1>2

-----------------------------------------------------------------------------
LEMMA InvariantHolds ==
  ASSUME Overlap = FALSE
  PROVE  Spec => []RegistryInvariant
<1>1. Init => RegistryInvariant
  BY InvariantInit
<1>2. RegistryInvariant /\ [Next]_vars => RegistryInvariant'
  BY InvariantNext
<1> QED
  BY <1>1, <1>2, PTL DEF Spec

(* While clients keep initialization and deinitialization apart, the       *)
(* variables keep their types: in particular no reference count exceeds    *)
(* the number of handles, no accelerant has more references than devices.  *)
THEOREM RegistryTypeCorrect ==
  ASSUME Overlap = FALSE
  PROVE  Spec => []TypeOK
<1>1. RegistryInvariant => TypeOK
  BY DEF RegistryInvariant
<1> QED
  BY <1>1, InvariantHolds, PTL

(* The counts of amdgpu_device_reference are exact between any two steps,  *)
(* however initializations, failed ones and deinitializations of many      *)
(* threads mix within their phases.                                        *)
THEOREM ReferencesExact ==
  ASSUME Overlap = FALSE
  PROVE  Spec => []RefsCounted
<1>1. RegistryInvariant => RefsCounted
  BY DEF RegistryInvariant
<1> QED
  BY <1>1, InvariantHolds, PTL

(* So are those of the accelerant's AcquireReference and ReleaseReference, *)
(* the steps in which an initialization failed included.                   *)
THEOREM AccelerantsExact ==
  ASSUME Overlap = FALSE
  PROVE  Spec => []AccelerantsBalanced
<1>1. RegistryInvariant => AccelerantsBalanced
  BY DEF RegistryInvariant
<1> QED
  BY <1>1, InvariantHolds, PTL

(* assert(atomic_read(src) > 0) of update_references never fails: a device *)
(* of the list that nobody refers to has a thread that frees it, and an    *)
(* initialization does not meet such a thread.                             *)
THEOREM AssertionNeverFails ==
  ASSUME Overlap = FALSE
  PROVE  Spec => []AssertionHolds
<1>1. RegistryInvariant => AssertionHolds
  BY DEF RegistryInvariant
<1> QED
  BY <1>1, InvariantHolds, PTL

(* A handle names a listed device that nobody frees. *)
LEMMA InvariantKeepsHandles == RegistryInvariant => HandlesAlive
<1> SUFFICES ASSUME RegistryInvariant, NEW v \in Vars, ref[v] # NoDev
             PROVE  /\ acc_base[ref[v]] # NoAcc
                    /\ ref[v] \in ToSet(dev_list)
                    /\ \A t \in Threads : Deinitializing(t) => call[t].dev # ref[v]
  BY DEF HandlesAlive
<1> USE DEF RegistryInvariant
<1>1. ref[v] \in Listed /\ ref[v] \in Devs
  BY DEF HandlesListed, TypeOK
<1>2. acc_base[ref[v]] # NoAcc
  BY <1>1 DEF ListSound, Listed, ToSet
<1>3. refcount[ref[v]] # 0
  <2>1. refcount[ref[v]] = Count(Vars, ref, ref[v])
    BY <1>1 DEF RefsCounted, Listed, Count
  <2>2. Count(Vars, ref, ref[v]) # 0
    BY VarsFinite, CountType
  <2> QED
    BY <2>1, <2>2
<1>4. \A t \in Threads : Deinitializing(t) => call[t].dev # ref[v]
  BY <1>1, <1>3 DEF DeinitializersSound, Deinitializing
<1> QED
  BY <1>1, <1>2, <1>4 DEF Listed

(* The handle a client got and did not give back is never freed under it.  *)
THEOREM HandlesStayAlive ==
  ASSUME Overlap = FALSE
  PROVE  Spec => []HandlesAlive
  BY InvariantHolds, InvariantKeepsHandles, PTL

(* All clients of one accelerant are given one device. *)
THEOREM DevicesShared ==
  ASSUME Overlap = FALSE
  PROVE  Spec => []OneDevicePerAccelerant
<1>1. RegistryInvariant => OneDevicePerAccelerant
  <2> SUFFICES ASSUME RegistryInvariant, NEW v \in Vars, NEW w \in Vars,
                      ref[v] # NoDev, ref[w] # NoDev, acc_base[ref[v]] = acc_base[ref[w]]
               PROVE  ref[v] = ref[w]
    BY DEF OneDevicePerAccelerant
  <2>1. ref[v] \in Listed /\ ref[w] \in Listed
    BY DEF RegistryInvariant, HandlesListed
  <2> QED
    BY <2>1 DEF RegistryInvariant, ListSound, Listed, ToSet
<1> QED
  BY <1>1, InvariantHolds, PTL
=============================================================================
